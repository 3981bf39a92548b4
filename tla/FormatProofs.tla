------------------------------ MODULE FormatProofs ------------------------------
(***************************************************************************)
(* TLAPS proofs about what messages and calls carry (modules Relay and     *)
(* Exchange), for every set of contents and every meta data.               *)
(***************************************************************************)
EXTENDS Relay, Exchange, TLAPS

(***************************************************************************)
(* Encoders and decoders.                                                  *)
(***************************************************************************)
\* What Chosen chooses.
LEMMA ChosenFormat ==
  ASSUME NEW default
  PROVE  /\ Chosen(default, "") = default
         /\ \A target \in {"json", "pb"} : Chosen(default, target) = target
BY DEF Chosen

\* The encoder of package pjenc returns what it is to, in one of its formats.
LEMMA PbJsonResult ==
  ASSUME NEW default, NEW d, NEW target, NEW e \in PbJsonEncode(default, d, target)
  PROVE  /\ Supports(e.format, d.kind) /\ e.bytes.as = e.format /\ e.bytes.v = d.v
         /\ e.format = Chosen(default, target)
BY DEF PbJsonEncode

\* What an encoder returns stands for the content of the value.
LEMMA EncodeContent ==
  ASSUME NEW default, NEW d, NEW target, NEW e \in EncodeAny(default, d, target)
  PROVE  e.bytes.v = Content(d)
<1>1. CASE d.kind = "raw"
  BY <1>1 DEF EncodeAny, RawEncode, Content
<1>2. CASE d.kind # "raw"
  BY <1>2, PbJsonResult DEF EncodeAny, Content
<1> QED
  BY <1>1, <1>2

\* A *RawData is passed through, if it is in the format asked for.
LEMMA EncodeRawResult ==
  ASSUME NEW default, NEW d, NEW target, NEW e \in EncodeAny(default, d, target),
         d.kind = "raw"
  PROVE  e = d.v /\ e.format = Chosen(e.format, target)
BY DEF EncodeAny, RawEncode, Chosen

\* Other values are encoded in the format asked for, or else the default one.
LEMMA EncodeFormat ==
  ASSUME NEW default, NEW d, NEW target, NEW e \in EncodeAny(default, d, target),
         d.kind # "raw"
  PROVE  /\ Supports(e.format, d.kind) /\ e.bytes.as = e.format
         /\ e.format = Chosen(default, target)
BY PbJsonResult DEF EncodeAny

\* A value that the format supports can be encoded, unless it cannot be written.
LEMMA EncodeSupported ==
  ASSUME NEW default, NEW d, NEW target, d.kind # "raw",
         Supports(Chosen(default, target), d.kind)
  PROVE  EncodeAny(default, d, target) # {} \/ d.v \in Unwritable[Chosen(default, target)]
BY DEF EncodeAny, PbJsonEncode

\* A *RawData can be encoded unless another format is asked for.
LEMMA EncodeRaw ==
  ASSUME NEW default, NEW d, NEW target, d.kind = "raw",
         d.v.format = Chosen(d.v.format, target)
  PROVE  EncodeAny(default, d, target) # {}
BY DEF EncodeAny, RawEncode, Chosen

\* What a decoder returns is of the kind asked for and has the content encoded.
LEMMA DecodeResult ==
  ASSUME NEW e, NEW kind, NEW d \in DecodeAny(e, kind)
  PROVE  /\ d.kind = kind /\ Content(d) = e.bytes.v
         /\ kind = "raw" => d.v = e
BY DEF DecodeAny, RawDecode, PbJsonDecode, Content

\* Encoded data are decoded in the format that made them, unless they do not read back.
LEMMA DecodeSupported ==
  ASSUME NEW e, NEW kind,
         kind = "raw" \/ (Supports(e.format, kind) /\ e.bytes.as = e.format)
  PROVE  DecodeAny(e, kind) # {} \/ (kind # "raw" /\ e.bytes.v \in Unreadable[e.format])
<1>1. CASE kind = "raw"
  <2>1. [kind |-> kind, v |-> e] \in DecodeAny(e, kind)
    BY <1>1 DEF DecodeAny, RawDecode
  <2> QED
    BY <2>1
<1>2. CASE kind # "raw" /\ e.bytes.v \notin Unreadable[e.format]
  <2> DEFINE d == [kind |-> kind, v |-> e.bytes.v]
  <2>1. d.v = e.bytes.v
    OBVIOUS
  <2>2. d \in PbJsonDecode(e, kind)
    BY <1>2, <2>1 DEF PbJsonDecode
  <2> QED
    BY <1>2, <2>2 DEF DecodeAny
<1> QED
  BY <1>1, <1>2

\* The format that goes with some types supports each of them.
LEMMA DefaultSupports ==
  ASSUME NEW kinds \in SUBSET {"pb", "plain"}, NEW kind \in kinds
  PROVE  Supports(DefaultFormat(kinds), kind) /\ DefaultFormat(kinds) # ""
BY DEF Supports, DefaultFormat, JsonFormat, PbFormat

-----------------------------------------------------------------------------
(***************************************************************************)
(* Meta data and spans.                                                    *)
(***************************************************************************)
\* A span that is injected is the one extracted, and other keys stay.
LEMMA InjectExtract ==
  ASSUME NEW md, NEW s
  PROVE  /\ s # Corrupt => ExtractSpanCtx(InjectSpanCtx(md, s)) = {s}
         /\ DOMAIN InjectSpanCtx(md, s) = DOMAIN md \cup {TracingMDKey}
         /\ \A k \in DOMAIN md : k # TracingMDKey => InjectSpanCtx(md, s)[k] = md[k]
BY DEF ExtractSpanCtx, InjectSpanCtx

\* The ranks of the hops.
LEMMA Ranks ==
  /\ Rank("app") = 1 /\ Rank("pipe") = 2 /\ Rank("sub") = 3
  /\ \A s : Rank(s) \in 0..3
BY DEF Rank

-----------------------------------------------------------------------------
(***************************************************************************)
(* Relay: the inductive invariant, in parts.                               *)
(***************************************************************************)
\* The meta data of the publisher, the tracing key apart.
SameKeys(md) ==
  \A k \in Keys : /\ k \in DOMAIN md <=> k \in DOMAIN pub.md
                  /\ k \in DOMAIN md => md[k] = pub.md[k]

\* On its way a message stands for what was published, in its own format.
Carried ==
  at \in {"row", "wire"} =>
    /\ msg.enc.bytes.v = Content(Datum)
    /\ pub.kind # "raw" => msg.enc.format = PubFormat /\ msg.enc.bytes.as = PubFormat
    /\ SameKeys(msg.md)

\* The spans started so far are those of the hops so far, and the meta data have
\* the last one of them.
Started ==
  /\ at = "app" => parent = {}
  /\ at = "row" => \A p \in parent : p[1] = "app"
  /\ at = "wire" => \A p \in parent : p[1] \in {"app", "pipe"}
  /\ at \in {"row", "wire"} =>
       \A p \in parent : \A r \in ExtractSpanCtx(msg.md) : Rank(p[1]) <= Rank(r)

\* The tracing key cannot be read if it could not, and has not been replaced.
Traceable ==
  at \in {"row", "wire"} /\ ExtractSpanCtx(msg.md) = {} =>
    ExtractSpanCtx(pub.md) = {} /\ ~Starts("app", pub.span)

RelayTypes == pub \in Inputs /\ at \in {"app", "row", "wire", "handled"} \cup Stuck

RelayInv == RelayTypes /\ Carried /\ Started /\ Traceable /\ Delivered /\ SpansChained

LEMMA RelayInitInv == RelayInit => RelayInv
BY DEF RelayInit, RelayInv, RelayTypes, Carried, Started, Traceable, Delivered, Intact,
       NoPoison, SpansChained

\* The publisher's default format supports the type of the message.
LEMMA PubFormatSupports ==
  ASSUME RelayTypes, pub.kind # "raw"
  PROVE  Supports(PubFormat, pub.kind) /\ PubFormat # ""
<1>1. pub.kind \in {"pb", "plain"}
  BY DEF RelayTypes, Inputs, Kinds
<1> QED
  BY <1>1, DefaultSupports DEF PubFormat

\* A hop keeps the meta data of the publisher, but for the tracing key.
LEMMA OutgoingKeeps ==
  ASSUME NEW hop, NEW ref, NEW md, SameKeys(md)
  PROVE  SameKeys(Outgoing(hop, ref, md))
<1>1. CASE Starts(hop, ref)
  <2>1. TracingMDKey \notin Keys
    BY RelayAssumption
  <2> DEFINE new == InjectSpanCtx(md, hop)
  <2>2. /\ DOMAIN new = DOMAIN md \cup {TracingMDKey}
        /\ \A k \in DOMAIN md : k # TracingMDKey => new[k] = md[k]
    BY InjectExtract
  <2> HIDE DEF new
  <2>3. \A k \in Keys : /\ k \in DOMAIN new <=> k \in DOMAIN md
                        /\ k \in DOMAIN md => new[k] = md[k]
    BY <2>1, <2>2
  <2>4. SameKeys(new)
    BY <2>3 DEF SameKeys
  <2> QED
    BY <1>1, <2>4 DEF Outgoing, new
<1>2. CASE ~Starts(hop, ref)
  BY <1>2 DEF Outgoing
<1> QED
  BY <1>1, <1>2

\* The names of hops can be read.
LEMMA HopsRead == \A hop \in Hops : hop # Corrupt /\ hop # NoSpan
BY DEF Hops, Corrupt, NoSpan

\* What a hop passes on cannot be read only if it passes on what cannot be read.
LEMMA OutgoingReads ==
  ASSUME NEW hop \in Hops, NEW ref, NEW md, ExtractSpanCtx(Outgoing(hop, ref, md)) = {}
  PROVE  ~Starts(hop, ref) /\ ExtractSpanCtx(md) = {}
<1>1. CASE Starts(hop, ref)
  <2>1. ExtractSpanCtx(InjectSpanCtx(md, hop)) = {hop}
    BY InjectExtract, HopsRead
  <2> QED
    BY <1>1, <2>1 DEF Outgoing
<1>2. CASE ~Starts(hop, ref)
  BY <1>2 DEF Outgoing
<1> QED
  BY <1>1, <1>2

\* A hop that follows all others keeps the chain, and leaves its span in the meta data.
LEMMA HopChains ==
  ASSUME NEW hop \in Hops, NEW ref, SpansChained, StartSpan(hop, ref),
         \A p \in parent : Rank(p[1]) < Rank(hop),
         Starts(hop, ref) => \A p \in parent : Rank(p[1]) <= Rank(ref)
  PROVE  /\ SpansChained'
         /\ \A p \in parent' : p \in parent \/ p[1] = hop
         /\ Starts(hop, ref) => \E p \in parent' : p[1] = hop
         /\ \A md :
              (\A p \in parent : \A r \in ExtractSpanCtx(md) : Rank(p[1]) <= Rank(r)) =>
                \A p \in parent' : \A r \in ExtractSpanCtx(Outgoing(hop, ref, md)) :
                  Rank(p[1]) <= Rank(r)
<1> USE Ranks
<1>1. CASE Starts(hop, ref)
  <2>1. parent' = parent \cup {<<hop, ref>>}
    BY <1>1 DEF StartSpan
  <2>2. SpansChained'
    BY <1>1, <2>1 DEF SpansChained
  <2>3. \A md : ExtractSpanCtx(Outgoing(hop, ref, md)) = {hop}
    BY <1>1, InjectExtract, HopsRead DEF Outgoing
  <2>4. /\ \A p \in parent' : p \in parent \/ p[1] = hop
        /\ \E p \in parent' : p[1] = hop
    <3>1. <<hop, ref>> \in parent' /\ <<hop, ref>>[1] = hop
      BY <2>1
    <3>2. \A p \in parent' : p \in parent \/ p[1] = hop
      BY <2>1
    <3> QED
      BY <3>1, <3>2
  <2>5. \A p \in parent' : Rank(p[1]) <= Rank(hop)
    BY <2>4
  <2> QED
    BY <2>2, <2>3, <2>4, <2>5
<1>2. CASE ~Starts(hop, ref)
  BY <1>2 DEF StartSpan, Outgoing, SpansChained
<1> QED
  BY <1>1, <1>2

LEMMA PublishStep == RelayInv /\ Publish => RelayInv'
<1> SUFFICES ASSUME RelayInv, Publish PROVE RelayInv'
  OBVIOUS
<1> USE DEF RelayInv
<1>1. /\ RelayTypes' /\ pub' = pub /\ Datum' = Datum /\ PubFormat' = PubFormat /\ at = "app"
      /\ parent = {} /\ StartSpan("app", pub.span)
  BY DEF Publish, RelayTypes, Stuck, Datum, PubFormat, Started
<1>2. /\ SpansChained' /\ \A p \in parent' : p[1] = "app"
      /\ Starts("app", pub.span) => \E p \in parent' : p[1] = "app"
  BY <1>1, HopChains, Ranks DEF Hops
<1>3. CASE EncodeAny(PubFormat, Datum, "") = {} /\ at' = "unencodable"
  <2>1. Datum.kind = pub.kind /\ Datum.v = pub.v /\ Chosen(PubFormat, "") = PubFormat
    BY ChosenFormat DEF Datum
  <2>2. pub.kind # "raw"
    BY <1>3, <2>1 DEF EncodeAny, RawEncode
  <2>3. Supports(Chosen(PubFormat, ""), Datum.kind)
    BY <2>1, <2>2, PubFormatSupports
  <2>4. pub.v \in Unwritable[PubFormat]
    BY <1>3, <2>1, <2>2, <2>3, EncodeSupported
  <2> QED
    BY <1>1, <1>2, <1>3, <2>2, <2>4
    DEF Carried, Started, Traceable, Delivered, Intact, NoPoison
<1>4. CASE Starts("app", pub.span) /\ at' = "uninjected"
  <2>1. \E p \in parent' : p[1] # "sub"
    BY <1>2, <1>4
  <2> QED
    BY <1>1, <1>2, <1>4, <2>1
    DEF Carried, Started, Traceable, Delivered, Intact, NoPoison
<1>5. ASSUME NEW e \in EncodeAny(PubFormat, Datum, ""),
             msg' = MessageWithMD(Outgoing("app", pub.span, pub.md), e),
             at' = IF pub.direct THEN "wire" ELSE "row"
      PROVE  RelayInv'
  <2>2. msg'.enc = e /\ msg'.md = Outgoing("app", pub.span, pub.md)
    BY <1>5 DEF MessageWithMD
  <2>3. Carried'
    <3>1. SameKeys(pub.md)
      BY DEF SameKeys
    <3>2. SameKeys(msg'.md)
      BY <2>2, <3>1, OutgoingKeeps
    <3>3. /\ e.bytes.v = Content(Datum)
          /\ pub.kind # "raw" => e.format = PubFormat /\ e.bytes.as = PubFormat
      <4>1. Datum.kind = pub.kind
        BY DEF Datum
      <4>2. e.bytes.v = Content(Datum)
        BY EncodeContent
      <4>3. Datum.kind # "raw" => e.bytes.as = e.format /\ e.format = PubFormat
        <5>1. Chosen(PubFormat, "") = PubFormat
          BY ChosenFormat
        <5> QED
          BY <5>1, EncodeFormat
      <4> QED
        BY <4>1, <4>2, <4>3
    <3> QED
      BY <1>1, <2>2, <3>2, <3>3 DEF Carried, SameKeys
  <2>4. Started'
    <3>1. \A p \in parent' : \A r \in ExtractSpanCtx(msg'.md) : Rank(p[1]) <= Rank(r)
      BY <1>1, <2>2, HopChains DEF Hops
    <3> QED
      BY <1>2, <1>5, <3>1 DEF Started
  <2>5. Traceable'
    <3>1. Starts("app", pub.span)' = Starts("app", pub.span)
      BY <1>1 DEF Starts
    <3> QED
      BY <1>1, <2>2, <3>1, OutgoingReads DEF Traceable, Hops
  <2> QED
    BY <1>1, <1>2, <1>5, <2>3, <2>4, <2>5 DEF Delivered, Intact, NoPoison
<1> QED
  BY <1>3, <1>4, <1>5 DEF Publish

LEMMA FlushMsgEntryStep == RelayInv /\ FlushMsgEntry => RelayInv'
<1> SUFFICES ASSUME RelayInv, FlushMsgEntry PROVE RelayInv'
  OBVIOUS
<1> USE DEF RelayInv
<1>1. /\ RelayTypes' /\ pub' = pub /\ Datum' = Datum /\ PubFormat' = PubFormat /\ at = "row"
      /\ \A hop, ref : Starts(hop, ref)' = Starts(hop, ref)
  BY DEF FlushMsgEntry, RelayTypes, Stuck, Datum, PubFormat, Starts
<1>2. CASE Refs("pipe", FlushMD) = {} /\ at' = "untraceable" /\ UNCHANGED <<msg, parent>>
  <2>1. ExtractSpanCtx(msg.md) = {}
    BY <1>2 DEF Refs, FlushMD
  <2>2. ExtractSpanCtx(pub.md) = {} /\ ~Starts("app", pub.span)
    BY <1>1, <2>1 DEF Traceable
  <2> QED
    BY <1>1, <1>2, <2>2
    DEF Carried, Started, Traceable, Delivered, Intact, NoPoison, SpansChained
<1>3. ASSUME NEW ref \in Refs("pipe", FlushMD), StartSpan("pipe", ref)
      PROVE  /\ SpansChained'
             /\ \A p \in parent' : p[1] \in {"app", "pipe"}
             /\ Starts("pipe", ref) => \E p \in parent' : p[1] = "pipe"
             /\ \A p \in parent' : \A r \in ExtractSpanCtx(Outgoing("pipe", ref, FlushMD)) :
                  Rank(p[1]) <= Rank(r)
  <2>1. \A p \in parent : p[1] = "app" /\ Rank(p[1]) < Rank("pipe")
    BY <1>1, Ranks DEF Started
  <2>2. \A p \in parent : \A r \in ExtractSpanCtx(FlushMD) : Rank(p[1]) <= Rank(r)
    BY <1>1 DEF Started, FlushMD
  <2>3. Starts("pipe", ref) => ref \in ExtractSpanCtx(FlushMD)
    BY <1>3 DEF Starts, Refs
  <2>4. Starts("pipe", ref) => \A p \in parent : Rank(p[1]) <= Rank(ref)
    BY <2>2, <2>3
  <2>5. "pipe" \in Hops
    BY DEF Hops
  <2> QED
    BY <1>3, <2>1, <2>2, <2>4, <2>5, HopChains
<1>4. ASSUME NEW ref \in Refs("pipe", FlushMD), StartSpan("pipe", ref),
             Starts("pipe", ref) /\ at' = "uninjected"
      PROVE  RelayInv'
  <2>1. SpansChained' /\ \E p \in parent' : p[1] # "sub"
    BY <1>3, <1>4
  <2> QED
    BY <1>1, <1>4, <2>1 DEF Carried, Started, Traceable, Delivered, Intact, NoPoison
<1>5. ASSUME NEW ref \in Refs("pipe", FlushMD), StartSpan("pipe", ref), at' = "wire",
             NEW e \in RawData, msg' = MessageWithMD(Outgoing("pipe", ref, FlushMD), e)
      PROVE  RelayInv'
  <2>1. e = msg.enc
    BY DEF RawData, RawEncode
  <2>2. msg'.enc = msg.enc /\ msg'.md = Outgoing("pipe", ref, FlushMD)
    BY <1>5, <2>1 DEF MessageWithMD
  <2>3. Carried'
    <3>1. SameKeys(msg'.md)
      BY <1>1, <2>2, OutgoingKeeps DEF Carried, FlushMD
    <3> QED
      BY <1>1, <2>2, <3>1 DEF Carried, SameKeys
  <2>4. SpansChained' /\ Started'
    BY <1>3, <1>5, <2>2 DEF Started
  <2>5. Traceable'
    BY <1>1, <2>2, OutgoingReads DEF Traceable, Hops, FlushMD
  <2> QED
    BY <1>1, <1>5, <2>3, <2>4, <2>5 DEF Delivered, Intact, NoPoison
<1> QED
  BY <1>2, <1>4, <1>5 DEF FlushMsgEntry

LEMMA HandleStep == RelayInv /\ Handle => RelayInv'
<1> SUFFICES ASSUME RelayInv, Handle PROVE RelayInv'
  OBVIOUS
<1> USE DEF RelayInv
<1> DEFINE ds   == DecodeAny(msg.enc, pub.subKind)
           refs == Refs("sub", msg.md)
<1>1. /\ RelayTypes' /\ pub' = pub /\ msg' = msg /\ Datum' = Datum /\ PubFormat' = PubFormat
      /\ at = "wire" /\ at' \in {"handled", "undecodable", "untraceable"}
      /\ \A hop, ref : Starts(hop, ref)' = Starts(hop, ref)
  BY DEF Handle, RelayTypes, Stuck, Datum, PubFormat, Starts
<1>2. Carried' /\ Started' /\ Traceable'
  BY <1>1 DEF Carried, Started, Traceable
<1>3. ASSUME NEW d \in ds, NEW ref \in refs, at' = "handled",
             got' = [msg |-> d, md |-> msg.md], StartSpan("sub", ref)
      PROVE  RelayInv'
  <2>1. \A p \in parent : Rank(p[1]) < Rank("sub")
    BY <1>1, Ranks DEF Started
  <2>2. Starts("sub", ref) => \A p \in parent : Rank(p[1]) <= Rank(ref)
    BY <1>1 DEF Started, Starts, Refs
  <2>3. SpansChained'
    BY <1>3, <2>1, <2>2, HopChains DEF Hops
  <2>4. got'.msg = d /\ got'.md = msg.md
    BY <1>3
  <2>5. d.kind = pub.subKind /\ Content(d) = Content(Datum)
    BY <1>1, DecodeResult DEF Carried
  <2> QED
    BY <1>1, <1>2, <1>3, <2>3, <2>4, <2>5 DEF Carried, SameKeys, Delivered, Intact, NoPoison
<1>4. CASE ds = {} /\ at' = "undecodable" /\ UNCHANGED <<got, parent>>
  <2>1. pub.kind = "raw" \/ pub.v \in Unreadable[PubFormat]
    <3> SUFFICES ASSUME pub.kind # "raw" PROVE pub.v \in Unreadable[PubFormat]
      OBVIOUS
    <3>1. pub.subKind \in {pub.kind, "raw"}
      BY DEF RelayTypes, Inputs
    <3>2. /\ msg.enc.format = PubFormat /\ msg.enc.bytes.as = PubFormat
          /\ msg.enc.bytes.v = pub.v
      BY <1>1 DEF Carried, Content, Datum
    <3> QED
      BY <1>4, <3>1, <3>2, PubFormatSupports, DecodeSupported
  <2> QED
    BY <1>1, <1>2, <1>4, <2>1 DEF Delivered, Intact, NoPoison, SpansChained
<1>5. CASE refs = {} /\ at' = "untraceable" /\ UNCHANGED <<got, parent>>
  <2>1. ExtractSpanCtx(pub.md) = {} /\ ~Starts("app", pub.span)
    BY <1>1, <1>5 DEF Traceable, Refs
  <2> QED
    BY <1>1, <1>2, <1>5, <2>1 DEF Delivered, Intact, NoPoison, SpansChained
<1> QED
  BY <1>3, <1>4, <1>5 DEF Handle

LEMMA RelayStep == RelayInv /\ [RelayNext]_relayVars => RelayInv'
<1> SUFFICES ASSUME RelayInv, [RelayNext]_relayVars PROVE RelayInv'
  OBVIOUS
<1>1. CASE UNCHANGED relayVars
  BY <1>1 DEF relayVars, RelayInv, RelayTypes, Carried, SameKeys, Started, Traceable,
              Delivered, Intact, NoPoison, SpansChained, Datum, PubFormat, Starts
<1> QED
  BY <1>1, PublishStep, FlushMsgEntryStep, HandleStep DEF RelayNext, Relayed

LEMMA RelayInvHolds == RelaySpec => []RelayInv
BY RelayInitInv, RelayStep, PTL DEF RelaySpec

\* What reaches the handler, directly or by way of a row, is as it was published; and
\* what does not cannot be written or read in its format, is a *RawData of another, or
\* has a span that cannot be read or injected.
THEOREM RelayDelivers == RelaySpec => []Delivered
<1>1. RelayInv => Delivered
  BY DEF RelayInv
<1> QED
  BY <1>1, RelayInvHolds, PTL

\* The spans of a message form a chain in the order of its hops, whichever of
\* these are traced and whatever the application's meta data had before.
THEOREM RelayChainsSpans == RelaySpec => []SpansChained
<1>1. RelayInv => SpansChained
  BY DEF RelayInv
<1> QED
  BY <1>1, RelayInvHolds, PTL

-----------------------------------------------------------------------------
(***************************************************************************)
(* Exchange: the inductive invariant, in parts.                            *)
(***************************************************************************)
CallTypes ==
  rpc \in CallInputs /\ stage \in {"client", "server", "reply", "done"}

\* The request has the meta data of the caller's context and the client's span;
\* that of NewPbJsonClient has its input in the format of the client.
Requested ==
  stage \in {"server", "reply"} =>
    /\ req.md = RequestMD
    /\ rpc.client = "pj" =>
         /\ req.enc.format = ClientFormat /\ req.enc.bytes.as = ClientFormat
         /\ req.enc.bytes.v = rpc.input.v

\* The response is an output and stands for the handler's; that of NewPbJsonServer
\* has the format of the request.
Responded ==
  stage = "reply" /\ rpc.server # "foreign" =>
    /\ resp.type = "Output" /\ resp.enc.bytes.v = Content(rpc.output)
    /\ rpc.client = "pj" /\ rpc.server = "pj" =>
         /\ resp.enc.format = ClientFormat /\ resp.enc.bytes.as = ClientFormat
         /\ rpc.output.kind = rpc.outType => resp.enc.bytes.v = rpc.output.v

\* What the span of the handler refers to, one of a set.
Parents == IF Traced("client", rpc.span) THEN {"client"}
           ELSE ExtractSpanCtx(rpc.ctx.outgoing)

\* Before the call has returned, the handler's span is the only one, and no error.
Unfinished ==
  stage # "done" =>
    /\ result.code = "none"
    /\ \A s \in spans : s.of = "server" /\ s.parent \in Parents /\ s.error = FALSE

CallInv ==
  CallTypes /\ Requested /\ Responded /\ Unfinished /\ CallFaithful /\ CallTraced

LEMMA CallInitInv == CallInit => CallInv
BY DEF CallInit, CallInv, CallTypes, Requested, Responded, Unfinished, CallFaithful,
       TypedCallsWork, HonestOutput, CallTraced, RPCErr

\* Nothing that is said of a call's input, of the client and of reasons is about more
\* than the call.
LEMMA CallKept ==
  ASSUME UNCHANGED rpc
  PROVE  /\ RequestMD' = RequestMD /\ ClientFormat' = ClientFormat /\ Parents' = Parents
         /\ Typed' = Typed /\ \A code : Reason(code)' = Reason(code)
         /\ \A ref : Traced("client", ref)' = Traced("client", ref)
BY DEF RequestMD, ClientFormat, Parents, Typed, Reason, Traced

\* The client's format supports the types of the method.
LEMMA ClientFormatSupports ==
  ASSUME CallTypes
  PROVE  /\ Supports(ClientFormat, rpc.inType) /\ Supports(ClientFormat, rpc.outType)
         /\ ClientFormat \in {"json", "pb"}
         /\ rpc.inType \in {"pb", "plain"} /\ rpc.outType \in {"pb", "plain"}
<1>1. rpc.inType \in {"pb", "plain"} /\ rpc.outType \in {"pb", "plain"}
  BY DEF CallTypes, CallInputs, Types
<1>2. ClientFormat \in {"json", "pb"}
  BY DEF ClientFormat, DefaultFormat, JsonFormat, PbFormat
<1> QED
  BY <1>1, <1>2, DefaultSupports DEF ClientFormat

\* What the request has brought for the span of the handler to refer to.
LEMMA HandlerRefsAreParents ==
  ASSUME Requested, stage = "server"
  PROVE  HandlerRefs = Parents
<1>1. MDFromIncomingContext(HandlerCtx) = RequestMD
  BY DEF HandlerCtx, MDFromIncomingContext, Background, NewIncomingContextWithMD, Requested
<1>2. CASE Traced("client", rpc.span)
  <2> DEFINE md == MDFromOutgoingContext(rpc.ctx)
  <2>1. "client" # Corrupt
    BY DEF Corrupt
  <2>2. ExtractSpanCtx(InjectSpanCtx(md, "client")) = {"client"}
    BY <2>1, InjectExtract
  <2> QED
    BY <1>1, <1>2, <2>2 DEF HandlerRefs, RequestMD, Parents
<1>3. CASE ~Traced("client", rpc.span)
  BY <1>1, <1>3 DEF HandlerRefs, RequestMD, Parents, MDFromOutgoingContext
<1> QED
  BY <1>2, <1>3

\* The span of the handler refers to that.
LEMMA HandlerSpanParent ==
  ASSUME Requested, stage = "server", NEW err, NEW s \in ServerSpan(err)
  PROVE  s.of = "server" /\ s.parent \in Parents /\ s.error = err
<1>1. PICK ref \in HandlerRefs : s \in Span("server", ref, err)
  BY DEF ServerSpan
<1>2. s.of = "server" /\ s.parent = ref /\ s.error = err
  BY <1>1 DEF Span
<1> QED
  BY <1>1, <1>2, HandlerRefsAreParents

\* A call that returns an error keeps the invariant, if a typed one has a reason for
\* it and the handler's span says so.
LEMMA ErrorEnds ==
  ASSUME CallInv, stage # "done", NEW code, code # "ok", NEW S,
         \E r \in RPCErr(code) : End(r, S), UNCHANGED rpc,
         Typed => Reason(code),
         \A s \in S : s.of = "server" /\ s.parent \in Parents /\ (s.error => code = "Err")
  PROVE  CallInv'
<1>1. PICK r \in RPCErr(code) : End(r, S)
  OBVIOUS
<1>2. r.code = code
  BY DEF RPCErr
<1>3. /\ stage' = "done" /\ result'.code = code
      /\ spans' = spans \cup S \cup Span("client", rpc.span, code \notin {"ok", "panic"})
  BY <1>1, <1>2 DEF End
<1>4. \A s \in Span("client", rpc.span, code \notin {"ok", "panic"}) :
         s.of = "client" /\ s.error = (code \notin {"ok", "panic"})
  BY DEF Span
<1>5. Parents' = Parents /\ Typed' = Typed /\ Reason(code)' = Reason(code)
  BY CallKept
<1>6. CallTraced'
  <2> SUFFICES ASSUME NEW s \in spans'
               PROVE  /\ s.of = "server" => s.parent \in Parents
                      /\ s.of = "server" /\ s.error => code = "Err"
                      /\ s.of = "client" => (s.error <=> code \notin {"ok", "panic"})
    BY <1>3, <1>5 DEF CallTraced, Parents
  <2> QED
    BY <1>3, <1>4 DEF CallInv, Unfinished
<1>7. TypedCallsWork'
  BY <1>3, <1>5 DEF TypedCallsWork
<1>8. HonestOutput'
  BY <1>3 DEF HonestOutput
<1> QED
  BY <1>3, <1>6, <1>7, <1>8 DEF CallInv, CallTypes, Requested, Responded, Unfinished,
                               CallFaithful

LEMMA RequestStep == CallInv /\ Request => CallInv'
<1> SUFFICES ASSUME CallInv, Request PROVE CallInv'
  OBVIOUS
<1> DEFINE kind == KindAt(rpc.client, rpc.inType)
           es == Checked(rpc.input, kind, ClientFormat, "")
<1>1. CallTypes /\ stage = "client" /\ UNCHANGED <<rpc, resp>>
  BY DEF CallInv, Request
<1>2. CASE es # {} /\ stage' = "server" /\ req' \in [md : {RequestMD}, enc : es]
           /\ UNCHANGED <<result, spans>>
  <2>1. req'.md = RequestMD /\ req'.enc \in es
    BY <1>2
  <2>2. es = EncodeAny(ClientFormat, rpc.input, "") /\ rpc.input.kind = kind
    BY <1>2 DEF Checked
  <2>3. rpc.client = "pj" =>
          /\ req'.enc.format = ClientFormat /\ req'.enc.bytes.as = ClientFormat
          /\ req'.enc.bytes.v = rpc.input.v
    <3> SUFFICES ASSUME rpc.client = "pj"
                 PROVE  /\ req'.enc.format = ClientFormat /\ req'.enc.bytes.as = ClientFormat
                        /\ req'.enc.bytes.v = rpc.input.v
      OBVIOUS
    <3>1. rpc.input.kind # "raw"
      BY <1>1, <2>2, ClientFormatSupports DEF KindAt
    <3>2. Chosen(ClientFormat, "") = ClientFormat
      BY ChosenFormat
    <3> DEFINE none == ""
    <3>none. Chosen(ClientFormat, none) = ClientFormat /\ es = EncodeAny(ClientFormat, rpc.input, none)
      BY <2>2, <3>2
    <3> HIDE DEF none, es
    <3>3. PICK e \in EncodeAny(ClientFormat, rpc.input, none) : req'.enc = e
      BY <2>1, <3>none
    <3>4. e.format = Chosen(ClientFormat, none) /\ e.bytes.as = e.format
      BY <3>1, EncodeFormat
    <3>5. e.bytes.v = Content(rpc.input)
      BY EncodeContent
    <3> QED
      BY <3>1, <3>none, <3>3, <3>4, <3>5 DEF Content
  <2>4. RequestMD' = RequestMD /\ ClientFormat' = ClientFormat /\ Parents' = Parents
    BY <1>1, CallKept
  <2> QED
    BY <1>1, <1>2, <2>1, <2>3, <2>4
    DEF CallInv, CallTypes, Requested, Responded, Unfinished, CallFaithful, TypedCallsWork,
        HonestOutput, CallTraced, Parents
<1>3. CASE /\ es = {}
           /\ \E r \in RPCErr(IF rpc.input.kind = "nil" THEN "panic"
                                                         ELSE "EncodeRequestError") : End(r, {})
  <2> DEFINE code == IF rpc.input.kind = "nil" THEN "panic" ELSE "EncodeRequestError"
  <2>1. Typed => Reason(code)
    <3> SUFFICES ASSUME Typed PROVE Reason(code)
      OBVIOUS
    <3>1. /\ rpc.input.kind = kind /\ rpc.input.kind = rpc.inType
          /\ rpc.input.kind # "raw" /\ rpc.input.kind # "nil"
      BY <1>1, ClientFormatSupports DEF KindAt, Typed
    <3>2. Supports(Chosen(ClientFormat, ""), rpc.input.kind)
      BY <1>1, <3>1, ClientFormatSupports, ChosenFormat
    <3>3. EncodeAny(ClientFormat, rpc.input, "") = {}
      BY <1>3, <3>1 DEF Checked
    <3>4. rpc.input.v \in Unwritable[ClientFormat]
      <4>1. Chosen(ClientFormat, "") = ClientFormat
        BY ChosenFormat
      <4> DEFINE none == ""
      <4>2. /\ Supports(Chosen(ClientFormat, none), rpc.input.kind)
            /\ EncodeAny(ClientFormat, rpc.input, none) = {}
            /\ Chosen(ClientFormat, none) = ClientFormat
        BY <3>2, <3>3, <4>1
      <4> HIDE DEF none
      <4> QED
        BY <3>1, <4>2, EncodeSupported
    <3> QED
      BY <3>1, <3>4 DEF Reason
  <2>2. code # "ok" /\ \E r \in RPCErr(code) : End(r, {})
    BY <1>3
  <2> HIDE DEF code
  <2> QED
    BY <1>1, <2>1, <2>2, ErrorEnds
<1>4. CASE Traced("client", rpc.span) /\ \E r \in RPCErr("InjectErr") : End(r, {})
  <2> DEFINE code == "InjectErr"
  <2>1. code # "ok" /\ Reason(code)
    BY <1>4 DEF Reason
  <2>2. \E r \in RPCErr(code) : End(r, {})
    BY <1>4
  <2> HIDE DEF code
  <2> QED
    BY <1>1, <2>1, <2>2, ErrorEnds
<1> QED
  BY <1>2, <1>3, <1>4 DEF Request

LEMMA ServeStep == CallInv /\ Serve => CallInv'
<1> SUFFICES ASSUME CallInv, Serve PROVE CallInv'
  OBVIOUS
<1> DEFINE input == DecodeAny(req.enc, KindAt(rpc.server, rpc.inType))
           kind == KindAt(rpc.server, rpc.outType)
           es == Checked(rpc.output, kind, "", req.enc.format)
           span == ServerSpan(rpc.output.kind = "error")
<1>1. /\ CallTypes /\ Requested /\ stage = "server" /\ rpc.server # "foreign"
      /\ UNCHANGED <<rpc, req>>
  BY DEF CallInv, Serve
<1>2. \A s \in span : s.of = "server" /\ s.parent \in Parents
                     /\ s.error = (rpc.output.kind = "error")
  BY <1>1, HandlerSpanParent
<1>3. Typed /\ input = {} => rpc.input.v \in Unreadable[ClientFormat]
  BY <1>1, ClientFormatSupports, DecodeSupported DEF Requested, KindAt, Typed
<1>4. Typed => /\ rpc.output.kind \notin {"error", "panic", "nil", "raw"}
               /\ es = {} => rpc.output.v \in Unwritable[ClientFormat]
  <2> SUFFICES ASSUME Typed
               PROVE  /\ rpc.output.kind \notin {"error", "panic", "nil", "raw"}
                      /\ es = {} => rpc.output.v \in Unwritable[ClientFormat]
    OBVIOUS
  <2>1. rpc.output.kind = kind /\ rpc.output.kind = rpc.outType
        /\ rpc.output.kind \in {"pb", "plain"}
    BY <1>1, ClientFormatSupports DEF KindAt, Typed
  <2>2. req.enc.format = ClientFormat
    BY <1>1 DEF Requested, Typed
  <2>3. Chosen("", req.enc.format) = ClientFormat
    BY <1>1, <2>2, ClientFormatSupports, ChosenFormat
  <2>4. Supports(ClientFormat, rpc.output.kind)
    BY <1>1, <2>1, ClientFormatSupports
  <2>5. es = EncodeAny("", rpc.output, req.enc.format)
    BY <2>1 DEF Checked
  <2>6. es # {} \/ rpc.output.v \in Unwritable[Chosen("", req.enc.format)]
    BY <2>1, <2>3, <2>4, <2>5, EncodeSupported
  <2> QED
    BY <2>1, <2>3, <2>6
<1>5. CASE input = {} /\ \E r \in RPCErr("DecodeRequestError") : End(r, {})
  <2> DEFINE code == "DecodeRequestError"
  <2>1. code # "ok" /\ (Typed => Reason(code))
    BY <1>3, <1>5 DEF Reason
  <2>2. \E r \in RPCErr(code) : End(r, {})
    BY <1>5
  <2> HIDE DEF code
  <2> QED
    BY <1>1, <2>1, <2>2, ErrorEnds
<1>6. CASE Untraceable /\ \E r \in RPCErr("ExtractErr") : End(r, {})
  <2> DEFINE code == "ExtractErr"
  <2>1. Parents = {}
    BY <1>1, <1>6, HandlerRefsAreParents DEF Untraceable
  <2>2. ~Traced("client", rpc.span) /\ ExtractSpanCtx(rpc.ctx.outgoing) = {}
    BY <2>1 DEF Parents
  <2>3. code # "ok" /\ Reason(code)
    BY <2>2 DEF Reason
  <2>4. \E r \in RPCErr(code) : End(r, {})
    BY <1>6
  <2> HIDE DEF code
  <2> QED
    BY <1>1, <2>3, <2>4, ErrorEnds
<1>7. CASE es = {} /\ \E r \in RPCErr(NoOutput) : End(r, span)
  <2>1. NoOutput # "ok" /\ (rpc.output.kind = "error" => NoOutput = "Err")
    BY DEF NoOutput
  <2>2. \A s \in span : s.of = "server" /\ s.parent \in Parents /\ (s.error => NoOutput = "Err")
    BY <1>2, <2>1
  <2>3. Typed => NoOutput = "EncodeResponseError"
    BY <1>4 DEF NoOutput
  <2>4. Typed => Reason(NoOutput)
    BY <1>4, <1>7, <2>3 DEF Reason
  <2>5. \E r \in RPCErr(NoOutput) : End(r, span)
    BY <1>7
  <2> DEFINE code == NoOutput
  <2>6. /\ code # "ok" /\ (Typed => Reason(code)) /\ \E r \in RPCErr(code) : End(r, span)
        /\ \A s \in span : s.of = "server" /\ s.parent \in Parents /\ (s.error => code = "Err")
    BY <2>1, <2>2, <2>4, <2>5
  <2> HIDE DEF span, code
  <2> QED
    BY <1>1, <2>6, ErrorEnds
<1>8. CASE /\ resp' \in [type : {"Output"}, enc : es] /\ stage' = "reply"
           /\ spans' = spans \cup span /\ UNCHANGED result
  <2>1. es = EncodeAny("", rpc.output, req.enc.format) /\ rpc.output.kind = kind
    BY <1>8 DEF Checked
  <2>2. resp'.type = "Output" /\ resp'.enc \in es
    BY <1>8
  <2> HIDE DEF es, span
  <2> DEFINE none == ""
             target == req.enc.format
  <2> HIDE DEF none, target
  <2>encoded. PICK e \in EncodeAny(none, rpc.output, target) : resp'.enc = e
    BY <2>1, <2>2 DEF none, target
  <2>3. resp'.enc.bytes.v = Content(rpc.output)
    <3>1. e.bytes.v = Content(rpc.output)
      BY EncodeContent
    <3> QED
      BY <2>encoded, <3>1
  <2>4. rpc.client = "pj" /\ rpc.server = "pj" =>
          resp'.enc.format = ClientFormat /\ resp'.enc.bytes.as = ClientFormat
    <3> SUFFICES ASSUME rpc.client = "pj", rpc.server = "pj"
                 PROVE  resp'.enc.format = ClientFormat /\ resp'.enc.bytes.as = ClientFormat
      OBVIOUS
    <3>1. rpc.output.kind # "raw"
      BY <1>1, <2>1, ClientFormatSupports DEF KindAt
    <3>2. req.enc.format = ClientFormat
      BY <1>1 DEF Requested
    <3>3. Chosen(none, target) = ClientFormat
      BY <1>1, <3>2, ClientFormatSupports, ChosenFormat DEF target
    <3>4. e.format = Chosen(none, target) /\ e.bytes.as = e.format
      BY <3>1, EncodeFormat
    <3> QED
      BY <2>encoded, <3>3, <3>4
  <2>5. rpc.output.kind = rpc.outType => Content(rpc.output) = rpc.output.v
    BY <1>1, ClientFormatSupports DEF Content
  <2>6. \A s \in span : s.error = FALSE
    <3>1. rpc.output.kind # "error"
      BY <1>1, <2>1, ClientFormatSupports DEF KindAt
    <3> QED
      BY <1>2, <3>1
  <2>7. RequestMD' = RequestMD /\ ClientFormat' = ClientFormat /\ Parents' = Parents
    BY <1>1, CallKept
  <2>8. Unfinished' /\ CallTraced'
    BY <1>1, <1>2, <1>8, <2>6, <2>7 DEF CallInv, Unfinished, CallTraced, Parents
  <2> QED
    BY <1>1, <1>8, <2>2, <2>3, <2>4, <2>5, <2>7, <2>8
    DEF CallInv, CallTypes, Requested, Responded, Unfinished, CallFaithful, TypedCallsWork,
        HonestOutput
<1> QED
  BY <1>5, <1>6, <1>7, <1>8 DEF Serve

LEMMA ServeForeignStep == CallInv /\ ServeForeign => CallInv'
<1> SUFFICES ASSUME CallInv, ServeForeign PROVE CallInv'
  OBVIOUS
<1>1. UNCHANGED <<rpc, req, result, spans>> /\ rpc.server = "foreign" /\ stage = "server"
      /\ stage' = "reply"
  BY DEF ServeForeign
<1>2. RequestMD' = RequestMD /\ ClientFormat' = ClientFormat /\ Parents' = Parents
  BY <1>1, CallKept
<1> QED
  BY <1>1, <1>2 DEF CallInv, CallTypes, Requested, Responded, Unfinished,
                    CallFaithful, TypedCallsWork, HonestOutput, CallTraced, Parents

LEMMA ReceiveStep == CallInv /\ Receive => CallInv'
<1> SUFFICES ASSUME CallInv, Receive PROVE CallInv'
  OBVIOUS
<1> DEFINE kind == KindAt(rpc.client, rpc.outType)
           ds == {d \in DecodeAny(resp.enc, kind) : SameFormat}
<1>1. /\ CallTypes /\ Requested /\ Responded /\ Unfinished /\ stage = "reply"
      /\ UNCHANGED <<rpc, req, resp>>
  BY DEF CallInv, Receive
<1>2. CASE resp.type # "Output" /\ \E r \in RPCErr(NotOutput) : End(r, {})
  <2>1. ~Typed
    BY <1>1, <1>2 DEF Responded, Typed
  <2> DEFINE code == NotOutput
  <2>2. code # "ok" /\ \E r \in RPCErr(code) : End(r, {})
    BY <1>2 DEF NotOutput
  <2> HIDE DEF code
  <2> QED
    BY <1>1, <2>1, <2>2, ErrorEnds
<1>3. CASE /\ resp.type = "Output" /\ ds = {}
           /\ \E r \in RPCErr("DecodeResponseError") : End(r, {})
  <2> DEFINE code == "DecodeResponseError"
  <2>1. Typed => Reason(code)
    <3> SUFFICES ASSUME Typed PROVE Reason(code)
      OBVIOUS
    <3>1. SameFormat
      BY <1>1 DEF Requested, Responded, SameFormat, Typed
    <3>2. kind = rpc.outType /\ kind # "raw"
      BY <1>1, ClientFormatSupports DEF KindAt, Typed
    <3>3. /\ resp.enc.format = ClientFormat /\ resp.enc.bytes.as = ClientFormat
          /\ resp.enc.bytes.v = rpc.output.v
      BY <1>1 DEF Responded, Typed
    <3>4. Supports(resp.enc.format, kind)
      BY <1>1, <3>2, <3>3, ClientFormatSupports
    <3>5. DecodeAny(resp.enc, kind) = {}
      BY <1>3, <3>1
    <3>6. rpc.output.v \in Unreadable[ClientFormat]
      BY <3>2, <3>3, <3>4, <3>5, DecodeSupported
    <3> QED
      BY <3>6 DEF Reason
  <2>2. code # "ok" /\ \E r \in RPCErr(code) : End(r, {})
    BY <1>3
  <2> HIDE DEF code
  <2> QED
    BY <1>1, <2>1, <2>2, ErrorEnds
<1>4. CASE \E d \in ds : \E r \in Output(d) : End(r, {})
  <2>1. PICK d \in ds : \E r \in Output(d) : End(r, {})
    BY <1>4
  <2>returned. PICK r \in Output(d) : End(r, {})
    BY <2>1
  <2>output. r.code = "ok" /\ r.output = d
    BY DEF Output
  <2>2. /\ stage' = "done" /\ result'.code = "ok" /\ result'.output = d
        /\ spans' = spans \cup Span("client", rpc.span, FALSE)
    BY <2>returned, <2>output DEF End
  <2>3. SameFormat /\ Content(d) = resp.enc.bytes.v /\ (d.kind = "raw" => d.v = resp.enc)
    BY DecodeResult
  <2>4. HonestOutput'
    BY <1>1, <2>2, <2>3 DEF HonestOutput, SameFormat, Responded
  <2>5. \A s \in Span("client", rpc.span, FALSE) : s.of = "client" /\ s.error = FALSE
    BY DEF Span
  <2>6. Parents' = Parents
    BY <1>1, CallKept
  <2>7. CallTraced'
    BY <1>1, <2>2, <2>5, <2>6 DEF Unfinished, CallTraced, Parents
  <2>8. TypedCallsWork'
    BY <2>2 DEF TypedCallsWork, Reason
  <2> QED
    BY <1>1, <2>2, <2>4, <2>7, <2>8
    DEF CallInv, CallTypes, Requested, Responded, Unfinished, CallFaithful
<1> QED
  BY <1>2, <1>3, <1>4 DEF Receive

LEMMA CallStep == CallInv /\ [CallNext]_callVars => CallInv'
<1> SUFFICES ASSUME CallInv, [CallNext]_callVars PROVE CallInv'
  OBVIOUS
<1>1. CASE UNCHANGED callVars
  <2>1. /\ UNCHANGED rpc /\ stage' = stage /\ req' = req /\ resp' = resp
        /\ result' = result /\ spans' = spans
    BY <1>1 DEF callVars
  <2>2. /\ RequestMD' = RequestMD /\ ClientFormat' = ClientFormat /\ Parents' = Parents
        /\ Typed' = Typed /\ Reason(result.code)' = Reason(result.code)
    BY <2>1, CallKept DEF Reason
  <2> QED
    BY <2>1, <2>2 DEF CallInv, CallTypes, Requested, Responded, Unfinished, CallFaithful,
                      TypedCallsWork, HonestOutput, CallTraced, Parents
<1> QED
  BY <1>1, RequestStep, ServeStep, ServeForeignStep, ReceiveStep DEF CallNext, Returned

LEMMA CallInvHolds == CallSpec => []CallInv
BY CallInitInv, CallStep, PTL DEF CallSpec

\* A call between a client of NewPbJsonClient and a server of NewPbJsonServer, of which
\* caller and handler keep to the types of the method, ends with an error only if its
\* input or output cannot be written or read in the one format of the method, or a span
\* not be injected or extracted.  Whatever client and server are, an output is the
\* handler's, in the format of the request.
THEOREM CallsAreFaithful == CallSpec => []CallFaithful
<1>1. CallInv => CallFaithful
  BY DEF CallInv
<1> QED
  BY <1>1, CallInvHolds, PTL

\* The handler's span refers to that of the client or to what the caller passed on,
\* and the spans say of each call whether it has failed.
THEOREM CallsAreTraced == CallSpec => []CallTraced
<1>1. CallInv => CallTraced
  BY DEF CallInv
<1> QED
  BY <1>1, CallInvHolds, PTL
=============================================================================
