-------------------------------- MODULE Relay --------------------------------
(***************************************************************************)
(* What a message carries from the publisher to the handler: its encoded   *)
(* data, its meta data and, in these, the span that caused it.             *)
(*                                                                         *)
(* It is published directly through stanmsg (direct), or by binlogmsg into *)
(* a row, which the pipe publishes as *RawData through stanmsg with the    *)
(* DefaultRawEncoder.  Each of the three hops may be wrapped in the        *)
(* tracing middleware.                                                     *)
(***************************************************************************)
EXTENDS Naturals, FiniteSets, Enc, Tracing

CONSTANTS
  Keys, Values   \* of meta data other than the tracing key

ASSUME RelayAssumption == TracingMDKey \notin Keys

Hops == {"app", "pipe", "sub"}

VARIABLES
  pub,     \* what is published, and how
  at,      \* where the message is
  msg,     \* the MessageWithMD of the row or on the wire
  parent,  \* <<span, its parent>> for each span started
  got      \* what the handler is called with

relayVars == <<pub, at, msg, parent, got>>

\* A middleware starts a span unless there is none to refer to.
Starts(hop, ref) == hop \in pub.traced /\ ref # NoSpan
StartSpan(hop, ref) ==
  parent' = IF Starts(hop, ref) THEN parent \cup {<<hop, ref>>} ELSE parent

\* What a hop finds in meta data for its span to refer to; none if the middleware
\* returns an error.
Refs(hop, md) == IF hop \in pub.traced THEN ExtractSpanCtx(md) ELSE {NoSpan}

\* The meta data that a wrapped publisher passes on.
Outgoing(hop, ref, md) == IF Starts(hop, ref) THEN InjectSpanCtx(md, hop) ELSE md

-----------------------------------------------------------------------------
MessageWithMD(md, e) == [md |-> md, enc |-> e]

Datum == [kind |-> pub.kind, v |-> pub.v]

PubFormat == DefaultFormat({pub.kind})

\* The application publishes: WrapMsgPublisher or WrapMsgAsyncPublisher with the
\* span of its context, then binlogmsg's or stanmsg's publisher.  It returns an
\* error if the span cannot be injected or the message not encoded.
Publish ==
  /\ at = "app"
  /\ StartSpan("app", pub.span)
  /\ \/ \E e \in EncodeAny(PubFormat, Datum, "") :
          /\ msg' = MessageWithMD(Outgoing("app", pub.span, pub.md), e)
          /\ at' = IF pub.direct THEN "wire" ELSE "row"
     \/ /\ EncodeAny(PubFormat, Datum, "") = {}
        /\ at' = "unencodable" /\ UNCHANGED msg
     \/ Starts("app", pub.span) /\ at' = "uninjected" /\ UNCHANGED msg
  /\ UNCHANGED <<pub, got>>

\* The meta data of the row become those of the context.
FlushMD == msg.md

RawData_Json == PbJsonEncode(JsonFormat, [kind |-> "raw", v |-> msg.enc], "")
\* What stanmsg makes of the *RawData that the pipe hands to it.
RawData == RawEncode([kind |-> "raw", v |-> msg.enc], "")

\* flushMsgEntry, through WrapMsgAsyncPublisher as msg pipe downstream, whose
\* span follows the one in the meta data of the row.  When that cannot be extracted,
\* or the new one not injected, the row stays in its table, and is followed no further.
FlushMsgEntry ==
  /\ at = "row"
  /\ \/ Refs("pipe", FlushMD) = {} /\ at' = "untraceable" /\ UNCHANGED <<msg, parent>>
     \/ \E ref \in Refs("pipe", FlushMD) :
          /\ StartSpan("pipe", ref)
          /\ \/ /\ \E e \in RawData :
                     msg' = MessageWithMD(Outgoing("pipe", ref, FlushMD), e)
                /\ at' = "wire"
             \/ Starts("pipe", ref) /\ at' = "uninjected" /\ UNCHANGED msg
  /\ UNCHANGED <<pub, got>>

\* The task of msgHandler, with a handler in WrapMsgSubscriber, whose span follows
\* the one in the meta data.  What cannot be decoded, or whose span not extracted,
\* is not acknowledged, and comes again for ever.
Handle ==
  /\ at = "wire"
  /\ LET ds   == DecodeAny(msg.enc, pub.subKind)
         refs == Refs("sub", msg.md)
     IN \/ \E d \in ds, ref \in refs :
             /\ at' = "handled"
             /\ got' = [msg |-> d, md |-> msg.md]
             /\ StartSpan("sub", ref)
        \/ ds = {} /\ at' = "undecodable" /\ UNCHANGED <<got, parent>>
        \/ ds # {} /\ refs = {} /\ at' = "untraceable" /\ UNCHANGED <<got, parent>>
  /\ UNCHANGED <<pub, msg>>

Stuck == {"unencodable", "undecodable", "untraceable", "uninjected"}

Relayed == at \in {"handled"} \cup Stuck /\ UNCHANGED relayVars

-----------------------------------------------------------------------------
MDs ==
  {md \in UNION {[K -> Values \cup {Corrupt}] : K \in SUBSET (Keys \cup {TracingMDKey})} :
     \A k \in DOMAIN md : md[k] = Corrupt => k = TracingMDKey}

\* Publisher and subscriber agree on the type, or take *RawData instead.  The
\* tracing key may be there before, in meta data that are passed on.
Inputs ==
  {i \in [kind : Kinds, v : Contents \cup RawValues, subKind : Kinds, md : MDs,
          direct : BOOLEAN, span : {NoSpan, "root"}, traced : SUBSET Hops] :
     /\ i.kind = "raw" <=> i.v \in RawValues
     /\ "raw" \in {i.kind, i.subKind} \/ i.kind = i.subKind}

RelayInit ==
  /\ pub \in Inputs
  /\ at = "app" /\ parent = {}
  /\ msg = MessageWithMD(NoMD, [format |-> "", bytes |-> [as |-> "", v |-> ""]])
  /\ got = [msg |-> [kind |-> "none", v |-> ""], md |-> NoMD]

RelayNext == Publish \/ FlushMsgEntry \/ Handle \/ Relayed

RelaySpec == RelayInit /\ [][RelayNext]_relayVars

-----------------------------------------------------------------------------
(***************************************************************************)
(* Properties                                                              *)
(***************************************************************************)
\* The handler gets the type it asked for, with the content that was published,
\* and the meta data of the publisher, the tracing key apart.
Intact ==
  at = "handled" =>
    /\ got.msg.kind = pub.subKind /\ Content(got.msg) = Content(Datum)
    /\ \A k \in Keys : /\ k \in DOMAIN got.md <=> k \in DOMAIN pub.md
                       /\ k \in DOMAIN got.md => got.md[k] = pub.md[k]

\* What does not arrive has a reason of its own.  A publisher refuses only content
\* that the format of its type cannot write, and never a *RawData.  A message that
\* its subscriber cannot decode, and that comes again for ever, is a *RawData or does
\* not read back in that format.  A tracing key that cannot be read stops a message
\* only if the application has not put a span of its own in its place.
NoPoison ==
  /\ at = "unencodable" => pub.kind # "raw" /\ pub.v \in Unwritable[PubFormat]
  /\ at = "undecodable" => pub.kind = "raw" \/ pub.v \in Unreadable[PubFormat]
  /\ at = "untraceable" => ExtractSpanCtx(pub.md) = {} /\ ~Starts("app", pub.span)
  /\ at = "uninjected" => \E p \in parent : p[1] # "sub"

\* The two together: a message whose content goes through its format, and whose
\* span can be read, arrives as it was.
Delivered == Intact /\ NoPoison

\* The spans of a message form a chain in the order of its hops: none refers to
\* a span before the last one that was started, nor to one from meta data
\* that were passed on when there is such a one.
Rank(s) == CASE s = "sub" -> 3 [] s = "pipe" -> 2 [] s = "app" -> 1 [] OTHER -> 0
SpansChained ==
  \A p, q \in parent : Rank(p[1]) < Rank(q[1]) => Rank(p[1]) <= Rank(q[2])
=============================================================================
