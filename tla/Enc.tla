--------------------------------- MODULE Enc ---------------------------------
(***************************************************************************)
(* Encoders and decoders (packages enc, pjenc, rawenc).                    *)
(*                                                                         *)
(* A value in Go is [kind, v]: kind is "pb" for a proto.Message, "raw" for *)
(* a *RawData, "plain" for any other type, and v its content.  Encoded     *)
(* data, and the content of a *RawData, is [format, bytes]; bytes remember *)
(* the format that made them and the content they stand for.  An encoder   *)
(* or decoder returns the set of its results, which is empty when it       *)
(* returns an error.                                                       *)
(***************************************************************************)

CONSTANTS
  Contents,   \* of messages, inputs and outputs
  Unwritable, \* those that the marshaler of a format refuses
  Unreadable  \* and those it writes, but cannot read back into their type

ASSUME EncAssumption ==
  Unwritable \in [{"json", "pb"} -> SUBSET Contents]
    /\ Unreadable \in [{"json", "pb"} -> SUBSET Contents]

Kinds   == {"pb", "plain", "raw"}
JsonFormat == "json"
PbFormat   == "pb"

\* *RawData an application may use: encoded by something, in known formats or not.
RawValues ==
  {[format |-> f, bytes |-> [as |-> f, v |-> c]] :
     f \in {"json", "pb", "xml", ""}, c \in Contents}

\* The content behind a value: a *RawData stands for what it encodes.
Content(d) == IF d.kind = "raw" THEN d.v.bytes.v ELSE d.v

\* Packages json and protojson take any type, protobuf only proto.Messages.
Supports(format, kind) ==
  \/ format = JsonFormat
  \/ format = PbFormat /\ kind = "pb"

\* The caller's target format, or else the encoder's own.
Chosen(default, target) == IF target # "" THEN target ELSE default

\* PbJsonEncoder: an error if the format does not take the type, or Marshal fails.
PbJsonEncode(default, d, target) ==
  LET f == Chosen(default, target)
  IN {e \in {[format |-> f, bytes |-> [as |-> f, v |-> d.v]]} :
        Supports(f, d.kind) /\ d.v \notin Unwritable[f]}

\* PbJsonDecoder, into a value of the given kind.
PbJsonDecode(e, kind) ==
  {d \in {[kind |-> kind, v |-> e.bytes.v]} :
     Supports(e.format, kind) /\ e.bytes.as = e.format /\ d.v \notin Unreadable[e.format]}

\* DefaultRawEncoder: a *RawData is copied, unless it has not the target format.
RawEncode(d, target) ==
  {e \in {d.v} : d.kind = "raw" /\ (target = "" \/ e.format = target)}

\* DefaultRawDecoder.
RawDecode(e, kind) == {d \in {[kind |-> kind, v |-> e]} : kind = "raw"}

\* NewPbJsonPublisher, NewPbJsonClient: protobuf if everything is a proto.Message.
DefaultFormat(kinds) == IF kinds = {"pb"} THEN PbFormat ELSE JsonFormat

\* The encoder and decoder that go with a kind of value.
EncodeAny(default, d, target) ==
  IF d.kind = "raw" THEN RawEncode(d, target) ELSE PbJsonEncode(default, d, target)
DecodeAny(e, kind) ==
  IF kind = "raw" THEN RawDecode(e, kind) ELSE PbJsonDecode(e, kind)
=============================================================================
