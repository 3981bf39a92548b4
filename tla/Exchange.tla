------------------------------- MODULE Exchange -------------------------------
(***************************************************************************)
(* What one call of natsrpc carries: its input and output, through the     *)
(* encoders and decoders of client and server, its meta data and, in       *)
(* these, the span that caused it.  Module NatsRpc has the rest of the     *)
(* call, and abstracts this to succeeding or failing.                      *)
(*                                                                         *)
(* The client is that of NewPbJsonClient, or one with the raw encoder and  *)
(* decoder.  The server is that of NewPbJsonServer, a raw one, or one that *)
(* is not of this library (foreign) and answers as it likes: with an       *)
(* output, an error, bytes that are no response, or a response of a type   *)
(* unknown to the client.  Each of the two may be wrapped in the tracing   *)
(* middleware.                                                             *)
(***************************************************************************)
EXTENDS Enc, Tracing

VARIABLES
  rpc,     \* the call: client, server, the types of the method, input and
           \* what the handler does, context and span of the caller
  stage,   \* where it is
  req,     \* the request: format and bytes of the input, meta data
  resp,    \* the response: its type, format and bytes of the output
  result,  \* what the caller gets: an output, or an error
  spans    \* the spans finished: of whom, their parent, marked as error?

callVars == <<rpc, stage, req, resp, result, spans>>

NoEnc == [format |-> "none", bytes |-> [as |-> "none", v |-> "none"]]
NoReq == [md |-> NoMD, enc |-> NoEnc]
NoResp == [type |-> "none", enc |-> NoEnc]

\* The kind of a value of type t at a client or server of a kind.
KindAt(side, t) == IF side = "raw" THEN "raw" ELSE t

\* Outcomes of a call: an output, an RPCErrorCode, or another error: the handler's
\* (Err), or the tracer's at the client (InjectErr) or the server (ExtractErr).
Output(d) == {[code |-> "ok", output |-> d]}
RPCErr(code) == {[code |-> code, output |-> [kind |-> "none", v |-> "none"]]}

\* WrapRPCClient and WrapRPCServer start a span unless there is none to refer to.
Traced(side, ref) == side \in rpc.traced /\ ref # NoSpan
Span(side, ref, err) ==
  IF Traced(side, ref) THEN {[of |-> side, parent |-> ref, error |-> err]} ELSE {}

\* The call returns r, and the spans S have been finished at the server.  A panic is
\* not an error to a middleware.
End(r, S) ==
  /\ stage' = "done" /\ result' = r
  /\ spans' = spans \cup S \cup Span("client", rpc.span, r.code \notin {"ok", "panic"})

ClientFormat_InputOnly == DefaultFormat({rpc.inType})
ClientFormat == DefaultFormat({rpc.inType, rpc.outType})

\* A value that is checked to be of its type, and then encoded.
Checked(d, kind, default, target) ==
  IF d.kind = kind THEN EncodeAny(default, d, target) ELSE {}

\* The meta data of the request.
RequestMD ==
  LET md == MDFromOutgoingContext(rpc.ctx)
  IN  IF Traced("client", rpc.span) THEN InjectSpanCtx(md, "client") ELSE md

\* makeHandler encodes the input.  AssertInputType panics on nil.  The middleware
\* returns before that if it cannot inject its span.
Request ==
  /\ stage = "client"
  /\ LET es == Checked(rpc.input, KindAt(rpc.client, rpc.inType), ClientFormat, "")
     IN \/ /\ req' \in [md : {RequestMD}, enc : es]
           /\ stage' = "server" /\ UNCHANGED <<result, spans>>
        \/ /\ es = {} /\ UNCHANGED req
           /\ \E r \in RPCErr(IF rpc.input.kind = "nil" THEN "panic"
                                                        ELSE "EncodeRequestError") : End(r, {})
        \/ /\ Traced("client", rpc.span) /\ UNCHANGED req
           /\ \E r \in RPCErr("InjectErr") : End(r, {})
  /\ UNCHANGED <<rpc, resp>>

\* The context of the handler, if there are meta data in the request.
HandlerCtx == IF req.md = NoMD THEN Background
                               ELSE NewIncomingContextWithMD(Background, req.md)

\* What the span of the handler may refer to, and that span; the middleware of the
\* server returns an error, and calls no handler, if it cannot be extracted.
HandlerRefs == ExtractSpanCtx(MDFromIncomingContext(HandlerCtx))
ServerSpan(err) == UNION {Span("server", ref, err) : ref \in HandlerRefs}
Untraceable == "server" \in rpc.traced /\ HandlerRefs = {}

\* What the caller gets when the handler's output is not one: an error, no answer
\* after a panic, nor for nil, on which AssertOutputType panics.
NoOutput == CASE rpc.output.kind = "error" -> "Err"
              [] rpc.output.kind \in {"panic", "nil"} -> "CtxErr"
              [] OTHER -> "EncodeResponseError"

\* The task of msgHandler decodes the input; the handler's output must be of the
\* type of the method and can be encoded in the format of the input.
Serve ==
  /\ stage = "server" /\ rpc.server # "foreign"
  /\ LET input == DecodeAny(req.enc, KindAt(rpc.server, rpc.inType))
         es == Checked(rpc.output, KindAt(rpc.server, rpc.outType), "", req.enc.format)
         span == ServerSpan(rpc.output.kind = "error")
     IN \/ /\ input = {} /\ UNCHANGED resp
           /\ \E r \in RPCErr("DecodeRequestError") : End(r, {})
        \/ /\ input # {} /\ Untraceable /\ UNCHANGED resp
           /\ \E r \in RPCErr("ExtractErr") : End(r, {})
        \/ /\ input # {} /\ ~Untraceable /\ es = {} /\ UNCHANGED resp
           /\ \E r \in RPCErr(NoOutput) : End(r, span)
        \/ /\ input # {} /\ ~Untraceable /\ resp' \in [type : {"Output"}, enc : es]
           /\ stage' = "reply" /\ spans' = spans \cup span /\ UNCHANGED result
  /\ UNCHANGED <<rpc, req>>

\* A server of another kind.
ServeForeign ==
  /\ stage = "server" /\ rpc.server = "foreign"
  /\ resp' \in [type : {"Output"}, enc : RawValues]
                 \cup [type : {"RpcErr", "Err", "garbage", "unknown"}, enc : {NoEnc}]
  /\ stage' = "reply"
  /\ UNCHANGED <<rpc, req, result, spans>>

\* The client accepts an output only in the format of its input.
SameFormat == resp.enc.format = req.enc.format

\* What makeHandler does of a response that is no output: the error in it is
\* returned, and a type it does not know makes it panic.
NotOutput == CASE resp.type = "RpcErr"  -> "AppCode"
               [] resp.type = "Err"     -> "Err"
               [] resp.type = "garbage" -> "DecodeResponseError"
               [] OTHER                 -> "panic"

\* makeHandler decodes the output.
Receive ==
  /\ stage = "reply"
  /\ LET ds == {d \in DecodeAny(resp.enc, KindAt(rpc.client, rpc.outType)) : SameFormat}
     IN \/ resp.type # "Output" /\ \E r \in RPCErr(NotOutput) : End(r, {})
        \/ /\ resp.type = "Output" /\ ds = {}
           /\ \E r \in RPCErr("DecodeResponseError") : End(r, {})
        \/ /\ resp.type = "Output"
           /\ \E d \in ds : \E r \in Output(d) : End(r, {})
  /\ UNCHANGED <<rpc, req, resp>>

Returned == stage = "done" /\ UNCHANGED callVars

-----------------------------------------------------------------------------
Types == {"pb", "plain"}
Data == [kind : Types, v : Contents] \cup [kind : {"raw"}, v : RawValues]
NoData(kinds) == [kind : kinds, v : {"none"}]

\* The caller may be a handler itself, with meta data that came with its message
\* or request; and it may pass meta data on that have the tracing key.
Contexts ==
  UNION {LET md == [k \in {TracingMDKey} |-> v]
         IN  {Background, NewIncomingContextWithMD(Background, md),
              NewOutgoingContextWithMD(Background, md)} : v \in {"old", Corrupt}}

CallInputs ==
  [client : {"pj", "raw"}, server : {"pj", "raw", "foreign"},
   inType : Types, outType : Types,
   input : Data \cup NoData({"nil"}),
   output : Data \cup NoData({"nil", "error", "panic"}),
   ctx : Contexts, span : {NoSpan, "caller"}, traced : SUBSET {"client", "server"}]

CallInit ==
  /\ rpc \in CallInputs
  /\ stage = "client" /\ req = NoReq /\ resp = NoResp
  /\ result \in RPCErr("none") /\ spans = {}

CallNext == Request \/ Serve \/ ServeForeign \/ Receive \/ Returned

CallSpec == CallInit /\ [][CallNext]_callVars

-----------------------------------------------------------------------------
(***************************************************************************)
(* Properties                                                              *)
(***************************************************************************)
\* A call of NewPbJsonClient to NewPbJsonServer of which caller and handler keep to
\* the types of the method.
Typed ==
  /\ rpc.client = "pj" /\ rpc.server = "pj"
  /\ rpc.input.kind = rpc.inType /\ rpc.output.kind = rpc.outType

\* What makes such a call end with a code.
Reason(code) ==
  CASE code = "ok"                  -> TRUE
    [] code = "EncodeRequestError"  -> rpc.input.v \in Unwritable[ClientFormat]
    [] code = "DecodeRequestError"  -> rpc.input.v \in Unreadable[ClientFormat]
    [] code = "EncodeResponseError" -> rpc.output.v \in Unwritable[ClientFormat]
    [] code = "DecodeResponseError" -> rpc.output.v \in Unreadable[ClientFormat]
    [] code = "InjectErr"           -> Traced("client", rpc.span)
    [] code = "ExtractErr"          -> /\ ~Traced("client", rpc.span)
                                       /\ ExtractSpanCtx(rpc.ctx.outgoing) = {}
    [] OTHER                        -> FALSE

\* NewPbJsonClient and NewPbJsonServer agree on a format for every method: if
\* caller and handler keep to the types of the method, and input and output go
\* through that format, the caller gets the output; if not, it gets the error of
\* the step that fails, and no other.
TypedCallsWork == stage = "done" /\ Typed => Reason(result.code)

\* An output is what the handler has returned, in the format of the request;
\* a raw caller, which has no decoder to find out, gets no other format either.
HonestOutput ==
  result.code = "ok" =>
    /\ resp.enc.format = req.enc.format
    /\ result.output.kind = "raw" => result.output.v = resp.enc
    /\ rpc.server # "foreign" =>
         Content(result.output) = Content(rpc.output)

\* The two together: what is typed works, and what works is true.
CallFaithful == TypedCallsWork /\ HonestOutput

\* The span of a handler refers to that of the client, or, if this has none, to
\* what the caller passed on, never to what only came with the caller's own
\* request.  An error of the handler is marked in both, and a call that has
\* returned an error in its own span.
CallTraced ==
  \A s \in spans :
    /\ s.of = "server" =>
         s.parent \in IF Traced("client", rpc.span) THEN {"client"}
                      ELSE ExtractSpanCtx(rpc.ctx.outgoing)
    /\ s.of = "server" /\ s.error => result.code = "Err"
    /\ s.of = "client" => (s.error <=> result.code \notin {"ok", "panic"})
=============================================================================
