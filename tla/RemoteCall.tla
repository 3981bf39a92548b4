------------------------------ MODULE RemoteCall ------------------------------
(***************************************************************************)
(* What natsrpc promises of a call, abstractly: it is refused, or its      *)
(* handler runs, once; the caller gets one result, which is what became of *)
(* the call or says nothing of it.  A handler may answer with any code of  *)
(* src/rpc/error.go, those natsrpc uses itself included.                   *)
(***************************************************************************)
CONSTANT Calls

VARIABLES
  sent,    \* calls whose request has left the client
  fate,    \* what a server has made of the call
  result   \* what it has returned, or "none"

vars == <<sent, fate, result>>

\* Codes of the errors a handler may return.
Codes == {"MethodNotFound", "DecodeRequestError", "EncodeResponseError",
          "EncodeRequestError", "DecodeResponseError", "AppCode"}

\* What a handler may do, "lost" being what cannot be answered.
Ends == {"output", "badOutput", "error", "lost"} \cup Codes

\* What the client may be told of a call, by its fate.
Told(f) ==
  CASE f = "refused"   -> {"MethodNotFound", "DecodeRequestError", "Err"}
    [] f = "output"    -> {"Output", "DecodeResponseError"}
    [] f = "badOutput" -> {"EncodeResponseError"}
    [] f = "error"     -> {"Err"}
    [] f \in Codes     -> {f}
    [] OTHER           -> {}

Init ==
  /\ sent = {}
  /\ fate = [c \in Calls |-> "none"] /\ result = [c \in Calls |-> "none"]

Send(c) ==
  /\ c \notin sent /\ result[c] = "none"
  /\ sent' = sent \cup {c}
  /\ UNCHANGED <<fate, result>>

\* The client fails before it asks anyone.
Reject(c) ==
  /\ c \notin sent /\ result[c] = "none"
  /\ \E r \in {"EncodeRequestError", "CtxErr"} : result' = [result EXCEPT ![c] = r]
  /\ UNCHANGED <<sent, fate>>

\* A server takes a call, which may have been given up already: it is refused,
\* lost, or handled.
Serve(c) ==
  /\ c \in sent
  /\ \/ fate[c] = "none" /\ \E f \in {"refused", "lost", "run"} : fate' = [fate EXCEPT ![c] = f]
     \/ fate[c] = "run" /\ \E f \in Ends : fate' = [fate EXCEPT ![c] = f]
  /\ UNCHANGED <<sent, result>>

\* The call returns what it was told, or that its context is done.
Return(c) ==
  /\ c \in sent /\ result[c] = "none"
  /\ \E r \in Told(fate[c]) \cup {"CtxErr"} : result' = [result EXCEPT ![c] = r]
  /\ UNCHANGED <<sent, fate>>

Next == \E c \in Calls : Send(c) \/ Reject(c) \/ Serve(c) \/ Return(c)

Spec == Init /\ [][Next]_vars
=============================================================================
