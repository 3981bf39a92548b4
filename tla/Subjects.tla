------------------------------- MODULE Subjects -------------------------------
(***************************************************************************)
(* Specs and subjects: the names an application gives to services, methods *)
(* and messages, what is checked of them, and whom a subject made of them  *)
(* reaches.                                                                *)
(*                                                                         *)
(* A name is the sequence of its tokens, those that dots separate.  ">"    *)
(* and "*" are wildcards to nats; every other character that is not        *)
(* allowed in a name is left out.                                          *)
(***************************************************************************)
EXTENDS Naturals, Sequences

CONSTANTS
  Words,      \* tokens of allowed characters
  Prefixes,   \* subject prefixes of connections, words themselves
  MaxTokens,  \* of a name
  MaxServed   \* of a connection: specs

One == "*"
Rest == ">"
Wildcards == {One, Rest}

ASSUME SubjectsAssumption ==
  Wildcards \cap (Words \cup Prefixes) = {} /\ MaxTokens \in Nat /\ MaxServed \in Nat

Names == UNION {[1..n -> Words \cup Wildcards] : n \in 0..MaxTokens}

\* What the functions newInput, newOutput and newMsg are and return.
News == {"none", "nil", "value", "pointer"}

VARIABLES
  served,   \* what the server registers, or subscribes to
  wanted,   \* what the client calls, or publishes
  step,     \* of the call or message
  reached,  \* the subscriptions it reaches
  found     \* the handlers that are called

routeVars == <<served, wanted, step, reached, found>>

-----------------------------------------------------------------------------
\* SvcNameRegexp and MethodNameRegexp.
ValidName(n) == Len(n) = 1 /\ n[1] \in Words

\* SubjectNameRegexp.
ValidSubject(n) == n # <<>> /\ \A i \in DOMAIN n : n[i] \in Words

\* NewRPCSpec: names and constructors are checked.
RPCSpecOK(s) == ValidName(s.svc) /\ ValidName(s.method) /\ s.new = "pointer"

\* NewMsgSpec.
MsgSpecOK(s) == ValidSubject(s.subject) /\ s.new = "pointer"

SpecOK(s) == IF s.of = "rpc" THEN RPCSpecOK(s) ELSE MsgSpecOK(s)

\* subjectFormat of natsrpc and of stanmsg.
RPCSubject(prefix, svc, method) == <<prefix>> \o svc \o method
MsgSubject(prefix, subject) == <<prefix>> \o subject

SubjectOf(s) == IF s.of = "rpc" THEN RPCSubject(s.prefix, s.svc, s.method)
                                ELSE MsgSubject(s.prefix, s.subject)

\* What a ServerConn or DurConn subscribes to.
PatternOf(s) == IF s.of = "rpc" THEN RPCSubject(s.prefix, s.svc, <<Rest>>)
                                ELSE MsgSubject(s.prefix, s.subject)

\* nats: ">" stands for one token or more, "*" for one.
Matches(subject, pattern) ==
  \/ /\ Len(subject) = Len(pattern)
     /\ \A i \in DOMAIN pattern : pattern[i] \in {subject[i]} \cup Wildcards
  \/ /\ pattern[Len(pattern)] = Rest /\ Len(subject) > Len(pattern)
     /\ \A i \in 1..(Len(pattern) - 1) : pattern[i] \in {subject[i], One}

\* subjectParser: the method name that follows prefix and service, if these do.
Parse(s, subject) ==
  {n \in Names \ {<<>>} : subject = RPCSubject(s.prefix, s.svc, n)}

-----------------------------------------------------------------------------
\* The spec is made, or refused.  The server has made its own before.
MakeSpec ==
  /\ step = "spec"
  /\ step' = IF SpecOK(wanted) THEN "send" ELSE "refused"
  /\ UNCHANGED <<served, wanted, reached, found>>

\* A request or message goes to the subscriptions that match.
Send ==
  /\ step = "send"
  /\ reached' = {s \in served : Matches(SubjectOf(wanted), PatternOf(s))}
  /\ step' = "dispatch"
  /\ UNCHANGED <<served, wanted, found>>

HandlersAt_OneMap(r) ==
  IF r.of = "msg" THEN {r} ELSE {s \in served : s.method \in Parse(r, SubjectOf(wanted))}
\* What a subscription calls: the handler of a message, or of the method that is
\* looked up in the method map of the service.
HandlersAt(r) ==
  IF r.of = "msg" THEN {r}
  ELSE {s \in served : s.svc = r.svc /\ s.method \in Parse(r, SubjectOf(wanted))}

\* msgHandler of natsrpc panics if the subject cannot be parsed.
Dispatch ==
  /\ step = "dispatch"
  /\ step' = IF \E r \in reached : r.of = "rpc" /\ Parse(r, SubjectOf(wanted)) = {}
             THEN "panic" ELSE "done"
  /\ found' = UNION {HandlersAt(r) : r \in reached}
  /\ UNCHANGED <<served, wanted, reached>>

Routed == step \in {"refused", "done"} /\ UNCHANGED routeVars

-----------------------------------------------------------------------------
\* Specs as an application may ask for them, for a connection with the prefix.
RPCSpecs(P, N) == [of : {"rpc"}, prefix : P, svc : Names, method : Names, new : N]
MsgSpecs(P, N) == [of : {"msg"}, prefix : P, subject : Names, new : N]

\* What a connection serves: up to MaxServed of the specs that can be made.
Serving(S) ==
  {{f[i] : i \in DOMAIN f} : f \in UNION {[1..n -> {s \in S : SpecOK(s)}] : n \in 0..MaxServed}}

\* One connection serves some specs; another one, with its prefix or not, asks for one.
RouteInit ==
  /\ \E p \in Prefixes :
       \/ /\ wanted \in RPCSpecs(Prefixes, News)
          /\ served \in Serving(RPCSpecs({p}, {"pointer"}))
       \/ /\ wanted \in MsgSpecs(Prefixes, News)
          /\ served \in Serving(MsgSpecs({p}, {"pointer"}))
  /\ step = "spec" /\ reached = {} /\ found = {}

RouteNext == MakeSpec \/ Send \/ Dispatch \/ Routed

RouteSpec == RouteInit /\ [][RouteNext]_routeVars

-----------------------------------------------------------------------------
(***************************************************************************)
(* Properties                                                              *)
(***************************************************************************)
Same(s, t) ==
  /\ s.prefix = t.prefix
  /\ IF s.of = "rpc" THEN s.svc = t.svc /\ s.method = t.method ELSE s.subject = t.subject

\* A call or message of a spec that could be made reaches the handler of the same
\* names and prefix, no other one, and no subscription of another service, which
\* would answer MethodNotFound in its place; and no subject surprises its parser
\* ("basically impossible branch").
RoutedRight ==
  /\ step = "done" =>
       /\ found = {s \in served : Same(s, wanted)}
       /\ \A r \in reached : r.of = "rpc" => r.svc = wanted.svc
  /\ step # "panic"
=============================================================================
