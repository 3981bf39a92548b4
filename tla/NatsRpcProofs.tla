----------------------------- MODULE NatsRpcProofs -----------------------------
(***************************************************************************)
(* TLAPS proofs about NatsRpc, for every set of ServerConns, methods and   *)
(* calls, any size of the runner and any number of faults.                 *)
(***************************************************************************)
EXTENDS NatsRpc, FiniteSetTheorems, TLAPS

USE NatsRpcAssumption

(***************************************************************************)
(* The inductive invariant, in parts.                                      *)
(***************************************************************************)
\* A request is in one place: it is not made, at nats, or at one subscription; and
\* it is run and answered on its way through the task there.
TokenInv ==
  \A c \in Calls :
    /\ c \in net \/ call[c] \in {"idle", "unsent"} => \A u \in Subs : task[u][c] = "none"
    /\ call[c] \in {"idle", "unsent"} => c \notin net
    /\ \A u, w \in Subs : task[u][c] # "none" /\ task[w][c] # "none" => u = w
    /\ ran[c] = 0 \/ (ran[c] = 1 /\ \E u \in Subs : task[u][c] \in {"run", "done"})
    /\ nReply[c] = 0 \/ (nReply[c] = 1 /\ \E u \in Subs : task[u][c] = "done")

\* The subscription of a registration in Flush, which is the only one of its
\* ServerConn.
RegInv ==
  \A s \in Servers, m \in Methods : \A e \in reg[s][m] :
    /\ srv[s] = "open" /\ svcSub[s][SvcOf[m]] = NoSub
    /\ e[1] \in Subs /\ Owner(e[1]) = s /\ Service(e[1]) = SvcOf[m]
    /\ subState[e[1]] = "flush"
    /\ \A n \in Methods : \A f \in reg[s][n] : m = n /\ e = f

\* The subscriptions in the field subs.
SubInv ==
  /\ \A s \in Servers, v \in Svcs :
       svcSub[s][v] # NoSub =>
         /\ svcSub[s][v] \in Subs
         /\ Owner(svcSub[s][v]) = s /\ Service(svcSub[s][v]) = v
         /\ srv[s] # "closed" => subState[svcSub[s][v]] = "active"
  /\ \A u \in Subs : subState[u] = "active" => u \in onBroker
  /\ \A s \in Servers, m \in Methods :
       registered[s][m] = "fn" =>
         /\ svcSub[s][SvcOf[m]] # NoSub
         /\ methods[svcSub[s][SvcOf[m]]][m] = "fn"

\* What a response may make a call return, from what has happened.
Honest(c, r) ==
  /\ r = "Output" => outcome[c] = "output"
  /\ r = "Err" => outcome[c] = "error" \/ ran[c] = 0
  /\ r \in RpcErrors =>
       \/ outcome[c] = r
       \/ r \in {"MethodNotFound", "DecodeRequestError"} /\ ran[c] = 0
       \/ r = "EncodeResponseError" /\ outcome[c] = "badOutput"
       \/ r = "DecodeResponseError" /\ outcome[c] = "output"

\* Results that tell nothing of the server.
Own == {"none", "CtxErr"}

\* The client has got no response.
Unheard(c) == result[c] \in Own \/ call[c] = "unsent"

ReplyInv ==
  \A c \in Calls :
    /\ call[c] = "unsent" => result[c] \in {"EncodeRequestError", "CtxErr"}
    /\ Unheard(c) \/ Honest(c, result[c])
    /\ \A r \in inbox[c] : \A res \in FromResponse(r) : Honest(c, res)
    /\ nReply[c] = 0 => inbox[c] = {} /\ Unheard(c)

IndInv == TypeOK /\ TokenInv /\ RegInv /\ SubInv /\ NoneOrphaned /\ ReplyInv

-----------------------------------------------------------------------------
(***************************************************************************)
(* Subscriptions, responses and numbers.                                   *)
(***************************************************************************)
\* A subscription is of a ServerConn and a service.
LEMMA SubFields ==
  ASSUME NEW u \in Subs
  PROVE  Owner(u) \in Servers /\ Service(u) \in Svcs
BY DEF Subs, Owner, Service

\* Subscriptions and NoSub differ.
LEMMA NoSubIsNone == NoSub \notin Subs
BY DEF Subs, Svcs

\* A method's service.
LEMMA SvcOfMethod == \A m \in Methods : SvcOf[m] \in Svcs
BY DEF Svcs

\* What replyError makes is a response.
LEMMA ErrorResponse ==
  /\ \A e : ReplyError(e) \in Response
  /\ \A e \in RpcErrors : FromResponse(ReplyError(e)) = {e}
  /\ \A e : e \notin RpcErrors => FromResponse(ReplyError(e)) = {"Err"}
BY DEF ReplyError, Response, RpcErrors, FromResponse

\* What a response makes a call return.
LEMMA ResponseResult == \A r \in Response : FromResponse(r) \subseteq Results
BY DEF Response, FromResponse, Results, RpcErrors

\* What the answer to an outcome makes a call return.
HonestAnswer(o) ==
  CASE o = "output"    -> {"Output", "DecodeResponseError"}
    [] o = "badOutput" -> {"EncodeResponseError"}
    [] o \in RpcErrors -> {o}
    [] o = "error"     -> {"Err"}
    [] OTHER           -> {}

\* A handler is answered with one response, or none.
LEMMA AnswerIsOne ==
  ASSUME NEW o \in Outcomes \ {"none"}
  PROVE  /\ Answer(o) \subseteq Response
         /\ Answer(o) = {} \/ \E r \in Response : Answer(o) = {r}
         /\ \A r \in Answer(o) : FromResponse(r) \subseteq HonestAnswer(o)
<1>1. CASE o = "output"
  BY <1>1 DEF Answer, Response, FromResponse, HonestAnswer, RpcErrors
<1>2. CASE o = "badOutput"
  BY <1>2, ErrorResponse DEF Answer, HonestAnswer, RpcErrors
<1>3. CASE o \in RpcErrors
  <2>1. Answer(o) = {ReplyError(o)} /\ HonestAnswer(o) = {o}
    BY <1>3 DEF Answer, HonestAnswer, RpcErrors, Unanswered
  <2> QED BY <1>3, <2>1, ErrorResponse
<1>4. CASE o = "error"
  BY <1>4, ErrorResponse DEF Answer, HonestAnswer, RpcErrors
<1>5. CASE o \in Unanswered
  BY <1>5 DEF Answer, Unanswered, RpcErrors
<1> QED BY <1>1, <1>2, <1>3, <1>4, <1>5 DEF Outcomes

\* Faults are counted.
LEMMA FaultCounted ==
  ASSUME faults \in Nat, Fault
  PROVE  faults' \in Nat
BY DEF Fault

\* What Reply publishes, none or one.
LEMMA ReplyCounted ==
  ASSUME nReply \in [Calls -> Nat], inbox \in [Calls -> SUBSET Response],
         NEW c \in Calls, NEW R, R = {} \/ \E r \in Response : R = {r}, Reply(c, R)
  PROVE  /\ nReply' \in [Calls -> Nat] /\ inbox' \in [Calls -> SUBSET Response]
         /\ nReply'[c] = nReply[c] + (IF R = {} THEN 0 ELSE 1)
         /\ inbox'[c] = inbox[c] \cup R
         /\ \A d \in Calls : d # c => nReply'[d] = nReply[d] /\ inbox'[d] = inbox[d]
         /\ UNCHANGED <<onBroker, net>>
<1>1. Cardinality(R) = IF R = {} THEN 0 ELSE 1
  BY FS_EmptySet, FS_Singleton
<1>2. R \subseteq Response
  OBVIOUS
<1> HIDE DEF Response
<1>3. nReply' = [nReply EXCEPT ![c] = @ + (IF R = {} THEN 0 ELSE 1)]
  BY <1>1 DEF Reply
<1>4. inbox' = [inbox EXCEPT ![c] = @ \cup R] /\ UNCHANGED <<onBroker, net>>
  BY DEF Reply
<1> QED BY <1>2, <1>3, <1>4

-----------------------------------------------------------------------------
(***************************************************************************)
(* Type correctness.                                                       *)
(***************************************************************************)
\* What Unsubscribe does.
LEMMA UnsubscribeDoes ==
  ASSUME TypeOK, NEW U, Unsubscribe(U)
  PROVE  /\ subState' \in [Subs -> {"none", "flush", "active", "gone"}]
         /\ task' \in [Subs -> [Calls -> {"none", "pend", "dropped", "queued", "run", "done"}]]
         /\ \A u \in Subs : subState'[u] = IF u \in U THEN "gone" ELSE subState[u]
         /\ \A u \in Subs, c \in Calls :
              task'[u][c] = task[u][c] \/ (task[u][c] = "pend" /\ task'[u][c] = "dropped")
<1> DEFINE T(u) == [c \in Calls |->
                      IF u \in U /\ task[u][c] = "pend" THEN "dropped" ELSE task[u][c]]
<1>1. \A u \in Subs, c \in Calls :
        task[u][c] \in {"none", "pend", "dropped", "queued", "run", "done"}
  BY DEF TypeOK
<1>2. \A u \in Subs :
        T(u) \in [Calls -> {"none", "pend", "dropped", "queued", "run", "done"}]
  BY <1>1
<1>3. \A u \in Subs, c \in Calls :
        T(u)[c] = task[u][c] \/ (task[u][c] = "pend" /\ T(u)[c] = "dropped")
  OBVIOUS
<1>4. task' = [u \in Subs |-> T(u)]
  BY DEF Unsubscribe
<1>5. /\ subState' \in [Subs -> {"none", "flush", "active", "gone"}]
      /\ \A u \in Subs : subState'[u] = IF u \in U THEN "gone" ELSE subState[u]
  BY DEF TypeOK, Unsubscribe
<1> HIDE DEF T
<1> QED BY <1>2, <1>3, <1>4, <1>5

\* Every step keeps the state well typed.
LEMMA TypeStep ==
  ASSUME TypeOK, RegInv, [Next]_vars
  PROVE  TypeOK'
<1> USE DEF TypeOK, srvVars, taskVars, netVars, cliVars
<1>1. CASE UNCHANGED vars
  BY <1>1 DEF vars
<1>2. ASSUME NEW s \in Servers, CloseBegin(s) \/ CloseEnd(s) PROVE TypeOK'
  <2>1. CASE CloseBegin(s)
    BY <2>1 DEF CloseBegin
  <2>2. CASE CloseEnd(s)
    BY <2>2, UnsubscribeDoes DEF CloseEnd
  <2> QED BY <1>2, <2>1, <2>2
<1>3. ASSUME NEW s \in Servers, NEW m \in Methods, RegistHandler(s, m) PROVE TypeOK'
  <2>1. ASSUME NEW h \in Handlers, RegistFirst(s, m, h) PROVE TypeOK'
    <3>1. PICK u \in Subs : /\ subState' = [subState EXCEPT ![u] = "flush"]
                            /\ reg' = [reg EXCEPT ![s][m] = {<<u, h>>}]
      BY <2>1, SvcOfMethod DEF RegistFirst, Subs
    <3> QED BY <2>1, <3>1 DEF RegistFirst
  <2>2. ASSUME NEW u \in Subs, NEW h \in Handlers, Regist(u, m, h)
        PROVE  /\ methods' \in [Subs -> [Methods -> Handlers \cup {"mw(nil)"}]]
               /\ registered' \in [Servers -> [Methods -> Handlers]]
    <3>1. Owner(u) \in Servers /\ WrapMWs(h) \in Handlers \cup {"mw(nil)"}
      BY SubFields DEF WrapMWs
    <3> QED BY <2>2, <3>1 DEF Regist
  <2>3. ASSUME NEW h \in Handlers, RegistMore(s, m, h) PROVE TypeOK'
    <3>1. svcSub[s][SvcOf[m]] \in Subs
      BY <2>3, SvcOfMethod DEF RegistMore
    <3> QED BY <2>2, <2>3, <3>1 DEF RegistMore
  <2>4. CASE FlushDone(s, m)
    <3>1. PICK u \in Subs, h \in Handlers :
            /\ subState' = [subState EXCEPT ![u] = "active"]
            /\ svcSub' = [svcSub EXCEPT ![s][SvcOf[m]] = u]
            /\ Regist(u, m, h)
      BY <2>4 DEF FlushDone
    <3>2. svcSub' \in [Servers -> [Svcs -> Subs \cup {NoSub}]]
      BY <3>1, SvcOfMethod
    <3>3. subState' \in [Subs -> {"none", "flush", "active", "gone"}]
      BY <3>1
    <3>4. reg' \in [Servers -> [Methods -> SUBSET (Subs \X Handlers)]]
      BY <2>4 DEF FlushDone
    <3> QED BY <2>2, <2>4, <3>1, <3>2, <3>3, <3>4 DEF FlushDone
  <2>5. CASE FlushFail(s, m)
    BY <2>5, UnsubscribeDoes, FaultCounted DEF FlushFail, UnsubOnError
  <2> QED BY <1>3, <2>1, <2>3, <2>4, <2>5 DEF RegistHandler
<1>4. CASE Broker
  <2>1. ASSUME NEW u \in Subs, SubArrives(u) \/ UnsubArrives(u) PROVE TypeOK'
    BY <2>1 DEF SubArrives, UnsubArrives
  <2>2. ASSUME NEW c \in Calls, Route(c) PROVE TypeOK'
    <3>1. task' \in [Subs -> [Calls -> {"none", "pend", "dropped", "queued", "run", "done"}]]
      BY <2>2 DEF Route
    <3> QED BY <2>2, <3>1 DEF Route
  <2>3. ASSUME NEW c \in Calls, Lose(c) PROVE TypeOK'
    BY <2>3, FaultCounted DEF Lose
  <2> QED BY <1>4, <2>1, <2>2, <2>3 DEF Broker
<1>5. ASSUME NEW u \in Subs, NEW c \in Calls,
             Submit(u, c) \/ Worker(u, c) \/ TaskExpires(u, c) \/ HandlerEnd(u, c)
      PROVE  TypeOK'
  <2>1. CASE Submit(u, c)
    <3>0. PICK st \in {"queued", "done"} : task' = [task EXCEPT ![u][c] = st]
      BY <2>1, Zenon DEF Submit
    <3>1. task' \in [Subs -> [Calls -> {"none", "pend", "dropped", "queued", "run", "done"}]]
      BY <3>0
    <3>2. UNCHANGED <<onBroker, net, inbox, nReply>>
            \/ Reply(c, {ReplyError("submit task error")})
      BY <2>1, Zenon DEF Submit, netVars
    <3>3. /\ nReply' \in [Calls -> Nat] /\ inbox' \in [Calls -> SUBSET Response]
          /\ UNCHANGED <<onBroker, net>>
      BY <3>2, ErrorResponse, ReplyCounted
    <3> QED BY <2>1, <3>1, <3>3 DEF Submit
  <2>2. CASE TaskRefused(u, c)
    BY <2>2, ErrorResponse, ReplyCounted DEF TaskRefused
  <2>3. CASE TaskNil(u, c)
    BY <2>3 DEF TaskNil, Outcomes, Unanswered
  <2>4. CASE TaskStart(u, c)
    BY <2>4 DEF TaskStart
  <2>5. CASE TaskExpires(u, c)
    BY <2>5 DEF TaskExpires
  <2>6. CASE HandlerEnd(u, c)
    <3>1. PICK o \in Outcomes \ {"none"} :
            outcome' = [outcome EXCEPT ![c] = o] /\ Reply(c, Answer(o))
      BY <2>6 DEF HandlerEnd
    <3>2. /\ nReply' \in [Calls -> Nat] /\ inbox' \in [Calls -> SUBSET Response]
          /\ UNCHANGED <<onBroker, net>>
      BY <3>1, AnswerIsOne, ReplyCounted
    <3>3. /\ outcome' \in [Calls -> Outcomes]
          /\ task' \in [Subs -> [Calls -> {"none", "pend", "dropped", "queued", "run", "done"}]]
          /\ expired' \subseteq Subs \X Calls
      BY <2>6, <3>1 DEF HandlerEnd
    <3> QED BY <2>6, <3>2, <3>3 DEF HandlerEnd
  <2> QED BY <1>5, <2>1, <2>2, <2>3, <2>4, <2>5, <2>6 DEF Worker
<1>6. ASSUME NEW c \in Calls, Client(c) PROVE TypeOK'
  <2>1. CASE CallRefused(c)
    BY <2>1 DEF CallRefused, Results, RpcErrors
  <2>2. CASE Call(c)
    BY <2>2 DEF Call
  <2>5. CASE DeadlinePasses(c)
    BY <2>5 DEF DeadlinePasses
  <2>3. CASE CtxErr(c)
    BY <2>3 DEF CtxErr, End, Results
  <2>4. CASE Receive(c)
    <3>1. PICK r \in inbox[c] : \E res \in FromResponse(r) : End(c, res)
      BY <2>4 DEF Receive
    <3>0. PICK res \in FromResponse(r) : End(c, res)
      BY <3>1
    <3>2. res \in Results
      BY <3>0, ResponseResult
    <3> QED BY <2>4, <3>0, <3>2 DEF Receive, End
  <2> QED BY <1>6, <2>1, <2>2, <2>3, <2>4, <2>5 DEF Client
<1> QED BY <1>1, <1>2, <1>3, <1>4, <1>5, <1>6 DEF Next, Terminated
-----------------------------------------------------------------------------
(***************************************************************************)
(* Requests.                                                               *)
(***************************************************************************)
\* A task that is under way is the only place of its request.
LEMMA Moving ==
  ASSUME TokenInv, NEW u \in Subs, NEW c \in Calls,
         task[u][c] \in {"pend", "queued", "run"}
  PROVE  /\ nReply[c] = 0 /\ (task[u][c] # "run" => ran[c] = 0)
         /\ c \notin net /\ call[c] \notin {"idle", "unsent"}
         /\ \A w \in Subs : w # u => task[w][c] = "none"
BY DEF TokenInv

\* It stays so when the task goes on.
LEMMA Moved ==
  ASSUME TypeOK, TokenInv, NEW u \in Subs, NEW c \in Calls,
         task[u][c] \in {"pend", "queued", "run"},
         NEW st \in {"queued", "run", "done"}, task' = [task EXCEPT ![u][c] = st],
         UNCHANGED <<net, call>>,
         \A d \in Calls : d # c => ran'[d] = ran[d] /\ nReply'[d] = nReply[d],
         ran'[c] = 0 \/ (ran'[c] = 1 /\ st \in {"run", "done"}),
         nReply'[c] = 0 \/ (nReply'[c] = 1 /\ st = "done")
  PROVE  TokenInv'
<1>1. \A w \in Subs, d \in Calls : task'[w][d] = IF w = u /\ d = c THEN st ELSE task[w][d]
  BY DEF TypeOK
<1>2. /\ c \notin net /\ call[c] \notin {"idle", "unsent"}
      /\ \A w \in Subs : w # u => task[w][c] = "none"
  BY Moving
<1>3. TokenInv!(c)'
  BY <1>1, <1>2
<1>4. \A d \in Calls : d # c => TokenInv!(d)'
  BY <1>1 DEF TokenInv
<1> QED BY <1>3, <1>4 DEF TokenInv

\* Requests stay in one place.
LEMMA TokenStep ==
  ASSUME TypeOK, TokenInv, [Next]_vars
  PROVE  TokenInv'
<1> USE DEF srvVars, taskVars, netVars, cliVars
<1>1. ASSUME UNCHANGED <<net, call, ran, nReply>>,
             \A u \in Subs, c \in Calls :
               task'[u][c] = task[u][c] \/ (task[u][c] = "pend" /\ task'[u][c] = "dropped")
      PROVE  TokenInv'
  <2>1. \A u \in Subs, c \in Calls :
          /\ task'[u][c] = "none" <=> task[u][c] = "none"
          /\ task[u][c] \in {"run", "done"} => task'[u][c] = task[u][c]
    BY <1>1
  <2> QED BY <1>1, <2>1 DEF TokenInv
<1>2. ASSUME UNCHANGED <<net, call, ran, nReply, task>> PROVE TokenInv'
  BY <1>1, <1>2
<1>3. CASE UNCHANGED vars
  BY <1>2, <1>3 DEF vars
<1>4. ASSUME NEW s \in Servers, CloseBegin(s) \/ CloseEnd(s) PROVE TokenInv'
  BY <1>1, <1>2, <1>4, UnsubscribeDoes DEF CloseBegin, CloseEnd
<1>5. ASSUME NEW s \in Servers, NEW m \in Methods, RegistHandler(s, m) PROVE TokenInv'
  <2>1. CASE FlushFail(s, m)
    BY <1>1, <2>1, UnsubscribeDoes DEF FlushFail, UnsubOnError
  <2> QED BY <1>2, <1>5, <2>1 DEF RegistHandler, RegistFirst, RegistMore, FlushDone
<1>6. CASE Broker
  <2>1. ASSUME NEW c \in Calls, Route(c) PROVE TokenInv'
    <3>1. /\ c \in net /\ net' = net \ {c} /\ UNCHANGED <<call, ran, nReply>>
          /\ \A u \in Subs : task[u][c] = "none"
          /\ ran[c] = 0 /\ nReply[c] = 0 /\ call[c] \notin {"idle", "unsent"}
      BY <2>1 DEF Route, TokenInv
    <3>2. CASE UNCHANGED task
      BY <3>1, <3>2 DEF TokenInv
    <3>3. CASE ~UNCHANGED task
      <4>1. PICK U \in OneOf(Candidates(c)) :
              task' = [u \in Subs |-> IF u \in U
                        THEN [task[u] EXCEPT ![c] = IF subState[u] = "gone" THEN "dropped" ELSE "pend"]
                        ELSE task[u]]
        BY <2>1, <3>3 DEF Route
      <4>2. PICK u \in Subs : U = {u}
        BY DEF OneOf, Candidates, TypeOK
      <4>3. \A w \in Subs, d \in Calls : w # u \/ d # c => task'[w][d] = task[w][d]
        BY <4>1, <4>2 DEF TypeOK
      <4> QED BY <3>1, <4>3 DEF TokenInv
    <3> QED BY <3>2, <3>3
  <2>2. ASSUME NEW c \in Calls, Lose(c) PROVE TokenInv'
    <3>1. net' = net \ {c} /\ UNCHANGED <<call, ran, nReply, task>>
      BY <2>2 DEF Lose
    <3> QED BY <3>1 DEF TokenInv
  <2> QED BY <1>2, <1>6, <2>1, <2>2 DEF Broker, SubArrives, UnsubArrives
<1>7. ASSUME NEW u \in Subs, NEW c \in Calls,
             Submit(u, c) \/ Worker(u, c) \/ TaskExpires(u, c) \/ HandlerEnd(u, c)
      PROVE  TokenInv'
  <2>0. nReply \in [Calls -> Nat] /\ inbox \in [Calls -> SUBSET Response]
        /\ ran \in [Calls -> Nat]
    BY DEF TypeOK
  <2>1. CASE Submit(u, c)
    <3>1. task[u][c] = "pend" /\ UNCHANGED <<call, ran>>
      BY <2>1 DEF Submit
    <3>2. CASE task' = [task EXCEPT ![u][c] = "queued"] /\ UNCHANGED netVars
      BY <3>1, <3>2, Moving, Moved
    <3>3. CASE /\ task' = [task EXCEPT ![u][c] = "done"]
               /\ Reply(c, {ReplyError("submit task error")})
      <4>1. /\ nReply'[c] = nReply[c] + 1 /\ UNCHANGED net
            /\ \A d \in Calls : d # c => nReply'[d] = nReply[d]
        BY <2>0, <3>3, ErrorResponse, ReplyCounted
      <4>2. nReply'[c] = 1 /\ ran'[c] = 0
        BY <3>1, <4>1, Moving
      <4> QED BY <3>1, <3>3, <4>1, <4>2, Moved
    <3> QED BY <2>1, <3>2, <3>3 DEF Submit
  <2>2. CASE TaskRefused(u, c)
    <3>1. /\ task[u][c] = "queued" /\ UNCHANGED <<call, ran>>
          /\ task' = [task EXCEPT ![u][c] = "done"]
      BY <2>2 DEF TaskRefused, Begins
    <3>2. /\ nReply'[c] = nReply[c] + 1 /\ UNCHANGED net
          /\ \A d \in Calls : d # c => nReply'[d] = nReply[d]
      BY <2>0, <2>2, ErrorResponse, ReplyCounted DEF TaskRefused
    <3>3. nReply'[c] = 1 /\ ran'[c] = 0
      BY <3>1, <3>2, Moving
    <3> QED BY <3>1, <3>2, <3>3, Moved
  <2>3. CASE TaskNil(u, c)
    <3>1. /\ task[u][c] = "queued" /\ UNCHANGED <<call, ran, net, nReply>>
          /\ task' = [task EXCEPT ![u][c] = "done"]
      BY <2>3 DEF TaskNil, Begins
    <3> QED BY <3>1, Moving, Moved
  <2>4. CASE TaskStart(u, c)
    <3>1. /\ task[u][c] = "queued" /\ UNCHANGED <<call, net, nReply>>
          /\ task' = [task EXCEPT ![u][c] = "run"]
          /\ ran' = [ran EXCEPT ![c] = @ + 1]
      BY <2>4 DEF TaskStart, Begins
    <3>2. /\ ran'[c] = ran[c] + 1
          /\ \A d \in Calls : d # c => ran'[d] = ran[d]
      BY <2>0, <3>1
    <3>3. nReply'[c] = 0 /\ ran'[c] = 1
      BY <3>1, <3>2, Moving
    <3> QED BY <3>1, <3>2, <3>3, Moved
  <2>5. CASE TaskExpires(u, c)
    BY <1>2, <2>5 DEF TaskExpires
  <2>6. CASE HandlerEnd(u, c)
    <3>1. /\ task[u][c] = "run" /\ UNCHANGED <<call, ran>>
          /\ task' = [task EXCEPT ![u][c] = "done"]
      BY <2>6 DEF HandlerEnd
    <3>2. PICK o \in Outcomes \ {"none"} : Reply(c, Answer(o))
      BY <2>6 DEF HandlerEnd
    <3>3. /\ nReply'[c] \in {nReply[c], nReply[c] + 1} /\ UNCHANGED net
          /\ \A d \in Calls : d # c => nReply'[d] = nReply[d]
      BY <2>0, <3>2, AnswerIsOne, ReplyCounted
    <3>4. nReply'[c] \in {0, 1} /\ ran'[c] \in {0, 1}
      BY <3>1, <3>3, Moving DEF TokenInv
    <3> QED BY <3>1, <3>3, <3>4, Moved
  <2> QED BY <1>7, <2>1, <2>2, <2>3, <2>4, <2>5, <2>6 DEF Worker
<1>8. ASSUME NEW c \in Calls, Client(c) PROVE TokenInv'
  <2>1. CASE Call(c)
    <3>1. /\ call[c] = "idle" /\ net' = net \cup {c} /\ UNCHANGED <<ran, nReply, task>>
          /\ \A d \in Calls : call'[d] = IF d = c THEN "sent" ELSE call[d]
      BY <2>1 DEF Call, TypeOK
    <3> QED BY <3>1 DEF TokenInv
  <2>2. CASE CtxErr(c) \/ Receive(c)
    <3>1. /\ UNCHANGED <<ran, nReply, task, net>> /\ call[c] = "sent"
          /\ \A d \in Calls : call'[d] = IF d = c THEN "done" ELSE call[d]
      BY <2>2 DEF CtxErr, Receive, End, TypeOK
    <3> QED BY <3>1 DEF TokenInv
  <2>3. CASE CallRefused(c)
    <3>1. /\ UNCHANGED <<ran, nReply, task, net>> /\ call[c] = "idle"
          /\ \A d \in Calls : call'[d] = IF d = c THEN "unsent" ELSE call[d]
      BY <2>3 DEF CallRefused, TypeOK
    <3> QED BY <3>1 DEF TokenInv
  <2> QED BY <1>2, <1>8, <2>1, <2>2, <2>3 DEF Client, DeadlinePasses
<1> QED BY <1>3, <1>4, <1>5, <1>6, <1>7, <1>8 DEF Next, Terminated
-----------------------------------------------------------------------------
(***************************************************************************)
(* Subscriptions.                                                          *)
(***************************************************************************)
\* What methodMap.Regist does.
LEMMA RegistDoes ==
  ASSUME TypeOK, NEW u \in Subs, NEW m \in Methods, NEW h \in Handlers, Regist(u, m, h)
  PROVE  /\ \A w \in Subs, n \in Methods :
              methods'[w][n] = IF w = u /\ n = m THEN WrapMWs(h) ELSE methods[w][n]
         /\ \A t \in Servers, n \in Methods :
              registered'[t][n] = IF t = Owner(u) /\ n = m THEN h ELSE registered[t][n]
         /\ WrapMWs("fn") = "fn"
BY SubFields DEF Regist, TypeOK, WrapMWs

\* All that is said of subscriptions.
SubsOK == RegInv /\ SubInv /\ NoneOrphaned

\* Registering a method with its service's subscription keeps it.
LEMMA RegistKeeps ==
  ASSUME TypeOK, SubsOK, NEW s \in Servers, NEW m \in Methods, NEW h \in Handlers,
         RegistMore(s, m, h)
  PROVE  SubsOK'
<1> DEFINE u == svcSub[s][SvcOf[m]]
<1>1. u \in Subs /\ Owner(u) = s /\ u # NoSub
  BY SvcOfMethod DEF RegistMore, SubsOK, SubInv
<1>2. UNCHANGED <<srv, svcSub, reg, subState, onBroker>> /\ Regist(u, m, h)
  BY DEF RegistMore, netVars
<1> HIDE DEF u
<1>3. /\ \A w \in Subs, n \in Methods :
            methods'[w][n] = IF w = u /\ n = m THEN WrapMWs(h) ELSE methods[w][n]
      /\ \A t \in Servers, n \in Methods :
            registered'[t][n] = IF t = s /\ n = m THEN h ELSE registered[t][n]
      /\ WrapMWs("fn") = "fn"
  BY <1>1, <1>2, RegistDoes
<1>4. RegInv' /\ NoneOrphaned'
  BY <1>2 DEF SubsOK, RegInv, NoneOrphaned
<1>5. ASSUME NEW t \in Servers, NEW n \in Methods, registered'[t][n] = "fn"
      PROVE  /\ svcSub[t][SvcOf[n]] # NoSub
             /\ methods'[svcSub[t][SvcOf[n]]][n] = "fn"
  <2>1. CASE t = s /\ n = m
    BY <1>1, <1>3, <1>5, <2>1 DEF u
  <2>2. CASE ~(t = s /\ n = m)
    <3>1. /\ svcSub[t][SvcOf[n]] # NoSub
          /\ methods[svcSub[t][SvcOf[n]]][n] = "fn"
      BY <1>3, <1>5, <2>2 DEF SubsOK, SubInv
    <3>2. svcSub[t][SvcOf[n]] \in Subs /\ Owner(svcSub[t][SvcOf[n]]) = t
      BY <3>1, SvcOfMethod DEF SubsOK, SubInv
    <3> QED BY <1>1, <1>3, <2>2, <3>1, <3>2
  <2> QED BY <2>1, <2>2
<1>6. SubInv'
  BY <1>2, <1>5 DEF SubsOK, SubInv
<1> QED BY <1>4, <1>6 DEF SubsOK

\* So does making a subscription.
LEMMA SubscribeKeeps ==
  ASSUME TypeOK, SubsOK, NEW s \in Servers, NEW m \in Methods, NEW h \in Handlers,
         RegistFirst(s, m, h)
  PROVE  SubsOK'
<1>1. PICK u \in {s} \X {SvcOf[m]} \X (1..Attempts) :
        /\ subState[u] = "none"
        /\ subState' = [subState EXCEPT ![u] = "flush"]
        /\ reg' = [reg EXCEPT ![s][m] = {<<u, h>>}]
  BY DEF RegistFirst
<1>2. u \in Subs /\ Owner(u) = s /\ Service(u) = SvcOf[m]
  BY <1>1, SvcOfMethod DEF Subs, Owner, Service
<1>3. /\ UNCHANGED <<srv, svcSub, methods, registered, onBroker>>
      /\ srv[s] = "open" /\ svcSub[s][SvcOf[m]] = NoSub
      /\ \A n \in Methods : reg[s][n] = {}
  BY DEF RegistFirst, MuFree, netVars
<1>4. \A w \in Subs : subState'[w] = IF w = u THEN "flush" ELSE subState[w]
  BY <1>1, <1>2 DEF TypeOK
<1>5. \A t \in Servers, n \in Methods :
        reg'[t][n] = IF t = s /\ n = m THEN {<<u, h>>} ELSE reg[t][n]
  BY <1>1 DEF TypeOK
<1>6. RegInv'
  <2> SUFFICES ASSUME NEW t \in Servers, NEW n \in Methods, NEW e \in reg'[t][n]
               PROVE  RegInv!(t, n)!(e)'
    BY DEF RegInv
  <2>1. CASE t = s
    <3>1. n = m /\ e = <<u, h>>
      BY <1>3, <1>5, <2>1
    <3> QED BY <1>2, <1>3, <1>4, <1>5, <2>1, <3>1
  <2>2. CASE t # s
    <3>1. e \in reg[t][n]
      BY <1>5, <2>2
    <3>2. /\ srv[t] = "open" /\ svcSub[t][SvcOf[n]] = NoSub
          /\ e[1] \in Subs /\ Owner(e[1]) = t /\ Service(e[1]) = SvcOf[n]
          /\ subState[e[1]] = "flush"
          /\ \A k \in Methods : \A f \in reg[t][k] : n = k /\ e = f
      BY <3>1 DEF SubsOK, RegInv
    <3> QED BY <1>2, <1>3, <1>4, <1>5, <2>2, <3>2
  <2> QED BY <2>1, <2>2
<1>7. SubInv'
  BY <1>1, <1>2, <1>3, <1>4 DEF SubsOK, SubInv
<1>8. NoneOrphaned'
  <2> SUFFICES ASSUME NEW w \in Subs PROVE NoneOrphaned!(w)'
    BY DEF NoneOrphaned
  <2>1. CASE w = u
    BY <1>2, <1>3, <1>4, <1>5, <2>1
  <2>2. CASE w # u
    <3>1. NoneOrphaned!(w) /\ subState'[w] = subState[w]
      BY <1>4, <2>2 DEF SubsOK, NoneOrphaned
    <3>2. ASSUME subState[w] = "flush", NEW n \in Methods, NEW k \in Handlers,
                 <<w, k>> \in reg[Owner(w)][n]
          PROVE  <<w, k>> \in reg'[Owner(w)][n]
      BY <1>3, <1>5, <3>2, SubFields
    <3> QED BY <1>3, <3>1, <3>2
  <2> QED BY <2>1, <2>2
<1> QED BY <1>6, <1>7, <1>8 DEF SubsOK
\* So does storing it.
LEMMA FlushKeeps ==
  ASSUME TypeOK, SubsOK, NEW s \in Servers, NEW m \in Methods, FlushDone(s, m)
  PROVE  SubsOK'
<1>1. PICK u \in Subs, h \in Handlers :
        /\ <<u, h>> \in reg[s][m]
        /\ u \in onBroker
        /\ subState' = [subState EXCEPT ![u] = "active"]
        /\ svcSub' = [svcSub EXCEPT ![s][SvcOf[m]] = u]
        /\ Regist(u, m, h)
  BY DEF FlushDone, Flushed
<1>2. /\ UNCHANGED <<srv, onBroker>>
      /\ \A t \in Servers, n \in Methods :
           reg'[t][n] = IF t = s /\ n = m THEN {} ELSE reg[t][n]
  BY DEF FlushDone, netVars, TypeOK
<1>3. /\ srv[s] = "open" /\ svcSub[s][SvcOf[m]] = NoSub
      /\ Owner(u) = s /\ Service(u) = SvcOf[m]
      /\ \A n \in Methods : \A f \in reg[s][n] : m = n /\ <<u, h>> = f
  BY <1>1 DEF SubsOK, RegInv
<1>4. \A w \in Subs : subState'[w] = IF w = u THEN "active" ELSE subState[w]
  BY <1>1 DEF TypeOK
<1>5. \A t \in Servers, v \in Svcs :
        svcSub'[t][v] = IF t = s /\ v = SvcOf[m] THEN u ELSE svcSub[t][v]
  BY <1>1, SvcOfMethod DEF TypeOK
<1>6. \A n \in Methods : reg'[s][n] = {}
  BY <1>2, <1>3
<1>7. RegInv'
  <2> SUFFICES ASSUME NEW t \in Servers, NEW n \in Methods, NEW e \in reg'[t][n]
               PROVE  RegInv!(t, n)!(e)'
    BY DEF RegInv
  <2>1. t # s /\ e \in reg[t][n] /\ \A k \in Methods : reg'[t][k] = reg[t][k]
    BY <1>2, <1>6
  <2>2. /\ srv[t] = "open" /\ svcSub[t][SvcOf[n]] = NoSub
        /\ e[1] \in Subs /\ Owner(e[1]) = t /\ Service(e[1]) = SvcOf[n]
        /\ subState[e[1]] = "flush"
        /\ \A k \in Methods : \A f \in reg[t][k] : n = k /\ e = f
    BY <2>1 DEF SubsOK, RegInv
  <2> QED BY <1>2, <1>3, <1>4, <1>5, <2>1, <2>2, SvcOfMethod
<1>8. /\ \A w \in Subs, n \in Methods :
            methods'[w][n] = IF w = u /\ n = m THEN WrapMWs(h) ELSE methods[w][n]
      /\ \A t \in Servers, n \in Methods :
            registered'[t][n] = IF t = s /\ n = m THEN h ELSE registered[t][n]
      /\ WrapMWs("fn") = "fn"
  BY <1>1, <1>3, RegistDoes
<1>9. SubInv'
  <2>1. ASSUME NEW t \in Servers, NEW v \in Svcs, svcSub'[t][v] # NoSub
        PROVE  /\ svcSub'[t][v] \in Subs
               /\ Owner(svcSub'[t][v]) = t /\ Service(svcSub'[t][v]) = v
               /\ srv'[t] # "closed" => subState'[svcSub'[t][v]] = "active"
    <3>1. CASE t = s /\ v = SvcOf[m]
      BY <1>1, <1>3, <1>4, <1>5, <3>1
    <3>2. CASE ~(t = s /\ v = SvcOf[m])
      <4>1. svcSub'[t][v] = svcSub[t][v]
        BY <1>5, <3>2
      <4>2. /\ svcSub[t][v] \in Subs
            /\ Owner(svcSub[t][v]) = t /\ Service(svcSub[t][v]) = v
            /\ srv[t] # "closed" => subState[svcSub[t][v]] = "active"
        BY <2>1, <4>1 DEF SubsOK, SubInv
      <4> QED BY <1>2, <1>4, <4>1, <4>2
    <3> QED BY <3>1, <3>2
  <2>2. \A w \in Subs : subState'[w] = "active" => w \in onBroker'
    BY <1>1, <1>2, <1>4 DEF SubsOK, SubInv
  <2>3. ASSUME NEW t \in Servers, NEW n \in Methods, registered'[t][n] = "fn"
        PROVE  /\ svcSub'[t][SvcOf[n]] # NoSub
               /\ methods'[svcSub'[t][SvcOf[n]]][n] = "fn"
    <3>1. CASE t = s /\ n = m
      BY <1>1, <1>5, <1>8, <2>3, <3>1, NoSubIsNone, SvcOfMethod
    <3>2. CASE ~(t = s /\ n = m)
      <4>1. /\ svcSub[t][SvcOf[n]] # NoSub
            /\ methods[svcSub[t][SvcOf[n]]][n] = "fn"
        BY <1>8, <2>3, <3>2 DEF SubsOK, SubInv
      <4>2. svcSub[t][SvcOf[n]] \in Subs /\ svcSub'[t][SvcOf[n]] = svcSub[t][SvcOf[n]]
        BY <1>3, <1>5, <4>1, SvcOfMethod DEF SubsOK, SubInv
      <4> QED BY <1>8, <3>2, <4>1, <4>2, <1>3, SvcOfMethod DEF SubsOK, SubInv
    <3> QED BY <3>1, <3>2
  <2> QED BY <2>1, <2>2, <2>3 DEF SubInv
<1>10. NoneOrphaned'
  <2> SUFFICES ASSUME NEW w \in Subs PROVE NoneOrphaned!(w)'
    BY DEF NoneOrphaned
  <2>0. Owner(w) \in Servers /\ Service(w) \in Svcs
    BY SubFields
  <2>1. CASE w = u
    BY <1>2, <1>3, <1>4, <1>5, <2>0, <2>1
  <2>2. CASE w # u
    <3>1. NoneOrphaned!(w) /\ subState'[w] = subState[w]
      BY <1>4, <2>2 DEF SubsOK, NoneOrphaned
    <3>2. CASE subState[w] \in {"none", "gone"}
      BY <3>1, <3>2
    <3>3. CASE subState[w] = "active"
      <4>1. svcSub[Owner(w)][Service(w)] = w /\ srv[Owner(w)] # "closed"
        BY <3>1, <3>3
      <4> QED BY <1>2, <1>3, <1>5, <2>0, <3>1, <3>3, <4>1, NoSubIsNone
    <3>4. CASE subState[w] = "flush"
      <4>1. PICK n \in Methods, k \in Handlers : <<w, k>> \in reg[Owner(w)][n]
        BY <3>1, <3>4
      <4>2. Owner(w) # s
        BY <1>3, <2>2, <4>1
      <4> QED BY <1>2, <2>0, <3>1, <3>4, <4>1, <4>2
    <3> QED BY <3>2, <3>3, <3>4, <3>1 DEF TypeOK
  <2> QED BY <2>1, <2>2
<1> QED BY <1>7, <1>9, <1>10 DEF SubsOK
\* So does giving it up.
LEMMA FlushFailKeeps ==
  ASSUME TypeOK, SubsOK, NEW s \in Servers, NEW m \in Methods, FlushFail(s, m)
  PROVE  SubsOK'
<1> DEFINE U == {uh[1] : uh \in reg[s][m]}
<1>1. /\ UNCHANGED <<srv, svcSub, methods, registered, onBroker>> /\ Unsubscribe(U)
      /\ \A t \in Servers, n \in Methods :
           reg'[t][n] = IF t = s /\ n = m THEN {} ELSE reg[t][n]
  BY DEF FlushFail, UnsubOnError, netVars, TypeOK
<1>2. PICK e \in reg[s][m] : TRUE
  BY DEF FlushFail
<1>3. /\ srv[s] = "open" /\ e[1] \in Subs
      /\ Owner(e[1]) = s /\ subState[e[1]] = "flush"
      /\ \A n \in Methods : \A f \in reg[s][n] : m = n /\ e = f
  BY <1>2 DEF SubsOK, RegInv
<1>4. U = {e[1]}
  BY <1>2, <1>3
<1> HIDE DEF U
<1>5. \A w \in Subs : subState'[w] = IF w = e[1] THEN "gone" ELSE subState[w]
  BY <1>1, <1>4, UnsubscribeDoes
<1>6. \A n \in Methods : reg'[s][n] = {}
  BY <1>1, <1>3
<1>7. RegInv'
  <2> SUFFICES ASSUME NEW t \in Servers, NEW n \in Methods, NEW f \in reg'[t][n]
               PROVE  RegInv!(t, n)!(f)'
    BY DEF RegInv
  <2>1. t # s /\ f \in reg[t][n] /\ \A k \in Methods : reg'[t][k] = reg[t][k]
    BY <1>1, <1>6
  <2>2. /\ srv[t] = "open" /\ svcSub[t][SvcOf[n]] = NoSub
        /\ f[1] \in Subs /\ Owner(f[1]) = t /\ Service(f[1]) = SvcOf[n]
        /\ subState[f[1]] = "flush"
        /\ \A k \in Methods : \A g \in reg[t][k] : n = k /\ f = g
    BY <2>1 DEF SubsOK, RegInv
  <2> QED BY <1>1, <1>3, <1>5, <2>1, <2>2
<1>8. SubInv'
  BY <1>1, <1>3, <1>5 DEF SubsOK, SubInv
<1>9. NoneOrphaned'
  <2> SUFFICES ASSUME NEW w \in Subs PROVE NoneOrphaned!(w)'
    BY DEF NoneOrphaned
  <2>1. CASE w = e[1]
    BY <1>5, <2>1
  <2>2. CASE w # e[1]
    <3>1. NoneOrphaned!(w) /\ subState'[w] = subState[w]
      BY <1>5, <2>2 DEF SubsOK, NoneOrphaned
    <3>2. ASSUME NEW n \in Methods, NEW k \in Handlers, <<w, k>> \in reg[Owner(w)][n]
          PROVE  <<w, k>> \in reg'[Owner(w)][n]
      BY <1>1, <1>3, <2>2, <3>2, SubFields
    <3> QED BY <1>1, <3>1, <3>2
  <2> QED BY <2>1, <2>2
<1> QED BY <1>7, <1>8, <1>9 DEF SubsOK

\* So does Close, when no registration is in Flush.
LEMMA CloseKeeps ==
  ASSUME TypeOK, SubsOK, NEW s \in Servers, CloseBegin(s) \/ CloseEnd(s)
  PROVE  SubsOK'
<1>1. /\ UNCHANGED <<svcSub, methods, reg, registered, onBroker>>
      /\ \A t \in Servers : t # s => srv'[t] = srv[t]
  BY DEF CloseBegin, CloseEnd, netVars, TypeOK
<1>2. CASE CloseBegin(s)
  <2>1. /\ \A n \in Methods : reg[s][n] = {}
        /\ srv[s] = "open" /\ srv'[s] = "closing" /\ UNCHANGED subState
    BY <1>2 DEF CloseBegin, MuFree, TypeOK
  <2>2. RegInv'
    BY <1>1, <2>1 DEF SubsOK, RegInv
  <2>3. SubInv'
    BY <1>1, <2>1 DEF SubsOK, SubInv
  <2>4. NoneOrphaned'
    <3> SUFFICES ASSUME NEW w \in Subs PROVE NoneOrphaned!(w)'
      BY DEF NoneOrphaned
    <3>1. NoneOrphaned!(w) /\ Owner(w) \in Servers
      BY SubFields DEF SubsOK, NoneOrphaned
    <3> QED BY <1>1, <2>1, <3>1
  <2> QED BY <2>2, <2>3, <2>4 DEF SubsOK
<1>3. CASE CloseEnd(s)
  <2> DEFINE U == {svcSub[s][v] : v \in Svcs}
  <2>1. srv[s] = "closing" /\ srv'[s] = "closed" /\ Unsubscribe(U)
    BY <1>3 DEF CloseEnd, TypeOK
  <2>2. \A w \in Subs : subState'[w] = IF w \in U THEN "gone" ELSE subState[w]
    BY <2>1, UnsubscribeDoes
  <2>3. \A n \in Methods : reg[s][n] = {}
    BY <2>1 DEF SubsOK, RegInv
  <2>4. \A w \in Subs : w \in U => Owner(w) = s /\ subState[w] = "active"
    BY <2>1, NoSubIsNone DEF SubsOK, SubInv
  <2>5. \A w \in Subs : subState[w] = "active" /\ Owner(w) = s => w \in U
    BY SubFields DEF SubsOK, NoneOrphaned
  <2> HIDE DEF U
  <2>6. RegInv'
    <3> SUFFICES ASSUME NEW t \in Servers, NEW n \in Methods, NEW f \in reg'[t][n]
                 PROVE  RegInv!(t, n)!(f)'
      BY DEF RegInv
    <3>1. t # s /\ f \in reg[t][n]
      BY <1>1, <2>3
    <3>2. /\ srv[t] = "open" /\ svcSub[t][SvcOf[n]] = NoSub
          /\ f[1] \in Subs /\ Owner(f[1]) = t /\ Service(f[1]) = SvcOf[n]
          /\ subState[f[1]] = "flush"
          /\ \A k \in Methods : \A g \in reg[t][k] : n = k /\ f = g
      BY <3>1 DEF SubsOK, RegInv
    <3> QED BY <1>1, <2>2, <2>4, <3>1, <3>2
  <2>7. SubInv'
    <3>1. ASSUME NEW t \in Servers, NEW v \in Svcs, svcSub[t][v] # NoSub
          PROVE  /\ svcSub[t][v] \in Subs
                 /\ Owner(svcSub[t][v]) = t /\ Service(svcSub[t][v]) = v
                 /\ srv'[t] # "closed" => subState'[svcSub[t][v]] = "active"
      <4>1. /\ svcSub[t][v] \in Subs
            /\ Owner(svcSub[t][v]) = t /\ Service(svcSub[t][v]) = v
            /\ srv[t] # "closed" => subState[svcSub[t][v]] = "active"
        BY <3>1 DEF SubsOK, SubInv
      <4> QED BY <1>1, <2>1, <2>2, <2>4, <4>1
    <3>2. \A u \in Subs : subState'[u] = "active" => u \in onBroker
      BY <2>2 DEF SubsOK, SubInv
    <3> QED BY <1>1, <3>1, <3>2 DEF SubsOK, SubInv
  <2>8. NoneOrphaned'
    <3> SUFFICES ASSUME NEW w \in Subs PROVE NoneOrphaned!(w)'
      BY DEF NoneOrphaned
    <3>1. NoneOrphaned!(w)
      BY DEF SubsOK, NoneOrphaned
    <3> QED BY <1>1, <2>1, <2>2, <2>5, <3>1, SubFields
  <2> QED BY <2>6, <2>7, <2>8 DEF SubsOK
<1> QED BY <1>2, <1>3

\* Every step keeps what is said of subscriptions.
LEMMA SubsStep ==
  ASSUME TypeOK, SubsOK, [Next]_vars
  PROVE  SubsOK'
<1> USE DEF srvVars, taskVars, netVars, cliVars
<1>1. ASSUME UNCHANGED <<srvVars, onBroker>> PROVE SubsOK'
  <2>1. RegInv' /\ NoneOrphaned'
    BY <1>1 DEF SubsOK, RegInv, NoneOrphaned
  <2>2. SubInv'
    BY <1>1 DEF SubsOK, SubInv
  <2> QED BY <2>1, <2>2 DEF SubsOK
<1>2. CASE UNCHANGED vars
  BY <1>1, <1>2 DEF vars
<1>3. ASSUME NEW s \in Servers, CloseBegin(s) \/ CloseEnd(s) PROVE SubsOK'
  BY <1>3, CloseKeeps
<1>4. ASSUME NEW s \in Servers, NEW m \in Methods, RegistHandler(s, m) PROVE SubsOK'
  BY <1>4, SubscribeKeeps, RegistKeeps, FlushKeeps, FlushFailKeeps DEF RegistHandler
<1>5. CASE Broker
  <2>1. ASSUME NEW u \in Subs, SubArrives(u) \/ UnsubArrives(u) PROVE SubsOK'
    <3>1. /\ UNCHANGED srvVars
          /\ \A w \in Subs : subState[w] = "active" /\ w \in onBroker => w \in onBroker'
      BY <2>1 DEF SubArrives, UnsubArrives
    <3> QED BY <3>1 DEF SubsOK, RegInv, SubInv, NoneOrphaned
  <2>2. ASSUME NEW c \in Calls, Route(c) \/ Lose(c) PROVE SubsOK'
    <3>1. UNCHANGED <<srvVars, onBroker>>
      BY <2>2, Zenon DEF Route, Lose
    <3> QED BY <1>1, <3>1
  <2> QED BY <1>5, <2>1, <2>2 DEF Broker
<1>6. ASSUME NEW u \in Subs, NEW c \in Calls,
             Submit(u, c) \/ Worker(u, c) \/ TaskExpires(u, c) \/ HandlerEnd(u, c)
      PROVE  SubsOK'
  <2>1. CASE Submit(u, c)
    <3>1. UNCHANGED srvVars /\ UNCHANGED onBroker
      BY <2>1, Zenon DEF Submit, Reply
    <3> QED BY <1>1, <3>1
  <2>2. CASE Worker(u, c) \/ TaskExpires(u, c)
    <3>1. UNCHANGED srvVars /\ UNCHANGED onBroker
      BY <2>2 DEF Worker, TaskRefused, TaskNil, TaskStart, TaskExpires, Reply
    <3> QED BY <1>1, <3>1
  <2>3. CASE HandlerEnd(u, c)
    <3>1. UNCHANGED srvVars /\ UNCHANGED onBroker
      BY <2>3 DEF HandlerEnd, Reply
    <3> QED BY <1>1, <3>1
  <2> QED BY <1>6, <2>1, <2>2, <2>3
<1>7. ASSUME NEW c \in Calls, Client(c) PROVE SubsOK'
  <2>1. UNCHANGED srvVars /\ UNCHANGED onBroker
    BY <1>7 DEF Client, CallRefused, Call, DeadlinePasses, CtxErr, Receive
  <2> QED BY <1>1, <2>1
<1> QED BY <1>2, <1>3, <1>4, <1>5, <1>6, <1>7 DEF Next, Terminated
-----------------------------------------------------------------------------
(***************************************************************************)
(* Replies and results.                                                    *)
(***************************************************************************)
\* What has happened to a call stays, as far as it is not touched.
LEMMA ReplyKept ==
  ASSUME ReplyInv, NEW c \in Calls,
         outcome'[c] = outcome[c], ran'[c] = ran[c], nReply'[c] = nReply[c],
         inbox'[c] \subseteq inbox[c],
         \/ result'[c] = result[c] /\ (call'[c] = "unsent" <=> call[c] = "unsent")
         \/ result'[c] \in Own /\ call'[c] # "unsent"
         \/ result'[c] \in {"EncodeRequestError", "CtxErr"} /\ call'[c] = "unsent"
  PROVE  ReplyInv!(c)'
<1>1. ReplyInv!(c)
  BY DEF ReplyInv
<1>2. \A r : Honest(c, r) => Honest(c, r)'
  BY DEF Honest
<1>3. call'[c] = "unsent" => result'[c] \in {"EncodeRequestError", "CtxErr"}
  BY <1>1 DEF Own
<1>4. Unheard(c)' \/ (result'[c] = result[c] /\ (Unheard(c)' <=> Unheard(c)))
  BY DEF Unheard
<1>5. Unheard(c) => Unheard(c)'
  BY <1>4
<1>6. Unheard(c)' \/ Honest(c, result[c])'
  <2>1. CASE Unheard(c)'
    BY <2>1
  <2>2. CASE ~Unheard(c)'
    <3>1. Honest(c, result[c]) /\ result'[c] = result[c]
      BY <1>1, <1>4, <2>2
    <3> QED BY <3>1 DEF Honest
  <2> QED BY <2>1, <2>2
<1> QED BY <1>1, <1>2, <1>3, <1>5, <1>6

\* A request that is answered with R had no answer.
LEMMA Replied ==
  ASSUME TypeOK, TokenInv, ReplyInv, NEW u \in Subs, NEW c \in Calls,
         task[u][c] \in {"pend", "queued", "run"},
         NEW R, R = {} \/ \E r \in Response : R = {r}, Reply(c, R),
         UNCHANGED <<call, result>>,
         \A d \in Calls : d # c => outcome'[d] = outcome[d] /\ ran'[d] = ran[d],
         \A r \in R : \A res \in FromResponse(r) : Honest(c, res)'
  PROVE  ReplyInv'
<1>1. /\ nReply'[c] = nReply[c] + (IF R = {} THEN 0 ELSE 1)
      /\ inbox'[c] = inbox[c] \cup R
      /\ \A d \in Calls : d # c => nReply'[d] = nReply[d] /\ inbox'[d] = inbox[d]
  BY ReplyCounted DEF TypeOK
<1>2. nReply[c] = 0 /\ inbox[c] = {} /\ Unheard(c) /\ ReplyInv!(c)
  BY Moving DEF ReplyInv
<1>3. Unheard(c)'
  BY <1>2 DEF Unheard
<1>4. ReplyInv!(c)'
  BY <1>1, <1>2, <1>3
<1>5. ASSUME NEW d \in Calls, d # c PROVE ReplyInv!(d)'
  BY <1>1, <1>5, ReplyKept
<1> QED BY <1>4, <1>5 DEF ReplyInv

\* Results and replies on their way stay honest.
LEMMA ReplyStep ==
  ASSUME TypeOK, TokenInv, ReplyInv, [Next]_vars
  PROVE  ReplyInv'
<1> USE DEF srvVars, taskVars, netVars, cliVars
<1>1. ASSUME UNCHANGED <<outcome, ran, nReply, inbox, call, result>> PROVE ReplyInv'
  BY <1>1, ReplyKept DEF ReplyInv
<1>2. CASE UNCHANGED vars
  BY <1>1, <1>2 DEF vars
<1>3. ASSUME NEW s \in Servers, CloseBegin(s) \/ CloseEnd(s) PROVE ReplyInv'
  BY <1>1, <1>3 DEF CloseBegin, CloseEnd
<1>4. ASSUME NEW s \in Servers, NEW m \in Methods, RegistHandler(s, m) PROVE ReplyInv'
  BY <1>1, <1>4 DEF RegistHandler, RegistFirst, RegistMore, FlushDone, FlushFail
<1>5. CASE Broker
  <2>1. ASSUME NEW u \in Subs, SubArrives(u) \/ UnsubArrives(u) PROVE ReplyInv'
    BY <1>1, <2>1 DEF SubArrives, UnsubArrives
  <2>2. ASSUME NEW c \in Calls, Route(c) PROVE ReplyInv'
    <3>1. UNCHANGED <<outcome, ran, nReply, inbox, call, result>>
      BY <2>2, Zenon DEF Route
    <3> QED BY <1>1, <3>1
  <2>3. ASSUME NEW c \in Calls, Lose(c) PROVE ReplyInv'
    <3>1. /\ UNCHANGED <<outcome, ran, nReply, call, result>>
          /\ \A d \in Calls : inbox'[d] \subseteq inbox[d]
      BY <2>3 DEF Lose, TypeOK
    <3>2. \A d \in Calls : ReplyInv!(d)'
      BY <3>1, ReplyKept
    <3> QED BY <3>2 DEF ReplyInv
  <2> QED BY <1>5, <2>1, <2>2, <2>3 DEF Broker
<1>6. ASSUME NEW u \in Subs, NEW c \in Calls,
             Submit(u, c) \/ Worker(u, c) \/ TaskExpires(u, c) \/ HandlerEnd(u, c)
      PROVE  ReplyInv'
  <2>1. CASE Submit(u, c)
    <3>1. task[u][c] = "pend" /\ UNCHANGED <<outcome, ran, call, result>>
      BY <2>1, Zenon DEF Submit
    <3>2. CASE UNCHANGED netVars
      BY <1>1, <3>1, <3>2
    <3>3. CASE Reply(c, {ReplyError("submit task error")})
      <4>1. PICK r \in Response :
              r = ReplyError("submit task error") /\ FromResponse(r) = {"Err"}
        BY ErrorResponse DEF RpcErrors
      <4>2. Honest(c, "Err")'
        BY <3>1, Moving DEF Honest, RpcErrors
      <4>3. Reply(c, {r}) /\ \A q \in {r} : \A res \in FromResponse(q) : Honest(c, res)'
        BY <3>3, <4>1, <4>2
      <4> QED BY <3>1, <4>3, Replied
    <3> QED BY <2>1, <3>2, <3>3, Zenon DEF Submit
  <2>2. CASE TaskRefused(u, c)
    <3>1. PICK e \in {"MethodNotFound", "DecodeRequestError"} : Reply(c, {ReplyError(e)})
      BY <2>2 DEF TaskRefused
    <3>2. task[u][c] = "queued" /\ UNCHANGED <<outcome, ran, call, result>>
      BY <2>2, Zenon DEF TaskRefused, Begins
    <3>3. ReplyError(e) \in Response /\ FromResponse(ReplyError(e)) = {e}
      BY ErrorResponse DEF RpcErrors
    <3>4. Honest(c, e)'
      BY <3>2, Moving DEF Honest
    <3> QED BY <3>1, <3>2, <3>3, <3>4, Replied
  <2>3. CASE TaskNil(u, c) \/ TaskStart(u, c)
    <3>1. /\ task[u][c] = "queued" /\ UNCHANGED <<nReply, inbox, call, result>>
          /\ \A d \in Calls : d # c => outcome'[d] = outcome[d] /\ ran'[d] = ran[d]
      BY <2>3 DEF TaskNil, TaskStart, Begins, TypeOK
    <3>2. nReply[c] = 0 /\ inbox[c] = {} /\ Unheard(c) /\ ReplyInv!(c)
      BY <3>1, Moving DEF ReplyInv
    <3>3. Unheard(c)'
      BY <3>1, <3>2 DEF Unheard
    <3>4. ReplyInv!(c)'
      BY <3>1, <3>2, <3>3
    <3>5. ASSUME NEW d \in Calls, d # c PROVE ReplyInv!(d)'
      BY <3>1, <3>5, ReplyKept
    <3> QED BY <3>4, <3>5 DEF ReplyInv
  <2>4. CASE TaskExpires(u, c)
    BY <1>1, <2>4 DEF TaskExpires
  <2>5. CASE HandlerEnd(u, c)
    <3>1. PICK o \in Outcomes \ {"none"} :
            outcome' = [outcome EXCEPT ![c] = o] /\ Reply(c, Answer(o))
      BY <2>5 DEF HandlerEnd
    <3>2. task[u][c] = "run" /\ UNCHANGED <<ran, call, result>>
      BY <2>5, Zenon DEF HandlerEnd
    <3>3. outcome'[c] = o /\ \A d \in Calls : d # c => outcome'[d] = outcome[d]
      BY <3>1 DEF TypeOK
    <3>4. \A res \in HonestAnswer(o) : Honest(c, res)'
      BY <3>3 DEF HonestAnswer, Honest, RpcErrors
    <3> QED BY <3>1, <3>2, <3>3, <3>4, AnswerIsOne, Replied
  <2> QED BY <1>6, <2>1, <2>2, <2>3, <2>4, <2>5 DEF Worker
<1>7. ASSUME NEW c \in Calls, Client(c) PROVE ReplyInv'
  <2>0. call \in [Calls -> {"idle", "sent", "done", "unsent"}] /\ result \in [Calls -> Results]
    BY DEF TypeOK
  <2>1. CASE DeadlinePasses(c)
    BY <1>1, <2>1 DEF DeadlinePasses
  <2>2. CASE Call(c) \/ CallRefused(c) \/ CtxErr(c)
    <3>1. UNCHANGED <<outcome, ran, nReply, inbox>>
      BY <2>2 DEF Call, CallRefused, CtxErr
    <3>2. \/ /\ UNCHANGED result /\ call[c] = "idle"
             /\ call' = [call EXCEPT ![c] = "sent"]
          \/ /\ result' = [result EXCEPT ![c] = "CtxErr"]
             /\ call' = [call EXCEPT ![c] = "done"]
          \/ \E r \in {"EncodeRequestError", "CtxErr"} :
               /\ result' = [result EXCEPT ![c] = r]
               /\ call' = [call EXCEPT ![c] = "unsent"]
      BY <2>2 DEF Call, CallRefused, CtxErr, End
    <3>3. \A d \in Calls :
            \/ result'[d] = result[d] /\ (call'[d] = "unsent" <=> call[d] = "unsent")
            \/ result'[d] \in Own /\ call'[d] # "unsent"
            \/ result'[d] \in {"EncodeRequestError", "CtxErr"} /\ call'[d] = "unsent"
      BY <2>0, <3>2 DEF Own
    <3>4. \A d \in Calls : ReplyInv!(d)'
      BY <3>1, <3>3, ReplyKept
    <3> QED BY <3>4 DEF ReplyInv
  <2>3. CASE Receive(c)
    <3>1. PICK r \in inbox[c] : \E res \in FromResponse(r) : End(c, res)
      BY <2>3 DEF Receive
    <3>2. PICK res \in FromResponse(r) : result' = [result EXCEPT ![c] = res]
      BY <3>1 DEF End
    <3>3. Honest(c, res) /\ nReply[c] # 0
      BY <3>1, <3>2 DEF ReplyInv
    <3>4. /\ UNCHANGED <<outcome, ran, nReply>>
          /\ inbox'[c] = {} /\ \A d \in Calls : d # c => inbox'[d] = inbox[d]
      BY <2>3 DEF Receive, TypeOK
    <3>5. /\ result'[c] = res /\ \A d \in Calls : d # c => result'[d] = result[d]
          /\ call'[c] = "done" /\ \A d \in Calls : d # c => call'[d] = call[d]
      BY <2>0, <2>3, <3>2 DEF Receive, End
    <3>6. Honest(c, result[c])'
      BY <3>3, <3>4, <3>5 DEF Honest
    <3>7. ReplyInv!(c)'
      BY <3>3, <3>4, <3>5, <3>6
    <3>8. ASSUME NEW d \in Calls, d # c PROVE ReplyInv!(d)'
      BY <3>4, <3>5, <3>8, ReplyKept
    <3> QED BY <3>7, <3>8 DEF ReplyInv
  <2> QED BY <1>7, <2>1, <2>2, <2>3 DEF Client
<1> QED BY <1>2, <1>3, <1>4, <1>5, <1>6, <1>7 DEF Next, Terminated

-----------------------------------------------------------------------------
(***************************************************************************)
(* The theorems.                                                           *)
(***************************************************************************)
\* The inductive invariant holds in the initial states.
LEMMA InitOK == Init => IndInv
<1> SUFFICES ASSUME Init PROVE IndInv
  OBVIOUS
<1>1. TypeOK
  BY NoSubIsNone DEF Init, TypeOK, Handlers, Results, Outcomes
<1>2. TokenInv
  BY DEF Init, TokenInv
<1>3. RegInv
  BY DEF Init, RegInv
<1>4. SubInv /\ NoneOrphaned
  BY SvcOfMethod DEF Init, SubInv, NoneOrphaned
<1>5. ReplyInv
  BY DEF Init, ReplyInv, Unheard, Own
<1> QED BY <1>1, <1>2, <1>3, <1>4, <1>5 DEF IndInv

\* Of ServerConns, the requests to them and the calls made: where a request is,
\* what is said of subscriptions, and what responses and results say holds in
\* every state of natsrpc.
THEOREM Invariance == Spec => []IndInv
<1>1. IndInv /\ [Next]_vars => IndInv'
  <2> SUFFICES ASSUME IndInv, [Next]_vars PROVE IndInv'
    OBVIOUS
  <2>1. TypeOK' /\ TokenInv' /\ ReplyInv'
    BY TypeStep, TokenStep, ReplyStep DEF IndInv
  <2>2. SubsOK'
    BY SubsStep DEF IndInv, SubsOK
  <2> QED BY <2>1, <2>2 DEF IndInv, SubsOK
<1> QED BY <1>1, InitOK, PTL DEF Spec

\* The state of ServerConns, requests and calls is well typed.
THEOREM TypeCorrect == Spec => []TypeOK
<1>1. IndInv => TypeOK
  BY DEF IndInv
<1> QED BY <1>1, Invariance, PTL

\* A request is handled at most once, and answered at most once, by the
\* ServerConns of its group together.
THEOREM HandledAtMostOnce == Spec => []AtMostOnce
<1>1. IndInv => AtMostOnce
  BY DEF IndInv, TokenInv, AtMostOnce
<1> QED BY <1>1, Invariance, PTL

\* A method that RegistHandler has registered is served: its subscription is on
\* nats-server and its handler in the method map of that subscription.
THEOREM RegisteredIsReachable == Spec => []RegisteredReachable
<1>1. IndInv => RegisteredReachable
  BY SvcOfMethod DEF IndInv, SubInv, RegisteredReachable
<1> QED BY <1>1, Invariance, PTL

\* No subscription outlives its ServerConn or a registration that failed.
THEOREM NoSubscriptionOrphaned == Spec => []NoneOrphaned
<1>1. IndInv => NoneOrphaned
  BY DEF IndInv
<1> QED BY <1>1, Invariance, PTL

\* What a call returns is what happened at the server.
THEOREM ResultsAreHonest == Spec => []HonestResult
<1>1. IndInv => HonestResult
  <2> SUFFICES ASSUME IndInv, NEW c \in Calls PROVE HonestResult!(c)
    BY DEF HonestResult
  <2>1. CASE call[c] = "unsent"
    <3>1. ran[c] = 0 /\ result[c] \in {"EncodeRequestError", "CtxErr"}
      BY <2>1 DEF IndInv, TokenInv, ReplyInv
    <3> QED BY <2>1, <3>1 DEF RpcErrors
  <2>2. CASE result[c] \in Own
    BY <2>2 DEF Own, RpcErrors
  <2>3. CASE Honest(c, result[c])
    BY <2>3 DEF Honest
  <2> QED BY <2>1, <2>2, <2>3 DEF IndInv, ReplyInv, Unheard
<1> QED BY <1>1, Invariance, PTL
-----------------------------------------------------------------------------
(***************************************************************************)
(* The refinement: natsrpc is a remote call.                               *)
(***************************************************************************)
\* What is known of a call besides: its outcome is that of its task, which counts
\* its handler; it has not been answered when it cannot be; a call that has not been handled may
\* have panicked in a middleware; and it has a result when it has returned.
FateInv ==
  \A c \in Calls :
    /\ outcome[c] # "none" => \E u \in Subs : task[u][c] = "done"
    /\ \A u \in Subs : task[u][c] = "run" => ran[c] = 1
    /\ outcome[c] \in Unanswered => nReply[c] = 0
    /\ ran[c] = 0 => outcome[c] \in {"none", "panic"}
    /\ result[c] = "none" <=> call[c] \in {"idle", "sent"}

\* The abstract state of a call is a function of these.
CallState(c) == <<outcome[c], ran[c], nReply[c], call[c], result[c]>>

\* A call for which nothing happens.
LEMMA FateKept ==
  ASSUME FateInv, NEW c \in Calls, UNCHANGED CallState(c),
         \A u \in Subs : /\ task[u][c] = "done" => task'[u][c] = "done"
                         /\ task'[u][c] = "run" => task[u][c] = "run"
  PROVE  FateInv!(c)' /\ Fate(c)' = Fate(c)
<1>1. FateInv!(c)
  BY DEF FateInv
<1>2. /\ outcome'[c] = outcome[c] /\ ran'[c] = ran[c] /\ nReply'[c] = nReply[c]
      /\ call'[c] = call[c] /\ result'[c] = result[c]
  BY DEF CallState
<1>3. Fate(c)' = Fate(c)
  BY <1>2 DEF Fate
<1> QED BY <1>1, <1>2, <1>3

\* The fates there are.
LEMMA FateIs ==
  ASSUME NEW c \in Calls, TypeOK
  PROVE  /\ outcome[c] \in Unanswered => Fate(c) = "lost"
         /\ outcome[c] \in {"output", "badOutput", "error"} \cup RpcErrors => Fate(c) = outcome[c]
         /\ outcome[c] = "none" => Fate(c) = IF ran[c] > 0 THEN "run"
                                             ELSE IF nReply[c] > 0 THEN "refused" ELSE "none"
<1>1. outcome[c] \in Outcomes /\ ran[c] \in Nat /\ nReply[c] \in Nat
  BY DEF TypeOK
<1>2. CASE outcome[c] \in Unanswered
  BY <1>2 DEF Fate, RpcErrors, Unanswered
<1>3. CASE outcome[c] \in {"output", "badOutput", "error"} \cup RpcErrors
  BY <1>3 DEF Fate, Unanswered, RpcErrors
<1>4. CASE outcome[c] = "none"
  BY <1>1, <1>4 DEF Fate, Unanswered, RpcErrors
<1> QED BY <1>1, <1>2, <1>3, <1>4 DEF Outcomes

\* A step that leaves the calls alone is a stutter.
LEMMA Stutter ==
  ASSUME FateInv, UNCHANGED <<outcome, ran, nReply, call, result>>,
         \A u \in Subs, c \in Calls :
           /\ task[u][c] = "done" => task'[u][c] = "done"
           /\ task'[u][c] = "run" => task[u][c] = "run"
  PROVE  FateInv' /\ UNCHANGED RC!vars
<1>1. ASSUME NEW c \in Calls PROVE FateInv!(c)' /\ Fate(c)' = Fate(c)
  <2>1. UNCHANGED CallState(c)
    BY DEF CallState
  <2> QED BY <2>1, FateKept
<1> QED BY <1>1 DEF FateInv, RC!vars

\* A step of the task of a call, which gives it another fate.
LEMMA Served ==
  ASSUME TypeOK, TypeOK', TokenInv, FateInv, NEW u \in Subs, NEW c \in Calls,
         task[u][c] \in {"pend", "queued", "run"},
         NEW st \in {"run", "done"}, task' = [task EXCEPT ![u][c] = st],
         UNCHANGED <<net, call, result>>,
         \A d \in Calls : d # c => /\ outcome'[d] = outcome[d] /\ ran'[d] = ran[d]
                                   /\ nReply'[d] = nReply[d],
         outcome'[c] # "none" => st = "done", st = "run" => ran'[c] = 1,
         outcome'[c] \in Unanswered => nReply'[c] = 0,
         ran'[c] = 0 => outcome'[c] \in {"none", "panic"},
         \/ Fate(c) = "none" /\ Fate(c)' \in {"refused", "lost", "run"}
         \/ Fate(c) = "run" /\ Fate(c)' \in RC!Ends
  PROVE  FateInv' /\ RC!Next
<1>1. \A w \in Subs, d \in Calls : task'[w][d] = IF w = u /\ d = c THEN st ELSE task[w][d]
  BY DEF TypeOK
<1>2. /\ call[c] \in {"sent", "done"}
      /\ \A w \in Subs : w # u => task[w][c] = "none"
  BY Moving DEF TypeOK
<1>3. FateInv!(c)'
  <2>1. result'[c] = "none" <=> call'[c] \in {"idle", "sent"}
    BY DEF FateInv
  <2> QED BY <1>1, <1>2, <2>1
<1>4. ASSUME NEW d \in Calls, d # c PROVE FateInv!(d)' /\ Fate(d)' = Fate(d)
  <2>1. UNCHANGED CallState(d)
    BY <1>4 DEF CallState
  <2> QED BY <1>1, <1>4, <2>1, FateKept
<1>5. FateInv'
  BY <1>3, <1>4 DEF FateInv
<1>6. [d \in Calls |-> Fate(d)]' = [[d \in Calls |-> Fate(d)] EXCEPT ![c] = Fate(c)']
  BY <1>4
<1>7. RC!Serve(c)
  BY <1>2, <1>6 DEF RC!Serve
<1> QED BY <1>5, <1>7 DEF RC!Next

\* A step of the client, which gives a call a result or sends it.
LEMMA Asked ==
  ASSUME TypeOK, FateInv, NEW c \in Calls,
         UNCHANGED <<outcome, ran, nReply, task>>,
         \A d \in Calls : d # c => call'[d] = call[d] /\ result'[d] = result[d],
         result'[c] = "none" <=> call'[c] \in {"idle", "sent"}
  PROVE  FateInv' /\ \A d \in Calls : Fate(d)' = Fate(d)
<1>1. \A d \in Calls : Fate(d)' = Fate(d)
  BY DEF Fate
<1>2. FateInv!(c)'
  BY DEF FateInv
<1>3. ASSUME NEW d \in Calls, d # c PROVE FateInv!(d)'
  <2>1. UNCHANGED CallState(d)
    BY <1>3 DEF CallState
  <2> QED BY <1>3, <2>1, FateKept
<1> QED BY <1>1, <1>2, <1>3 DEF FateInv
\* A request that is being handled has no outcome yet.
LEMMA Pending ==
  ASSUME TypeOK, TokenInv, FateInv, NEW u \in Subs, NEW c \in Calls,
         task[u][c] \in {"pend", "queued", "run"}
  PROVE  outcome[c] = "none"
<1>1. \A w \in Subs : w # u => task[w][c] = "none"
  BY Moving
<1> QED BY <1>1 DEF FateInv

\* The handling of a request is a stutter, or settles its fate.
LEMMA TaskRefines ==
  ASSUME IndInv, IndInv', FateInv, NEW u \in Subs, NEW c \in Calls,
         Submit(u, c) \/ Worker(u, c) \/ TaskExpires(u, c) \/ HandlerEnd(u, c)
  PROVE  FateInv' /\ [RC!Next]_(RC!vars)
<1> USE DEF cliVars, srvVars
<1>0. TypeOK /\ TypeOK' /\ TokenInv
  BY DEF IndInv
<1>1. /\ nReply \in [Calls -> Nat] /\ inbox \in [Calls -> SUBSET Response]
      /\ ran \in [Calls -> Nat] /\ outcome \in [Calls -> Outcomes]
  BY <1>0 DEF TypeOK
<1>2. ASSUME task[u][c] \in {"pend", "queued", "run"}
      PROVE  /\ outcome[c] = "none" /\ nReply[c] = 0
             /\ task[u][c] # "run" => ran[c] = 0 /\ Fate(c) = "none"
  BY <1>0, <1>2, Pending, Moving, FateIs
<1>3. ASSUME NEW R, \E r \in Response : R = {r}, Reply(c, R),
             task[u][c] \in {"pend", "queued"}, task' = [task EXCEPT ![u][c] = "done"],
             UNCHANGED <<outcome, ran, call, result>>
      PROVE  FateInv' /\ RC!Next
  <2>1. /\ nReply'[c] = 1 /\ UNCHANGED net
        /\ \A d \in Calls : d # c => nReply'[d] = nReply[d]
    <3>1. R # {}
      BY <1>3
    <3>2. /\ nReply'[c] = nReply[c] + (IF R = {} THEN 0 ELSE 1) /\ UNCHANGED net
          /\ \A d \in Calls : d # c => nReply'[d] = nReply[d]
      BY <1>1, <1>3, ReplyCounted
    <3>3. nReply[c] = 0
      BY <1>2, <1>3
    <3> QED BY <3>1, <3>2, <3>3
  <2>3. outcome'[c] = "none" /\ ran'[c] = 0
    BY <1>2, <1>3
  <2>2. Fate(c)' = "refused"
    BY <2>1, <2>3 DEF Fate, Unanswered
  <2> QED BY <1>0, <1>2, <1>3, <2>1, <2>2, <2>3, Served DEF Unanswered
<1>4. CASE Submit(u, c)
  <2>1. /\ task[u][c] = "pend" /\ UNCHANGED <<outcome, ran, call, result>>
        /\ \/ task' = [task EXCEPT ![u][c] = "queued"] /\ UNCHANGED netVars
           \/ /\ task' = [task EXCEPT ![u][c] = "done"]
              /\ Reply(c, {ReplyError("submit task error")})
    BY <1>4, Zenon DEF Submit
  <2>2. CASE task' = [task EXCEPT ![u][c] = "queued"] /\ UNCHANGED netVars
    <3>1. \A w \in Subs, d \in Calls :
            task'[w][d] = IF w = u /\ d = c THEN "queued" ELSE task[w][d]
      BY <1>0, <2>2 DEF TypeOK
    <3> QED BY <2>1, <2>2, <3>1, Stutter DEF netVars
  <2>3. CASE /\ task' = [task EXCEPT ![u][c] = "done"]
             /\ Reply(c, {ReplyError("submit task error")})
    BY <1>3, <2>1, <2>3, ErrorResponse
  <2> QED BY <2>1, <2>2, <2>3
<1>5. CASE TaskRefused(u, c)
  <2>1. /\ task[u][c] = "queued" /\ UNCHANGED <<outcome, ran, call, result>>
        /\ task' = [task EXCEPT ![u][c] = "done"]
    BY <1>5, Zenon DEF TaskRefused, Begins
  <2>2. PICK e : Reply(c, {ReplyError(e)})
    BY <1>5 DEF TaskRefused
  <2> QED BY <1>3, <2>1, <2>2, ErrorResponse
<1>6. CASE TaskNil(u, c)
  <2>1. /\ task[u][c] = "queued" /\ UNCHANGED <<ran, nReply, net, call, result>>
        /\ task' = [task EXCEPT ![u][c] = "done"]
        /\ outcome'[c] = "panic" /\ \A d \in Calls : d # c => outcome'[d] = outcome[d]
    BY <1>1, <1>6 DEF TaskNil, Begins, netVars
  <2>2. Fate(c)' = "lost"
    BY <2>1 DEF Fate, Unanswered
  <2> QED BY <1>0, <1>2, <2>1, <2>2, Served
<1>7. CASE TaskStart(u, c)
  <2>1. /\ task[u][c] = "queued" /\ UNCHANGED <<outcome, nReply, net, call, result>>
        /\ task' = [task EXCEPT ![u][c] = "run"]
        /\ ran'[c] = ran[c] + 1 /\ \A d \in Calls : d # c => ran'[d] = ran[d]
    BY <1>1, <1>7 DEF TaskStart, Begins, netVars
  <2>2. outcome'[c] = "none" /\ ran'[c] = 1
    BY <1>2, <2>1
  <2>3. Fate(c)' = "run"
    BY <2>2 DEF Fate, Unanswered
  <2> QED BY <1>0, <1>2, <2>1, <2>2, <2>3, Served DEF Unanswered
<1>8. CASE TaskExpires(u, c)
  BY <1>8, Stutter DEF TaskExpires, netVars
<1>9. CASE HandlerEnd(u, c)
  <2>1. PICK o \in Outcomes \ {"none"} :
          outcome' = [outcome EXCEPT ![c] = o] /\ Reply(c, Answer(o))
    BY <1>9 DEF HandlerEnd
  <2>2. /\ task[u][c] = "run" /\ UNCHANGED <<ran, call, result>>
        /\ task' = [task EXCEPT ![u][c] = "done"]
    BY <1>9 DEF HandlerEnd
  <2>3. /\ nReply'[c] = nReply[c] + (IF Answer(o) = {} THEN 0 ELSE 1) /\ UNCHANGED net
        /\ \A d \in Calls : d # c => nReply'[d] = nReply[d]
    BY <1>1, <2>1, AnswerIsOne, ReplyCounted
  <2>4. outcome'[c] = o /\ \A d \in Calls : d # c => outcome'[d] = outcome[d]
    BY <1>1, <2>1
  <2>5. o \in Unanswered => nReply'[c] = 0
    <3>1. o \in Unanswered => Answer(o) = {}
      BY DEF Answer, RpcErrors, Unanswered
    <3> QED BY <1>2, <2>2, <2>3, <3>1
  <2>6. ran[c] = 1
    BY <2>2 DEF FateInv
  <2>7. Fate(c) = "run"
    BY <1>0, <1>2, <2>2, <2>6, FateIs
  <2>8. Fate(c)' \in RC!Ends
    BY <2>4 DEF Fate, RC!Ends, RC!Codes, Outcomes, RpcErrors, Unanswered
  <2>9. outcome'[c] \in Unanswered => nReply'[c] = 0
    BY <2>4, <2>5
  <2>10. ran'[c] = 1 /\ \A d \in Calls : d # c => ran'[d] = ran[d]
    BY <2>2, <2>6
  <2>11. \A d \in Calls : d # c => /\ outcome'[d] = outcome[d] /\ ran'[d] = ran[d]
                                   /\ nReply'[d] = nReply[d]
    BY <2>3, <2>4, <2>10
  <2>12. UNCHANGED <<net, call, result>> /\ task[u][c] = "run"
    BY <2>2, <2>3
  <2>13. ran'[c] # 0
    BY <2>10
  <2>14. task' = [task EXCEPT ![u][c] = "done"]
    BY <2>2
  <2> QED BY <1>0, <2>7, <2>8, <2>9, <2>11, <2>12, <2>13, <2>14, Served
<1> QED BY <1>4, <1>5, <1>6, <1>7, <1>8, <1>9 DEF Worker
\* What a response makes a call return is what its fate allows.
LEMMA ToldHonestly ==
  ASSUME TypeOK, ReplyInv, FateInv, NEW c \in Calls,
         NEW r \in inbox[c], NEW res \in FromResponse(r)
  PROVE  res \in RC!Told(Fate(c))
<1>1. nReply[c] \in Nat /\ nReply[c] # 0 /\ ran[c] \in Nat
  BY DEF ReplyInv, TypeOK
<1>2. Honest(c, res)
  BY DEF ReplyInv
<1>3. r \in Response
  BY DEF TypeOK
<1>4. res \in RpcErrors \cup {"Output", "DecodeResponseError", "Err"}
  BY <1>3 DEF Response, FromResponse
<1>5. ran[c] = 0 => Fate(c) = "refused"
  <2>1. ran[c] = 0 => outcome[c] = "none"
    BY <1>1 DEF FateInv, Unanswered
  <2> QED BY <1>1, <2>1, FateIs
<1>6. outcome[c] \in {"output", "badOutput", "error"} \cup RpcErrors => Fate(c) = outcome[c]
  BY FateIs
<1>7. CASE res = "Output"
  BY <1>2, <1>6, <1>7 DEF Honest, RC!Told, RC!Codes, RpcErrors
<1>8. CASE res = "Err"
  BY <1>2, <1>5, <1>6, <1>8 DEF Honest, RC!Told, RC!Codes, RpcErrors
<1>9. CASE res \in RpcErrors
  <2>1. CASE outcome[c] = res
    BY <1>6, <1>9, <2>1 DEF RC!Told, RC!Codes, RpcErrors
  <2>2. CASE res \in {"MethodNotFound", "DecodeRequestError"} /\ ran[c] = 0
    BY <1>5, <2>2 DEF RC!Told, RC!Codes
  <2>3. CASE res = "EncodeResponseError" /\ outcome[c] = "badOutput"
    BY <1>6, <2>3 DEF RC!Told, RC!Codes
  <2>4. CASE res = "DecodeResponseError" /\ outcome[c] = "output"
    BY <1>6, <2>4 DEF RC!Told, RC!Codes
  <2> QED BY <1>2, <1>9, <2>1, <2>2, <2>3, <2>4 DEF Honest
<1> QED BY <1>4, <1>7, <1>8, <1>9 DEF RpcErrors

\* A step of the client is one of the abstract call's.
LEMMA ClientRefines ==
  ASSUME IndInv, FateInv, NEW c \in Calls, Client(c)
  PROVE  FateInv' /\ [RC!Next]_(RC!vars)
<1> USE DEF taskVars, netVars
<1> DEFINE sent == {d \in Calls : call[d] \in {"sent", "done"}}
           fate == [d \in Calls |-> Fate(d)]
<1>0. TypeOK /\ TokenInv /\ ReplyInv
  BY DEF IndInv
<1>1. call \in [Calls -> {"idle", "sent", "done", "unsent"}] /\ result \in [Calls -> Results]
  BY <1>0 DEF TypeOK
<1>2. CASE Call(c)
  <2>1. /\ call[c] = "idle" /\ call' = [call EXCEPT ![c] = "sent"]
        /\ net' = net \cup {c} /\ UNCHANGED <<outcome, ran, nReply, task, result>>
    BY <1>2 DEF Call
  <2>2. result[c] = "none"
    BY <2>1 DEF FateInv
  <2>3. FateInv' /\ \A d \in Calls : Fate(d)' = Fate(d)
    BY <1>0, <1>1, <2>1, <2>2, Asked
  <2>4. fate' = fate /\ c \notin sent /\ sent' = sent \cup {c}
    BY <1>1, <2>1, <2>3
  <2>5. RC!Send(c)
    BY <2>1, <2>2, <2>4 DEF RC!Send
  <2> QED BY <2>3, <2>5 DEF RC!Next
<1>3. CASE CallRefused(c)
  <2>1. /\ call[c] = "idle" /\ call' = [call EXCEPT ![c] = "unsent"]
        /\ UNCHANGED <<outcome, ran, nReply, task, net>>
    BY <1>3 DEF CallRefused
  <2>2. PICK r \in {"EncodeRequestError", "CtxErr"} : result' = [result EXCEPT ![c] = r]
    BY <1>3 DEF CallRefused
  <2>3. result[c] = "none"
    BY <2>1 DEF FateInv
  <2>4. FateInv' /\ \A d \in Calls : Fate(d)' = Fate(d)
    BY <1>0, <1>1, <2>1, <2>2, Asked
  <2>5. fate' = fate /\ c \notin sent /\ sent' = sent
    BY <1>1, <2>1, <2>4
  <2>6. RC!Reject(c)
    BY <2>2, <2>3, <2>5 DEF RC!Reject
  <2> QED BY <2>4, <2>6 DEF RC!Next
<1>4. ASSUME CtxErr(c) \/ Receive(c) PROVE FateInv' /\ RC!Next
  <2>1. PICK r \in RC!Told(Fate(c)) \cup {"CtxErr"} : End(c, r)
    <3>1. CASE CtxErr(c)
      BY <3>1 DEF CtxErr
    <3>2. CASE Receive(c)
      <4>1. PICK q \in inbox[c] : \E r \in FromResponse(q) : End(c, r)
        BY <3>2 DEF Receive
      <4>2. \A r \in FromResponse(q) : r \in RC!Told(Fate(c))
        BY <1>0, ToldHonestly
      <4> QED BY <4>1, <4>2
    <3> QED BY <1>4, <3>1, <3>2
  <2>2. /\ call[c] = "sent" /\ call' = [call EXCEPT ![c] = "done"]
        /\ result' = [result EXCEPT ![c] = r]
        /\ UNCHANGED <<outcome, ran, nReply, task, net>>
    BY <1>4, <2>1 DEF CtxErr, Receive, End
  <2>3. r # "none"
    BY <2>1 DEF RC!Told, RC!Codes
  <2>4. FateInv' /\ \A d \in Calls : Fate(d)' = Fate(d)
    BY <1>0, <1>1, <2>2, <2>3, Asked
  <2>5. fate' = fate /\ c \in sent /\ sent' = sent
    BY <1>1, <2>2, <2>4
  <2>6. result[c] = "none"
    BY <2>2 DEF FateInv
  <2>7. fate[c] = Fate(c)
    OBVIOUS
  <2>8. RC!Return(c)
    BY <2>1, <2>2, <2>5, <2>6, <2>7 DEF RC!Return
  <2> QED BY <2>4, <2>8 DEF RC!Next
<1>5. CASE DeadlinePasses(c)
  <2>1. UNCHANGED <<outcome, ran, nReply, call, result, net, task>>
    BY <1>5 DEF DeadlinePasses
  <2> QED BY <2>1, Stutter
<1> QED BY <1>2, <1>3, <1>4, <1>5 DEF Client

\* Every step is one of the abstract call's, or a stutter.
LEMMA FateStep ==
  ASSUME IndInv, IndInv', FateInv, [Next]_vars
  PROVE  FateInv' /\ [RC!Next]_(RC!vars)
<1> USE DEF srvVars, taskVars, netVars, cliVars
<1>0. TypeOK
  BY DEF IndInv
<1>1. ASSUME UNCHANGED <<outcome, ran, nReply, call, result>>,
             \A u \in Subs, c \in Calls :
               task'[u][c] = task[u][c] \/ (task[u][c] = "pend" /\ task'[u][c] = "dropped")
      PROVE  FateInv' /\ UNCHANGED RC!vars
  <2>1. \A u \in Subs, c \in Calls :
          /\ task[u][c] = "done" => task'[u][c] = "done"
          /\ task'[u][c] = "run" => task[u][c] = "run"
    BY <1>1
  <2> QED BY <1>1, <2>1, Stutter
<1>2. ASSUME UNCHANGED <<outcome, ran, nReply, call, result, task>>
      PROVE  FateInv' /\ UNCHANGED RC!vars
  BY <1>1, <1>2
<1>3. CASE UNCHANGED vars
  BY <1>2, <1>3 DEF vars
<1>4. ASSUME NEW s \in Servers, CloseBegin(s) \/ CloseEnd(s)
      PROVE  FateInv' /\ UNCHANGED RC!vars
  BY <1>0, <1>1, <1>2, <1>4, UnsubscribeDoes DEF CloseBegin, CloseEnd
<1>5. ASSUME NEW s \in Servers, NEW m \in Methods, RegistHandler(s, m)
      PROVE  FateInv' /\ UNCHANGED RC!vars
  <2>1. CASE FlushFail(s, m)
    BY <1>0, <1>1, <2>1, UnsubscribeDoes DEF FlushFail, UnsubOnError
  <2> QED BY <1>2, <1>5, <2>1 DEF RegistHandler, RegistFirst, RegistMore, FlushDone
<1>6. CASE Broker
  <2>1. ASSUME NEW u \in Subs, SubArrives(u) \/ UnsubArrives(u)
        PROVE  FateInv' /\ UNCHANGED RC!vars
    BY <1>2, <2>1 DEF SubArrives, UnsubArrives
  <2>2. ASSUME NEW c \in Calls, Route(c) PROVE FateInv' /\ UNCHANGED RC!vars
    <3>1. c \in net /\ UNCHANGED <<outcome, ran, nReply, call, result>>
      BY <2>2, Zenon DEF Route
    <3>2. \A u \in Subs : task[u][c] = "none"
      BY <3>1 DEF IndInv, TokenInv
    <3>3. \A u \in Subs, d \in Calls :
            \/ task'[u][d] = task[u][d]
            \/ d = c /\ task'[u][d] \in {"pend", "dropped"}
      <4>1. CASE UNCHANGED task
        BY <4>1
      <4>2. CASE ~UNCHANGED task
        <5>1. PICK U :
                task' = [u \in Subs |-> IF u \in U
                          THEN [task[u] EXCEPT ![c] = IF subState[u] = "gone" THEN "dropped" ELSE "pend"]
                          ELSE task[u]]
          BY <2>2, <4>2 DEF Route
        <5> QED BY <1>0, <5>1 DEF TypeOK
      <4> QED BY <4>1, <4>2
    <3> QED BY <3>1, <3>2, <3>3, Stutter
  <2>3. ASSUME NEW c \in Calls, Lose(c) PROVE FateInv' /\ UNCHANGED RC!vars
    BY <1>2, <2>3 DEF Lose
  <2> QED BY <1>6, <2>1, <2>2, <2>3 DEF Broker
<1>7. ASSUME NEW u \in Subs, NEW c \in Calls,
             Submit(u, c) \/ Worker(u, c) \/ TaskExpires(u, c) \/ HandlerEnd(u, c)
      PROVE  FateInv' /\ [RC!Next]_(RC!vars)
  BY <1>7, TaskRefines
<1>8. ASSUME NEW c \in Calls, Client(c) PROVE FateInv' /\ [RC!Next]_(RC!vars)
  BY <1>8, ClientRefines
<1> QED BY <1>3, <1>4, <1>5, <1>6, <1>7, <1>8 DEF Next, Terminated

\* A call is handled or refused once, and what it returns, once, agrees with that
\* for ever: NatsRpc implements RemoteCall.
THEOREM NatsRpcImplementsRemoteCall == Spec => ImplementsRemoteCall
<1>1. Init => FateInv /\ RC!Init
  <2> SUFFICES ASSUME Init PROVE FateInv /\ RC!Init
    OBVIOUS
  <2>1. FateInv
    BY DEF Init, FateInv, Unanswered
  <2>2. \A c \in Calls : Fate(c) = "none"
    BY DEF Init, Fate, Unanswered
  <2>3. RC!Init
    BY <2>2 DEF Init, RC!Init
  <2> QED BY <2>1, <2>3
<1>2. IndInv /\ IndInv' /\ FateInv /\ [Next]_vars => FateInv' /\ [RC!Next]_(RC!vars)
  BY FateStep
<1> QED BY <1>1, <1>2, Invariance, PTL DEF Spec, ImplementsRemoteCall, RC!Spec
==============================================================================
