---------------------------- MODULE StanMsgProofs ----------------------------
(***************************************************************************)
(* TLAPS proofs about StanMsg, for every set of messages, queues and       *)
(* connections, every capacity of the runner and any number of failures.   *)
(***************************************************************************)
EXTENDS StanMsg, DurConnProofs

(***************************************************************************)
(* The inductive invariant.                                                *)
(***************************************************************************)
\* How far a publish is: what stan.go and the server know of it, and how often
\* its callbacks have run, follow from where its Publish and its callback are.
PublishOf(m) ==
  /\ result[m] = "none" <=> call[m] # "returned"
  /\ call[m] \in {"idle", "picked"} \/ result[m] = "refused" => cb[m] = "none"
  /\ cb[m] = "none" => m \notin net \cup stored
  /\ m \in net => m \notin stored
  /\ m \in pubAcks => m \in stored /\ cb[m] = "pending"
  /\ cb[m] = "ok" => m \in stored
  /\ result[m] = "ok" => cb[m] = "ok"
  /\ nCb[m] = IF cb[m] \in {"ok", "failed"} THEN 1 ELSE 0
  /\ cb[m] \in {"none", "pending"} => m \notin tail
  /\ m \in tail \/ cb[m] = "pending" \/ call[m] \in {"idle", "picked"} => nFin[m] = 0
  /\ nFin[m] <= 1
PublishInd == \A m \in Msgs : PublishOf(m)

\* Queues: what is under way is due, what is about to be acked is handled.
QueueInd ==
  /\ \A k \in Keys : owed[k] \subseteq due[k] /\ due[k] \subseteq stored
  /\ \A w \in work : w.m \in due[w.k]
  /\ \A w \in work : w.at = "ack" => w.m \in handled[w.k]
  /\ NoneLost

MsgInd == MsgTypeOK /\ PublishInd /\ QueueInd

-----------------------------------------------------------------------------
(***************************************************************************)
(* The composition keeps what DurConn promises.                            *)
(***************************************************************************)
\* Publishers, the server and handlers do not touch the state of DurConn.
LEMMA MessagesFrame ==
  ASSUME [MsgNext]_allMsgVars
  PROVE  [Next]_vars
<1> USE DEF Publish, Publishing, Server, Handling, Task
<1>1. ASSUME NEW m \in Msgs, Publish(m) PROVE UNCHANGED vars
  BY <1>1 DEF Unpublishable, PickSc, Send, PubAcked, PubFailed, Callback,
     FinSpan, Return, Expire
<1>2. ASSUME NEW m \in Msgs, Server(m) PROVE UNCHANGED vars
  BY <1>2 DEF Arrive, LosePublish, Deliver
<1>3. ASSUME NEW w \in work, Handling(w) PROVE UNCHANGED vars
  BY <1>3 DEF Accept, RefuseTask, LoseDelivery, Begin,
     HandlerFails, HandlerOk, Ack
<1> QED BY <1>1, <1>2, <1>3 DEF MsgNext, Connection, allMsgVars

\* Every behaviour of messages over a DurConn is one of DurConn, so that the
\* theorems of DurConnProofs hold of it.
THEOREM MessagesOverDurConn == MsgSpec => Spec
<1>1. MsgInit => Init
  BY DEF MsgInit
<1>2. [MsgNext]_allMsgVars => [Next]_vars
  BY MessagesFrame
<1> QED BY <1>1, <1>2, PTL DEF MsgSpec, Spec

-----------------------------------------------------------------------------
(***************************************************************************)
(* The invariant is inductive.                                             *)
(***************************************************************************)
\* Publish, the callbacks of stan.go and the middleware keep the invariant.
LEMMA PublishStep ==
  ASSUME MsgInd, TypeOK, NEW m \in Msgs, Publish(m)
  PROVE  MsgInd'
<1> USE DEF MsgTypeOK, srvVars, consVars
<1>t. MsgTypeOK /\ PublishInd /\ QueueInd /\ sc \in Conns \cup {NoConn}
  BY DEF MsgInd, TypeOK
<1>q. QueueInd'
  BY <1>t DEF QueueInd, NoneLost, Publish, Publishing, Unpublishable, PickSc,
     Send, PubAcked, PubFailed, Callback, FinSpan, Return, Expire
<1>1. CASE Unpublishable(m)
  <2>1. MsgTypeOK'
    BY <1>1, <1>t DEF Unpublishable, StartSpan, Finish, Refuse
  <2>2. ASSUME NEW n \in Msgs PROVE PublishOf(n)'
    BY <1>1, <1>t DEF PublishInd, PublishOf, Unpublishable, StartSpan, Finish, Refuse
  <2> QED BY <1>q, <2>1, <2>2 DEF MsgInd, PublishInd
<1>2. CASE PickSc(m)
  <2>1. MsgTypeOK'
    BY <1>2, <1>t DEF PickSc, Usable, StartSpan, Finish, Refuse
  <2>2. ASSUME NEW n \in Msgs PROVE PublishOf(n)'
    BY <1>2, <1>t DEF PublishInd, PublishOf, PickSc, Usable, StartSpan, Finish, Refuse
  <2> QED BY <1>q, <2>1, <2>2 DEF MsgInd, PublishInd
<1>3. CASE Send(m)
  <2>1. MsgTypeOK'
    BY <1>3, <1>t DEF Send, Finish, Refuse
  <2>2. ASSUME NEW n \in Msgs PROVE PublishOf(n)'
    BY <1>3, <1>t DEF PublishInd, PublishOf, Send, Finish, Refuse
  <2> QED BY <1>q, <2>1, <2>2 DEF MsgInd, PublishInd
<1>4. CASE PubAcked(m)
  <2>1. MsgTypeOK'
    BY <1>4, <1>t DEF PubAcked, Callback, CbResult, FinTail
  <2>2. ASSUME NEW n \in Msgs PROVE PublishOf(n)'
    BY <1>4, <1>t DEF PublishInd, PublishOf, PubAcked, Callback, CbResult, FinTail
  <2> QED BY <1>q, <2>1, <2>2 DEF MsgInd, PublishInd
<1>5. CASE PubFailed(m)
  <2>1. MsgTypeOK'
    BY <1>5, <1>t DEF PubFailed, Callback, CbResult, FinTail
  <2>2. ASSUME NEW n \in Msgs PROVE PublishOf(n)'
    BY <1>5, <1>t DEF PublishInd, PublishOf, PubFailed, Callback, CbResult, FinTail
  <2> QED BY <1>q, <2>1, <2>2 DEF MsgInd, PublishInd
<1>6. CASE FinSpan(m)
  <2>1. MsgTypeOK'
    BY <1>6, <1>t DEF FinSpan, Finish
  <2>2. ASSUME NEW n \in Msgs PROVE PublishOf(n)'
    BY <1>6, <1>t DEF PublishInd, PublishOf, FinSpan, Finish
  <2> QED BY <1>q, <2>1, <2>2 DEF MsgInd, PublishInd
<1>7. CASE Return(m)
  <2>1. MsgTypeOK'
    BY <1>7, <1>t DEF Return
  <2>2. ASSUME NEW n \in Msgs PROVE PublishOf(n)'
    BY <1>7, <1>t DEF PublishInd, PublishOf, Return
  <2> QED BY <1>q, <2>1, <2>2 DEF MsgInd, PublishInd
<1>8. CASE Expire(m)
  <2>1. MsgTypeOK'
    BY <1>8, <1>t DEF Expire
  <2>2. ASSUME NEW n \in Msgs PROVE PublishOf(n)'
    BY <1>8, <1>t DEF PublishInd, PublishOf, Expire
  <2> QED BY <1>q, <2>1, <2>2 DEF MsgInd, PublishInd
<1> QED BY <1>1, <1>2, <1>3, <1>4, <1>5, <1>6, <1>7, <1>8 DEF Publish, Publishing

\* The server stores a message for its queues before it acknowledges it, and
\* delivers only what is due.
LEMMA ServerStep ==
  ASSUME MsgInd, NEW m \in Msgs, Server(m)
  PROVE  MsgInd'
<1> USE DEF MsgTypeOK, pubVars, consVars
<1>t. MsgTypeOK /\ PublishInd /\ QueueInd
  BY DEF MsgInd
<1>1. CASE Arrive(m)
  <2>1. MsgTypeOK'
    BY <1>1, <1>t DEF Arrive
  <2>2. ASSUME NEW n \in Msgs PROVE PublishOf(n)'
    BY <1>1, <1>t DEF PublishInd, PublishOf, Arrive
  <2>3. \A k \in Keys : /\ due[k] \subseteq due'[k] /\ due'[k] \subseteq stored'
                        /\ owed'[k] \subseteq due'[k]
                        /\ due'[k] \ owed'[k] \subseteq due[k] \ owed[k]
    BY <1>1, <1>t DEF QueueInd, Arrive
  <2>4. QueueInd'
    BY <1>1, <1>t, <2>3 DEF QueueInd, NoneLost, Arrive, Deliveries
  <2> QED BY <2>1, <2>2, <2>4 DEF MsgInd, PublishInd
<1>2. CASE LosePublish(m)
  <2>1. MsgTypeOK'
    BY <1>2, <1>t DEF LosePublish, Drop1
  <2>2. ASSUME NEW n \in Msgs PROVE PublishOf(n)'
    BY <1>2, <1>t DEF PublishInd, PublishOf, LosePublish
  <2>3. QueueInd'
    BY <1>2, <1>t DEF QueueInd, NoneLost, LosePublish
  <2> QED BY <2>1, <2>2, <2>3 DEF MsgInd, PublishInd
<1>3. ASSUME NEW k \in Keys, Deliver(m, k) PROVE MsgInd'
  <2>1. PICK c \in Conns, d \in Dels :
          work' = work \cup {[id |-> d, m |-> m, k |-> k, c |-> c, at |-> "sent"]}
    BY <1>3 DEF Deliver
  <2>2. MsgTypeOK'
    BY <1>3, <1>t, <2>1 DEF Deliver, srvVars, Deliveries
  <2>3. ASSUME NEW n \in Msgs PROVE PublishOf(n)'
    BY <1>3, <1>t DEF PublishInd, PublishOf, Deliver, srvVars
  <2>4. QueueInd'
    BY <1>3, <1>t, <2>1 DEF QueueInd, NoneLost, Deliver, srvVars
  <2> QED BY <2>2, <2>3, <2>4 DEF MsgInd, PublishInd
<1> QED BY <1>1, <1>2, <1>3 DEF Server

\* Handling leaves publishers alone.
LEMMA HandlingFrame ==
  ASSUME MsgInd, NEW w \in work, Handling(w)
  PROVE  PublishInd' /\ UNCHANGED <<pubVars, net, pubAcks, stored, due>>
<1>1. UNCHANGED <<pubVars, net, pubAcks, stored, due>>
  BY DEF Handling, Task, Accept, RefuseTask, LoseDelivery, Begin,
     HandlerFails, HandlerOk, Ack, srvVars
<1> QED BY <1>1 DEF MsgInd, PublishInd, PublishOf, pubVars

\* What the moves of a delivery do to work.
LEMMA MoveEffect ==
  ASSUME MsgTypeOK, NEW w \in work, NEW at \in {"sent", "queued", "running", "ack"},
         Move(w, at)
  PROVE  /\ work' \subseteq Deliveries
         /\ \A v \in work' : v \in work \/ (v.m = w.m /\ v.k = w.k /\ v.at = at)
<1>1. w \in Deliveries
  BY DEF MsgTypeOK
<1>2. /\ [w EXCEPT !.at = at] \in Deliveries
      /\ [w EXCEPT !.at = at].m = w.m /\ [w EXCEPT !.at = at].k = w.k
      /\ [w EXCEPT !.at = at].at = at
  BY <1>1 DEF Deliveries
<1> QED BY <1>2 DEF Move, MsgTypeOK

\* msgHandler, its task and the ack keep the invariant: only an ack makes the
\* server forget a message, and only one that has been handled is acked.
LEMMA HandlingStep ==
  ASSUME MsgInd, NEW w \in work, Handling(w)
  PROVE  MsgInd'
<1> USE DEF Deliveries
<1>t. MsgTypeOK /\ QueueInd /\ w \in Deliveries /\ w.k \in Keys /\ w.m \in Msgs
  BY DEF MsgInd, MsgTypeOK
<1>f. PublishInd' /\ UNCHANGED <<pubVars, net, pubAcks, stored, due>>
  BY HandlingFrame
<1>1. ASSUME work' \subseteq work, UNCHANGED <<owed, handled>>, drops' \in Nat
      PROVE  MsgInd'
  BY <1>1, <1>t, <1>f DEF MsgInd, MsgTypeOK, QueueInd, NoneLost, pubVars
<1>2. CASE Accept(w) \/ Begin(w)
  <2>1. PICK at \in {"queued", "running"} : Move(w, at)
    BY <1>2 DEF Accept, Begin
  <2>2. /\ work' \subseteq Deliveries
        /\ \A v \in work' : v \in work \/ (v.m = w.m /\ v.k = w.k /\ v.at = at)
    BY <1>t, <2>1, MoveEffect
  <2>3. UNCHANGED <<owed, handled, drops>>
    BY <1>2 DEF Accept, Begin, OnReturn, srvVars
  <2> QED BY <1>t, <1>f, <2>2, <2>3 DEF MsgInd, MsgTypeOK, QueueInd, NoneLost, pubVars
<1>3. CASE HandlerOk(w)
  <2>1. /\ work' \subseteq Deliveries
        /\ \A v \in work' : v \in work \/ (v.m = w.m /\ v.k = w.k /\ v.at = "ack")
    BY <1>3, <1>t, MoveEffect DEF HandlerOk
  <2>2. /\ UNCHANGED <<owed, drops>> /\ handled' \in [Keys -> SUBSET Msgs]
        /\ w.m \in handled'[w.k] /\ \A k \in Keys : handled[k] \subseteq handled'[k]
    BY <1>3, <1>t DEF HandlerOk, srvVars, MsgTypeOK
  <2>3. MsgTypeOK'
    BY <1>t, <1>f, <2>1, <2>2 DEF MsgTypeOK, pubVars
  <2>4. QueueInd'
    BY <1>t, <1>f, <2>1, <2>2 DEF QueueInd, NoneLost, MsgTypeOK
  <2> QED BY <1>f, <2>3, <2>4 DEF MsgInd
<1>4. CASE Ack(w)
  <2>1. /\ work' \subseteq work /\ UNCHANGED handled /\ drops' \in Nat
        /\ w.m \in handled[w.k]
    BY <1>4, <1>t DEF Ack, End, Drop1, QueueInd, MsgTypeOK
  <2>2. CASE UNCHANGED owed
    BY <1>1, <2>1, <2>2
  <2>3. CASE owed' = [owed EXCEPT ![w.k] = @ \ {w.m}]
    <3>1. /\ owed' \in [Keys -> SUBSET Msgs]
          /\ \A k \in Keys : owed'[k] \subseteq owed[k]
          /\ \A k \in Keys : k # w.k => owed'[k] = owed[k]
          /\ owed'[w.k] = owed[w.k] \ {w.m}
      BY <1>t, <2>3 DEF MsgTypeOK
    <3>2. MsgTypeOK'
      BY <1>t, <1>f, <2>1, <3>1 DEF MsgTypeOK, pubVars
    <3>3. QueueInd'
      BY <1>t, <1>f, <2>1, <3>1 DEF QueueInd, NoneLost
    <3> QED BY <1>f, <3>2, <3>3 DEF MsgInd
  <2> QED BY <1>4, <2>2, <2>3 DEF Ack, SendAck
<1>5. CASE RefuseTask(w) \/ LoseDelivery(w) \/ HandlerFails(w)
  BY <1>1, <1>5, <1>t DEF RefuseTask, LoseDelivery, HandlerFails,
     OnReturn, OnFailure, End, Drop1, srvVars, MsgTypeOK
<1> QED BY <1>2, <1>3, <1>4, <1>5 DEF Handling, Task

\* The invariant holds in every state that publishers, connections, the server
\* and handlers reach together.
THEOREM MessageInvariance == MsgSpec => []MsgInd
<1>1. MsgInit => MsgInd
  BY DEF MsgInit, MsgInd, MsgTypeOK, PublishInd, PublishOf, QueueInd, NoneLost
<1>2. MsgInd /\ TypeOK /\ [MsgNext]_allMsgVars => MsgInd'
  <2> SUFFICES ASSUME MsgInd, TypeOK, [MsgNext]_allMsgVars PROVE MsgInd'
    OBVIOUS
  <2>1. ASSUME UNCHANGED msgVars PROVE MsgInd'
    BY <2>1 DEF msgVars, pubVars, srvVars, consVars, MsgInd, MsgTypeOK,
       PublishInd, PublishOf, QueueInd, NoneLost
  <2> QED BY <2>1, PublishStep, ServerStep, HandlingStep
         DEF MsgNext, Connection, allMsgVars
<1>3. MsgSpec => []TypeOK
  BY MessagesOverDurConn, TypeCorrect
<1> QED BY <1>1, <1>2, <1>3, PTL DEF MsgSpec

-----------------------------------------------------------------------------
(***************************************************************************)
(* What follows.                                                           *)
(***************************************************************************)
\* The state of messages is well typed, and publishAsync never uses a nil
\* connection, whatever happens to dc.sc between its two steps.
THEOREM MessageTypeCorrect == MsgSpec => []MsgTypeOK
<1>1. MsgInd => MsgTypeOK
  BY DEF MsgInd
<1> QED BY <1>1, MessageInvariance, PTL

\* The server forgets a message for a queue only after its handler has returned
\* nil, so that none is lost to the application.
THEOREM NoMessageLost == MsgSpec => []NoneLost
<1>1. MsgInd => NoneLost
  BY DEF MsgInd, QueueInd
<1> QED BY <1>1, MessageInvariance, PTL

\* A nil from Publish means that the server has the message, an error of
\* publishAsync that it never will.
THEOREM PublishIsHonest == MsgSpec => []HonestPublish
<1>1. MsgInd => HonestPublish
  BY DEF MsgInd, PublishInd, PublishOf, HonestPublish
<1> QED BY <1>1, MessageInvariance, PTL

\* The caller's callback and its span's Finish run at most once, and the callback
\* not at all when publishAsync has returned an error.
THEOREM CallbacksAtMostOnce == MsgSpec => []CallbackOnce
<1>1. MsgInd => CallbackOnce
  BY DEF MsgInd, PublishInd, PublishOf, CallbackOnce
<1> QED BY <1>1, MessageInvariance, PTL

-----------------------------------------------------------------------------
(***************************************************************************)
(* StanMsg implements DurableQueue.                                        *)
(***************************************************************************)
\* Every step is the storing, the confirmation, the handling or the forgetting of
\* one message, or nothing, to an observer of the queues.
LEMMA QueueStep ==
  ASSUME MsgInd, [MsgNext]_allMsgVars
  PROVE  [DQ!Next]_(DQ!vars)
<1>t. MsgTypeOK /\ PublishInd /\ QueueInd
  BY DEF MsgInd
<1> USE DEF srvVars, consVars
<1>1. ASSUME UNCHANGED <<stored, result, due, owed, handled>>
      PROVE  [DQ!Next]_(DQ!vars)
  BY <1>1 DEF DQ!vars, confirmed
<1>2. ASSUME NEW m \in Msgs, result' = [result EXCEPT ![m] = "refused"]
             \/ result' = [result EXCEPT ![m] = "expired"],
             result[m] = "none", UNCHANGED <<stored, due, owed, handled>>
      PROVE  [DQ!Next]_(DQ!vars)
  <2>1. confirmed' = confirmed
    BY <1>2, <1>t DEF confirmed, MsgTypeOK
  <2> QED BY <1>2, <2>1 DEF DQ!vars
<1>3. ASSUME NEW m \in Msgs, Return(m) PROVE [DQ!Next]_(DQ!vars)
  <2>1. UNCHANGED <<stored, due, owed, handled>> /\ result[m] = "none"
    BY <1>3, <1>t DEF Return, PublishInd, PublishOf
  <2>2. CASE cb[m] = "ok"
    <3>1. confirmed' = confirmed \cup {m}
      BY <1>3, <1>t, <2>2 DEF Return, confirmed, MsgTypeOK
    <3>2. m \in stored
      BY <1>t, <2>2 DEF PublishInd, PublishOf
    <3> QED BY <2>1, <3>1, <3>2 DEF DQ!Next, DQ!Confirm
  <2>3. CASE cb[m] = "failed"
    <3>1. confirmed' = confirmed
      BY <1>3, <1>t, <2>1, <2>3 DEF Return, confirmed, MsgTypeOK
    <3> QED BY <2>1, <3>1 DEF DQ!vars
  <2> QED BY <1>3, <2>2, <2>3 DEF Return
<1>4. ASSUME NEW m \in Msgs, Publish(m) PROVE [DQ!Next]_(DQ!vars)
  <2>1. CASE Unpublishable(m) \/ PickSc(m) \/ Send(m) \/ Expire(m)
    <3>1. result[m] = "none"
      BY <1>t, <2>1 DEF PublishInd, PublishOf, Unpublishable, PickSc, Send, Expire
    <3> QED BY <1>1, <1>2, <2>1, <3>1
           DEF Unpublishable, PickSc, Send, Expire, Refuse
  <2>2. CASE PubAcked(m) \/ PubFailed(m) \/ FinSpan(m)
    BY <1>1, <2>2 DEF PubAcked, PubFailed, Callback, FinSpan
  <2> QED BY <1>3, <1>4, <2>1, <2>2 DEF Publish, Publishing
<1>5. ASSUME NEW m \in Msgs, Arrive(m) PROVE [DQ!Next]_(DQ!vars)
  <2> DEFINE K == {k \in Keys : QueueExists(k)}
  <2>1. /\ m \notin stored /\ stored' = stored \cup {m}
        /\ UNCHANGED <<confirmed, handled>>
    BY <1>5, <1>t DEF Arrive, PublishInd, PublishOf, pubVars, confirmed
  <2>2. /\ due' = [k \in Keys |-> IF k \in K THEN due[k] \cup {m} ELSE due[k]]
        /\ owed' = [k \in Keys |-> IF k \in K THEN owed[k] \cup {m} ELSE owed[k]]
    BY <1>5 DEF Arrive
  <2>3. K \in SUBSET Keys
    OBVIOUS
  <2> HIDE DEF K
  <2> QED BY <2>1, <2>2, <2>3 DEF DQ!Next, DQ!Store
<1>6. ASSUME NEW m \in Msgs, Server(m), ~Arrive(m) PROVE [DQ!Next]_(DQ!vars)
  BY <1>1, <1>6 DEF Server, LosePublish, Deliver, pubVars
<1>7. ASSUME NEW w \in work, Handling(w) PROVE [DQ!Next]_(DQ!vars)
  <2>1. /\ w.k \in Keys /\ w.m \in Msgs /\ w.m \in due[w.k]
        /\ w.at = "ack" => w.m \in handled[w.k]
    BY <1>t DEF MsgTypeOK, QueueInd, Deliveries
  <2>2. UNCHANGED <<stored, result, due>>
    BY <1>7, HandlingFrame DEF pubVars
  <2>3. CASE HandlerOk(w)
    <3>1. UNCHANGED <<stored, confirmed, due, owed>>
      BY <2>2, <2>3 DEF HandlerOk, confirmed
    <3>2. handled' = [handled EXCEPT ![w.k] = @ \cup {w.m}]
      BY <2>3 DEF HandlerOk
    <3> QED BY <2>1, <3>1, <3>2 DEF DQ!Next, DQ!Handle
  <2>4. CASE Ack(w)
    <3>1. UNCHANGED <<stored, confirmed, due, handled>> /\ w.at = "ack"
      BY <2>2, <2>4 DEF Ack, confirmed
    <3>2. owed' = [owed EXCEPT ![w.k] = @ \ {w.m}] \/ owed' = owed
      BY <2>4 DEF Ack, SendAck
    <3>3. CASE owed' = owed
      BY <3>1, <3>3 DEF DQ!vars
    <3>4. CASE owed' = [owed EXCEPT ![w.k] = @ \ {w.m}]
      BY <2>1, <3>1, <3>4 DEF DQ!Next, DQ!Forget
    <3> QED BY <3>2, <3>3, <3>4
  <2>5. CASE ~HandlerOk(w) /\ ~Ack(w)
    BY <1>1, <1>7, <2>2, <2>5 DEF Handling, Task, Accept, RefuseTask, LoseDelivery,
       Begin, HandlerFails, OnReturn, OnFailure
  <2> QED BY <2>3, <2>4, <2>5
<1>8. CASE UNCHANGED msgVars
  BY <1>1, <1>8 DEF msgVars, pubVars
<1> QED BY <1>4, <1>5, <1>6, <1>7, <1>8 DEF MsgNext, Connection, allMsgVars

\* stanmsg keeps the promise of a durable queue: stored once, confirmed only then,
\* and owed until it has been handled.
THEOREM StanMsgImplementsQueue == MsgSpec => ImplementsQueue
<1>1. MsgInit => DQ!Init
  BY DEF MsgInit, DQ!Init, confirmed
<1>2. MsgInd /\ [MsgNext]_allMsgVars => [DQ!Next]_(DQ!vars)
  BY QueueStep
<1> QED BY <1>1, <1>2, MessageInvariance, PTL
       DEF MsgSpec, ImplementsQueue, DQ!Spec
=============================================================================
