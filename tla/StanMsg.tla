------------------------------- MODULE StanMsg -------------------------------
(***************************************************************************)
(* Messages published and consumed through a stanmsg.DurConn, on top of    *)
(* the connections of module DurConn, whose actions are those of this      *)
(* system too.                                                             *)
(*                                                                         *)
(* A message is one call of MsgAsyncPublisherFunc.Publish (msg), whose     *)
(* publisher is DurConn.publishAsync, wrapped in the tracing middleware if *)
(* the caller has a span.  All messages have one subject and each          *)
(* (subject, queue) key gets all of them.                                  *)
(*                                                                         *)
(* stan.go and the server are external.  stan.go gives each accepted       *)
(* publish one callback: nil once the server has acknowledged it, an error *)
(* when that takes too long or the connection ends.  The server keeps a    *)
(* message for each durable queue that exists when it is stored, and       *)
(* delivers it, again and again, until it is acked.                        *)
(***************************************************************************)
EXTENDS DurConn

CONSTANTS
  Msgs,      \* messages
  Traced,    \* those published with a current span
  Dels,      \* names for deliveries under way
  MaxTasks,  \* what the runner of the handlers has room for
  MaxDrops   \* bound on messages, acks and deliveries lost and handlers failing

ASSUME StanMsgAssumption ==
  Traced \subseteq Msgs /\ MaxTasks \in Nat /\ MaxDrops \in Nat

VARIABLES
  \* publishing
  call,      \* where Publish is
  pubSc,     \* the connection it has read from dc.sc
  result,    \* what it returned
  cb,        \* the callback given to stan.go: what it was called with
  tail,      \* callbacks that have called cb and not finished the span yet
  span,      \* spans started
  \* the server (external)
  net,       \* published messages on their way to the server
  pubAcks,   \* acknowledgements on their way back
  stored,    \* messages the server has
  due,       \* those stored for a queue since it exists
  owed,      \* those it has not acked
  \* consuming
  work,      \* deliveries under way
  handled,   \* messages the handler of a queue has returned nil for
  \* history
  nCb, nFin, \* number of calls of the caller's callback, and of span.Finish
  drops

pubVars  == <<call, pubSc, result, cb, tail, span, nCb, nFin>>
srvVars  == <<net, pubAcks, stored, due, owed>>
consVars == <<work, handled>>
msgVars  == <<pubVars, srvVars, consVars, drops>>
allMsgVars == <<vars, msgVars>>

Drop1 == drops < MaxDrops /\ drops' = drops + 1

-----------------------------------------------------------------------------
(***************************************************************************)
(* Publish                                                                 *)
(***************************************************************************)
Refuse_CallsBack(m) ==
  /\ call' = [call EXCEPT ![m] = "returned"]
  /\ result' = [result EXCEPT ![m] = "refused"]
  /\ nCb' = [nCb EXCEPT ![m] = @ + 1]
\* The publisher returns an error: so does Publish, and there is no callback.
Refuse(m) ==
  /\ call' = [call EXCEPT ![m] = "returned"]
  /\ result' = [result EXCEPT ![m] = "refused"]
  /\ UNCHANGED nCb

\* tracer.StartSpan, if there is a current span.
StartSpan(m) == span' = span \cup ({m} \cap Traced)

\* fin: span.Finish(), if there is one.
Finish(m) == nFin' = [nFin EXCEPT ![m] = IF m \in Traced THEN @ + 1 ELSE @]

\* Publish fails before it looks at the connection: the span context cannot be
\* extracted or injected (the span of the latter is never finished), or the
\* message is of the wrong type or cannot be encoded.
Unpublishable(m) ==
  /\ call[m] = "idle"
  /\ Refuse(m)
  /\ \/ UNCHANGED <<span, nFin>>
     \/ StartSpan(m) /\ UNCHANGED nFin
     \/ StartSpan(m) /\ Finish(m)
  /\ UNCHANGED <<vars, pubSc, cb, tail, srvVars, consVars, drops>>

Usable_ClosedOnly == ~closed
\* publishAsync returns neither ErrClosed nor ErrNotConnected.
Usable == ~closed /\ sc # NoConn

\* publishAsync reads closed and sc under mu.
PickSc(m) ==
  /\ call[m] = "idle"
  /\ StartSpan(m)
  /\ IF Usable
     THEN /\ call' = [call EXCEPT ![m] = "picked"]
          /\ pubSc' = [pubSc EXCEPT ![m] = sc]
          /\ UNCHANGED <<result, nCb, nFin>>
     ELSE Refuse(m) /\ Finish(m) /\ UNCHANGED pubSc
  /\ UNCHANGED <<vars, cb, tail, srvVars, consVars, drops>>

\* sc.PublishAsync, after mu is released: an error if the connection has ended.
Send(m) ==
  /\ call[m] = "picked"
  /\ IF conn[pubSc[m]] = "open"
     THEN /\ net' = net \cup {m}
          /\ cb' = [cb EXCEPT ![m] = "pending"]
          /\ call' = [call EXCEPT ![m] = "wait"]
          /\ UNCHANGED <<result, nCb, nFin>>
     ELSE Refuse(m) /\ Finish(m) /\ UNCHANGED <<net, cb>>
  /\ UNCHANGED <<vars, pubSc, tail, span, pubAcks, stored, due, owed, consVars, drops>>

CbResult_NilAlways(r) == "ok"
\* The error that stan.go reports is the one that cb gets.
CbResult(r) == r

FinTail_Omitted(m) == UNCHANGED tail
\* The middleware's callback goes on to finish the span.
FinTail(m) == tail' = tail \cup ({m} \cap Traced)

\* stan.go calls the callback: cb, which closes errc, and then fin.
Callback(m, r) ==
  /\ cb[m] = "pending"
  /\ cb' = [cb EXCEPT ![m] = CbResult(r)]
  /\ nCb' = [nCb EXCEPT ![m] = @ + 1]
  /\ FinTail(m)
  /\ pubAcks' = pubAcks \ {m}
  /\ UNCHANGED <<vars, call, pubSc, result, span, nFin, net, stored, due, owed,
                 consVars, drops>>

\* The server's acknowledgement arrives; or none does within PubAckWait, or the
\* connection ends.
PubAcked(m) == m \in pubAcks /\ Callback(m, "ok")
PubFailed(m) == Callback(m, "failed")

FinSpan(m) ==
  /\ m \in tail
  /\ tail' = tail \ {m}
  /\ Finish(m)
  /\ UNCHANGED <<vars, call, pubSc, result, cb, span, nCb, srvVars, consVars, drops>>

\* Publish returns the callback's error, or that of its context.
Return(m) ==
  /\ call[m] = "wait"
  /\ call' = [call EXCEPT ![m] = "returned"]
  /\ result' = [result EXCEPT ![m] = cb[m]]
  /\ cb[m] \in {"ok", "failed"}
  /\ UNCHANGED <<vars, pubSc, cb, tail, span, nCb, nFin, srvVars, consVars, drops>>

Expire(m) ==
  /\ call[m] = "wait"
  /\ call' = [call EXCEPT ![m] = "returned"]
  /\ result' = [result EXCEPT ![m] = "expired"]
  /\ UNCHANGED <<vars, pubSc, cb, tail, span, nCb, nFin, srvVars, consVars, drops>>

-----------------------------------------------------------------------------
(***************************************************************************)
(* The server                                                              *)
(***************************************************************************)
\* A durable queue exists once it has been subscribed to.
QueueExists(k) == \E c \in Conns : nSub[c][k] > 0

\* A message arrives and is acknowledged, which may be too late for stan.go.
Arrive(m) ==
  /\ m \in net
  /\ net' = net \ {m}
  /\ stored' = stored \cup {m}
  /\ due' = [k \in Keys |-> IF QueueExists(k) THEN due[k] \cup {m} ELSE due[k]]
  /\ owed' = [k \in Keys |-> IF QueueExists(k) THEN owed[k] \cup {m} ELSE owed[k]]
  /\ pubAcks' = IF cb[m] = "pending" THEN pubAcks \cup {m} ELSE pubAcks
  /\ UNCHANGED <<vars, pubVars, consVars, drops>>

\* A message or its acknowledgement is lost.
LosePublish(m) ==
  /\ m \in net \cup pubAcks /\ Drop1
  /\ net' = net \ {m} /\ pubAcks' = pubAcks \ {m}
  /\ UNCHANGED <<vars, pubVars, stored, due, owed, consVars>>

\* A message not acked is sent, or sent again, to one member of the queue.
Deliver(m, k) ==
  /\ m \in owed[k]
  /\ \E c \in Conns, d \in Dels :
       /\ conn[c] = "open" /\ nSub[c][k] > 0
       /\ \A w \in work : w.id # d
       /\ work' = work \cup {[id |-> d, m |-> m, k |-> k, c |-> c, at |-> "sent"]}
  /\ UNCHANGED <<vars, pubVars, srvVars, handled, drops>>

-----------------------------------------------------------------------------
(***************************************************************************)
(* Handling                                                                *)
(***************************************************************************)
Move(w, at) == work' = (work \ {w}) \cup {[w EXCEPT !.at = at]}
End(w) == work' = work \ {w}

\* Close has called runner.Close().
RunnerClosed == closer \in {"wait", "done"}
Tasks == {w \in work : w.at # "sent"}
HasRoom == Cardinality(Tasks) < MaxTasks

\* An ack, if there is still a connection to send it on.
SendAck(w) ==
  owed' = IF conn[w.c] = "open" THEN [owed EXCEPT ![w.k] = @ \ {w.m}] ELSE owed

OnReturn_AutoAck(w) == SendAck(w)
\* stan.go does nothing when the callback of msgHandler has returned, since the
\* subscription is in manual ack mode.
OnReturn(w) == UNCHANGED owed

\* The callback of msgHandler: runner.Submit.
Accept(w) ==
  /\ w.at = "sent" /\ conn[w.c] = "open"
  /\ ~RunnerClosed /\ HasRoom
  /\ Move(w, "queued") /\ OnReturn(w)
  /\ UNCHANGED <<vars, pubVars, net, pubAcks, stored, due, handled, drops>>

\* The runner is busy or closed.
RefuseTask(w) ==
  /\ w.at = "sent" /\ conn[w.c] = "open"
  /\ RunnerClosed \/ ~HasRoom
  /\ End(w) /\ OnReturn(w)
  /\ UNCHANGED <<vars, pubVars, net, pubAcks, stored, due, handled, drops>>

\* A delivery is lost, certainly so if its connection has ended.
LoseDelivery(w) ==
  /\ w.at = "sent"
  /\ (conn[w.c] # "open" /\ UNCHANGED drops) \/ Drop1
  /\ End(w)
  /\ UNCHANGED <<vars, pubVars, srvVars, handled>>

\* The runner gets to the task.
Begin(w) ==
  /\ w.at = "queued"
  /\ Move(w, "running")
  /\ UNCHANGED <<vars, pubVars, srvVars, handled, drops>>

\* The task returns without an ack.
OnFailure(w) == UNCHANGED owed /\ End(w)

\* The task cannot decode the message, or the handler returns an error or panics.
HandlerFails(w) ==
  /\ w.at = "running" /\ Drop1
  /\ OnFailure(w)
  /\ UNCHANGED <<vars, pubVars, net, pubAcks, stored, due, handled>>

\* The task decodes the message and the handler returns nil.
HandlerOk(w) ==
  /\ w.at = "running"
  /\ handled' = [handled EXCEPT ![w.k] = @ \cup {w.m}]
  /\ Move(w, "ack")
  /\ UNCHANGED <<vars, pubVars, srvVars, drops>>

\* stanMsg.Ack(), whose error is ignored.
Ack(w) ==
  /\ w.at = "ack"
  /\ (SendAck(w) /\ UNCHANGED drops) \/ (Drop1 /\ UNCHANGED owed)
  /\ End(w)
  /\ UNCHANGED <<vars, pubVars, net, pubAcks, stored, due, handled>>

-----------------------------------------------------------------------------
MsgInit ==
  /\ Init
  /\ call = [m \in Msgs |-> "idle"] /\ pubSc = [m \in Msgs |-> NoConn]
  /\ result = [m \in Msgs |-> "none"] /\ cb = [m \in Msgs |-> "none"]
  /\ tail = {} /\ span = {}
  /\ net = {} /\ pubAcks = {} /\ stored = {}
  /\ due = [k \in Keys |-> {}] /\ owed = [k \in Keys |-> {}]
  /\ work = {} /\ handled = [k \in Keys |-> {}]
  /\ nCb = [m \in Msgs |-> 0] /\ nFin = [m \in Msgs |-> 0] /\ drops = 0

\* DurConn goes on meanwhile.
Connection == Next /\ UNCHANGED msgVars

\* What stan.go and the goroutine of Publish do by themselves.
Publishing(m) ==
  Send(m) \/ PubAcked(m) \/ PubFailed(m) \/ FinSpan(m) \/ Return(m)

Publish(m) == Unpublishable(m) \/ PickSc(m) \/ Publishing(m) \/ Expire(m)

Server(m) == Arrive(m) \/ LosePublish(m) \/ \E k \in Keys : Deliver(m, k)

Task(w) == Begin(w) \/ HandlerFails(w) \/ HandlerOk(w) \/ Ack(w)

Handling(w) == Accept(w) \/ RefuseTask(w) \/ LoseDelivery(w) \/ Task(w)

MsgNext ==
  \/ Connection
  \/ \E m \in Msgs : Publish(m) \/ Server(m)
  \/ \E w \in work : Handling(w)

(***************************************************************************)
(* Fairness: goroutines run, handlers and calls to stan.go return, and so  *)
(* does PubAckWait.  The server delivers what is not acked as long as      *)
(* there is a member.  Its timing has nothing to do with the runner, so it *)
(* does not find the runner full each time, by delivering only when        *)
(* another message has just taken the room.  Nothing is assumed of         *)
(* contexts, of losses and of who calls Publish.                           *)
(***************************************************************************)
MsgFairness ==
  /\ Fairness
  /\ \A m \in Msgs : WF_allMsgVars(Publishing(m))
  /\ \A d \in Dels : WF_allMsgVars(\E w \in work : w.id = d /\ Handling(w))
  /\ \A m \in Msgs, k \in Keys :
       /\ SF_allMsgVars(HasRoom /\ Deliver(m, k))
       /\ SF_allMsgVars(\E w \in work : w.m = m /\ w.k = k /\ Accept(w))

MsgSpec == MsgInit /\ [][MsgNext]_allMsgVars
MsgFairSpec == MsgSpec /\ MsgFairness

-----------------------------------------------------------------------------
(***************************************************************************)
(* Safety                                                                  *)
(***************************************************************************)
Deliveries == [id : Dels, m : Msgs, k : Keys, c : Conns,
               at : {"sent", "queued", "running", "ack"}]

\* Type invariant of the message part.  publishAsync never goes on with a nil
\* connection.
MsgTypeOK ==
  /\ call \in [Msgs -> {"idle", "picked", "wait", "returned"}]
  /\ pubSc \in [Msgs -> Conns \cup {NoConn}]
  /\ \A m \in Msgs : call[m] = "picked" => pubSc[m] \in Conns
  /\ result \in [Msgs -> {"none", "ok", "refused", "failed", "expired"}]
  /\ cb \in [Msgs -> {"none", "pending", "ok", "failed"}]
  /\ tail \subseteq Msgs /\ span \subseteq Traced
  /\ net \subseteq Msgs /\ pubAcks \subseteq Msgs /\ stored \subseteq Msgs
  /\ due \in [Keys -> SUBSET Msgs] /\ owed \in [Keys -> SUBSET Msgs]
  /\ handled \in [Keys -> SUBSET Msgs]
  /\ work \subseteq Deliveries
  /\ nCb \in [Msgs -> Nat] /\ nFin \in [Msgs -> Nat] /\ drops \in Nat

\* A message is never lost by a queue: one that the server keeps no longer for
\* it has been handled without error, whatever became of connections,
\* handlers, the runner and acks since.
NoneLost == \A k \in Keys : due[k] \ owed[k] \subseteq handled[k]

\* Publish does not lie: when it returns nil the server has the message, when
\* publishAsync returned an error (closed, not connected, the connection ended
\* since) the server does not have it and never will.
HonestPublish ==
  \A m \in Msgs :
    /\ result[m] = "ok" => m \in stored
    /\ result[m] = "refused" => m \notin stored \cup net

\* "The final result is returned by cb if PublishAsync returns nil.  cb must be
\* called exactly once in this case" (msg/async_publisher.go:11): never twice,
\* and not when it returns an error.  Likewise a span is not finished twice.
CallbackOnce ==
  \A m \in Msgs :
    /\ nCb[m] <= 1 /\ nFin[m] <= 1
    /\ result[m] = "refused" => nCb[m] = 0

\* StanMsg implements DurableQueue: every step of publishers, connections, the
\* server and handlers is one of its steps, or none.
confirmed == {m \in Msgs : result[m] = "ok"}
DQ == INSTANCE DurableQueue
ImplementsQueue == DQ!Spec

-----------------------------------------------------------------------------
(***************************************************************************)
(* Liveness                                                                *)
(***************************************************************************)
\* What stan.go has accepted gets its callback, and its span is finished, though
\* Publish may have returned before and the connection be gone.
CallbackComes ==
  \A m \in Msgs : cb[m] = "pending" ~>
    nCb[m] = 1 /\ (m \in Traced => nFin[m] = 1)

\* At least once: what the server has for a queue is handled, over lost
\* connections, full runners and failing handlers, unless DurConn is closed.
HandledAtLeastOnce ==
  \A k \in Keys, m \in Msgs : m \in owed[k] ~> m \in handled[k] \/ closed
=============================================================================
