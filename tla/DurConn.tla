------------------------------- MODULE DurConn -------------------------------
(***************************************************************************)
(* stanmsg.DurConn: a durable connection to nats-streaming-server that     *)
(* reconnects and resubscribes.                                            *)
(*                                                                         *)
(* Goroutines: any number of connect() goroutines (serialized by           *)
(* connectMu), one subscribeAll() goroutine per established connection,    *)
(* the callers of Subscribe and of Close, and the goroutines in which      *)
(* stan.go calls the ConnectionLostHandler.  They share closed, subs, sc   *)
(* and scStaleCh under mu; wg counts connect and subscribeAll goroutines.  *)
(*                                                                         *)
(* stan.go and the server are external: a connection is opened by          *)
(* stan.Connect, may get lost (then its lost handler is called once, in a  *)
(* goroutine of its own) and may be closed (then the handler is not        *)
(* called).                                                                *)
(***************************************************************************)
EXTENDS Integers, FiniteSets

CONSTANTS
  Conns,      \* the stan connections the server can accept, in any order
  NoConn,     \* nil
  Procs,      \* names for the connect goroutines
  Keys,       \* (subject, queue) pairs
  MaxFaults   \* bound on failures of stan.Connect and of QueueSubscribe

ASSUME DurConnAssumption ==
  /\ NoConn \notin Conns
  /\ Procs \cap Conns = {} /\ Procs # {}
  /\ MaxFaults \in Nat

VARIABLES
  \* stan (external)
  conn,      \* state of each connection
  lostCb,    \* lost connections whose lost handler has not run yet
  nSub,      \* number of QueueSubscribe that succeeded, per connection and key
  \* fields of DurConn
  closed, sc, subs,
  stale,     \* connections whose scStaleCh is closed
  \* goroutines
  pc, loc,   \* connect: where it is, the connection it holds in a local
  pending,   \* subscribeAll of a connection: the subs without success yet
  round,     \* and those not tried in this round
  subAll,    \* and where it is
  closer,    \* Close
  closerSc,  \* the connection it holds in a local
  \* history
  panicked,  \* a scStaleCh was closed twice
  faults

stanVars  == <<conn, lostCb, nSub>>
fieldVars == <<closed, sc, subs, stale>>
goVars    == <<pc, loc>>
allVars   == <<pending, round, subAll>>
closeVars == <<closer, closerSc>>
vars == <<stanVars, fieldVars, goVars, allVars, closeVars, panicked, faults>>

ConnStates == {"none", "open", "lost", "closed"}

\* Where connect() is: asleep, waiting for connectMu, or with connectMu held
\* releasing the old connection, dialling, or publishing the new one.
Critical == {"close", "stale", "dial", "update", "drop"}
PcStates == {"none", "sleep", "lock"} \cup Critical

Fault == faults < MaxFaults /\ faults' = faults + 1

-----------------------------------------------------------------------------
(***************************************************************************)
(* stan                                                                    *)
(***************************************************************************)
\* The Streaming connection is lost; there is another one to be had later.
Lost(c) ==
  /\ conn[c] = "open" /\ \E d \in Conns : conn[d] = "none"
  /\ conn' = [conn EXCEPT ![c] = "lost"]
  /\ lostCb' = lostCb \cup {c}
  /\ UNCHANGED <<nSub, fieldVars, goVars, allVars, closeVars, panicked, faults>>

\* sc.Close(): no effect on a connection that is lost or closed.
ScClose(c) ==
  conn' = [conn EXCEPT ![c] = IF @ = "open" THEN "closed" ELSE @]

\* close(scStaleCh): panics if it is closed already.
CloseStaleCh(c) ==
  /\ stale' = stale \cup {c}
  /\ panicked' = (panicked \/ c \in stale)

-----------------------------------------------------------------------------
(***************************************************************************)
(* connect                                                                 *)
(***************************************************************************)
\* A connect goroutine's pc once q is started with goConnect(true).
GoConnect(q, f) == [f EXCEPT ![q] = "sleep"]

\* The ConnectionLostHandler of c: disconnectCb and goConnect(true).
LostHandler(c) ==
  /\ c \in lostCb
  /\ lostCb' = lostCb \ {c}
  /\ \E q \in Procs : pc[q] = "none" /\ pc' = GoConnect(q, pc)
  /\ UNCHANGED <<conn, nSub, fieldVars, loc, allVars, closeVars, panicked, faults>>

Sleep(p) ==
  /\ pc[p] = "sleep"
  /\ pc' = [pc EXCEPT ![p] = "lock"]
  /\ UNCHANGED <<stanVars, fieldVars, loc, allVars, closeVars, panicked, faults>>

ConnectMuFree_Unlocked == TRUE
\* connectMu.Lock() does not block.
ConnectMuFree == \A q \in Procs : pc[q] \notin Critical

ReleaseSc_Kept == UNCHANGED sc
\* dc.sc = nil (and dc.scStaleCh = nil).
ReleaseSc == sc' = NoConn

\* Take connectMu and, under mu, the old connection; return if closed.
Reset(p) ==
  /\ pc[p] = "lock" /\ ConnectMuFree
  /\ IF closed
     THEN pc' = [pc EXCEPT ![p] = "none"] /\ UNCHANGED <<loc, sc>>
     ELSE /\ loc' = [loc EXCEPT ![p] = sc]
          /\ ReleaseSc
          /\ pc' = [pc EXCEPT ![p] = IF sc = NoConn THEN "dial" ELSE "close"]
  /\ UNCHANGED <<stanVars, closed, subs, stale, allVars, closeVars, panicked, faults>>

\* sc.Close() of the old connection, outside mu.
CloseOld(p) ==
  /\ pc[p] = "close"
  /\ ScClose(loc[p])
  /\ pc' = [pc EXCEPT ![p] = "stale"]
  /\ UNCHANGED <<lostCb, nSub, fieldVars, loc, allVars, closeVars, panicked, faults>>

\* close(scStaleCh) of the old connection.
StaleOld(p) ==
  /\ pc[p] = "stale"
  /\ CloseStaleCh(loc[p])
  /\ pc' = [pc EXCEPT ![p] = "dial"]
  /\ loc' = [loc EXCEPT ![p] = NoConn]
  /\ UNCHANGED <<stanVars, closed, sc, subs, allVars, closeVars, faults>>

\* stan.Connect succeeds; connectCb is called.
Dial(p) ==
  /\ pc[p] = "dial"
  /\ \E c \in Conns :
       /\ conn[c] = "none"
       /\ conn' = [conn EXCEPT ![c] = "open"]
       /\ loc' = [loc EXCEPT ![p] = c]
  /\ pc' = [pc EXCEPT ![p] = "update"]
  /\ UNCHANGED <<lostCb, nSub, fieldVars, allVars, closeVars, panicked, faults>>

RetryDial_Omitted(p) == pc' = [pc EXCEPT ![p] = "none"]
\* p ends after it has started another connect goroutine.
RetryDial(p) ==
  \E q \in Procs \ {p} :
    /\ pc[q] = "none"
    /\ pc' = GoConnect(q, [pc EXCEPT ![p] = "none"])

\* stan.Connect fails.
DialFail(p) ==
  /\ pc[p] = "dial" /\ Fault
  /\ RetryDial(p)
  /\ UNCHANGED <<stanVars, fieldVars, loc, allVars, closeVars, panicked>>

\* closed is checked again: Close may have been called while dialling.
ClosedBeforeUpdate == closed

\* Publish the new connection under mu, with the subscriptions to renew on it.
Update(p) ==
  /\ pc[p] = "update"
  /\ IF ClosedBeforeUpdate
     THEN /\ pc' = [pc EXCEPT ![p] = "drop"]
          /\ UNCHANGED <<loc, sc, allVars>>
     ELSE /\ sc' = loc[p]
          /\ pending' = [pending EXCEPT ![loc[p]] = subs]
          /\ round' = [round EXCEPT ![loc[p]] = subs]
          /\ subAll' = [subAll EXCEPT ![loc[p]] = "run"]
          /\ pc' = [pc EXCEPT ![p] = "none"]
          /\ loc' = [loc EXCEPT ![p] = NoConn]
  /\ UNCHANGED <<stanVars, closed, subs, stale, closeVars, panicked, faults>>

\* The new connection is of no use: sc.Close() and close(scStaleCh).
Drop(p) ==
  /\ pc[p] = "drop"
  /\ ScClose(loc[p]) /\ CloseStaleCh(loc[p])
  /\ pc' = [pc EXCEPT ![p] = "none"]
  /\ loc' = [loc EXCEPT ![p] = NoConn]
  /\ UNCHANGED <<lostCb, nSub, closed, sc, subs, allVars, closeVars, faults>>

-----------------------------------------------------------------------------
(***************************************************************************)
(* Subscriptions                                                           *)
(***************************************************************************)
\* QueueSubscribe of k on c succeeds.
Subscribe(c, k) ==
  /\ conn[c] = "open"
  /\ nSub' = [nSub EXCEPT ![c][k] = @ + 1]

NotSubscribed_Unchecked(k) == TRUE
\* The check that makes subscribeOne return ErrDupSubscription.
NotSubscribed(k) == k \notin subs

\* subscribeOne, under mu throughout.  A call that returns an error (closed,
\* duplicate, or QueueSubscribe failed) changes nothing.
SubscribeOne(k) ==
  /\ ~closed /\ NotSubscribed(k)
  /\ IF sc = NoConn THEN UNCHANGED nSub ELSE Subscribe(sc, k)
  /\ subs' = subs \cup {k}
  /\ UNCHANGED <<conn, lostCb, closed, sc, stale, goVars, allVars, closeVars,
                 panicked, faults>>

\* subscribeAll of connection c subscribes k; it ends if c has become stale.
SubscribeAll(c, k) ==
  /\ subAll[c] = "run" /\ k \in round[c]
  /\ Subscribe(c, k)
  /\ pending' = [pending EXCEPT ![c] = @ \ {k}]
  /\ round' = [round EXCEPT ![c] = @ \ {k}]
  /\ subAll' = [subAll EXCEPT ![c] = IF c \in stale THEN "done" ELSE @]
  /\ UNCHANGED <<conn, lostCb, fieldVars, goVars, closeVars, panicked, faults>>

\* QueueSubscribe fails, always so on a connection that is not open.
SubscribeAllFail(c, k) ==
  /\ subAll[c] = "run" /\ k \in round[c]
  /\ (conn[c] # "open" /\ UNCHANGED faults) \/ Fault
  /\ round' = [round EXCEPT ![c] = @ \ {k}]
  /\ UNCHANGED <<stanVars, fieldVars, goVars, pending, subAll, closeVars, panicked>>

AllSuccess(c) == pending[c] = {}

\* The end of a round: all success, stale, or try again after subRetryWait.
SubscribeAllRound(c) ==
  /\ subAll[c] = "run" /\ round[c] = {}
  /\ IF AllSuccess(c) \/ c \in stale
     THEN subAll' = [subAll EXCEPT ![c] = "done"] /\ UNCHANGED round
     ELSE round' = [round EXCEPT ![c] = pending[c]] /\ UNCHANGED subAll
  /\ UNCHANGED <<stanVars, fieldVars, goVars, pending, closeVars, panicked, faults>>

-----------------------------------------------------------------------------
(***************************************************************************)
(* Close                                                                   *)
(***************************************************************************)
NilCheck_Omitted(c) == "close"
\* if sc != nil.
NilCheck(c) == IF c = NoConn THEN "wait" ELSE "close"

\* Mark closed and take the connection, under mu.  Later calls return at once.
Close ==
  /\ ~closed
  /\ closed' = TRUE
  /\ closerSc' = sc
  /\ ReleaseSc
  /\ closer' = NilCheck(sc)
  /\ UNCHANGED <<stanVars, subs, stale, goVars, allVars, panicked, faults>>

CloseSc ==
  /\ closer = "close"
  /\ ScClose(closerSc)
  /\ closer' = "stale"
  /\ UNCHANGED <<lostCb, nSub, fieldVars, goVars, allVars, closerSc, panicked, faults>>

CloseStale_Omitted(c) == UNCHANGED <<stale, panicked>>
CloseStale(c) == CloseStaleCh(c)

\* close(scStaleCh), then runner.Close().
CloseStaleStep ==
  /\ closer = "stale"
  /\ CloseStale(closerSc)
  /\ closer' = "wait" /\ closerSc' = NoConn
  /\ UNCHANGED <<stanVars, closed, sc, subs, goVars, allVars, faults>>

\* The counter of wg is zero.
WgDone == /\ \A p \in Procs : pc[p] = "none"
          /\ \A c \in Conns : subAll[c] # "run"

\* wg.Wait() returns, and Close with it.
CloseReturn ==
  /\ closer = "wait" /\ WgDone
  /\ closer' = "done"
  /\ UNCHANGED <<stanVars, fieldVars, goVars, allVars, closerSc, panicked, faults>>

-----------------------------------------------------------------------------
\* NewDurConn: goConnect(false).
Init ==
  /\ conn = [c \in Conns |-> "none"] /\ lostCb = {}
  /\ nSub = [c \in Conns |-> [k \in Keys |-> 0]]
  /\ closed = FALSE /\ sc = NoConn /\ subs = {} /\ stale = {}
  /\ \E p \in Procs : pc = [q \in Procs |-> IF q = p THEN "lock" ELSE "none"]
  /\ loc = [p \in Procs |-> NoConn]
  /\ pending = [c \in Conns |-> {}] /\ round = [c \in Conns |-> {}]
  /\ subAll = [c \in Conns |-> "none"]
  /\ closer = "idle" /\ closerSc = NoConn
  /\ panicked = FALSE /\ faults = 0

Connect(p) == Sleep(p) \/ Reset(p) \/ CloseOld(p) \/ StaleOld(p) \/ Dial(p)
                \/ Update(p) \/ Drop(p)

SubscribeAllGo(c) ==
  SubscribeAllRound(c) \/ \E k \in Keys : SubscribeAll(c, k) \/ SubscribeAllFail(c, k)

Closing == CloseSc \/ CloseStaleStep \/ CloseReturn

\* Closed, and every goroutine has ended.
Terminated ==
  /\ closer = "done" /\ lostCb = {} /\ WgDone
  /\ UNCHANGED vars

Next ==
  \/ \E c \in Conns : Lost(c) \/ LostHandler(c) \/ SubscribeAllGo(c)
  \/ \E p \in Procs : Connect(p) \/ DialFail(p)
  \/ \E k \in Keys : SubscribeOne(k)
  \/ Close \/ Closing \/ Terminated

(***************************************************************************)
(* Fairness: goroutines run and calls to stan return.  Nothing is assumed  *)
(* of the callers of Subscribe and Close, of losses and of failures.       *)
(***************************************************************************)
Fairness ==
  /\ \A p \in Procs : WF_vars(Connect(p))
  /\ \A c \in Conns : WF_vars(LostHandler(c)) /\ WF_vars(SubscribeAllGo(c))
  /\ WF_vars(Closing)

Spec == Init /\ [][Next]_vars
FairSpec == Spec /\ Fairness

-----------------------------------------------------------------------------
(***************************************************************************)
(* Safety                                                                  *)
(***************************************************************************)
\* Type invariant of stanmsg.DurConn and of the stan connections it has made.
TypeOK ==
  /\ conn \in [Conns -> ConnStates] /\ lostCb \subseteq Conns
  /\ nSub \in [Conns -> [Keys -> Nat]]
  /\ closed \in BOOLEAN /\ sc \in Conns \cup {NoConn}
  /\ subs \subseteq Keys /\ stale \subseteq Conns
  /\ pc \in [Procs -> PcStates] /\ loc \in [Procs -> Conns \cup {NoConn}]
  /\ pending \in [Conns -> SUBSET Keys] /\ round \in [Conns -> SUBSET Keys]
  /\ subAll \in [Conns -> {"none", "run", "done"}]
  /\ closer \in {"idle", "close", "stale", "wait", "done"}
  /\ closerSc \in Conns \cup {NoConn}
  /\ panicked \in BOOLEAN /\ faults \in Nat

\* Who is in charge of there being a connection: a connect goroutine that has
\* not connected yet, a lost handler about to start one, or an open connection
\* (whose loss will call its handler).
Reconnecting == {"sleep", "lock", "close", "stale", "dial"}
InCharge == {p \in Procs : pc[p] \in Reconnecting} \cup lostCb
              \cup {c \in Conns : conn[c] = "open"}

\* At any time exactly one is in charge, until Close: never none (DurConn would
\* stay disconnected for ever), never two (two connections would be made, and
\* one of them leaked or every message consumed on a connection not in sc).
OneInCharge ==
  /\ \A s, t \in InCharge : s = t
  /\ ~closed => InCharge # {}

\* No connection leaks: one that is open is in dc.sc or in the hands of the
\* goroutine that will put it there or close it.
NoneLeaked ==
  \A c \in Conns : conn[c] = "open" =>
    \/ c = sc
    \/ \E p \in Procs : pc[p] \in {"update", "drop"} /\ loc[p] = c
    \/ closer = "close" /\ closerSc = c

\* Every scStaleCh is closed at most once, whichever of connect and Close takes
\* the connection (a second close would panic).
NoDoubleClose == ~panicked

\* A DurConn that is closed publishes no connection again, and when Close has
\* returned none is left open, although one may have been dialled meanwhile.
ClosedForGood ==
  /\ closed => sc = NoConn
  /\ closer = "done" => \A c \in Conns : conn[c] # "open"

\* What becomes of connections: none leaks, be it dialled when Close is called,
\* and none has its scStaleCh closed twice.
ConnectionsEnd == NoneLeaked /\ ClosedForGood /\ NoDoubleClose

\* A (subject, queue) is subscribed at most once on a connection, whether by
\* subscribeOne or by subscribeAll.
SubscribedOnce == \A c \in Conns, k \in Keys : nSub[c][k] <= 1

\* No subscription is forgotten by a reconnection: on the current connection
\* each one in subs is subscribed, or subscribeAll has yet to succeed with it.
NoneForgotten ==
  \A k \in subs :
    sc # NoConn =>
      nSub[sc][k] = 1 \/ (subAll[sc] = "run" /\ k \in pending[sc])

\* On the current connection each subscription in subs is made once, or will be.
Subscribed == SubscribedOnce /\ NoneForgotten

\* What the comment on the field wg says, "wait for go routines": when Close has
\* returned no goroutine of DurConn is left.
CloseWaitsForAll == closer = "done" => WgDone

-----------------------------------------------------------------------------
(***************************************************************************)
(* Liveness, under FairSpec                                                *)
(***************************************************************************)
\* When losses and failures cease DurConn ends up connected with everything
\* subscribed on a connection that is open, unless it is closed.
Durable ==
  <>[](closed \/ /\ sc # NoConn /\ conn[sc] = "open"
                 /\ \A k \in subs : nSub[sc][k] = 1)

\* Close returns: neither a reconnection in progress nor a resubscription that
\* keeps failing blocks wg.Wait() for ever.
CloseReturns == closed ~> (closer = "done")
=============================================================================
