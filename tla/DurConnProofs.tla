---------------------------- MODULE DurConnProofs ----------------------------
(***************************************************************************)
(* TLAPS proofs about DurConn, for every set of connections, goroutine     *)
(* names and subscriptions and any number of failures.                     *)
(***************************************************************************)
EXTENDS DurConn, TLAPS

(***************************************************************************)
(* The inductive invariant.                                                *)
(***************************************************************************)
\* connectMu: one goroutine at a time is past it, it alone has a local, and
\* there is no current connection meanwhile.
MutexInv ==
  /\ \A p, q \in Procs : pc[p] \in Critical /\ pc[q] \in Critical => p = q
  /\ \A p \in Procs : pc[p] \in {"close", "stale", "update", "drop"} <=> loc[p] # NoConn
  /\ \A p \in Procs : pc[p] = "drop" => closed
  /\ \A p \in Procs : pc[p] \in Critical => sc = NoConn

\* Close: what its program counter says of closed and of its local.
CloseInv ==
  /\ closed <=> closer # "idle"
  /\ closed => sc = NoConn
  /\ closer \in {"close", "stale"} <=> closerSc # NoConn
  /\ closer = "done" => \A p \in Procs : pc[p] \in {"none", "sleep", "lock"}

\* Each connection whose scStaleCh is open has one owner: the field sc, a
\* connect goroutine or Close.
OwnerInv ==
  /\ sc \notin stale
  /\ \A p \in Procs : loc[p] # NoConn => loc[p] \notin stale /\ loc[p] # sc /\ loc[p] # closerSc
  /\ closerSc \notin stale /\ NoConn \notin stale
  /\ NoDoubleClose

\* A connection that has not been dialled is not known to anyone.
FreshInv ==
  /\ \A c \in Conns : conn[c] = "none" =>
       /\ c \notin stale /\ c # sc /\ c # closerSc /\ subAll[c] = "none"
       /\ \A p \in Procs : c # loc[p]
       /\ \A k \in Keys : nSub[c][k] = 0
  /\ \A c \in lostCb : conn[c] = "lost"

\* Subscriptions: what is pending for a connection is registered and not yet
\* subscribed on it.
SubInv ==
  /\ \A c \in Conns : round[c] \subseteq pending[c] /\ pending[c] \subseteq subs
  /\ \A c \in Conns, k \in Keys : nSub[c][k] <= 1
  /\ \A c \in Conns, k \in Keys : k \in pending[c] => nSub[c][k] = 0
  /\ \A c \in Conns, k \in Keys : nSub[c][k] # 0 => k \in subs
  /\ \A p \in Procs : pc[p] \in {"update", "drop"} =>
       subAll[loc[p]] = "none" /\ \A k \in Keys : nSub[loc[p]][k] = 0
  /\ NoneForgotten

IndInv == /\ TypeOK /\ MutexInv /\ CloseInv /\ OwnerInv /\ FreshInv
          /\ OneInCharge /\ NoneLeaked /\ SubInv

-----------------------------------------------------------------------------
(***************************************************************************)
(* Type correctness.                                                       *)
(***************************************************************************)
USE DurConnAssumption

\* Subscribe counts one more QueueSubscribe of k on c, and nothing else.
LEMMA SubscribeEffect ==
  ASSUME TypeOK, NEW c \in Conns, NEW k \in Keys, Subscribe(c, k)
  PROVE  /\ nSub' \in [Conns -> [Keys -> Nat]]
         /\ nSub'[c][k] = nSub[c][k] + 1
         /\ \A d \in Conns, l \in Keys :
              d # c \/ l # k => nSub'[d][l] = nSub[d][l]
         /\ conn[c] = "open"
<1> DEFINE f == [nSub[c] EXCEPT ![k] = nSub[c][k] + 1]
<1>1. nSub' = [nSub EXCEPT ![c] = f] /\ conn[c] = "open"
  BY DEF Subscribe
<1>2. nSub \in [Conns -> [Keys -> Nat]] /\ nSub[c] \in [Keys -> Nat]
  BY DEF TypeOK
<1>3. f \in [Keys -> Nat] /\ f[k] = nSub[c][k] + 1
      /\ \A l \in Keys : l # k => f[l] = nSub[c][l]
  BY <1>2
<1> HIDE DEF f
<1> QED BY <1>1, <1>2, <1>3

\* Every step of DurConn keeps its state well typed.
LEMMA TypeStep ==
  ASSUME TypeOK, MutexInv, CloseInv, [Next]_vars
  PROVE  TypeOK'
<1> USE DEF TypeOK, ConnStates, PcStates, Critical, stanVars, fieldVars, goVars,
            allVars, closeVars, Fault
<1>1. ASSUME NEW c \in Conns, Lost(c) PROVE TypeOK'
  BY <1>1 DEF Lost
<1>2. ASSUME NEW c \in Conns, LostHandler(c) PROVE TypeOK'
  BY <1>2 DEF LostHandler, GoConnect
<1>3. ASSUME NEW c \in Conns, SubscribeAllGo(c) PROVE TypeOK'
  <2>1. CASE SubscribeAllRound(c)
    <3>1. round' \in [Conns -> SUBSET Keys]
      BY <2>1 DEF SubscribeAllRound
    <3>2. subAll' \in [Conns -> {"none", "run", "done"}]
      BY <2>1 DEF SubscribeAllRound
    <3> QED BY <2>1, <3>1, <3>2 DEF SubscribeAllRound
  <2>2. ASSUME NEW k \in Keys, SubscribeAll(c, k) PROVE TypeOK'
    <3>1. nSub' \in [Conns -> [Keys -> Nat]]
      BY <2>2, SubscribeEffect DEF SubscribeAll
    <3>2. /\ pending' \in [Conns -> SUBSET Keys]
          /\ round' \in [Conns -> SUBSET Keys]
      BY <2>2 DEF SubscribeAll
    <3>3. subAll' \in [Conns -> {"none", "run", "done"}]
      BY <2>2 DEF SubscribeAll
    <3> QED BY <2>2, <3>1, <3>2, <3>3 DEF SubscribeAll
  <2>3. ASSUME NEW k \in Keys, SubscribeAllFail(c, k) PROVE TypeOK'
    BY <2>3 DEF SubscribeAllFail
  <2> QED BY <1>3, <2>1, <2>2, <2>3 DEF SubscribeAllGo
<1>4. ASSUME NEW p \in Procs, Connect(p) PROVE TypeOK'
  <2>1. CASE Sleep(p)
    BY <2>1 DEF Sleep
  <2>2. CASE Reset(p)
    BY <2>2 DEF Reset, ReleaseSc
  <2>3. CASE CloseOld(p)
    BY <2>3 DEF CloseOld, ScClose
  <2>4. CASE StaleOld(p)
    <3>1. loc[p] \in Conns
      BY <2>4 DEF StaleOld, MutexInv
    <3>2. panicked' \in BOOLEAN
      BY <2>4, Zenon DEF StaleOld, CloseStaleCh
    <3> QED BY <2>4, <3>1, <3>2 DEF StaleOld, CloseStaleCh
  <2>5. CASE Dial(p)
    BY <2>5 DEF Dial
  <2>6. CASE Update(p)
    <3>1. loc[p] \in Conns
      BY <2>6 DEF Update, MutexInv
    <3>2. CASE closed
      BY <2>6, <3>2 DEF Update, ClosedBeforeUpdate
    <3>3. CASE ~closed
      <4>1. /\ pending' = [pending EXCEPT ![loc[p]] = subs]
            /\ round' = [round EXCEPT ![loc[p]] = subs]
        BY <2>6, <3>1, <3>3 DEF Update, ClosedBeforeUpdate
      <4>5. /\ pending' \in [Conns -> SUBSET Keys]
            /\ round' \in [Conns -> SUBSET Keys]
        BY <4>1
      <4>2. subAll' = [subAll EXCEPT ![loc[p]] = "run"] /\ sc' \in Conns
        BY <2>6, <3>1, <3>3 DEF Update, ClosedBeforeUpdate
      <4>4. subAll' \in [Conns -> {"none", "run", "done"}]
        BY <4>2
      <4>3. /\ pc' \in [Procs -> PcStates]
            /\ loc' \in [Procs -> Conns \cup {NoConn}]
        BY <2>6, <3>1, <3>3 DEF Update, ClosedBeforeUpdate
      <4> QED BY <2>6, <4>2, <4>3, <4>4, <4>5 DEF Update
    <3> QED BY <3>2, <3>3
  <2>7. CASE Drop(p)
    <3>1. loc[p] \in Conns
      BY <2>7 DEF Drop, MutexInv
    <3>2. panicked' \in BOOLEAN
      BY <2>7, Zenon DEF Drop, CloseStaleCh
    <3>3. conn' \in [Conns -> ConnStates] /\ stale' \subseteq Conns
      BY <2>7, <3>1 DEF Drop, CloseStaleCh, ScClose
    <3>4. pc' \in [Procs -> PcStates] /\ loc' \in [Procs -> Conns \cup {NoConn}]
      BY <2>7 DEF Drop
    <3> QED BY <2>7, <3>2, <3>3, <3>4 DEF Drop
  <2> QED BY <1>4, <2>1, <2>2, <2>3, <2>4, <2>5, <2>6, <2>7 DEF Connect
<1>5. ASSUME NEW p \in Procs, DialFail(p) PROVE TypeOK'
  BY <1>5 DEF DialFail, RetryDial, GoConnect
<1>6. ASSUME NEW k \in Keys, SubscribeOne(k) PROVE TypeOK'
  <2>1. nSub' \in [Conns -> [Keys -> Nat]]
    BY <1>6, SubscribeEffect DEF SubscribeOne
  <2> QED BY <1>6, <2>1 DEF SubscribeOne
<1>7. CASE Close
  BY <1>7 DEF Close, ReleaseSc, NilCheck
<1>8. CASE Closing
  <2>1. CASE CloseSc
    BY <2>1 DEF CloseSc, ScClose
  <2>2. CASE CloseStaleStep
    <3>1. closerSc \in Conns
      BY <2>2 DEF CloseStaleStep, CloseInv
    <3>2. panicked' \in BOOLEAN
      BY <2>2, Zenon DEF CloseStaleStep, CloseStale, CloseStaleCh
    <3> QED BY <2>2, <3>1, <3>2 DEF CloseStaleStep, CloseStale, CloseStaleCh
  <2>3. CASE CloseReturn
    BY <2>3 DEF CloseReturn
  <2> QED BY <1>8, <2>1, <2>2, <2>3 DEF Closing
<1>9. CASE UNCHANGED vars
  BY <1>9 DEF vars
<1> QED BY <1>1, <1>2, <1>3, <1>4, <1>5, <1>6, <1>7, <1>8, <1>9
       DEF Next, Terminated

-----------------------------------------------------------------------------
(***************************************************************************)
(* The control of connect and of Close.                                    *)
(***************************************************************************)
\* connectMu keeps connect goroutines from overlapping.
LEMMA MutexStep ==
  ASSUME TypeOK, MutexInv, CloseInv, [Next]_vars
  PROVE  MutexInv'
<1> USE DEF TypeOK, MutexInv, Critical, PcStates, stanVars, fieldVars, goVars, allVars, closeVars
<1>1. ASSUME NEW c \in Conns, Lost(c) PROVE MutexInv'
  BY <1>1 DEF Lost
<1>2. ASSUME NEW c \in Conns, LostHandler(c) PROVE MutexInv'
  BY <1>2 DEF LostHandler, GoConnect
<1>3. ASSUME NEW c \in Conns, SubscribeAllGo(c) PROVE MutexInv'
  <2>1. CASE SubscribeAllRound(c)
    BY <2>1 DEF SubscribeAllRound, AllSuccess
  <2>2. ASSUME NEW k \in Keys, SubscribeAll(c, k) PROVE MutexInv'
    BY <2>2 DEF SubscribeAll
  <2>3. ASSUME NEW k \in Keys, SubscribeAllFail(c, k) PROVE MutexInv'
    BY <2>3 DEF SubscribeAllFail
  <2> QED BY <1>3, <2>1, <2>2, <2>3 DEF SubscribeAllGo
<1>4. ASSUME NEW p \in Procs, Connect(p) PROVE MutexInv'
  <2>1. CASE Sleep(p)
    BY <2>1 DEF Sleep
  <2>2. CASE Reset(p)
    BY <2>2 DEF Reset, ReleaseSc, ConnectMuFree
  <2>3. CASE CloseOld(p)
    BY <2>3 DEF CloseOld, ScClose
  <2>4. CASE StaleOld(p)
    BY <2>4 DEF StaleOld, CloseStaleCh
  <2>5. CASE Dial(p)
    BY <2>5 DEF Dial
  <2>6. CASE Update(p)
    <3>1. pc[p] = "update" /\ UNCHANGED closed /\ sc = NoConn
          /\ \A q \in Procs : q # p => pc[q] \notin Critical
      BY <2>6 DEF Update
    <3>2. CASE closed
      <4>1. pc' = [pc EXCEPT ![p] = "drop"] /\ UNCHANGED <<loc, sc>>
        BY <2>6, <3>2 DEF Update, ClosedBeforeUpdate
      <4> QED BY <3>1, <3>2, <4>1
    <3>3. CASE ~closed
      <4>1. pc' = [pc EXCEPT ![p] = "none"] /\ loc' = [loc EXCEPT ![p] = NoConn]
        BY <2>6, <3>3 DEF Update, ClosedBeforeUpdate
      <4>2. \A q \in Procs : pc'[q] \notin Critical
        BY <3>1, <4>1
      <4>3. \A q \in Procs : loc'[q] = NoConn
        BY <3>1, <4>1
      <4> QED BY <4>2, <4>3
    <3> QED BY <3>2, <3>3
  <2>7. CASE Drop(p)
    BY <2>7 DEF Drop, ScClose, CloseStaleCh
  <2> QED BY <1>4, <2>1, <2>2, <2>3, <2>4, <2>5, <2>6, <2>7 DEF Connect
<1>5. ASSUME NEW p \in Procs, DialFail(p) PROVE MutexInv'
  <2>1. PICK q \in Procs \ {p} :
          pc[q] = "none" /\ pc' = [pc EXCEPT ![p] = "none", ![q] = "sleep"]
    BY <1>5 DEF DialFail, RetryDial, GoConnect
  <2>2. pc[p] = "dial" /\ UNCHANGED <<loc, sc, closed>>
    BY <1>5 DEF DialFail
  <2>3. \A r \in Procs : pc'[r] = IF r = p THEN "none" ELSE IF r = q THEN "sleep" ELSE pc[r]
    BY <2>1
  <2>4. \A r \in Procs : pc'[r] \in Critical => r # p /\ pc[r] \in Critical
    BY <2>3
  <2>5. \A r \in Procs : pc[r] \in Critical => r = p
    BY <2>2
  <2>6. \A r \in Procs : pc'[r] \notin Critical /\ loc'[r] = NoConn
    BY <2>2, <2>4, <2>5
  <2> QED BY <2>6
<1>6. ASSUME NEW k \in Keys, SubscribeOne(k) PROVE MutexInv'
  BY <1>6 DEF SubscribeOne
<1>7. CASE Close
  BY <1>7 DEF Close, ReleaseSc, NilCheck
<1>8. CASE Closing
  <2>1. CASE CloseSc
    BY <2>1 DEF CloseSc, ScClose
  <2>2. CASE CloseStaleStep
    BY <2>2 DEF CloseStaleStep, CloseStale, CloseStaleCh
  <2>3. CASE CloseReturn
    BY <2>3 DEF CloseReturn, WgDone
  <2> QED BY <1>8, <2>1, <2>2, <2>3 DEF Closing
<1>9. CASE UNCHANGED vars
  BY <1>9 DEF vars
<1> QED BY <1>1, <1>2, <1>3, <1>4, <1>5, <1>6, <1>7, <1>8, <1>9
       DEF Next, Terminated

\* What Close's program counter says of closed, sc and its local stays true.
LEMMA CloseStep ==
  ASSUME TypeOK, MutexInv, CloseInv, [Next]_vars
  PROVE  CloseInv'
<1> USE DEF TypeOK, MutexInv, CloseInv, Critical, PcStates, stanVars, fieldVars, goVars, allVars, closeVars
<1>1. ASSUME NEW c \in Conns, Lost(c) PROVE CloseInv'
  BY <1>1 DEF Lost
<1>2. ASSUME NEW c \in Conns, LostHandler(c) PROVE CloseInv'
  BY <1>2 DEF LostHandler, GoConnect
<1>3. ASSUME NEW c \in Conns, SubscribeAllGo(c) PROVE CloseInv'
  <2>1. CASE SubscribeAllRound(c)
    BY <2>1 DEF SubscribeAllRound, AllSuccess
  <2>2. ASSUME NEW k \in Keys, SubscribeAll(c, k) PROVE CloseInv'
    BY <2>2 DEF SubscribeAll
  <2>3. ASSUME NEW k \in Keys, SubscribeAllFail(c, k) PROVE CloseInv'
    BY <2>3 DEF SubscribeAllFail
  <2> QED BY <1>3, <2>1, <2>2, <2>3 DEF SubscribeAllGo
<1>4. ASSUME NEW p \in Procs, Connect(p) PROVE CloseInv'
  <2>1. CASE Sleep(p)
    BY <2>1 DEF Sleep
  <2>2. CASE Reset(p)
    BY <2>2 DEF Reset, ReleaseSc, ConnectMuFree
  <2>3. CASE CloseOld(p)
    BY <2>3 DEF CloseOld, ScClose
  <2>4. CASE StaleOld(p)
    BY <2>4 DEF StaleOld, CloseStaleCh
  <2>5. CASE Dial(p)
    BY <2>5 DEF Dial
  <2>6. CASE Update(p)
    BY <2>6 DEF Update, ClosedBeforeUpdate
  <2>7. CASE Drop(p)
    BY <2>7 DEF Drop, ScClose, CloseStaleCh
  <2> QED BY <1>4, <2>1, <2>2, <2>3, <2>4, <2>5, <2>6, <2>7 DEF Connect
<1>5. ASSUME NEW p \in Procs, DialFail(p) PROVE CloseInv'
  BY <1>5 DEF DialFail, RetryDial, GoConnect
<1>6. ASSUME NEW k \in Keys, SubscribeOne(k) PROVE CloseInv'
  BY <1>6 DEF SubscribeOne
<1>7. CASE Close
  BY <1>7 DEF Close, ReleaseSc, NilCheck
<1>8. CASE Closing
  <2>1. CASE CloseSc
    BY <2>1 DEF CloseSc, ScClose
  <2>2. CASE CloseStaleStep
    BY <2>2 DEF CloseStaleStep, CloseStale, CloseStaleCh
  <2>3. CASE CloseReturn
    BY <2>3 DEF CloseReturn, WgDone
  <2> QED BY <1>8, <2>1, <2>2, <2>3 DEF Closing
<1>9. CASE UNCHANGED vars
  BY <1>9 DEF vars
<1> QED BY <1>1, <1>2, <1>3, <1>4, <1>5, <1>6, <1>7, <1>8, <1>9
       DEF Next, Terminated

\* sc, connect's local and Close's never share a connection whose scStaleCh they
\* would both close.
LEMMA OwnerStep ==
  ASSUME TypeOK, MutexInv, CloseInv, OwnerInv, FreshInv, [Next]_vars
  PROVE  OwnerInv'
<1> USE DEF TypeOK, MutexInv, CloseInv, OwnerInv, FreshInv, NoDoubleClose,
            Critical, stanVars, fieldVars, goVars, allVars, closeVars
<1>1. ASSUME NEW c \in Conns, Lost(c) PROVE OwnerInv'
  BY <1>1 DEF Lost
<1>2. ASSUME NEW c \in Conns, LostHandler(c) PROVE OwnerInv'
  BY <1>2 DEF LostHandler, GoConnect
<1>3. ASSUME NEW c \in Conns, SubscribeAllGo(c) PROVE OwnerInv'
  <2>1. CASE SubscribeAllRound(c)
    BY <2>1 DEF SubscribeAllRound, AllSuccess
  <2>2. ASSUME NEW k \in Keys, SubscribeAll(c, k) PROVE OwnerInv'
    BY <2>2 DEF SubscribeAll
  <2>3. ASSUME NEW k \in Keys, SubscribeAllFail(c, k) PROVE OwnerInv'
    BY <2>3 DEF SubscribeAllFail
  <2> QED BY <1>3, <2>1, <2>2, <2>3 DEF SubscribeAllGo
<1>4. ASSUME NEW p \in Procs, Connect(p) PROVE OwnerInv'
  <2>1. CASE Sleep(p)
    BY <2>1 DEF Sleep
  <2>2. CASE Reset(p)
    BY <2>2 DEF Reset, ReleaseSc, ConnectMuFree
  <2>3. CASE CloseOld(p)
    BY <2>3 DEF CloseOld, ScClose
  <2>4. CASE StaleOld(p)
    BY <2>4 DEF StaleOld, CloseStaleCh
  <2>5. CASE Dial(p)
    BY <2>5 DEF Dial
  <2>6. CASE Update(p)
    BY <2>6 DEF Update, ClosedBeforeUpdate
  <2>7. CASE Drop(p)
    BY <2>7 DEF Drop, ScClose, CloseStaleCh
  <2> QED BY <1>4, <2>1, <2>2, <2>3, <2>4, <2>5, <2>6, <2>7 DEF Connect
<1>5. ASSUME NEW p \in Procs, DialFail(p) PROVE OwnerInv'
  BY <1>5 DEF DialFail, RetryDial, GoConnect
<1>6. ASSUME NEW k \in Keys, SubscribeOne(k) PROVE OwnerInv'
  BY <1>6 DEF SubscribeOne
<1>7. CASE Close
  BY <1>7 DEF Close, ReleaseSc, NilCheck
<1>8. CASE Closing
  <2>1. CASE CloseSc
    BY <2>1 DEF CloseSc, ScClose
  <2>2. CASE CloseStaleStep
    BY <2>2 DEF CloseStaleStep, CloseStale, CloseStaleCh
  <2>3. CASE CloseReturn
    BY <2>3 DEF CloseReturn, WgDone
  <2> QED BY <1>8, <2>1, <2>2, <2>3 DEF Closing
<1>9. CASE UNCHANGED vars
  BY <1>9 DEF vars
<1> QED BY <1>1, <1>2, <1>3, <1>4, <1>5, <1>6, <1>7, <1>8, <1>9
       DEF Next, Terminated

\* Nobody knows a connection before it is dialled.
LEMMA FreshStep ==
  ASSUME TypeOK, MutexInv, CloseInv, OwnerInv, FreshInv, [Next]_vars
  PROVE  FreshInv'
<1> USE DEF TypeOK, MutexInv, CloseInv, FreshInv, ConnStates, stanVars, fieldVars, goVars, allVars, closeVars
<1>1. ASSUME NEW c \in Conns, Lost(c) PROVE FreshInv'
  BY <1>1 DEF Lost
<1>2. ASSUME NEW c \in Conns, LostHandler(c) PROVE FreshInv'
  BY <1>2 DEF LostHandler, GoConnect
<1>3. ASSUME NEW c \in Conns, SubscribeAllGo(c) PROVE FreshInv'
  <2>1. CASE SubscribeAllRound(c)
    BY <2>1 DEF SubscribeAllRound, AllSuccess
  <2>2. ASSUME NEW k \in Keys, SubscribeAll(c, k) PROVE FreshInv'
    <3>1. /\ conn[c] # "none" /\ \A d \in Conns, l \in Keys :
                                    d # c => nSub'[d][l] = nSub[d][l]
      BY <2>2, SubscribeEffect DEF SubscribeAll
    <3>2. \A d \in Conns : d # c => subAll'[d] = subAll[d]
      BY <2>2 DEF SubscribeAll
    <3>3. UNCHANGED <<conn, lostCb, stale, sc, closerSc, loc>>
      BY <2>2 DEF SubscribeAll
    <3> QED BY <3>1, <3>2, <3>3
  <2>3. ASSUME NEW k \in Keys, SubscribeAllFail(c, k) PROVE FreshInv'
    BY <2>3 DEF SubscribeAllFail
  <2> QED BY <1>3, <2>1, <2>2, <2>3 DEF SubscribeAllGo
<1>4. ASSUME NEW p \in Procs, Connect(p) PROVE FreshInv'
  <2>1. CASE Sleep(p)
    BY <2>1 DEF Sleep
  <2>2. CASE Reset(p)
    BY <2>2 DEF Reset, ReleaseSc, ConnectMuFree
  <2>3. CASE CloseOld(p)
    BY <2>3 DEF CloseOld, ScClose
  <2>4. CASE StaleOld(p)
    BY <2>4 DEF StaleOld, CloseStaleCh
  <2>5. CASE Dial(p)
    BY <2>5 DEF Dial
  <2>6. CASE Update(p)
    BY <2>6 DEF Update, ClosedBeforeUpdate
  <2>7. CASE Drop(p)
    BY <2>7 DEF Drop, ScClose, CloseStaleCh
  <2> QED BY <1>4, <2>1, <2>2, <2>3, <2>4, <2>5, <2>6, <2>7 DEF Connect
<1>5. ASSUME NEW p \in Procs, DialFail(p) PROVE FreshInv'
  BY <1>5 DEF DialFail, RetryDial, GoConnect
<1>6. ASSUME NEW k \in Keys, SubscribeOne(k) PROVE FreshInv'
  <2>1. \A d \in Conns, l \in Keys : d # sc => nSub'[d][l] = nSub[d][l]
    BY <1>6, SubscribeEffect DEF SubscribeOne
  <2>2. UNCHANGED <<conn, lostCb, stale, sc, closerSc, loc, subAll>>
    BY <1>6 DEF SubscribeOne
  <2> QED BY <2>1, <2>2
<1>7. CASE Close
  BY <1>7 DEF Close, ReleaseSc, NilCheck
<1>8. CASE Closing
  <2>1. CASE CloseSc
    BY <2>1 DEF CloseSc, ScClose
  <2>2. CASE CloseStaleStep
    BY <2>2 DEF CloseStaleStep, CloseStale, CloseStaleCh
  <2>3. CASE CloseReturn
    BY <2>3 DEF CloseReturn, WgDone
  <2> QED BY <1>8, <2>1, <2>2, <2>3 DEF Closing
<1>9. CASE UNCHANGED vars
  BY <1>9 DEF vars
<1> QED BY <1>1, <1>2, <1>3, <1>4, <1>5, <1>6, <1>7, <1>8, <1>9
       DEF Next, Terminated

-----------------------------------------------------------------------------
(***************************************************************************)
(* Reconnection.                                                           *)
(***************************************************************************)
\* Every step hands the charge of being connected over, or keeps it, until
\* Close; and no step loses track of an open connection.
LEMMA ChargeStep ==
  ASSUME TypeOK, MutexInv, CloseInv, OwnerInv, FreshInv, OneInCharge, NoneLeaked,
         [Next]_vars
  PROVE  OneInCharge' /\ NoneLeaked'
<1> DEFINE Goal == OneInCharge' /\ NoneLeaked'
<1> USE DEF TypeOK, MutexInv, CloseInv, OneInCharge, NoneLeaked, InCharge,
            Reconnecting, stanVars, fieldVars, goVars, allVars, closeVars
<1>1. ASSUME NEW c \in Conns, Lost(c) PROVE Goal
  BY <1>1 DEF Lost
<1>2. ASSUME NEW c \in Conns, LostHandler(c) PROVE Goal
  <2>1. PICK q \in Procs : pc[q] = "none" /\ pc' = [pc EXCEPT ![q] = "sleep"]
    BY <1>2 DEF LostHandler, GoConnect
  <2>2. \A p \in Procs : pc[p] \notin Reconnecting
    BY <1>2 DEF LostHandler
  <2>3. lostCb' = {} /\ \A d \in Conns : conn[d] # "open"
    <3>1. \A s \in InCharge : s = c
      BY <1>2 DEF LostHandler
    <3>2. conn[c] = "lost" /\ lostCb' = lostCb \ {c}
      BY <1>2 DEF LostHandler, FreshInv
    <3>3. \A d \in lostCb : d = c
      BY <3>1
    <3>4. \A d \in Conns : conn[d] = "open" => d = c
      BY <3>1
    <3> QED BY <3>2, <3>3, <3>4
  <2>4. UNCHANGED <<conn, sc, closed, loc, closer, closerSc>>
    BY <1>2 DEF LostHandler
  <2> QED BY <2>1, <2>2, <2>3, <2>4
<1>3. ASSUME NEW c \in Conns, SubscribeAllGo(c) PROVE Goal
  <2>1. CASE SubscribeAllRound(c)
    BY <2>1 DEF SubscribeAllRound, AllSuccess
  <2>2. ASSUME NEW k \in Keys, SubscribeAll(c, k) PROVE Goal
    BY <2>2 DEF SubscribeAll
  <2>3. ASSUME NEW k \in Keys, SubscribeAllFail(c, k) PROVE Goal
    BY <2>3 DEF SubscribeAllFail
  <2> QED BY <1>3, <2>1, <2>2, <2>3 DEF SubscribeAllGo
<1>4. ASSUME NEW p \in Procs, Connect(p) PROVE Goal
  <2>1. CASE Sleep(p)
    BY <2>1 DEF Sleep
  <2>2. CASE Reset(p)
    BY <2>2 DEF Reset, ReleaseSc, ConnectMuFree
  <2>3. CASE CloseOld(p)
    BY <2>3 DEF CloseOld, ScClose
  <2>4. CASE StaleOld(p)
    BY <2>4 DEF StaleOld, CloseStaleCh
  <2>5. CASE Dial(p)
    BY <2>5 DEF Dial
  <2>6. CASE Update(p)
    <3>1. UNCHANGED <<conn, lostCb, closed, closer, closerSc>> /\ pc[p] = "update"
      BY <2>6 DEF Update
    <3>2. CASE closed
      <4>1. pc' = [pc EXCEPT ![p] = "drop"] /\ loc' = loc /\ sc' = sc
        BY <2>6, <3>2 DEF Update, ClosedBeforeUpdate
      <4> QED BY <3>1, <4>1
    <3>3. CASE ~closed
      <4>1. /\ pc' = [pc EXCEPT ![p] = "none"] /\ loc' = [loc EXCEPT ![p] = NoConn]
            /\ sc' = loc[p]
        BY <2>6, <3>3 DEF Update, ClosedBeforeUpdate
      <4>2. sc = NoConn
        BY <3>1 DEF Critical
      <4> QED BY <3>1, <4>1, <4>2
    <3> QED BY <3>2, <3>3
  <2>7. CASE Drop(p)
    BY <2>7 DEF Drop, ScClose, CloseStaleCh
  <2> QED BY <1>4, <2>1, <2>2, <2>3, <2>4, <2>5, <2>6, <2>7 DEF Connect
<1>5. ASSUME NEW p \in Procs, DialFail(p) PROVE Goal
  BY <1>5 DEF DialFail, RetryDial, GoConnect
<1>6. ASSUME NEW k \in Keys, SubscribeOne(k) PROVE Goal
  BY <1>6 DEF SubscribeOne
<1>7. CASE Close
  BY <1>7 DEF Close, ReleaseSc, NilCheck
<1>8. CASE Closing
  <2>1. CASE CloseSc
    BY <2>1 DEF CloseSc, ScClose
  <2>2. CASE CloseStaleStep
    BY <2>2 DEF CloseStaleStep, CloseStale, CloseStaleCh
  <2>3. CASE CloseReturn
    BY <2>3 DEF CloseReturn, WgDone
  <2> QED BY <1>8, <2>1, <2>2, <2>3 DEF Closing
<1>9. CASE UNCHANGED vars
  BY <1>9 DEF vars
<1> QED BY <1>1, <1>2, <1>3, <1>4, <1>5, <1>6, <1>7, <1>8, <1>9
       DEF Next, Terminated

-----------------------------------------------------------------------------
(***************************************************************************)
(* Subscriptions.                                                          *)
(***************************************************************************)
\* No subscription is made twice on a connection, and none is forgotten.
LEMMA SubStep ==
  ASSUME TypeOK, MutexInv, CloseInv, OwnerInv, FreshInv, SubInv, [Next]_vars
  PROVE  SubInv'
<1> USE DEF TypeOK, MutexInv, CloseInv, SubInv, NoneForgotten, stanVars, fieldVars, goVars, allVars, closeVars
<1>1. ASSUME NEW c \in Conns, Lost(c) PROVE SubInv'
  BY <1>1 DEF Lost
<1>2. ASSUME NEW c \in Conns, LostHandler(c) PROVE SubInv'
  BY <1>2 DEF LostHandler, GoConnect
<1>3. ASSUME NEW c \in Conns, SubscribeAllGo(c) PROVE SubInv'
  <2>1. CASE SubscribeAllRound(c)
    <3>1. /\ UNCHANGED <<nSub, subs, sc, pc, loc, pending, stale>>
          /\ \A d \in Conns : d # c => round'[d] = round[d] /\ subAll'[d] = subAll[d]
          /\ round'[c] \subseteq pending[c]
          /\ subAll[c] = "run"
          /\ subAll'[c] # "run" => pending[c] = {} \/ c \in stale
      BY <2>1 DEF SubscribeAllRound, AllSuccess
    <3>2. sc \notin stale
      BY DEF OwnerInv
    <3>3. subAll' \in [Conns -> {"none", "run", "done"}]
      BY TypeStep
    <3>4. NoneForgotten'
      BY <3>1, <3>2, <3>3
    <3>5. \A d \in Conns : round'[d] \subseteq pending'[d] /\ pending'[d] \subseteq subs'
      BY <3>1
    <3>6. \A p \in Procs : pc'[p] \in {"update", "drop"} => subAll'[loc'[p]] = "none"
      <4>1. \A p \in Procs : pc[p] \in {"update", "drop"} =>
              loc[p] \in Conns /\ loc[p] # c
        BY <3>1
      <4> QED BY <3>1, <4>1
    <3> QED BY <3>1, <3>4, <3>5, <3>6
  <2>2. ASSUME NEW k \in Keys, SubscribeAll(c, k) PROVE SubInv'
    <3>1. /\ nSub'[c][k] = nSub[c][k] + 1
          /\ \A d \in Conns, l \in Keys : d # c \/ l # k => nSub'[d][l] = nSub[d][l]
          /\ nSub' \in [Conns -> [Keys -> Nat]]
      BY <2>2, SubscribeEffect DEF SubscribeAll
    <3>2. /\ UNCHANGED <<subs, sc, pc, loc>>
          /\ pending' = [pending EXCEPT ![c] = @ \ {k}]
          /\ round' = [round EXCEPT ![c] = @ \ {k}]
          /\ subAll[c] = "run" /\ k \in round[c]
          /\ \A d \in Conns : d \notin stale => subAll'[d] = subAll[d]
      BY <2>2 DEF SubscribeAll
    <3>3. sc \notin stale
      BY DEF OwnerInv
    <3>4. nSub[c][k] = 0 /\ k \in subs /\ nSub'[c][k] = 1
      BY <3>1, <3>2
    <3>5. ASSUME NEW p \in Procs, pc'[p] \in {"update", "drop"}
          PROVE  subAll'[loc'[p]] = "none" /\ \A l \in Keys : nSub'[loc'[p]][l] = 0
      <4>1. loc[p] \in Conns /\ loc[p] \notin stale /\ loc[p] # c
        BY <3>2, <3>5 DEF OwnerInv
      <4> QED BY <3>1, <3>2, <3>5, <4>1
    <3>6. NoneForgotten'
      BY <3>1, <3>2, <3>3, <3>4
    <3>7. /\ \A d \in Conns : round'[d] \subseteq pending'[d] /\ pending'[d] \subseteq subs'
          /\ \A d \in Conns, l \in Keys : l \in pending'[d] => nSub'[d][l] = 0
      BY <3>1, <3>2
    <3>8. ASSUME NEW d \in Conns, NEW l \in Keys
          PROVE  nSub'[d][l] <= 1 /\ (nSub'[d][l] # 0 => l \in subs')
      <4>1. CASE d = c /\ l = k
        BY <3>2, <3>4, <4>1
      <4>2. CASE d # c \/ l # k
        <5>1. nSub'[d][l] = nSub[d][l] /\ subs' = subs
          BY <3>1, <3>2, <4>2
        <5> QED BY <5>1
      <4> QED BY <4>1, <4>2
    <3> QED BY <3>5, <3>6, <3>7, <3>8
  <2>3. ASSUME NEW k \in Keys, SubscribeAllFail(c, k) PROVE SubInv'
    BY <2>3 DEF SubscribeAllFail
  <2> QED BY <1>3, <2>1, <2>2, <2>3 DEF SubscribeAllGo
<1>4. ASSUME NEW p \in Procs, Connect(p) PROVE SubInv'
  <2>1. CASE Sleep(p)
    BY <2>1 DEF Sleep
  <2>2. CASE Reset(p)
    BY <2>2 DEF Reset, ReleaseSc, ConnectMuFree
  <2>3. CASE CloseOld(p)
    BY <2>3 DEF CloseOld, ScClose
  <2>4. CASE StaleOld(p)
    BY <2>4 DEF StaleOld, CloseStaleCh
  <2>5. CASE Dial(p)
    <3>1. PICK d \in Conns : conn[d] = "none" /\ loc' = [loc EXCEPT ![p] = d]
      BY <2>5 DEF Dial
    <3>2. subAll[d] = "none" /\ \A k \in Keys : nSub[d][k] = 0
      BY <3>1 DEF FreshInv
    <3>3. /\ UNCHANGED <<nSub, subs, sc, pending, round, subAll>>
          /\ pc' = [pc EXCEPT ![p] = "update"]
      BY <2>5 DEF Dial
    <3> QED BY <3>1, <3>2, <3>3
  <2>6. CASE Update(p)
    <3>1. CASE closed
      BY <2>6, <3>1 DEF Update, ClosedBeforeUpdate
    <3>2. CASE ~closed
      <4>1. loc[p] \in Conns /\ subAll[loc[p]] = "none"
            /\ \A k \in Keys : nSub[loc[p]][k] = 0
        BY <2>6 DEF Update
      <4>2. /\ sc' = loc[p] /\ UNCHANGED <<nSub, subs>>
            /\ pending' = [pending EXCEPT ![loc[p]] = subs]
            /\ round' = [round EXCEPT ![loc[p]] = subs]
        BY <2>6, <3>2 DEF Update, ClosedBeforeUpdate
      <4>3. /\ subAll' = [subAll EXCEPT ![loc[p]] = "run"]
            /\ pc' = [pc EXCEPT ![p] = "none"]
            /\ loc' = [loc EXCEPT ![p] = NoConn]
        BY <2>6, <3>2 DEF Update, ClosedBeforeUpdate
      <4>4. \A q \in Procs : pc'[q] \notin {"update", "drop"}
        BY <2>6, <4>3 DEF Update, Critical
      <4>5. NoneForgotten'
        BY <4>1, <4>2, <4>3
      <4>6. /\ \A d \in Conns : round'[d] \subseteq pending'[d] /\ pending'[d] \subseteq subs'
            /\ \A d \in Conns, k \in Keys : k \in pending'[d] => nSub'[d][k] = 0
        BY <4>1, <4>2
      <4> QED BY <4>2, <4>4, <4>5, <4>6
    <3> QED BY <3>1, <3>2
  <2>7. CASE Drop(p)
    BY <2>7 DEF Drop, ScClose, CloseStaleCh
  <2> QED BY <1>4, <2>1, <2>2, <2>3, <2>4, <2>5, <2>6, <2>7 DEF Connect
<1>5. ASSUME NEW p \in Procs, DialFail(p) PROVE SubInv'
  BY <1>5 DEF DialFail, RetryDial, GoConnect
<1>6. ASSUME NEW k \in Keys, SubscribeOne(k) PROVE SubInv'
  <2>1. UNCHANGED <<sc, pc, loc, pending, round, subAll>> /\ subs' = subs \cup {k}
        /\ k \notin subs
    BY <1>6 DEF SubscribeOne, NotSubscribed
  <2>2. CASE sc = NoConn
    <3>1. nSub' = nSub
      BY <1>6, <2>2 DEF SubscribeOne
    <3> QED BY <2>1, <2>2, <3>1
  <2>3. CASE sc # NoConn
    <3>1. /\ nSub'[sc][k] = nSub[sc][k] + 1
          /\ \A d \in Conns, l \in Keys : d # sc \/ l # k => nSub'[d][l] = nSub[d][l]
          /\ nSub' \in [Conns -> [Keys -> Nat]] /\ sc \in Conns
      BY <1>6, <2>3, SubscribeEffect DEF SubscribeOne
    <3>2. nSub[sc][k] = 0 /\ nSub'[sc][k] = 1
      BY <2>1, <3>1
    <3>3. \A p \in Procs : loc[p] # NoConn => loc[p] # sc
      BY DEF OwnerInv
    <3>4. ASSUME NEW p \in Procs, pc'[p] \in {"update", "drop"}
          PROVE  subAll'[loc'[p]] = "none" /\ \A l \in Keys : nSub'[loc'[p]][l] = 0
      BY <2>1, <3>1, <3>3, <3>4
    <3>5. NoneForgotten'
      BY <2>1, <3>1, <3>2
    <3>6. \A d \in Conns : round'[d] \subseteq pending'[d] /\ pending'[d] \subseteq subs'
      BY <2>1
    <3>7. \A d \in Conns, l \in Keys : l \in pending'[d] => nSub'[d][l] = 0
      BY <2>1, <3>1
    <3>8. ASSUME NEW d \in Conns, NEW l \in Keys
          PROVE  nSub'[d][l] <= 1 /\ (nSub'[d][l] # 0 => l \in subs')
      <4>1. CASE d = sc /\ l = k
        BY <2>1, <3>2, <4>1
      <4>2. CASE d # sc \/ l # k
        <5>1. nSub'[d][l] = nSub[d][l] /\ subs \subseteq subs'
          BY <2>1, <3>1, <4>2
        <5> QED BY <5>1
      <4> QED BY <4>1, <4>2
    <3> QED BY <3>4, <3>5, <3>6, <3>7, <3>8
  <2> QED BY <2>2, <2>3
<1>7. CASE Close
  BY <1>7 DEF Close, ReleaseSc, NilCheck
<1>8. CASE Closing
  <2>1. CASE CloseSc
    BY <2>1 DEF CloseSc, ScClose
  <2>2. CASE CloseStaleStep
    BY <2>2 DEF CloseStaleStep, CloseStale, CloseStaleCh
  <2>3. CASE CloseReturn
    BY <2>3 DEF CloseReturn, WgDone
  <2> QED BY <1>8, <2>1, <2>2, <2>3 DEF Closing
<1>9. CASE UNCHANGED vars
  BY <1>9 DEF vars
<1> QED BY <1>1, <1>2, <1>3, <1>4, <1>5, <1>6, <1>7, <1>8, <1>9
       DEF Next, Terminated

-----------------------------------------------------------------------------
(***************************************************************************)
(* The theorems.                                                           *)
(***************************************************************************)
\* NewDurConn starts with one connect goroutine and nothing else.
LEMMA InitIndInv == Init => IndInv
<1> SUFFICES ASSUME Init PROVE IndInv
  OBVIOUS
<1> USE DEF Init
<1>1. PICK p \in Procs : pc = [q \in Procs |-> IF q = p THEN "lock" ELSE "none"]
  OBVIOUS
<1>2. TypeOK
  BY <1>1 DEF TypeOK, ConnStates, PcStates, Critical
<1>3. MutexInv
  BY <1>1 DEF MutexInv, Critical
<1>4. CloseInv /\ OwnerInv /\ FreshInv
  BY <1>1 DEF CloseInv, OwnerInv, FreshInv, NoDoubleClose
<1>5. OneInCharge /\ NoneLeaked
  <2>1. InCharge = {p}
    BY <1>1 DEF InCharge, Reconnecting
  <2> QED BY <2>1 DEF OneInCharge, NoneLeaked
<1>6. SubInv
  BY <1>1 DEF SubInv, NoneForgotten
<1> QED BY <1>2, <1>3, <1>4, <1>5, <1>6 DEF IndInv

\* The inductive invariant holds in every state DurConn reaches, with any number
\* of lost connections, failures, subscriptions and connect goroutines.
THEOREM Invariance == Spec => []IndInv
<1>1. IndInv /\ [Next]_vars => IndInv'
  <2> SUFFICES ASSUME IndInv, [Next]_vars PROVE IndInv'
    OBVIOUS
  <2>1. /\ TypeOK /\ MutexInv /\ CloseInv /\ OwnerInv /\ FreshInv
        /\ OneInCharge /\ NoneLeaked /\ SubInv
    BY DEF IndInv
  <2> QED BY <2>1, TypeStep, MutexStep, CloseStep, OwnerStep, FreshStep,
             ChargeStep, SubStep DEF IndInv
<1> QED BY <1>1, InitIndInv, PTL DEF Spec

\* The state of DurConn and of the connections is always well typed.
THEOREM TypeCorrect == Spec => []TypeOK
<1>1. IndInv => TypeOK
  BY DEF IndInv
<1> QED BY <1>1, Invariance, PTL

\* Of connect goroutines, lost handlers and open connections exactly one is in
\* charge of DurConn being connected: never two, and never none before Close.
THEOREM ExactlyOneInCharge == Spec => []OneInCharge
<1>1. IndInv => OneInCharge
  BY DEF IndInv
<1> QED BY <1>1, Invariance, PTL

\* connect and Close never lose an open connection between them.
THEOREM ConnectionsDoNotLeak == Spec => []NoneLeaked
<1>1. IndInv => NoneLeaked
  BY DEF IndInv
<1> QED BY <1>1, Invariance, PTL

\* connect and Close never close the same scStaleCh twice.
THEOREM StaleChClosedOnce == Spec => []NoDoubleClose
<1>1. IndInv => NoDoubleClose
  BY DEF IndInv, OwnerInv
<1> QED BY <1>1, Invariance, PTL

\* After Close there is no current connection, and once Close has returned no
\* open one, whatever connect goroutines were doing meanwhile.
THEOREM CloseIsFinal == Spec => []ClosedForGood
<1>1. IndInv => ClosedForGood
  <2> SUFFICES ASSUME IndInv PROVE ClosedForGood
    OBVIOUS
  <2>1. closed => sc = NoConn
    BY DEF IndInv, CloseInv
  <2>2. ASSUME closer = "done", NEW c \in Conns PROVE conn[c] # "open"
    <3>1. closed /\ sc = NoConn
      BY <2>1, <2>2 DEF IndInv, CloseInv
    <3>2. \A p \in Procs : pc[p] \notin {"update", "drop"}
      BY <2>2 DEF IndInv, CloseInv
    <3> QED BY <2>2, <3>1, <3>2 DEF IndInv, NoneLeaked
  <2> QED BY <2>1, <2>2 DEF ClosedForGood
<1> QED BY <1>1, Invariance, PTL

\* No connection leaks, and none is closed twice, whenever Close is called.
THEOREM ConnectionsAreClosed == Spec => []ConnectionsEnd
BY ConnectionsDoNotLeak, CloseIsFinal, StaleChClosedOnce, PTL DEF ConnectionsEnd

\* subscribeOne and subscribeAll together never subscribe a (subject, queue)
\* twice on a connection.
THEOREM NeverSubscribedTwice == Spec => []SubscribedOnce
<1>1. IndInv => SubscribedOnce
  BY DEF IndInv, SubInv, SubscribedOnce
<1> QED BY <1>1, Invariance, PTL

\* On the current connection every registered subscription is made, or is
\* pending in a subscribeAll that still runs.
THEOREM SubscriptionsSurvive == Spec => []NoneForgotten
<1>1. IndInv => NoneForgotten
  BY DEF IndInv, SubInv
<1> QED BY <1>1, Invariance, PTL

\* Both: each subscription is on the current connection once.
THEOREM AllSubscribedOnce == Spec => []Subscribed
BY NeverSubscribedTwice, SubscriptionsSurvive, PTL DEF Subscribed
=============================================================================
