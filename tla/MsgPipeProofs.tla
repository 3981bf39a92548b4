---------------------------- MODULE MsgPipeProofs ----------------------------
(***************************************************************************)
(* TLAPS proofs about MsgPipe, for every set of rows, every maxInflight,   *)
(* either kind of downstream and any number of faults.                     *)
(***************************************************************************)
EXTENDS MsgPipe, FiniteSetTheorems, SequenceTheorems, TLAPS

(***************************************************************************)
(* The inductive invariant, in four parts.                                 *)
(***************************************************************************)
\* Positions: the dump never runs ahead of the slave, nor the slave of the
\* master, and the rows of this run were inserted up to the dump's position.
PosInv ==
  /\ gtid <= slavePos /\ slavePos <= logLen
  /\ \A r \in Rows : insPos[r] <= logLen
  /\ \A r \in uncommitted : insPos[r] = 0
  /\ \A r \in todo \cup flushed : r \in MsgRows /\ insPos[r] \in 1..gtid
  /\ AtMostOncePerRun
  /\ phase = "start" => todo = {} /\ flushed = {}
  /\ inflight \subseteq flushed /\ acked \subseteq flushed

\* Channels: quota is conserved, callbacks are outstanding only while the dump
\* or pubCbWg.Wait() is going on, and entryCh is closed only after that.
ChanInv ==
  /\ IsFiniteSet(inflight)
  /\ QuotaConserved
  /\ phase \notin {"full", "incr", "wait"} => inflight = {} /\ cbSent = 0
  /\ phase \in {"idle", "retry", "returned"} => post = "done"
  /\ entryClosed => phase \in {"wgwait", "idle", "retry", "returned"}
  /\ post = "done" => entryCh = <<>> /\ phase \in {"wgwait", "idle", "retry", "returned"}
  /\ post # "done" => dbOpen
  /\ NoPanic

\* Results: a successful entry, and the row being deleted, were confirmed; and
\* a confirmed row is on its way to the DELETE or has been through it.
Pending(r) ==
  \/ post = "del" /\ cur = r
  \/ \E i \in 1..Len(entryCh) : entryCh[i].row = r /\ entryCh[i].ok

ResultInv ==
  /\ \A i \in 1..Len(entryCh) : entryCh[i].ok => entryCh[i].row \in acked
  /\ post = "del" => cur \in acked
  /\ acked \subseteq delivered
  /\ \A r \in acked : Removed(r) \/ r \in delFailed \/ Pending(r)

IndInv == TypeOK /\ PosInv /\ ChanInv /\ ResultInv /\ NoRowSkipped

-----------------------------------------------------------------------------
(***************************************************************************)
(* Type correctness.                                                       *)
(***************************************************************************)
USE PipeAssumption

\* Every step of MsgPipe keeps its state well typed, given that pubCbWg counts
\* at least the callbacks about to call pubCbWg.Done().
LEMMA TypeStep ==
  ASSUME TypeOK, ChanInv, [Next]_vars
  PROVE  TypeOK'
<1> USE DEF TypeOK, Phases, dbVars, runVars, chanVars, postVars,
            histVars, Fault, Removed, CtxDone
<1>fresh. ASSUME FreshRun
         PROVE  /\ ctrlCh' \in Nat /\ pubCbWg' \in Nat /\ cbSent' \in Nat
                /\ entryCh' \in Seq(Entry) /\ inflight' \subseteq Rows
                /\ todo' \subseteq Rows /\ flushed' \subseteq Rows
                /\ acked' \subseteq Rows /\ cur' = NoRow
                /\ entryClosed' \in BOOLEAN /\ cancelled' \in BOOLEAN
                /\ dumpErr' \in BOOLEAN
  <2>1. entryCh' \in Seq(Entry)
    BY <1>fresh, EmptySeq DEF FreshRun
  <2>2. entryClosed' \in BOOLEAN /\ cancelled' \in BOOLEAN /\ dumpErr' \in BOOLEAN
    BY <1>fresh, Zenon DEF FreshRun
  <2> QED BY <1>fresh, <2>1, <2>2 DEF FreshRun
<1>1. CASE MySQL
  <2>1. ASSUME NEW r \in Rows, AddMsg(r) PROVE TypeOK'
    BY <2>1 DEF AddMsg
  <2>2. ASSUME NEW S \in SUBSET Rows, Commit(S) PROVE TypeOK'
    BY <2>2 DEF Commit
  <2>3. ASSUME NEW S \in SUBSET Rows, Rollback(S) PROVE TypeOK'
    BY <2>3 DEF Rollback
  <2>4. CASE SlaveApply
    BY <2>4 DEF SlaveApply
  <2> QED BY <1>1, <2>1, <2>2, <2>3, <2>4 DEF MySQL
<1>2. ASSUME NEW r \in Rows, Flush(r) PROVE TypeOK'
  BY <1>2 DEF Flush, CountCallback
<1>3. CASE Dumper
  <2>1. CASE RunOpen
    BY <2>1, <1>fresh DEF RunOpen
  <2>2. CASE RunOpenFail
    BY <2>2 DEF RunOpenFail
  <2>10. CASE RetryWait \/ RunStop
    BY <2>10 DEF RetryWait, RunStop
  <2>6. CASE FullDumpEnd
    BY <2>6 DEF FullDumpEnd
  <2>9. CASE DumpErr
    BY <2>9 DEF DumpErr
  <2>7. CASE WaitPubCb
    BY <2>7 DEF WaitPubCb
  <2>8. CASE RunReturn
    BY <2>8 DEF RunReturn
  <2>3. CASE FullDumpBegin
    BY <2>3 DEF FullDumpBegin, SnapshotGtid, Snapshot
  <2>4. CASE IncrTrx
    BY <2>4 DEF IncrTrx, TrxRows
  <2>5. CASE CloseEntryCh
    BY <2>5 DEF CloseEntryCh, CloseChan, Cancel
  <2> QED BY <1>2, <1>3, <2>1, <2>2, <2>3, <2>4, <2>5, <2>6, <2>7,
             <2>8, <2>9, <2>10 DEF Dumper
<1>4. CASE Callbacks
  <2>1. ASSUME NEW r \in Rows, NEW ok \in BOOLEAN, PubCb(r, ok) PROVE TypeOK'
    <3>1. [row |-> r, ok |-> ok] \in Entry
      BY DEF Entry
    <3>2. entryCh' \in Seq(Entry)
      <4>1. entryCh' = Append(entryCh, [row |-> r, ok |-> ok]) \/ entryCh' = entryCh
        BY <2>1, Zenon DEF PubCb, SendEntry
      <4>2. entryCh \in Seq(Entry)
        OBVIOUS
      <4> HIDE DEF TypeOK
      <4>3. Append(entryCh, [row |-> r, ok |-> ok]) \in Seq(Entry)
        BY <3>1, <4>2, AppendProperties
      <4> QED BY <4>1, <4>2, <4>3
    <3>3. panicked' \in BOOLEAN
      BY <2>1, Zenon DEF PubCb, SendEntry
    <3> QED BY <2>1, <3>2, <3>3 DEF PubCb
  <2>2. CASE PubCbDone
    <3>1. Cardinality(inflight) \in Nat
      BY FS_CardinalityType DEF ChanInv
    <3>2. pubCbWg > 0
      BY <2>2, <3>1 DEF PubCbDone, ChanInv, QuotaConserved
    <3> QED BY <2>2, <3>2 DEF PubCbDone
  <2> QED BY <1>4, <2>1, <2>2 DEF Callbacks
<1>5. CASE PostProcess
  <2>1. CASE PostRecv
    <3>1. Head(entryCh) \in Entry /\ Tail(entryCh) \in Seq(Entry)
      BY <2>1, HeadTailProperties DEF PostRecv
    <3>2. Head(entryCh).row \in Rows
      BY <3>1 DEF Entry
    <3> QED BY <2>1, <3>1, <3>2 DEF PostRecv, Cancel
  <2>2. CASE DelMsg
    <3>1. delPos' \in [Rows -> Nat] /\ logLen' \in Nat
      <4>1. \/ UNCHANGED <<delPos, logLen>>
            \/ logLen' = logLen + 1 /\ delPos' = [delPos EXCEPT ![cur] = logLen + 1]
        BY <2>2, Zenon DEF DelMsg
      <4>2. delPos \in [Rows -> Nat] /\ logLen \in Nat
        OBVIOUS
      <4> HIDE DEF TypeOK
      <4> QED BY <4>1, <4>2
    <3>2. delFailed' \subseteq Rows /\ post' = "release" /\ cur' = NoRow
      BY <2>2 DEF DelMsg
    <3>3. UNCHANGED <<downstream, uncommitted, insPos, slavePos, runVars, chanVars,
                      flushed, acked, panicked, delivered, cancelled, faults>>
      BY <2>2 DEF DelMsg
    <3> QED BY <3>1, <3>2, <3>3
  <2>3. CASE DelMsgFail
    BY <2>3 DEF DelMsgFail
  <2>4. CASE PostRelease
    BY <2>4 DEF PostRelease, PutBackQuota
  <2>5. CASE PostEnd
    BY <2>5 DEF PostEnd, Cancel
  <2> QED BY <1>5, <2>1, <2>2, <2>3, <2>4, <2>5 DEF PostProcess
<1>6. CASE Stop
  BY <1>6 DEF Stop
<1>7. CASE Crash
  <2>1. delivered' \subseteq Rows
    BY <1>7 DEF Crash
  <2>2. dbOpen' \in BOOLEAN /\ stop' \in BOOLEAN /\ panicked' \in BOOLEAN
    BY <1>7, Zenon DEF Crash
  <2>3. FreshRun /\ phase' = "idle" /\ post' = "done"
    BY <1>7 DEF Crash
  <2>4. UNCHANGED <<downstream, dbVars, gtid, delFailed>> /\ faults' \in Nat
    BY <1>7 DEF Crash
  <2> QED BY <2>1, <2>2, <2>3, <2>4, <1>fresh
<1>8. CASE UNCHANGED vars
  BY <1>8 DEF vars
<1> QED BY <1>1, <1>3, <1>4, <1>5, <1>6, <1>7, <1>8 DEF Next, Quiescent

(***************************************************************************)
(* Positions.                                                              *)
(***************************************************************************)
\* The dump's position, the snapshot and the transactions it reads fit: no step
\* puts a row in front of the dump twice in a run.
LEMMA PosStep ==
  ASSUME TypeOK, PosInv, [Next]_vars
  PROVE  PosInv'
<1> USE DEF TypeOK, PosInv, AtMostOncePerRun, dbVars, runVars, chanVars,
            postVars, histVars, Fault
<1>1. CASE MySQL
  <2>1. ASSUME NEW r \in Rows, AddMsg(r) PROVE PosInv'
    BY <2>1 DEF AddMsg, Committed
  <2>2. ASSUME NEW S \in SUBSET Rows, Commit(S) PROVE PosInv'
    <3>1. \A r \in Rows : insPos[r] # 0 => insPos'[r] = insPos[r]
      BY <2>2 DEF Commit
    <3>2. \A r \in Rows : insPos'[r] <= logLen'
      BY <2>2 DEF Commit
    <3>3. \A r \in uncommitted' : insPos'[r] = 0
      BY <2>2 DEF Commit
    <3> QED BY <2>2, <3>1, <3>2, <3>3 DEF Commit
  <2>3. ASSUME NEW S \in SUBSET Rows, Rollback(S) PROVE PosInv'
    BY <2>3 DEF Rollback
  <2>4. CASE SlaveApply
    BY <2>4 DEF SlaveApply
  <2> QED BY <1>1, <2>1, <2>2, <2>3, <2>4 DEF MySQL
<1>2. CASE Dumper
  <2>1. ASSUME NEW r \in Rows, Flush(r) PROVE PosInv'
    BY <2>1 DEF Flush
  <2>2. CASE RunOpen
    BY <2>2 DEF RunOpen, FreshRun
  <2>3. CASE FullDumpBegin
    <3>1. flushed' = {} /\ todo' = Snapshot(slavePos) /\ gtid' = slavePos
      BY <2>3 DEF FullDumpBegin, SnapshotGtid
    <3>2. \A r \in todo' : r \in MsgRows /\ insPos'[r] \in 1..gtid'
      BY <2>3, <3>1 DEF FullDumpBegin, Snapshot, VisibleAt, tableFilter
    <3> QED BY <2>3, <3>1, <3>2 DEF FullDumpBegin
  <2>4. CASE IncrTrx
    <3>1. \A r \in todo' : r \in MsgRows /\ insPos'[r] = gtid'
      BY <2>4 DEF IncrTrx, TrxRows, tableFilter
    <3> QED BY <2>4, <3>1 DEF IncrTrx
  <2>5. CASE CloseEntryCh
    BY <2>5 DEF CloseEntryCh
  <2>6. CASE RunOpenFail \/ RetryWait \/ RunStop
    BY <2>6 DEF RunOpenFail, RetryWait, RunStop
  <2>7. CASE FullDumpEnd \/ DumpErr
    BY <2>7 DEF FullDumpEnd, DumpErr
  <2>8. CASE WaitPubCb \/ RunReturn
    BY <2>8 DEF WaitPubCb, RunReturn
  <2> QED BY <1>2, <2>1, <2>2, <2>3, <2>4, <2>5, <2>6, <2>7, <2>8 DEF Dumper
<1>3. CASE Callbacks
  <2>1. ASSUME NEW r \in Rows, NEW ok \in BOOLEAN, PubCb(r, ok) PROVE PosInv'
    BY <2>1 DEF PubCb
  <2>2. CASE PubCbDone
    BY <2>2 DEF PubCbDone
  <2> QED BY <1>3, <2>1, <2>2 DEF Callbacks
<1>4. CASE PostProcess
  <2>1. CASE PostRecv \/ PostRelease \/ PostEnd \/ DelMsgFail
    BY <2>1 DEF PostRecv, PostRelease, PostEnd, DelMsgFail
  <2>2. CASE DelMsg
    <3>1. logLen <= logLen' /\ logLen' \in Nat
      BY <2>2 DEF DelMsg
    <3> QED BY <2>2, <3>1 DEF DelMsg
  <2> QED BY <1>4, <2>1, <2>2 DEF PostProcess
<1>5. CASE Stop
  BY <1>5 DEF Stop
<1>6. CASE Crash
  BY <1>6 DEF Crash, FreshRun
<1>7. CASE UNCHANGED vars
  BY <1>7 DEF vars
<1> QED BY <1>1, <1>2, <1>3, <1>4, <1>5, <1>6, <1>7 DEF Next, Quiescent

(***************************************************************************)
(* Channels.                                                               *)
(***************************************************************************)
\* Quota is conserved, and so the callback's send never finds entryCh full or
\* closed.
LEMMA ChanStep ==
  ASSUME TypeOK, PosInv, ChanInv, [Next]_vars
  PROVE  ChanInv'
<1> USE DEF TypeOK, ChanInv, QuotaConserved, NoPanic, Held, Phases, runVars,
            chanVars, postVars, histVars, Fault
<1>card. Cardinality(inflight) \in Nat
  BY FS_CardinalityType
<1>empty. IsFiniteSet({}) /\ Cardinality({}) = 0
  BY FS_EmptySet
<1>quota. QuotaConserved
  OBVIOUS
<1>held. Held \in Nat
  OBVIOUS
<1>nat. /\ ctrlCh \in Nat /\ pubCbWg \in Nat /\ cbSent \in Nat
        /\ MaxInflight \in Nat /\ Cardinality(inflight) \in Nat
        /\ Len(entryCh) \in Nat
  BY <1>card, LenProperties
<1>len. Len(entryCh) \in Nat /\ (entryCh = <<>> <=> Len(entryCh) = 0)
  BY EmptySeq, LenProperties
<1>1. CASE MySQL
  BY <1>1 DEF MySQL, AddMsg, Commit, Rollback, SlaveApply
<1>2. CASE Dumper
  <2>1. ASSUME NEW r \in Rows, Flush(r) PROVE ChanInv'
    <3>1. r \notin inflight
      BY <2>1 DEF Flush, PosInv, AtMostOncePerRun
    <3>2. IsFiniteSet(inflight') /\ Cardinality(inflight') = Cardinality(inflight) + 1
      BY <2>1, <3>1, FS_AddElement DEF Flush
    <3>3. QuotaConserved'
      <4> HIDE DEF TypeOK, ChanInv
      <4>1. /\ ctrlCh' = ctrlCh + 1 /\ pubCbWg' = pubCbWg + 1
            /\ ctrlCh < MaxInflight
            /\ cbSent' = cbSent /\ entryCh' = entryCh /\ post' = post
        BY <2>1 DEF Flush, CountCallback, QuotaFree
      <4>2. Held' = Held
        BY <4>1
      <4>3. Len(entryCh') = Len(entryCh)
        BY <4>1
      <4> HIDE DEF Held
      <4>4. /\ ctrlCh = Cardinality(inflight) + Len(entryCh) + Held
            /\ pubCbWg = Cardinality(inflight) + cbSent
        BY <1>quota DEF QuotaConserved
      <4>5. ctrlCh' = Cardinality(inflight') + Len(entryCh') + Held'
        <5>1. ctrlCh + 1 = (Cardinality(inflight) + 1) + Len(entryCh) + Held
          BY <4>4, <1>held, <1>nat
        <5> QED BY <5>1, <3>2, <4>1, <4>2, <4>3
      <4>6. ctrlCh' <= MaxInflight
        BY <4>1, <1>nat
      <4>7. pubCbWg' = Cardinality(inflight') + cbSent'
        BY <3>2, <4>1, <4>4, <1>nat
      <4> QED BY <4>5, <4>6, <4>7 DEF QuotaConserved
    <3> HIDE DEF QuotaConserved
    <3> QED BY <2>1, <3>2, <3>3 DEF Flush
  <2>2. CASE RunOpen
    <3>1. Len(entryCh') = 0 /\ inflight' = {}
      BY <2>2 DEF RunOpen, FreshRun
    <3> QED BY <2>2, <3>1, <1>empty DEF RunOpen, FreshRun
  <2>3. CASE FullDumpBegin \/ FullDumpEnd \/ DumpErr
    BY <2>3 DEF FullDumpBegin, FullDumpEnd, DumpErr
  <2>4. CASE WaitPubCb
    <3>1. inflight = {} /\ cbSent = 0
      BY <2>4, <1>card, FS_EmptySet DEF WaitPubCb, PubCbsDone
    <3> QED BY <2>4, <3>1 DEF WaitPubCb
  <2>5. CASE IncrTrx \/ CloseEntryCh
    BY <2>5 DEF IncrTrx, CloseEntryCh, CloseChan
  <2>6. CASE RunReturn
    BY <2>6 DEF RunReturn, PostDone
  <2>7. CASE RunOpenFail \/ RetryWait \/ RunStop
    BY <2>7 DEF RunOpenFail, RetryWait, RunStop
  <2> QED BY <1>2, <2>1, <2>2, <2>3, <2>4, <2>5, <2>6, <2>7 DEF Dumper
<1>3. CASE Callbacks
  <2>1. ASSUME NEW r \in Rows, NEW ok \in BOOLEAN, PubCb(r, ok) PROVE ChanInv'
    <3>1. /\ IsFiniteSet(inflight')
          /\ Cardinality(inflight') = Cardinality(inflight) - 1
          /\ Cardinality(inflight') \in Nat
      BY <2>1, FS_RemoveElement, FS_CardinalityType DEF PubCb
    <3>2. ~entryClosed /\ Len(entryCh) < MaxInflight
      BY <2>1, <3>1, <1>card, <1>len DEF PubCb
    <3>3. entryCh' = Append(entryCh, [row |-> r, ok |-> ok]) /\ panicked' = panicked
      BY <2>1, <3>2 DEF PubCb, SendEntry
    <3>4. Len(entryCh') = Len(entryCh) + 1
      BY <3>3
    <3>5. post # "done" /\ phase \in {"full", "incr", "wait"}
      BY <2>1 DEF PubCb
    <3>6. QuotaConserved'
      <4> HIDE DEF TypeOK, ChanInv
      <4>1. cbSent' = cbSent + 1 /\ UNCHANGED <<ctrlCh, pubCbWg, post>>
        BY <2>1 DEF PubCb
      <4>2. Held' = Held
        BY <4>1
      <4> HIDE DEF Held
      <4> QED BY <3>1, <3>4, <4>1, <4>2, <1>quota, <1>nat DEF QuotaConserved
    <3> HIDE DEF QuotaConserved
    <3> QED BY <2>1, <3>1, <3>3, <3>5, <3>6 DEF PubCb
  <2>2. CASE PubCbDone
    BY <2>2, <1>card DEF PubCbDone
  <2> QED BY <1>3, <2>1, <2>2 DEF Callbacks
<1>4. CASE PostProcess
  <2>1. CASE PostRecv
    <3>1. Len(entryCh') = Len(entryCh) - 1
      BY <2>1, <1>len, HeadTailProperties DEF PostRecv
    <3>2. post' \in {"del", "release"} /\ post = "recv"
      BY <2>1 DEF PostRecv
    <3> QED BY <2>1, <3>1, <3>2, <1>len, <1>card DEF PostRecv
  <2>2. CASE DelMsg \/ DelMsgFail
    BY <2>2 DEF DelMsg, DelMsgFail
  <2>3. CASE PostRelease
    BY <2>3, <1>card, <1>len DEF PostRelease, PutBackQuota
  <2>4. CASE PostEnd
    BY <2>4 DEF PostEnd, LoopEnds
  <2> QED BY <1>4, <2>1, <2>2, <2>3, <2>4 DEF PostProcess
<1>5. CASE Stop
  BY <1>5 DEF Stop
<1>6. CASE Crash
  <2>1. Len(entryCh') = 0 /\ inflight' = {}
    BY <1>6 DEF Crash, FreshRun
  <2> QED BY <1>6, <2>1, <1>empty DEF Crash, FreshRun
<1>7. CASE UNCHANGED vars
  BY <1>7 DEF vars
<1> QED BY <1>1, <1>2, <1>3, <1>4, <1>5, <1>6, <1>7 DEF Next, Quiescent

(***************************************************************************)
(* Results.                                                                *)
(***************************************************************************)
\* No step that leaves the entries, the row being deleted and the set of
\* confirmed rows alone, and only adds removals, disturbs ResultInv.
LEMMA ResultFrame ==
  ASSUME TypeOK, ResultInv,
         UNCHANGED <<entryCh, post, cur, acked, delFailed, delPos>>,
         delivered \subseteq delivered'
  PROVE  ResultInv'
BY DEF ResultInv, Pending, Removed

\* What the post process goroutine deletes was confirmed, and what was confirmed
\* goes through the DELETE.
LEMMA ResultStep ==
  ASSUME TypeOK, PosInv, ChanInv, ResultInv, [Next]_vars
  PROVE  ResultInv'
<1> USE DEF dbVars, runVars, chanVars, postVars, histVars
<1>1. CASE MySQL
  BY <1>1, ResultFrame DEF MySQL, AddMsg, Commit, Rollback, SlaveApply
<1>2. CASE Dumper
  <2>1. CASE RunOpen
    <3>1. /\ Len(entryCh') = 0 /\ acked' = {} /\ post' = "recv"
      BY <2>1 DEF RunOpen, FreshRun
    <3> QED BY <3>1 DEF ResultInv
  <2>2. CASE ~RunOpen
    BY <1>2, <2>2, ResultFrame
       DEF Dumper, RunOpenFail, FullDumpBegin, FullDumpEnd, DumpErr, WaitPubCb,
           IncrTrx, CloseEntryCh, RunReturn, RetryWait, RunStop, Flush
  <2> QED BY <2>1, <2>2
<1>3. CASE Callbacks
  <2>1. ASSUME NEW r \in Rows, NEW ok \in BOOLEAN, PubCb(r, ok)
        PROVE  ResultInv'
    <3> DEFINE e == [row |-> r, ok |-> ok]
    <3>1. e \in Entry /\ e.row = r /\ (e.ok <=> ok)
      BY DEF Entry
    <3>2. entryCh \in Seq(Entry)
      BY DEF TypeOK
    <3>3. entryCh' = Append(entryCh, e)
      <4>1. NoPanic'
        BY ChanStep DEF ChanInv
      <4> QED BY <2>1, <4>1 DEF PubCb, SendEntry, NoPanic
    <3>4. /\ Len(entryCh') = Len(entryCh) + 1 /\ Len(entryCh) \in Nat
          /\ \A i \in 1..Len(entryCh) : entryCh'[i] = entryCh[i]
          /\ entryCh'[Len(entryCh) + 1] = e
      BY <3>1, <3>2, <3>3, AppendProperties, LenProperties
    <3>5. /\ acked' = IF ok THEN acked \cup {r} ELSE acked
          /\ delivered \subseteq delivered'
          /\ ok => delivered' = delivered \cup {r}
          /\ UNCHANGED <<post, cur, delFailed, delPos>>
      BY <2>1 DEF PubCb
    <3> HIDE DEF e
    <3>6. \A i \in 1..Len(entryCh') : entryCh'[i].ok => entryCh'[i].row \in acked'
      BY <3>1, <3>4, <3>5 DEF ResultInv
    <3>7. \A s \in acked' : Removed(s)' \/ s \in delFailed' \/ Pending(s)'
      <4> SUFFICES ASSUME NEW s \in acked'
                   PROVE  Removed(s)' \/ s \in delFailed' \/ Pending(s)'
        OBVIOUS
      <4>1. CASE s \in acked
        BY <4>1, <3>4, <3>5 DEF ResultInv, Pending, Removed
      <4>2. CASE s \notin acked
        <5>1. ok /\ s = r
          BY <4>2, <3>5
        <5> QED BY <5>1, <3>1, <3>4 DEF Pending
      <4> QED BY <4>1, <4>2
    <3>8. post' = "del" => cur' \in acked'
      BY <3>5 DEF ResultInv
    <3>9. acked' \subseteq delivered'
      BY <3>5 DEF ResultInv
    <3> QED BY <3>6, <3>7, <3>8, <3>9 DEF ResultInv
  <2>2. CASE PubCbDone
    BY <2>2, ResultFrame DEF PubCbDone
  <2> QED BY <1>3, <2>1, <2>2 DEF Callbacks
<1>4. CASE PostProcess
  <2>1. CASE PostRecv
    <3> DEFINE h == Head(entryCh)
               t == Tail(entryCh)
    <3>1. /\ entryCh \in Seq(Entry) /\ entryCh # <<>> /\ entryCh' = t
          /\ UNCHANGED <<acked, delFailed, delPos, delivered>>
          /\ post = "recv"
          /\ post' = IF h.ok THEN "del" ELSE "release"
          /\ h.ok => cur' = h.row
      BY <2>1 DEF PostRecv, GetPublishErr, TypeOK
    <3>2. /\ h = entryCh[1] /\ Len(entryCh) \in Nat \ {0}
          /\ Len(t) = Len(entryCh) - 1
          /\ \A i \in 1..Len(t) : t[i] = entryCh[i + 1]
      BY <3>1, HeadTailProperties, LenProperties, EmptySeq
    <3> HIDE DEF h, t
    <3>3. \A i \in 1..Len(entryCh') : entryCh'[i].ok => entryCh'[i].row \in acked'
      BY <3>1, <3>2 DEF ResultInv
    <3>4. post' = "del" => cur' \in acked'
      BY <3>1, <3>2 DEF ResultInv
    <3>5. ASSUME NEW s \in acked'
          PROVE  Removed(s)' \/ s \in delFailed' \/ Pending(s)'
      <4>1. CASE Removed(s) \/ s \in delFailed
        BY <4>1, <3>1 DEF Removed
      <4>2. CASE ~(Removed(s) \/ s \in delFailed)
        <5>1. PICK i \in 1..Len(entryCh) : entryCh[i].row = s /\ entryCh[i].ok
          BY <4>2, <3>1, <3>5 DEF ResultInv, Pending
        <5>2. CASE i = 1
          BY <5>1, <5>2, <3>1, <3>2 DEF Pending
        <5>3. CASE i # 1
          <6>1. i - 1 \in 1..Len(t) /\ t[i - 1] = entryCh[i]
            BY <5>3, <3>2
          <6> QED BY <5>1, <6>1, <3>1 DEF Pending
        <5> QED BY <5>2, <5>3
      <4> QED BY <4>1, <4>2
    <3> QED BY <3>1, <3>3, <3>4, <3>5 DEF ResultInv
  <2>2. CASE DelMsg
    <3>1. /\ UNCHANGED <<entryCh, acked, delivered>>
          /\ post' = "release" /\ cur \in Rows
          /\ delFailed' = delFailed \ {cur}
          /\ \A s \in Rows : Removed(s) => Removed(s)'
      BY <2>2 DEF DelMsg, TypeOK, Removed
    <3>2. delPos'[cur] # 0
      BY <2>2, <3>1 DEF DelMsg, TypeOK, Removed
    <3>3. acked \subseteq Rows
      BY DEF TypeOK
    <3>4. ASSUME NEW s \in acked'
          PROVE  Removed(s)' \/ s \in delFailed' \/ Pending(s)'
      <4>1. CASE s = cur
        BY <4>1, <3>2 DEF Removed
      <4>2. CASE s # cur
        BY <4>2, <3>1, <3>3, <3>4 DEF ResultInv, Pending
      <4> QED BY <4>1, <4>2
    <3> QED BY <3>1, <3>4 DEF ResultInv
  <2>3. CASE DelMsgFail
    <3>1. /\ UNCHANGED <<entryCh, acked, delivered, delPos>>
          /\ post' = "release" /\ delFailed' = delFailed \cup {cur}
      BY <2>3 DEF DelMsgFail
    <3> QED BY <3>1 DEF ResultInv, Pending, Removed
  <2>4. CASE PostRelease \/ PostEnd
    <3>1. /\ UNCHANGED <<entryCh, acked, delivered, delPos, delFailed>>
          /\ post # "del" /\ post' # "del"
      BY <2>4 DEF PostRelease, PostEnd
    <3> QED BY <3>1 DEF ResultInv, Pending, Removed
  <2> QED BY <1>4, <2>1, <2>2, <2>3, <2>4 DEF PostProcess
<1>5. CASE Stop
  BY <1>5, ResultFrame DEF Stop
<1>6. CASE Crash
  <2>1. /\ Len(entryCh') = 0 /\ acked' = {} /\ post' = "done"
    BY <1>6 DEF Crash, FreshRun
  <2> QED BY <2>1 DEF ResultInv
<1>7. CASE UNCHANGED vars
  BY <1>7, ResultFrame DEF vars
<1> QED BY <1>1, <1>2, <1>3, <1>4, <1>5, <1>6, <1>7 DEF Next, Quiescent

(***************************************************************************)
(* No gap between the dumps.                                               *)
(***************************************************************************)
\* No step moves the dump's position past a message it has not flushed.
LEMMA SkipStep ==
  ASSUME TypeOK, PosInv, NoRowSkipped, [Next]_vars
  PROVE  NoRowSkipped'
<1> USE DEF TypeOK, NoRowSkipped, Removed, dbVars, runVars, chanVars, postVars,
            histVars
<1>1. CASE MySQL
  <2>1. ASSUME NEW S \in SUBSET Rows, Commit(S) PROVE NoRowSkipped'
    <3>1. \A r \in Rows : insPos'[r] = insPos[r] \/ insPos'[r] > gtid'
      BY <2>1 DEF Commit, PosInv
    <3>2. UNCHANGED <<phase, dumpErr, gtid, todo, flushed, delPos>>
      BY <2>1 DEF Commit
    <3> QED BY <3>1, <3>2, PipeAssumption
  <2>2. CASE ~\E S \in SUBSET Rows : Commit(S)
    BY <1>1, <2>2 DEF MySQL, AddMsg, Rollback, SlaveApply
  <2> QED BY <2>1, <2>2
<1>2. CASE Dumper
  <2>1. ASSUME NEW r \in Rows, Flush(r) PROVE NoRowSkipped'
    BY <2>1 DEF Flush
  <2>2. CASE FullDumpBegin
    <3>1. todo' = Snapshot(slavePos) /\ gtid' = slavePos
          /\ UNCHANGED <<insPos, delPos>>
      BY <2>2 DEF FullDumpBegin, SnapshotGtid
    <3> QED BY <3>1, PipeAssumption DEF Snapshot, VisibleAt, tableFilter
  <2>3. CASE IncrTrx
    <3>1. /\ phase = "incr" /\ todo = {} /\ gtid' = gtid + 1
          /\ todo' = TrxRows(gtid + 1)
          /\ UNCHANGED <<insPos, delPos, flushed>>
      BY <2>3 DEF IncrTrx
    <3>2. ASSUME NEW r \in MsgRows, insPos[r] \in 1..(gtid + 1)
          PROVE  r \in todo' \/ r \in flushed \/ Removed(r)
      <4>1. CASE insPos[r] = gtid + 1
        BY <4>1, <3>1, PipeAssumption DEF TrxRows, tableFilter
      <4>2. CASE insPos[r] \in 1..gtid
        BY <4>2, <3>1
      <4> QED BY <3>2, <4>1, <4>2
    <3> QED BY <3>1, <3>2
  <2>4. CASE ~FullDumpBegin /\ ~IncrTrx /\ ~\E r \in Rows : Flush(r)
    BY <1>2, <2>4
       DEF Dumper, RunOpen, RunOpenFail, FullDumpEnd, DumpErr, WaitPubCb,
           CloseEntryCh, RunReturn, RetryWait, RunStop
  <2> QED BY <2>1, <2>2, <2>3, <2>4
<1>3. CASE Callbacks
  BY <1>3 DEF Callbacks, PubCb, PubCbDone
<1>4. CASE PostProcess
  <2>1. CASE DelMsg
    <3>1. \A r \in Rows : delPos[r] # 0 => delPos'[r] # 0
      BY <2>1 DEF DelMsg
    <3>2. UNCHANGED <<phase, dumpErr, gtid, todo, flushed, insPos>>
      BY <2>1 DEF DelMsg
    <3> QED BY <3>1, <3>2, PipeAssumption
  <2>2. CASE ~DelMsg
    BY <1>4, <2>2
       DEF PostProcess, PostRecv, DelMsgFail, PostRelease, PostEnd
  <2> QED BY <2>1, <2>2
<1>5. CASE Stop
  BY <1>5 DEF Stop
<1>6. CASE Crash
  BY <1>6 DEF Crash
<1>7. CASE UNCHANGED vars
  BY <1>7 DEF vars
<1> QED BY <1>1, <1>2, <1>3, <1>4, <1>5, <1>6, <1>7 DEF Next, Quiescent

-----------------------------------------------------------------------------
(***************************************************************************)
(* The theorems.                                                           *)
(***************************************************************************)
\* The conjunction of the parts holds in every reachable state of the pipe.
THEOREM Invariance == Spec => []IndInv
<1>1. Init => IndInv
  <2> SUFFICES ASSUME Init PROVE IndInv
    OBVIOUS
  <2> USE DEF Init
  <2>1. TypeOK
    BY EmptySeq DEF TypeOK, Phases
  <2>2. PosInv
    BY DEF PosInv, AtMostOncePerRun
  <2>3. Len(entryCh) = 0
    BY EmptySeq
  <2>4. ChanInv
    BY <2>3, FS_EmptySet, PipeAssumption
       DEF ChanInv, QuotaConserved, Held, NoPanic
  <2>5. ResultInv
    BY <2>3 DEF ResultInv
  <2>6. NoRowSkipped
    BY DEF NoRowSkipped
  <2> QED BY <2>1, <2>2, <2>4, <2>5, <2>6 DEF IndInv
<1>2. IndInv /\ [Next]_vars => IndInv'
  BY TypeStep, PosStep, ChanStep, ResultStep, SkipStep DEF IndInv
<1> QED BY <1>1, <1>2, PTL DEF Spec

\* Type correctness of the pipe's state.
THEOREM TypeCorrect == Spec => []TypeOK
BY Invariance, PTL DEF IndInv

\* The "Unexpected branch" of the publish callback (a full or closed entryCh) is
\* dead code, whatever maxInflight is and however late callbacks come.
THEOREM CallbackNeverPanics == Spec => []NoPanic
<1>1. IndInv => NoPanic
  BY DEF IndInv, ChanInv
<1> QED BY <1>1, Invariance, PTL

\* ctrlCh, entryCh and pubCbWg account for every row between flush and the
\* release of its quota.
THEOREM QuotaIsConserved == Spec => []QuotaConserved
<1>1. IndInv => QuotaConserved
  BY DEF IndInv, ChanInv
<1> QED BY <1>1, Invariance, PTL

\* Both: the accounts of entryCh and of the quota are never overdrawn.
THEOREM CallbacksAreSafe == Spec => []CallbacksSafe
BY CallbackNeverPanics, QuotaIsConserved, PTL DEF CallbacksSafe

\* run() returns with no callback, entry or goroutine left, and the post process
\* goroutine never sees its *sql.DB closed.
THEOREM RunsLeaveNothing == Spec => []RunLeavesNothing
<1>1. IndInv => RunLeavesNothing
  BY DEF IndInv, ChanInv, RunLeavesNothing
<1> QED BY <1>1, Invariance, PTL

\* The full dump, pubCbWg.Wait() and the incremental dump leave no message out.
THEOREM HandoffSkipsNoRow == Spec => []NoRowSkipped
BY Invariance, PTL DEF IndInv

\* No run publishes a message twice.
THEOREM RunsPublishOnce == Spec => []AtMostOncePerRun
<1>1. IndInv => AtMostOncePerRun
  BY DEF IndInv, PosInv
<1> QED BY <1>1, Invariance, PTL

\* Both: the dumps of a run cover each message that was there exactly once.
THEOREM DumpsDoMeet == Spec => []DumpsMeet
BY HandoffSkipsNoRow, RunsPublishOnce, PTL DEF DumpsMeet

\* What the downstream confirmed in a run is deleted by the end of it, unless its
\* DELETE failed.
THEOREM ConfirmedRemoved == Spec => []ConfirmedAreRemoved
<1>1. IndInv => ConfirmedAreRemoved
  <2> SUFFICES ASSUME IndInv, phase \in {"retry", "returned"}, NEW r \in acked
               PROVE  Removed(r) \/ r \in delFailed
    BY DEF ConfirmedAreRemoved
  <2>1. post = "done" /\ Len(entryCh) = 0
    BY EmptySeq DEF IndInv, ChanInv
  <2> QED BY <2>1 DEF IndInv, ResultInv, Pending
<1> QED BY <1>1, Invariance, PTL

\* Both: a run ends with nothing left to do.
THEOREM RunsEndCleanly == Spec => []RunEndsClean
BY RunsLeaveNothing, ConfirmedRemoved, PTL DEF RunEndsClean

\* Only DelMsg removes rows, and only the row the post process goroutine holds.
LEMMA OnlyDelMsgRemoves ==
  ASSUME TypeOK, [Next]_vars
  PROVE  \/ delPos' = delPos
         \/ /\ DelMsg /\ post = "del" /\ cur \in Rows
            /\ delPos' = [delPos EXCEPT ![cur] = logLen + 1]
            /\ UNCHANGED <<insPos, delivered>>
<1> USE DEF dbVars, runVars, chanVars, postVars, histVars
<1>1. CASE DelMsg
  BY <1>1 DEF DelMsg, TypeOK
<1>2. CASE ~DelMsg
  BY <1>2
     DEF Next, vars, Quiescent, Stop, Crash, MySQL, AddMsg, Commit, Rollback,
         SlaveApply, Dumper, RunOpen, RunOpenFail, FullDumpBegin, FullDumpEnd,
         DumpErr, WaitPubCb, IncrTrx, CloseEntryCh, RunReturn, RetryWait,
         RunStop, Flush, Callbacks, PubCb, PubCbDone, PostProcess, PostRecv,
         DelMsgFail, PostRelease, PostEnd
<1> QED BY <1>1, <1>2

\* A row is deleted only when the downstream confirmed it in the same run.
THEOREM DeletesOnlyConfirmed == Spec => DeleteOnlyConfirmed
<1> DEFINE A == \A r \in Rows : delPos'[r] # delPos[r] =>
                                  r \in MsgRows /\ r \in acked /\ r \in delivered
<1>1. IndInv /\ [Next]_vars => [A]_vars
  <2> SUFFICES ASSUME IndInv, [Next]_vars, NEW r \in Rows,
                      delPos'[r] # delPos[r]
               PROVE  r \in MsgRows /\ r \in acked /\ r \in delivered
    OBVIOUS
  <2>1. post = "del" /\ r = cur
    BY OnlyDelMsgRemoves DEF IndInv, TypeOK
  <2> QED BY <2>1 DEF IndInv, ResultInv, PosInv
<1> QED BY <1>1, Invariance, PTL DEF Spec, DeleteOnlyConfirmed

-----------------------------------------------------------------------------
(***************************************************************************)
(* MsgPipe implements Outbox.                                              *)
(***************************************************************************)
\* Delivered rows are committed messages: rows reach the downstream from the
\* binlog or from a snapshot of committed rows.
LEMMA InflightCommitted ==
  ASSUME IndInv
  PROVE  inflight \subseteq {r \in MsgRows : Committed(r)}
BY PipeAssumption DEF IndInv, TypeOK, PosInv, Committed

\* Every step of the pipe is a commit, a delivery of committed messages, the
\* removal of a delivered one, or nothing, to an observer of the outbox.
LEMMA OutboxStep ==
  ASSUME IndInv, [Next]_vars
  PROVE  [OutboxRefinement!Next]_(OutboxRefinement!vars)
<1> DEFINE com == {r \in MsgRows : Committed(r)}
           rem == {r \in Rows : Removed(r)}
<1> USE DEF dbVars, runVars, chanVars, postVars, histVars
<1>t. TypeOK
  BY DEF IndInv
<1>1. CASE DelMsg
  <2>1. /\ cur \in Rows /\ cur \in delivered
        /\ delPos' = delPos \/ delPos' = [delPos EXCEPT ![cur] = logLen + 1]
        /\ UNCHANGED <<insPos, delivered>>
    BY <1>1, <1>t DEF DelMsg, TypeOK, IndInv, ResultInv
  <2>2. rem' = rem \/ rem' = rem \cup {cur}
    BY <2>1, <1>t DEF TypeOK, Removed
  <2>3. com' = com
    BY <2>1 DEF Committed
  <2> QED BY <2>1, <2>2, <2>3
         DEF OutboxRefinement!Next, OutboxRefinement!Remove, OutboxRefinement!vars
<1>2. ASSUME NEW S \in SUBSET Rows, Commit(S)
      PROVE  [OutboxRefinement!Next]_(OutboxRefinement!vars)
  <2>1. UNCHANGED <<delivered, delPos>>
    BY <1>2 DEF Commit
  <2>2. \A r \in Rows : insPos'[r] # 0 <=> insPos[r] # 0 \/ r \in S
    BY <1>2, <1>t DEF Commit, TypeOK
  <2>3. com' = com \cup (S \cap MsgRows)
    BY <2>2, PipeAssumption DEF Committed
  <2>4. rem' = rem
    BY <2>1 DEF Removed
  <2>5. S \cap MsgRows \in SUBSET MsgRows
    OBVIOUS
  <2> HIDE DEF com, rem
  <2>6. \E T \in SUBSET MsgRows : com' = com \cup T
    BY <2>3, <2>5
  <2> QED BY <2>1, <2>4, <2>6
         DEF com, rem, OutboxRefinement!Next, OutboxRefinement!Commit
<1>3. ASSUME NEW S \in SUBSET inflight, delivered' = delivered \cup S,
             UNCHANGED <<insPos, delPos>>
      PROVE  [OutboxRefinement!Next]_(OutboxRefinement!vars)
  <2>1. S \in SUBSET com
    BY InflightCommitted
  <2>2. com' = com /\ rem' = rem
    BY <1>3 DEF Committed, Removed
  <2> QED BY <1>3, <2>1, <2>2
         DEF OutboxRefinement!Next, OutboxRefinement!Deliver
<1>4. ASSUME NEW r \in Rows, NEW ok \in BOOLEAN, PubCb(r, ok)
      PROVE  [OutboxRefinement!Next]_(OutboxRefinement!vars)
  <2>1. \/ delivered' = delivered \cup {r}
        \/ delivered' = delivered \cup {}
    BY <1>4 DEF PubCb
  <2>2. {r} \in SUBSET inflight /\ {} \in SUBSET inflight
    BY <1>4 DEF PubCb
  <2>3. UNCHANGED <<insPos, delPos>>
    BY <1>4 DEF PubCb
  <2> QED BY <1>3, <2>1, <2>2, <2>3
<1>5. CASE Crash
  BY <1>3, <1>5 DEF Crash
<1>6. ASSUME UNCHANGED <<insPos, delPos, delivered>>
      PROVE  [OutboxRefinement!Next]_(OutboxRefinement!vars)
  BY <1>6 DEF OutboxRefinement!vars, Committed, Removed
<1>7. CASE SlaveApply \/ Dumper \/ PubCbDone \/ Stop
           \/ Quiescent \/ UNCHANGED vars
  BY <1>6, <1>7
     DEF vars, Quiescent, Stop, SlaveApply, Dumper, RunOpen, RunOpenFail,
         FullDumpBegin, FullDumpEnd, DumpErr, WaitPubCb, IncrTrx, CloseEntryCh,
         RunReturn, RetryWait, RunStop, Flush, PubCbDone
<1>8. CASE PostProcess /\ ~DelMsg
  BY <1>6, <1>8
     DEF PostProcess, PostRecv, DelMsgFail, PostRelease, PostEnd
<1>9. ASSUME NEW r \in Rows, AddMsg(r)
      PROVE  [OutboxRefinement!Next]_(OutboxRefinement!vars)
  BY <1>6, <1>9 DEF AddMsg
<1>10. ASSUME NEW S \in SUBSET Rows, Rollback(S)
       PROVE  [OutboxRefinement!Next]_(OutboxRefinement!vars)
  BY <1>6, <1>10 DEF Rollback
<1> QED BY <1>1, <1>2, <1>4, <1>5, <1>7, <1>8, <1>9, <1>10
       DEF Next, MySQL, Callbacks

\* binlogmsg keeps the promise of an outbox: nothing uncommitted is ever
\* published and nothing unpublished is ever removed.
THEOREM PipeImplementsOutbox == Spec => ImplementsOutbox
<1>1. Init => OutboxRefinement!Init
  BY DEF Init, OutboxRefinement!Init, Committed, Removed
<1>2. IndInv /\ [Next]_vars => [OutboxRefinement!Next]_(OutboxRefinement!vars)
  BY OutboxStep
<1> QED BY <1>1, <1>2, Invariance, PTL
       DEF Spec, ImplementsOutbox, OutboxRefinement!Spec
=============================================================================
