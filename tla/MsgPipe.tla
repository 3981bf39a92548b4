------------------------------- MODULE MsgPipe -------------------------------
(***************************************************************************)
(* binlogmsg.MsgPipe: rows of MySQL message tables are flushed to a        *)
(* downstream publisher and deleted once the downstream has confirmed      *)
(* them.  One run() of the pipe is a full dump of a consistent snapshot    *)
(* of the slave followed by an incremental dump of the binlog from the     *)
(* snapshot's gtid set; Run() repeats run() until its context is done.     *)
(*                                                                         *)
(* Three kinds of goroutines interact through ctrlCh (quota), entryCh      *)
(* (results) and pubCbWg (outstanding callbacks): the dumping goroutine    *)
(* (Run/run), the downstream's publish callbacks, and the post process     *)
(* goroutine which deletes rows.                                           *)
(*                                                                         *)
(* MySQL is external.  Its binlog is represented by positions: the n-th    *)
(* committed transaction has position n, a row is inserted by transaction  *)
(* insPos and deleted by transaction delPos (0: not yet), and the slave    *)
(* has applied the transactions 1..slavePos.                               *)
(***************************************************************************)
EXTENDS Integers, Sequences, FiniteSets

CONSTANTS
  Rows,         \* the rows the applications may insert, message or not
  MsgRows,      \* the rows of the tables tableFilter accepts
  NoRow,        \* not a row
  MaxInflight,  \* PipeOptMaxInflight: capacity of ctrlCh and of entryCh
  MaxFaults     \* bound on failures and crashes of the environment

ASSUME PipeAssumption ==
  /\ MsgRows \subseteq Rows
  /\ NoRow \notin Rows
  /\ MaxInflight \in Nat \ {0}
  /\ MaxFaults \in Nat

VARIABLES
  \* MySQL (external)
  uncommitted,  \* rows inserted by transactions still open
  insPos,       \* row -> position of the transaction that inserted it
  delPos,       \* row -> position of the transaction that deleted it
  logLen,       \* number of transactions committed on the master
  slavePos,     \* number of those the slave has applied
  \* the downstream publisher (external)
  delivered,    \* rows the downstream has taken, whatever it answered
  downstream,   \* the kind of downstream NewMsgPipe was given
  \* Run/run: the dumping goroutine
  phase,        \* where Run/run is
  dumpErr,      \* the dump that just ended leads to the end of run
  gtid,         \* position up to which rows have been read in this run
  todo,         \* rows of the snapshot, or of the transaction, not yet flushed
  dbOpen,       \* run's *sql.DB on the master is open
  stop,         \* the context given to Run is done
  cancelled,    \* cancel() of the context derived by run was called
  \* shared by the goroutines of a run
  ctrlCh,       \* number of tokens in ctrlCh
  entryCh,      \* content of entryCh
  entryClosed,  \* entryCh is closed
  pubCbWg,      \* counter of pubCbWg
  inflight,     \* rows handed to the downstream, callback not yet called
  cbSent,       \* callbacks between entryCh <- entry and pubCbWg.Done()
  \* the post process goroutine
  post,         \* where it is
  cur,          \* the row it is deleting
  \* history, per run (flushed, acked) or for ever
  flushed,      \* rows flushed in this run
  acked,        \* rows whose callback reported success in this run
  delFailed,    \* rows whose last delMsg failed
  panicked,     \* a callback found entryCh full or closed
  faults        \* failures and crashes so far

dbVars   == <<uncommitted, insPos, delPos, logLen, slavePos>>
runVars  == <<phase, dumpErr, gtid, todo, dbOpen, stop>>
chanVars == <<ctrlCh, entryCh, entryClosed, pubCbWg, inflight, cbSent>>
postVars == <<post, cur>>
histVars == <<flushed, acked, delFailed, panicked>>
vars     == <<dbVars, runVars, chanVars, postVars, histVars,
              delivered, downstream, cancelled, faults>>

Entry == [row : Rows, ok : BOOLEAN]

\* A MsgAsyncPublisher or a MsgPublisher.
Downstreams == {"async", "sync"}

Phases == {"idle", "start", "full", "wait", "incr", "closing", "wgwait",
           "retry", "returned"}

(***************************************************************************)
(* The contexts: run's is derived from Run's.                              *)
(***************************************************************************)
CtxDone == stop \/ cancelled

Fault == faults < MaxFaults /\ faults' = faults + 1

-----------------------------------------------------------------------------
(***************************************************************************)
(* MySQL and the applications that publish into it.                        *)
(***************************************************************************)
tableFilter(r) == r \in MsgRows

Committed(r) == insPos[r] # 0
Removed(r)   == delPos[r] # 0

\* Row r is visible in the state after the transactions 1..p.
VisibleAt(r, p) == insPos[r] \in 1..p /\ delPos[r] \notin 1..p

\* The publisher of NewMsgPublisher: INSERT in the caller's transaction.
AddMsg(r) ==
  /\ ~Committed(r) /\ r \notin uncommitted
  /\ uncommitted' = uncommitted \cup {r}
  /\ UNCHANGED <<downstream, insPos, delPos, logLen, slavePos, runVars,
                 chanVars, postVars, histVars, delivered, cancelled, faults>>

\* A caller's transaction commits the rows S it inserted.
Commit(S) ==
  /\ S # {} /\ S \subseteq uncommitted
  /\ uncommitted' = uncommitted \ S
  /\ logLen' = logLen + 1
  /\ insPos' = [r \in Rows |-> IF r \in S THEN logLen + 1 ELSE insPos[r]]
  /\ UNCHANGED <<downstream, delPos, slavePos, runVars, chanVars, postVars,
                 histVars, delivered, cancelled, faults>>

Rollback(S) ==
  /\ S # {} /\ S \subseteq uncommitted
  /\ uncommitted' = uncommitted \ S
  /\ UNCHANGED <<downstream, insPos, delPos, logLen, slavePos, runVars,
                 chanVars, postVars, histVars, delivered, cancelled, faults>>

\* The slave applies the next transaction of the master's binlog.
SlaveApply ==
  /\ slavePos < logLen
  /\ slavePos' = slavePos + 1
  /\ UNCHANGED <<downstream, uncommitted, insPos, delPos, logLen, runVars,
                 chanVars, postVars, histVars, delivered, cancelled, faults>>

-----------------------------------------------------------------------------
(***************************************************************************)
(* The callbacks and the helpers of run.                                   *)
(***************************************************************************)
\* A MsgPublisher calls back before Publish returns to the dumping goroutine.
DumperFree == downstream = "async" \/ pubCbWg = 0

\* ctrlCh <- struct{}{} does not block.
QuotaFree == ctrlCh < MaxInflight

CountCallback_Omitted == UNCHANGED pubCbWg
\* pubCbWg.Add(1).
CountCallback == pubCbWg' = pubCbWg + 1

\* flush and flushMsgEntry: take quota, count the callback, publish.  The
\* select picks either branch when ctx is done too: see DumpErr.
Flush(r) ==
  /\ phase \in {"full", "incr"} /\ r \in todo /\ DumperFree /\ QuotaFree
  /\ ctrlCh' = ctrlCh + 1
  /\ CountCallback
  /\ inflight' = inflight \cup {r}
  /\ todo' = todo \ {r}
  /\ flushed' = flushed \cup {r}
  /\ UNCHANGED <<downstream, dbVars, phase, dumpErr, gtid, dbOpen, stop,
                 entryCh, entryClosed, cbSent, postVars, acked, delFailed,
                 panicked, delivered, cancelled, faults>>

\* The select of the callback: entryCh <- entry, or the branch that panics.
SendEntry(e) ==
  IF ~entryClosed /\ Len(entryCh) < MaxInflight
  THEN entryCh' = Append(entryCh, e) /\ UNCHANGED panicked
  ELSE panicked' = TRUE /\ UNCHANGED entryCh

\* The downstream calls back for row r: it has the message, or it answers an
\* error and may have it nevertheless (an ack lost or late).
PubCb(r, ok) ==
  /\ r \in inflight
  /\ IF ok
     THEN /\ delivered' = delivered \cup {r}
          /\ acked' = acked \cup {r}
          /\ UNCHANGED faults
     ELSE /\ delivered' \in {delivered, delivered \cup {r}}
          /\ (CtxDone /\ UNCHANGED faults) \/ Fault
          /\ UNCHANGED acked
  /\ SendEntry([row |-> r, ok |-> ok])
  /\ inflight' = inflight \ {r}
  /\ cbSent' = cbSent + 1
  /\ UNCHANGED <<downstream, dbVars, runVars, ctrlCh, entryClosed, pubCbWg,
                 postVars, flushed, delFailed, cancelled>>

\* The last line of the callback.
PubCbDone ==
  /\ cbSent > 0
  /\ cbSent' = cbSent - 1
  /\ pubCbWg' = pubCbWg - 1
  /\ UNCHANGED <<downstream, dbVars, runVars, ctrlCh, entryCh, entryClosed,
                 inflight, postVars, histVars, delivered, cancelled, faults>>

-----------------------------------------------------------------------------
(***************************************************************************)
(* The post process goroutine.                                             *)
(***************************************************************************)
\* GetPublishErr() # nil.
GetPublishErr(e) == ~e.ok

Cancel_Omitted == UNCHANGED cancelled
Cancel == cancelled' = TRUE

\* Receive an entry; on a publish error cancel the context, go on looping.
PostRecv ==
  /\ post = "recv" /\ entryCh # <<>>
  /\ entryCh' = Tail(entryCh)
  /\ IF GetPublishErr(Head(entryCh))
     THEN post' = "release" /\ Cancel /\ UNCHANGED cur
     ELSE post' = "del" /\ cur' = Head(entryCh).row /\ UNCHANGED cancelled
  /\ UNCHANGED <<downstream, dbVars, runVars, ctrlCh, entryClosed, pubCbWg,
                 inflight, cbSent, histVars, delivered, faults>>

\* DELETE of row cur: a transaction in the binlog if the row is still there.
DelMsg ==
  /\ post = "del" /\ dbOpen
  /\ IF Removed(cur)
     THEN UNCHANGED <<delPos, logLen>>
     ELSE /\ logLen' = logLen + 1
          /\ delPos' = [delPos EXCEPT ![cur] = logLen + 1]
  /\ delFailed' = delFailed \ {cur}
  /\ post' = "release" /\ cur' = NoRow
  /\ UNCHANGED <<downstream, uncommitted, insPos, slavePos, runVars, chanVars,
                 flushed, acked, panicked, delivered, cancelled, faults>>

\* DELETE fails.  The code assigns the error and never looks at it.
DelMsgFail ==
  /\ post = "del"
  /\ (~dbOpen /\ UNCHANGED faults) \/ Fault
  /\ delFailed' = delFailed \cup {cur}
  /\ post' = "release" /\ cur' = NoRow
  /\ UNCHANGED <<downstream, dbVars, runVars, chanVars, flushed, acked,
                 panicked, delivered, cancelled>>

PutBackQuota_Omitted == UNCHANGED ctrlCh
\* <-ctrlCh.
PutBackQuota == ctrlCh > 0 /\ ctrlCh' = ctrlCh - 1

PostRelease ==
  /\ post = "release" /\ PutBackQuota
  /\ post' = "recv"
  /\ UNCHANGED <<downstream, dbVars, runVars, entryCh, entryClosed, pubCbWg,
                 inflight, cbSent, cur, histVars, delivered, cancelled, faults>>

\* The range loop ends when entryCh is closed and drained.
LoopEnds == entryCh = <<>> /\ entryClosed

\* The post process goroutine ends; its defers cancel and wg.Done().
PostEnd ==
  /\ post = "recv" /\ LoopEnds
  /\ post' = "done"
  /\ Cancel
  /\ UNCHANGED <<downstream, dbVars, runVars, chanVars, cur, histVars,
                 delivered, faults>>

-----------------------------------------------------------------------------
(***************************************************************************)
(* Run and run.                                                            *)
(***************************************************************************)
\* The new channels, wait groups, context and goroutine of one run.
FreshRun ==
  /\ ctrlCh' = 0 /\ entryCh' = <<>> /\ entryClosed' = FALSE
  /\ pubCbWg' = 0 /\ inflight' = {} /\ cbSent' = 0
  /\ cur' = NoRow /\ cancelled' = FALSE
  /\ todo' = {} /\ flushed' = {} /\ acked' = {} /\ dumpErr' = FALSE

\* Open the master, make the channels and start the post process goroutine.
RunOpen ==
  /\ phase = "idle"
  /\ phase' = "start" /\ dbOpen' = TRUE /\ post' = "recv"
  /\ FreshRun
  /\ UNCHANGED <<downstream, dbVars, gtid, stop, delFailed, panicked,
                 delivered, faults>>

RunOpenFail ==
  /\ phase = "idle" /\ Fault
  /\ phase' = "retry"
  /\ UNCHANGED <<downstream, dbVars, dumpErr, gtid, todo, dbOpen, stop,
                 chanVars, postVars, histVars, delivered, cancelled>>

\* What the full dump reads of the slave at position p, through listMsgTables.
Snapshot(p) == {r \in Rows : tableFilter(r) /\ VisibleAt(r, p)}

SnapshotGtid_Ahead == IF slavePos < logLen THEN slavePos + 1 ELSE slavePos
\* The gtid set of the snapshot: the same server is read for both dumps.
SnapshotGtid == slavePos

\* FullDump opens a consistent snapshot of the slave.
FullDumpBegin ==
  /\ phase = "start"
  /\ phase' = "full"
  /\ gtid' = SnapshotGtid
  /\ todo' = Snapshot(slavePos)
  /\ UNCHANGED <<downstream, dbVars, dumpErr, dbOpen, stop, chanVars, postVars,
                 histVars, delivered, cancelled, faults>>

FullDumpEnd ==
  /\ phase = "full" /\ todo = {} /\ DumperFree
  /\ phase' = "wait" /\ dumpErr' = FALSE
  /\ UNCHANGED <<downstream, dbVars, gtid, todo, dbOpen, stop, chanVars,
                 postVars, histVars, delivered, cancelled, faults>>

\* FullDump or IncrDump returns an error, because ctx is done (seen by flush
\* or by the dump) or because MySQL failed.
DumpErr ==
  /\ phase \in {"start", "full", "incr"} /\ DumperFree
  /\ (CtxDone /\ UNCHANGED faults) \/ Fault
  /\ phase' = "wait" /\ dumpErr' = TRUE
  /\ UNCHANGED <<downstream, dbVars, gtid, todo, dbOpen, stop, chanVars,
                 postVars, histVars, delivered, cancelled>>

PubCbsDone_Unchecked == TRUE
\* pubCbWg.Wait() returns.
PubCbsDone == pubCbWg = 0

WaitPubCb ==
  /\ phase = "wait" /\ PubCbsDone
  /\ phase' = IF dumpErr THEN "closing" ELSE "incr"
  /\ UNCHANGED <<downstream, dbVars, dumpErr, gtid, todo, dbOpen, stop,
                 chanVars, postVars, histVars, delivered, cancelled, faults>>

TrxRows_AnyTable(p) == {r \in Rows : insPos[r] = p}
\* The RowInsertion events of transaction p that pass the filter.
TrxRows(p) == {r \in Rows : tableFilter(r) /\ insPos[r] = p}

\* IncrDump reads the next transaction of the slave's binlog.
IncrTrx ==
  /\ phase = "incr" /\ todo = {} /\ DumperFree
  /\ gtid < slavePos
  /\ gtid' = gtid + 1
  /\ todo' = TrxRows(gtid + 1)
  /\ UNCHANGED <<downstream, dbVars, phase, dumpErr, dbOpen, stop, chanVars,
                 postVars, histVars, delivered, cancelled, faults>>

CloseChan_Omitted == UNCHANGED entryClosed
CloseChan == entryClosed' = TRUE

\* The defers close(entryCh) and cancel().
CloseEntryCh ==
  /\ phase = "closing"
  /\ phase' = "wgwait"
  /\ CloseChan /\ Cancel
  /\ UNCHANGED <<downstream, dbVars, dumpErr, gtid, todo, dbOpen, stop, ctrlCh,
                 entryCh, pubCbWg, inflight, cbSent, postVars, histVars,
                 delivered, faults>>

PostDone_Unchecked == TRUE
\* wg.Wait() returns.
PostDone == post = "done"

\* The defers wg.Wait() and db.Close(): run returns.
RunReturn ==
  /\ phase = "wgwait" /\ PostDone
  /\ phase' = "retry" /\ dbOpen' = FALSE
  /\ UNCHANGED <<downstream, dbVars, dumpErr, gtid, todo, stop, chanVars,
                 postVars, histVars, delivered, cancelled, faults>>

RetryWait ==
  /\ phase = "retry" /\ ~stop
  /\ phase' = "idle"
  /\ UNCHANGED <<downstream, dbVars, dumpErr, gtid, todo, dbOpen, stop,
                 chanVars, postVars, histVars, delivered, cancelled, faults>>

RunStop ==
  /\ phase = "retry" /\ stop
  /\ phase' = "returned"
  /\ UNCHANGED <<downstream, dbVars, dumpErr, gtid, todo, dbOpen, stop,
                 chanVars, postVars, histVars, delivered, cancelled, faults>>

\* The caller of Run cancels its context.
Stop ==
  /\ ~stop
  /\ stop' = TRUE
  /\ UNCHANGED <<downstream, dbVars, phase, dumpErr, gtid, todo, dbOpen,
                 chanVars, postVars, histVars, delivered, cancelled, faults>>

\* The process dies and is started again.  What was handed to the downstream
\* may still reach it.
Crash ==
  /\ Fault
  /\ \E S \in SUBSET inflight : delivered' = delivered \cup S
  /\ phase' = "idle" /\ dbOpen' = FALSE /\ stop' = FALSE /\ post' = "done"
  /\ FreshRun
  /\ UNCHANGED <<downstream, dbVars, gtid, delFailed, panicked>>

-----------------------------------------------------------------------------
Init ==
  /\ uncommitted = {}
  /\ insPos = [r \in Rows |-> 0] /\ delPos = [r \in Rows |-> 0]
  /\ logLen = 0 /\ slavePos = 0
  /\ delivered = {}
  /\ downstream \in Downstreams
  /\ phase = "idle" /\ dumpErr = FALSE /\ gtid = 0 /\ todo = {}
  /\ dbOpen = FALSE /\ stop = FALSE /\ cancelled = FALSE
  /\ ctrlCh = 0 /\ entryCh = <<>> /\ entryClosed = FALSE
  /\ pubCbWg = 0 /\ inflight = {} /\ cbSent = 0
  /\ post = "done" /\ cur = NoRow
  /\ flushed = {} /\ acked = {} /\ delFailed = {} /\ panicked = FALSE
  /\ faults = 0

MySQL ==
  \/ \E r \in Rows : AddMsg(r)
  \/ \E S \in SUBSET Rows : Commit(S) \/ Rollback(S)
  \/ SlaveApply

Dumper ==
  \/ RunOpen \/ RunOpenFail \/ FullDumpBegin \/ FullDumpEnd \/ DumpErr
  \/ WaitPubCb \/ IncrTrx \/ CloseEntryCh \/ RunReturn \/ RetryWait \/ RunStop
  \/ \E r \in Rows : Flush(r)

Callbacks ==
  \/ \E r \in Rows, ok \in BOOLEAN : PubCb(r, ok)
  \/ PubCbDone

PostProcess == PostRecv \/ DelMsg \/ DelMsgFail \/ PostRelease \/ PostEnd

\* All is published and deleted, or Run has returned: nothing need happen.
Quiescent ==
  /\ \/ phase = "returned"
     \/ (phase = "incr" /\ todo = {} /\ gtid = slavePos)
  /\ inflight = {} /\ cbSent = 0 /\ entryCh = <<>> /\ post \in {"recv", "done"}
  /\ UNCHANGED vars

Next == MySQL \/ Dumper \/ Callbacks \/ PostProcess \/ Stop \/ Crash \/ Quiescent

(***************************************************************************)
(* Fairness.  Goroutines run; the slave replicates; the downstream calls   *)
(* back for every message (the contract of MsgAsyncPublisher).  Nothing is *)
(* assumed of the applications, of Stop, of failures or of crashes.        *)
(***************************************************************************)
Fairness ==
  /\ WF_vars(RunOpen \/ FullDumpBegin \/ FullDumpEnd \/ WaitPubCb \/ IncrTrx
               \/ CloseEntryCh \/ RunReturn \/ RetryWait \/ RunStop
               \/ \E r \in Rows : Flush(r))
  /\ WF_vars(CtxDone /\ DumpErr)
  /\ \A r \in Rows : WF_vars(\E ok \in BOOLEAN : PubCb(r, ok))
  /\ WF_vars(PubCbDone)
  /\ WF_vars(PostProcess)
  /\ WF_vars(SlaveApply)

Spec == Init /\ [][Next]_vars
FairSpec == Spec /\ Fairness

-----------------------------------------------------------------------------
(***************************************************************************)
(* Safety.                                                                 *)
(***************************************************************************)
\* Type invariant of the state of binlogmsg.MsgPipe and of its environment.
TypeOK ==
  /\ downstream \in Downstreams
  /\ uncommitted \subseteq Rows /\ delivered \subseteq Rows
  /\ insPos \in [Rows -> Nat] /\ delPos \in [Rows -> Nat]
  /\ logLen \in Nat /\ slavePos \in Nat /\ gtid \in Nat /\ faults \in Nat
  /\ phase \in Phases /\ post \in {"recv", "del", "release", "done"}
  /\ todo \subseteq Rows /\ inflight \subseteq Rows
  /\ flushed \subseteq Rows /\ acked \subseteq Rows /\ delFailed \subseteq Rows
  /\ dumpErr \in BOOLEAN /\ dbOpen \in BOOLEAN /\ stop \in BOOLEAN
  /\ cancelled \in BOOLEAN /\ entryClosed \in BOOLEAN /\ panicked \in BOOLEAN
  /\ ctrlCh \in Nat /\ pubCbWg \in Nat /\ cbSent \in Nat
  /\ entryCh \in Seq(Entry)
  /\ cur \in IF post = "del" THEN Rows ELSE {NoRow}

\* The "Unexpected branch" of the callback is never taken: entryCh is neither
\* full nor closed when a callback sends its entry, however late it comes.
NoPanic == ~panicked

\* Entries the post process goroutine holds a quota for.
Held == IF post \in {"del", "release"} THEN 1 ELSE 0

\* Quota is conserved: every token of ctrlCh belongs to one row in flight, in
\* entryCh or being processed, there are never more than maxInflight, and
\* pubCbWg counts the callbacks that have not returned.
QuotaConserved ==
  /\ ctrlCh = Cardinality(inflight) + Len(entryCh) + Held
  /\ ctrlCh <= MaxInflight
  /\ pubCbWg = Cardinality(inflight) + cbSent

\* Callbacks are safe whenever they come: none finds entryCh full or closed, for
\* there are never more of them than quota.
CallbacksSafe == NoPanic /\ QuotaConserved

\* A run leaves nothing behind: outside run() no callback is outstanding, no
\* entry is unprocessed and the post process goroutine has ended; and while it
\* lives the *sql.DB it deletes with is open (the order of the defers).
RunLeavesNothing ==
  /\ phase \in {"idle", "retry", "returned"} =>
       inflight = {} /\ cbSent = 0 /\ entryCh = <<>> /\ post = "done"
  /\ post # "done" => dbOpen

\* No gap between the full and the incremental dump: as long as the dump goes
\* on, a committed message up to its gtid position was flushed in this run, is
\* about to be, or has been removed already.
NoRowSkipped ==
  phase \in {"full", "incr"} \/ (phase = "wait" /\ ~dumpErr) =>
    \A r \in MsgRows : insPos[r] \in 1..gtid =>
                         r \in todo \/ r \in flushed \/ Removed(r)

\* No overlap either: what the dump has still to flush was not flushed before
\* in this run, so each run publishes a message at most once.
AtMostOncePerRun == todo \cap flushed = {}

\* The full and the incremental dump meet, without gap or overlap.
DumpsMeet == NoRowSkipped /\ AtMostOncePerRun

\* When run() has returned, every message the downstream confirmed in that run
\* is deleted, unless its DELETE failed: results that arrive after the dump
\* has ended are processed too.
ConfirmedAreRemoved ==
  phase \in {"retry", "returned"} =>
    \A r \in acked : Removed(r) \/ r \in delFailed

\* A run ends cleanly: nothing is left of it, and what was confirmed is removed.
RunEndsClean == RunLeavesNothing /\ ConfirmedAreRemoved

\* A row is deleted only if it belongs to a message table and the downstream
\* confirmed it in the same run: a failed, unanswered or late publish never
\* costs the message.
DeleteOnlyConfirmed ==
  [][\A r \in Rows : delPos'[r] # delPos[r] =>
       r \in MsgRows /\ r \in acked /\ r \in delivered]_vars

\* The promise of the pipe as an outbox: see module Outbox.
OutboxRefinement == INSTANCE Outbox WITH
  Msgs      <- MsgRows,
  committed <- {r \in MsgRows : Committed(r)},
  delivered <- delivered,
  removed   <- {r \in Rows : Removed(r)}

ImplementsOutbox == OutboxRefinement!Spec

-----------------------------------------------------------------------------
(***************************************************************************)
(* Liveness, under FairSpec.                                               *)
(***************************************************************************)
\* At least once: a committed message reaches the downstream, whatever fails or
\* crashes a bounded number of times, unless the caller stops the pipe.
AtLeastOnce == \A r \in MsgRows : Committed(r) ~> (r \in delivered \/ stop)

\* A committed message is deleted in the end, unless the pipe is stopped or
\* the last DELETE of it failed.
EventuallyRemovedOrFailed ==
  \A r \in MsgRows : Committed(r) ~> (Removed(r) \/ stop \/ r \in delFailed)

\* Once the context of Run is done Run returns: neither the dump, nor
\* pubCbWg.Wait(), nor wg.Wait() blocks for ever (or the process dies).
StopTerminates == stop ~> (phase = "returned" \/ ~stop)

\* What PipeOptRetryWait's comment says, "retries due to all kinds of errors",
\* applied to the DELETE: a failed one is retried until the message is gone.
EventuallyRemoved ==
  \A r \in MsgRows : Committed(r) ~> (Removed(r) \/ stop)
=============================================================================
