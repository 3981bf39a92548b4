---------------------------- MODULE SendMailProofs ----------------------------
(***************************************************************************)
(* TLAPS proofs about SendMail, for every set of clients, mails and        *)
(* handlers and any number of faults.                                      *)
(***************************************************************************)
EXTENDS SendMail, TLAPS

USE SendMailAssumption

(***************************************************************************)
(* The inductive invariant, in parts.                                      *)
(***************************************************************************)
\* A handler that has a message.
Busy(s) == task[s].at # "idle"

\* Requests: a client waits for a mail's; a mail that is asked for or open has no
\* entry yet.
SendInv ==
  /\ \A c \in Clients : shell[c] = "sending" => form[c] \in Mails
  /\ asked \cap open = {}
  /\ \A m \in asked \cup open : entry[m] = "none"

\* The server is subscribed from SubscribeEmailEntry to Close.
SubInv == subscribed => stage \in {"ready", "stopping"}

\* Messages: what was published, delivered or mailed was stored before, what a
\* handler has for the queue.
StoredInv ==
  /\ \A m \in unconfirmed : copies[m] > 0
  /\ \A q \in due : q[2] \in 1..copies[q[1]]
  /\ \A s \in Slots : Busy(s) => /\ task[s].mail \in Mails /\ copies[task[s].mail] > 0
                                  /\ Message(s) \in due
  /\ \A m \in Mails : mailed[m] > 0 \/ m \in refused => copies[m] > 0

\* Results: a handler knows what the SMTP server said, and has it recorded when
\* it is about to ack; what is acked is recorded.
ResultInv ==
  /\ \A s \in Slots :
       /\ task[s].at = "sent" => mailed[task[s].mail] > 0
       /\ task[s].at \in {"unsent", "too long"} => task[s].mail \in refused
       /\ task[s].at = "ack" => entry[task[s].mail] \in {"SUCCESS", "FAILED"}
  /\ \A q \in due \ owed : entry[q[1]] \in {"SUCCESS", "FAILED"}

\* A handler that is about to ack has returned nil for its message.
HandledInv == \A s \in Slots : task[s].at = "ack" => Message(s) \in handled

\* A message that is to be published, or may be.
Unpublished(m) == m \notin unconfirmed /\ (copies[m] = 0 \/ m \in outbox)

\* A message is published again only after a fault, which an orderly end of the
\* server uses up when it closes the connection.
CopyInv ==
  /\ stage \in {"down", "closed"} => unconfirmed = {}
  /\ faults <= MaxFaults
  /\ \A m \in Mails :
       copies[m] + (IF Unpublished(m) THEN 1 ELSE 0) + (IF stage = "stopping" THEN 1 ELSE 0)
         <= faults + 1

\* What is to be done about a mail is not begun.
Fresh(m) == mailed[m] = 0 /\ m \notin reason

\* Without faults a mail has one message, which has one handler.
CalmMsgs ==
  /\ \A m \in Mails : copies[m] <= 1
  /\ \A m \in outbox \ unconfirmed : copies[m] = 0

CalmTasks ==
  \A s \in Slots : Busy(s) =>
    /\ task[s].live /\ task[s].at # "too long"
    /\ Message(s) \in owed
    /\ task[s].at = "dial" => Fresh(task[s].mail)
    /\ task[s].at = "sent" => task[s].mail \notin reason
    /\ \A t \in Slots : Busy(t) /\ task[t].mail = task[s].mail => s = t

CalmOwed ==
  \A q \in owed : Fresh(q[1]) \/ \E s \in Slots : Busy(s) /\ task[s].mail = q[1]

CalmStage ==
  /\ stage \notin {"stopping", "closed"}
  /\ stage # "ready" => \A s \in Slots : ~Busy(s)

Once ==
  \A m \in Mails : mailed[m] <= 1 /\ (entry[m] = "SUCCESS" => m \notin reason)

Calm == CalmStage /\ CalmMsgs /\ CalmTasks /\ CalmOwed /\ Once

CalmInv == faults = 0 => Calm

IndInv ==
  /\ TypeOK /\ SendInv /\ SubInv /\ StoredInv /\ ResultInv /\ CalmInv
  /\ EntryWithMessage /\ HonestStatus /\ HandledInv /\ CopyInv

-----------------------------------------------------------------------------
(***************************************************************************)
(* Type correctness.                                                       *)
(***************************************************************************)
\* The fields of a task; Tasks is not expanded elsewhere.
LEMMA TaskFields ==
  ASSUME NEW t \in Tasks
  PROVE  /\ t.mail \in Mails \cup {NoMail} /\ t.copy \in Nat
         /\ t.at \in Places /\ t.live \in BOOLEAN
BY DEF Tasks

\* Tasks that are made or changed.
LEMMA TaskIdle == Idle \in Tasks
BY DEF Tasks, Idle, Places

LEMMA TaskMade ==
  ASSUME NEW m \in Mails, NEW n \in Nat
  PROVE  [mail |-> m, copy |-> n, at |-> "dial", live |-> TRUE] \in Tasks
BY DEF Tasks, Places

LEMMA TaskAt ==
  ASSUME NEW t \in Tasks, NEW a \in Places
  PROVE  [t EXCEPT !.at = a] \in Tasks
BY DEF Tasks

LEMMA TaskDead ==
  ASSUME NEW t \in Tasks
  PROVE  [t EXCEPT !.live = FALSE] \in Tasks
BY DEF Tasks

\* Faults are counted.
LEMMA FaultCounted ==
  ASSUME faults \in Nat, Fault
  PROVE  faults' \in Nat /\ faults' > 0
BY DEF Fault

\* A handler goes on.
LEMMA GotoMade ==
  ASSUME task \in [Slots -> Tasks], NEW s \in Slots, NEW a \in Places, Goto(s, a)
  PROVE  /\ task' \in [Slots -> Tasks]
         /\ \A t \in Slots : t # s => task'[t] = task[t]
         /\ task'[s].at = a /\ task'[s].mail = task[s].mail
         /\ task'[s].copy = task[s].copy /\ task'[s].live = task[s].live
<1>1. task'[s] = [task[s] EXCEPT !.at = a]
  BY DEF Goto
<1>2. task' = [task EXCEPT ![s] = task'[s]]
  BY <1>1 DEF Goto
<1>3. task'[s] \in Tasks
  BY <1>1, TaskAt
<1>4. /\ task'[s].at = a /\ task'[s].mail = task[s].mail
      /\ task'[s].copy = task[s].copy /\ task'[s].live = task[s].live
  BY <1>1 DEF Tasks
<1> QED BY <1>2, <1>3, <1>4

\* What DialAndSend does to the counts and to the task.
LEMMA DialAndSendDoes ==
  ASSUME TypeOK, NEW s \in Slots, DialAndSend(s), task[s].mail \in Mails
  PROVE  /\ \E a \in {"sent", "unsent", "too long"} :
              /\ Goto(s, a)
              /\ a = "sent" => mailed'[task[s].mail] > 0
              /\ a # "sent" => task[s].mail \in refused'
              /\ a = "too long" => Fault
         /\ mailed' \in [Mails -> 0..2]
         /\ \A m \in Mails : /\ m # task[s].mail => mailed'[m] = mailed[m]
                             /\ mailed[m] > 0 => mailed'[m] > 0
         /\ mailed[task[s].mail] = 0 => mailed'[task[s].mail] <= 1
         /\ refused \subseteq refused' /\ refused' \subseteq refused \cup {task[s].mail}
         /\ Fault \/ UNCHANGED faults
<1> DEFINE m == task[s].mail
           more == IF mailed[m] < 2 THEN mailed[m] + 1 ELSE 2
<1>1. mailed \in [Mails -> 0..2]
  BY DEF TypeOK
<1>2. mailed[m] \in 0..2
  BY <1>1
<1>3. /\ more \in 0..2 /\ more > 0 /\ more >= mailed[m]
      /\ mailed[m] = 0 => more <= 1
  BY <1>2
<1> HIDE DEF more
<1>4. PICK n \in {mailed[m], more} : mailed' = [mailed EXCEPT ![m] = n]
  BY DEF DialAndSend, more
<1>5. CASE Goto(s, "sent") /\ mailed' = [mailed EXCEPT ![m] = more] /\ UNCHANGED <<refused, faults>>
  <2>1. /\ mailed' \in [Mails -> 0..2] /\ mailed'[m] = more
        /\ \A k \in Mails : /\ k # m => mailed'[k] = mailed[k]
                            /\ mailed[k] > 0 => mailed'[k] > 0
    BY <1>1, <1>2, <1>3, <1>5
  <2> QED BY <1>3, <1>5, <2>1
<1>6. CASE /\ refused' = refused \cup {m}
           /\ \/ Goto(s, "unsent") /\ UNCHANGED faults
              \/ Goto(s, "too long") /\ Fault
  <2>1. /\ mailed' \in [Mails -> 0..2]
        /\ \A k \in Mails : /\ k # m => mailed'[k] = mailed[k]
                            /\ mailed[k] > 0 => mailed'[k] > 0
        /\ mailed[m] = 0 => mailed'[m] <= 1
    BY <1>1, <1>2, <1>3, <1>4
  <2> QED BY <2>1, <1>6
<1> QED BY <1>5, <1>6 DEF DialAndSend, more

\* Every step keeps the state well typed.
LEMMA TypeStep ==
  ASSUME TypeOK, SendInv, StoredInv, [Next]_vars
  PROVE  TypeOK'
<1> USE DEF TypeOK, clientVars, dbVars, sendVars, pipeVars, connVars, stanVars, smtpVars
<1>1. CASE UNCHANGED vars
  BY <1>1 DEF vars
<1>2. ASSUME NEW c \in Clients, Client(c) PROVE TypeOK'
  <2>1. ASSUME NEW m \in Mails, SendCmd(c, m) PROVE TypeOK'
    BY <2>1 DEF SendCmd
  <2>2. CASE SendReturns(c)
    BY <2>2 DEF SendReturns, SendInv
  <2>3. CASE SendFails(c) \/ Relaunch(c)
    BY <2>3 DEF SendFails, Relaunch
  <2>4. CASE ListCmd(c)
    BY <2>4 DEF ListCmd
  <2> QED BY <1>2, <2>1, <2>2, <2>3, <2>4 DEF Client
<1>3. CASE Main
  <2>1. CASE Boot \/ Prepare \/ SubscribeEmailEntry
    BY <2>1 DEF Boot, Prepare, SubscribeEmailEntry
  <2>2. CASE Stop
    BY <2>2, FaultCounted DEF Stop
  <2>3. CASE CloseAll
    BY <2>3, TaskDead DEF CloseAll, Disconnected
  <2>4. CASE Exit
    BY <2>4, TaskIdle DEF Exit, ProcessEnds
  <2>5. CASE Crash
    BY <2>5, TaskIdle, FaultCounted DEF Crash, ProcessEnds
  <2> QED BY <1>3, <2>1, <2>2, <2>3, <2>4, <2>5 DEF Main
<1>4. CASE Conn \/ Run
  <2>1. CASE Connect \/ Resubscribe
    BY <2>1 DEF Connect, Resubscribe
  <2>2. CASE Disconnect
    BY <2>2, TaskDead, FaultCounted DEF Disconnect, Disconnected
  <2>3. CASE RunFails \/ Rerun
    BY <2>3, FaultCounted DEF RunFails, Rerun
  <2> QED BY <1>4, <2>1, <2>2, <2>3 DEF Conn, Run
<1>5. ASSUME NEW m \in Mails, Send(m) PROVE TypeOK'
  <2>1. CASE Drop(m) \/ Begin(m)
    BY <2>1 DEF Drop, Begin
  <2>2. CASE InsertEmailEntry(m) \/ PublishEmailEntry(m)
    BY <2>2 DEF InsertEmailEntry, PublishEmailEntry
  <2>3. CASE Commit(m)
    BY <2>3, FaultCounted DEF Commit, Return, Statuses
  <2>4. CASE Rollback(m)
    BY <2>4 DEF Rollback, Return
  <2> QED BY <1>5, <2>1, <2>2, <2>3, <2>4 DEF Send
<1>6. ASSUME NEW m \in Mails, Pipe(m) PROVE TypeOK'
  <2>1. CASE Flush(m)
    BY <2>1 DEF Flush, Flushable
  <2>2. CASE FlushFails(m)
    BY <2>2 DEF FlushFails, Flushable, Fails
  <2>3. CASE Confirm(m)
    BY <2>3 DEF Confirm
  <2>4. CASE NotDeleted(m) \/ NotConfirmed(m)
    BY <2>4, FaultCounted DEF NotDeleted, NotConfirmed, Fails
  <2> QED BY <1>6, <2>1, <2>2, <2>3, <2>4 DEF Pipe
<1>7. ASSUME NEW s \in Slots, Handler(s) PROVE TypeOK'
  <2>1. ASSUME NEW q \in owed, NEW again \in BOOLEAN, Deliver(s, q, again)
        PROVE  TypeOK'
    BY <2>1, TaskMade, FaultCounted DEF Deliver
  <2>2. CASE DialAndSend(s)
    <3>1. task[s].mail \in Mails
      BY <2>2 DEF DialAndSend, StoredInv, Busy
    <3>2. task' \in [Slots -> Tasks]
      <4>1. PICK a \in {"sent", "unsent", "too long"} : Goto(s, a)
        BY <2>2, <3>1, DialAndSendDoes
      <4>2. a \in Places
        BY DEF Places
      <4> QED BY <4>1, <4>2, GotoMade
    <3>3. /\ mailed' \in [Mails -> 0..2]
          /\ refused' \subseteq Mails /\ faults' \in Nat
      BY <2>2, <3>1, DialAndSendDoes, FaultCounted
    <3> QED BY <2>2, <3>2, <3>3 DEF DialAndSend
  <2>3. CASE Record(s)
    <3>1. task[s].mail \in Mails
      BY <2>3 DEF Record, StoredInv, Busy
    <3>2. entry' \in [Mails -> Statuses] /\ reason' \subseteq Mails
      BY <2>3, <3>1 DEF Record, UpdateEmailEntry, Statuses
    <3>3. CASE Goto(s, "ack") /\ handled' = handled \cup {Message(s)} /\ UNCHANGED faults
      <4>1. "ack" \in Places /\ Message(s) \in due
        BY <2>3 DEF Places, Record, StoredInv, Busy
      <4> QED BY <2>3, <3>2, <3>3, <4>1, GotoMade DEF Record
    <3>4. CASE task' = [task EXCEPT ![s] = Idle] /\ Fault /\ UNCHANGED handled
      BY <2>3, <3>2, <3>4, TaskIdle, FaultCounted DEF Record
    <3> QED BY <2>3, <3>3, <3>4 DEF Record
  <2>4. CASE NotRecorded(s)
    BY <2>4, TaskIdle, FaultCounted DEF NotRecorded, OnError
  <2>5. CASE Ack(s)
    BY <2>5, TaskIdle, FaultCounted DEF Ack, Acked
  <2>6. CASE \E q \in owed, again \in BOOLEAN : Deliver(s, q, again)
    BY <2>1, <2>6
  <2> QED BY <1>7, <2>2, <2>3, <2>4, <2>5, <2>6 DEF Handler
<1> QED BY <1>1, <1>2, <1>3, <1>4, <1>5, <1>6, <1>7 DEF Next
-----------------------------------------------------------------------------
(***************************************************************************)
(* Requests, and what is stored.                                           *)
(***************************************************************************)
\* A task that has a message has it from the queue.
LEMMA BusyStored ==
  ASSUME TypeOK, StoredInv, EntryWithMessage, NEW s \in Slots, Busy(s)
  PROVE  task[s].mail \in Mails /\ entry[task[s].mail] # "none"
BY DEF StoredInv, EntryWithMessage

\* Requests stay apart from what has an entry.
LEMMA SendStep ==
  ASSUME TypeOK, SendInv, StoredInv, EntryWithMessage, [Next]_vars
  PROVE  SendInv'
<1> USE DEF TypeOK, clientVars, dbVars, sendVars, pipeVars
<1>1. ASSUME NEW c \in Clients, NEW m \in Mails, SendCmd(c, m) PROVE SendInv'
  BY <1>1 DEF SendCmd, SendInv
<1>2. ASSUME NEW c \in Clients,
             SendReturns(c) \/ SendFails(c) \/ Relaunch(c) \/ ListCmd(c)
      PROVE  SendInv'
  BY <1>2 DEF SendReturns, SendFails, Relaunch, ListCmd, SendInv
<1>3. ASSUME NEW m \in Mails, Drop(m) \/ Begin(m) PROVE SendInv'
  BY <1>3 DEF Drop, Begin, SendInv
<1>4. ASSUME NEW m \in Mails, Commit(m) \/ Rollback(m) PROVE SendInv'
  BY <1>4 DEF Commit, Rollback, Return, SendInv
<1>5. ASSUME NEW s \in Slots, Record(s) PROVE SendInv'
  <2>1. task[s].mail \in Mails /\ entry[task[s].mail] # "none"
    BY <1>5, BusyStored DEF Record, Busy
  <2>2. UNCHANGED <<shell, form, asked, open>>
    BY <1>5 DEF Record
  <2>3. \A m \in Mails : m # task[s].mail => entry'[m] = entry[m]
    BY <1>5, <2>1 DEF Record, UpdateEmailEntry
  <2> QED BY <2>1, <2>2, <2>3 DEF SendInv
<1>6. ASSUME UNCHANGED <<shell, form, asked, entry>>, open' \subseteq open
      PROVE  SendInv'
  BY <1>6 DEF SendInv
<1>7. CASE UNCHANGED vars
  BY <1>6, <1>7 DEF vars
<1>8. ASSUME NEW c \in Clients, Client(c) PROVE SendInv'
  BY <1>1, <1>2, <1>8 DEF Client
<1>9. CASE Main
  BY <1>6, <1>9 DEF Main, Boot, Prepare, SubscribeEmailEntry, Stop, CloseAll,
                    Exit, Crash, ProcessEnds
<1>10. CASE Conn \/ Run
  BY <1>6, <1>10 DEF Conn, Connect, Resubscribe, Disconnect, Run, RunFails, Rerun
<1>11. ASSUME NEW m \in Mails, Send(m) PROVE SendInv'
  BY <1>3, <1>4, <1>6, <1>11 DEF Send, InsertEmailEntry, PublishEmailEntry
<1>12. ASSUME NEW m \in Mails, Pipe(m) PROVE SendInv'
  BY <1>6, <1>12 DEF Pipe, Flush, FlushFails, Confirm, NotDeleted, NotConfirmed, Fails
<1>13. ASSUME NEW s \in Slots, Handler(s) PROVE SendInv'
  BY <1>5, <1>6, <1>13 DEF Handler, Deliver, DialAndSend, NotRecorded, Ack
<1> QED BY <1>7, <1>8, <1>9, <1>10, <1>11, <1>12, <1>13 DEF Next

\* The subscription ends with the connection, and no later than the DurConn.
LEMMA SubStep ==
  ASSUME SubInv, [Next]_vars
  PROVE  SubInv'
<1> USE DEF SubInv, clientVars, dbVars, sendVars, pipeVars, connVars, stanVars, smtpVars
<1>1. CASE UNCHANGED vars
  BY <1>1 DEF vars
<1>2. ASSUME NEW c \in Clients, Client(c) PROVE SubInv'
  BY <1>2 DEF Client, SendCmd, SendReturns, SendFails, Relaunch, ListCmd
<1>3. CASE Main
  BY <1>3 DEF Main, Boot, Prepare, SubscribeEmailEntry, Stop, CloseAll, Disconnected,
              Exit, Crash, ProcessEnds
<1>4. CASE Conn \/ Run
  BY <1>4 DEF Conn, Connect, Resubscribe, Disconnect, Run, RunFails, Rerun, Disconnected
<1>5. ASSUME NEW m \in Mails, Send(m) PROVE SubInv'
  BY <1>5 DEF Send, Drop, Begin, InsertEmailEntry, PublishEmailEntry, Commit, Rollback
<1>6. ASSUME NEW m \in Mails, Pipe(m) PROVE SubInv'
  BY <1>6 DEF Pipe, Flush, FlushFails, Confirm, NotDeleted, NotConfirmed, Fails
<1>7. ASSUME NEW s \in Slots, Handler(s) PROVE SubInv'
  BY <1>7 DEF Handler, Deliver, DialAndSend, Record, NotRecorded, Ack
<1> QED BY <1>1, <1>2, <1>3, <1>4, <1>5, <1>6, <1>7 DEF Next

\* What is published, delivered or mailed was stored before.
LEMMA StoredStep ==
  ASSUME TypeOK, TypeOK', StoredInv, [Next]_vars
  PROVE  StoredInv'
<1> USE DEF clientVars, dbVars, sendVars, pipeVars, connVars, stanVars, smtpVars
<1>1. ASSUME UNCHANGED <<copies, due, mailed, refused>>,
             unconfirmed' \subseteq unconfirmed,
             \A s \in Slots : \/ task'[s].at = "idle"
                              \/ Busy(s) /\ Message(s)' = Message(s)
      PROVE  StoredInv'
  BY <1>1 DEF StoredInv, Busy, Message
<1>2. ASSUME Disconnected PROVE
             /\ unconfirmed' \subseteq unconfirmed
             /\ \A s \in Slots : \/ task'[s].at = "idle"
                                 \/ Busy(s) /\ Message(s)' = Message(s)
  <2> SUFFICES ASSUME NEW s \in Slots
               PROVE  /\ task'[s].at = task[s].at /\ task'[s].mail = task[s].mail
                      /\ task'[s].copy = task[s].copy
    BY <1>2 DEF Disconnected, Busy, Message
  <2>1. task[s] \in Tasks
    BY DEF TypeOK
  <2> QED BY <1>2, <2>1 DEF Disconnected, Tasks
<1>3. ASSUME UNCHANGED <<copies, due, mailed, refused, task>>,
             unconfirmed' \subseteq unconfirmed
      PROVE  StoredInv'
  BY <1>1, <1>3 DEF Busy, Message
<1>4. ASSUME NEW s \in Slots, task' = [task EXCEPT ![s] = Idle],
             UNCHANGED <<copies, due, mailed, refused, unconfirmed>>
      PROVE  StoredInv'
  <2>1. \A t \in Slots : task'[t] = IF t = s THEN Idle ELSE task[t]
    BY <1>4 DEF TypeOK
  <2> QED BY <1>1, <1>4, <2>1 DEF Idle, Busy, Message
<1>5. CASE UNCHANGED vars
  BY <1>3, <1>5 DEF vars
<1>6. ASSUME NEW c \in Clients, Client(c) PROVE StoredInv'
  BY <1>3, <1>6 DEF Client, SendCmd, SendReturns, SendFails, Relaunch, ListCmd
<1>7. CASE Main
  <2>1. CASE Boot \/ Prepare \/ SubscribeEmailEntry \/ Stop
    BY <1>3, <2>1 DEF Boot, Prepare, SubscribeEmailEntry, Stop
  <2>2. CASE CloseAll
    BY <1>1, <1>2, <2>2 DEF CloseAll
  <2>3. CASE ProcessEnds
    BY <1>1, <2>3 DEF ProcessEnds, Idle
  <2> QED BY <1>7, <2>1, <2>2, <2>3 DEF Main, Exit, Crash
<1>8. CASE Conn \/ Run
  BY <1>1, <1>2, <1>3, <1>8 DEF Conn, Connect, Resubscribe, Disconnect, Run, RunFails, Rerun
<1>9. ASSUME NEW m \in Mails, Send(m) PROVE StoredInv'
  BY <1>3, <1>9 DEF Send, Drop, Begin, InsertEmailEntry, PublishEmailEntry, Commit,
                    Rollback
<1>10. ASSUME NEW m \in Mails, Pipe(m) PROVE StoredInv'
  <2>1. CASE Flush(m)
    <3>1. /\ copies \in [Mails -> Nat] /\ due \subseteq Mails \X Nat
          /\ copies' = [copies EXCEPT ![m] = @ + 1]
          /\ due' \subseteq due \cup {<<m, copies[m] + 1>>}
          /\ unconfirmed' = unconfirmed \cup {m} /\ unconfirmed \subseteq Mails
      BY <2>1 DEF Flush, TypeOK
    <3>2. \A n \in Mails : copies'[n] >= copies[n]
      BY <3>1
    <3>3. copies'[m] = copies[m] + 1 /\ copies[m] \in Nat
      BY <3>1
    <3>4. \A q \in due' : q[2] \in 1..copies'[q[1]]
      <4> SUFFICES ASSUME NEW q \in due' PROVE q[2] \in 1..copies'[q[1]]
        OBVIOUS
      <4>1. CASE q \in due
        <5>1. q[1] \in Mails /\ q[2] \in Nat
          BY <3>1, <4>1
        <5> QED BY <3>1, <3>2, <4>1, <5>1 DEF StoredInv
      <4>2. CASE q = <<m, copies[m] + 1>>
        BY <3>3, <4>2
      <4> QED BY <3>1, <4>1, <4>2
    <3>5. \A n \in unconfirmed' : copies'[n] > 0
      BY <3>1, <3>2, <3>3 DEF StoredInv
    <3>6. UNCHANGED <<task, mailed, refused>>
      BY <2>1 DEF Flush
    <3>7. \A n \in Mails : copies[n] > 0 => copies'[n] > 0
      BY <3>1, <3>2
    <3>8. \A s \in Slots : Busy(s)' => Message(s)' \in due'
      BY <2>1, <3>6 DEF Flush, StoredInv, Busy, Message
    <3> QED BY <3>4, <3>5, <3>6, <3>7, <3>8 DEF StoredInv, Busy
  <2>2. CASE FlushFails(m) \/ Confirm(m) \/ NotDeleted(m) \/ NotConfirmed(m)
    BY <1>3, <2>2 DEF FlushFails, Confirm, NotDeleted, NotConfirmed, Fails
  <2> QED BY <1>10, <2>1, <2>2 DEF Pipe
<1>11. ASSUME NEW s \in Slots, Handler(s) PROVE StoredInv'
  <2>1. ASSUME NEW q \in owed, NEW again \in BOOLEAN, Deliver(s, q, again)
        PROVE  StoredInv'
    <3>1. q \in due /\ q[1] \in Mails /\ q[2] \in Nat /\ copies[q[1]] \in Nat
      BY DEF TypeOK
    <3>2. copies[q[1]] > 0
      BY <3>1 DEF StoredInv
    <3>3. \A t \in Slots : task'[t] =
            IF t = s THEN [mail |-> q[1], copy |-> q[2], at |-> "dial", live |-> TRUE]
            ELSE task[t]
      BY <2>1 DEF Deliver, TypeOK
    <3>4. /\ task'[s].mail = q[1] /\ task'[s].copy = q[2]
          /\ \A t \in Slots : t # s => task'[t] = task[t]
      BY <3>3
    <3>5. UNCHANGED <<copies, due, mailed, refused, unconfirmed>>
      BY <2>1 DEF Deliver
    <3>6. q = <<q[1], q[2]>>
      BY DEF TypeOK
    <3>7. \A t \in Slots : Busy(t)' => Message(t)' \in due'
      BY <3>1, <3>4, <3>5, <3>6 DEF StoredInv, Busy, Message
    <3> QED BY <3>1, <3>2, <3>4, <3>5, <3>7 DEF StoredInv, Busy
  <2>2. CASE DialAndSend(s)
    <3>1. task[s].mail \in Mails /\ copies[task[s].mail] > 0 /\ Busy(s)
      BY <2>2 DEF DialAndSend, StoredInv, Busy
    <3>2. PICK a \in Places : Goto(s, a)
      BY <2>2, <3>1, DialAndSendDoes DEF Places
    <3>3. /\ \A t \in Slots : t # s => task'[t] = task[t]
          /\ task'[s].mail = task[s].mail /\ task'[s].copy = task[s].copy
      BY <3>2, GotoMade DEF TypeOK
    <3>4. /\ \A m \in Mails : m # task[s].mail => mailed'[m] = mailed[m]
          /\ refused' \subseteq refused \cup {task[s].mail}
      BY <2>2, <3>1, DialAndSendDoes
    <3>5. UNCHANGED <<copies, due, unconfirmed>>
      BY <2>2 DEF DialAndSend
    <3>6. \A m \in Mails : mailed'[m] > 0 \/ m \in refused' => copies'[m] > 0
      BY <3>1, <3>4, <3>5 DEF StoredInv
    <3>7. \A t \in Slots : Busy(t)' => task'[t].mail \in Mails /\ copies'[task'[t].mail] > 0
      BY <3>1, <3>3, <3>5 DEF StoredInv, Busy
    <3>8. \A t \in Slots : Busy(t)' => Message(t)' \in due'
      BY <3>1, <3>3, <3>5 DEF StoredInv, Busy, Message
    <3> QED BY <3>5, <3>6, <3>7, <3>8 DEF StoredInv
  <2>3. CASE Record(s)
    <3>1. CASE Goto(s, "ack")
      <4>1. /\ \A t \in Slots : t # s => task'[t] = task[t]
            /\ task'[s].mail = task[s].mail /\ task'[s].copy = task[s].copy
        BY <3>1, GotoMade DEF TypeOK, Places
      <4>2. Busy(s)
        BY <2>3 DEF Record, Busy
      <4> QED BY <1>1, <2>3, <4>1, <4>2 DEF Record, Busy, Message
    <3>2. CASE task' = [task EXCEPT ![s] = Idle]
      BY <1>4, <2>3, <3>2 DEF Record
    <3> QED BY <2>3, <3>1, <3>2 DEF Record
  <2>4. CASE NotRecorded(s) \/ Ack(s)
    BY <1>4, <2>4 DEF NotRecorded, Ack
  <2> QED BY <1>11, <2>1, <2>2, <2>3, <2>4 DEF Handler
<1> QED BY <1>5, <1>6, <1>7, <1>8, <1>9, <1>10, <1>11 DEF Next
-----------------------------------------------------------------------------
(***************************************************************************)
(* Entries and messages, and what is recorded.                             *)
(***************************************************************************)
\* What UpdateEmailEntry does to an entry.
LEMMA RecordDoes ==
  ASSUME TypeOK, StoredInv, EntryWithMessage, NEW s \in Slots, Record(s)
  PROVE  /\ task[s].mail \in Mails /\ entry[task[s].mail] # "none"
         /\ entry'[task[s].mail] = IF task[s].at = "sent" THEN "SUCCESS" ELSE "FAILED"
         /\ \A m \in Mails : m # task[s].mail => entry'[m] = entry[m]
         /\ reason' = IF task[s].at = "sent" THEN reason ELSE reason \cup {task[s].mail}
<1>1. task[s].mail \in Mails /\ entry[task[s].mail] # "none"
  BY BusyStored DEF Record, Busy
<1> QED BY <1>1 DEF Record, UpdateEmailEntry, TypeOK

\* Entry and message come together, and clients are told of no other.
LEMMA EntryStep ==
  ASSUME TypeOK, SendInv, StoredInv, EntryWithMessage, [Next]_vars
  PROVE  EntryWithMessage'
<1> USE DEF clientVars, dbVars, sendVars, pipeVars, connVars, stanVars, smtpVars
<1>1. ASSUME UNCHANGED <<entry, outbox, copies, told, reply>> PROVE EntryWithMessage'
  BY <1>1 DEF EntryWithMessage
<1>2. CASE UNCHANGED vars
  BY <1>1, <1>2 DEF vars
<1>3. ASSUME NEW c \in Clients, Client(c) PROVE EntryWithMessage'
  <2>1. CASE SendReturns(c)
    BY <2>1 DEF SendReturns, EntryWithMessage
  <2>2. CASE ListCmd(c)
    BY <2>2 DEF ListCmd, EntryWithMessage
  <2> QED BY <1>1, <1>3, <2>1, <2>2 DEF Client, SendCmd, SendFails, Relaunch
<1>4. CASE Main
  BY <1>1, <1>4 DEF Main, Boot, Prepare, SubscribeEmailEntry, Stop, CloseAll, Exit,
                    Crash, ProcessEnds
<1>5. CASE Conn \/ Run
  BY <1>1, <1>5 DEF Conn, Connect, Resubscribe, Disconnect, Run, RunFails, Rerun
<1>6. ASSUME NEW m \in Mails, Send(m) PROVE EntryWithMessage'
  <2>1. CASE Commit(m)
    BY <2>1 DEF Commit, Return, EntryWithMessage, TypeOK
  <2>2. CASE Rollback(m)
    BY <2>2 DEF Rollback, Return, EntryWithMessage, TypeOK
  <2> QED BY <1>1, <1>6, <2>1, <2>2
          DEF Send, Drop, Begin, InsertEmailEntry, PublishEmailEntry
<1>7. ASSUME NEW m \in Mails, Pipe(m) PROVE EntryWithMessage'
  <2>1. CASE Flush(m)
    <3>1. m \in outbox /\ UNCHANGED <<entry, outbox, told, reply>>
      BY <2>1 DEF Flush, Flushable
    <3>2. \A n \in Mails : n # m => copies'[n] = copies[n]
      BY <2>1 DEF Flush, TypeOK
    <3> QED BY <3>1, <3>2 DEF EntryWithMessage
  <2>2. CASE Confirm(m)
    <3>1. copies[m] > 0 /\ outbox' = outbox \ {m} /\ UNCHANGED <<entry, copies, told, reply>>
      BY <2>2 DEF Confirm, StoredInv
    <3> QED BY <3>1 DEF EntryWithMessage
  <2> QED BY <1>1, <1>7, <2>1, <2>2 DEF Pipe, FlushFails, NotDeleted, NotConfirmed, Fails
<1>8. ASSUME NEW s \in Slots, Handler(s) PROVE EntryWithMessage'
  <2>1. CASE Record(s)
    <3>1. \A m \in Mails : entry'[m] # "none" <=> entry[m] # "none"
      BY <2>1, RecordDoes
    <3>2. UNCHANGED <<outbox, copies, told, reply>>
      BY <2>1 DEF Record
    <3> QED BY <3>1, <3>2 DEF EntryWithMessage
  <2> QED BY <1>1, <1>8, <2>1 DEF Handler, Deliver, DialAndSend, NotRecorded, Ack
<1> QED BY <1>2, <1>3, <1>4, <1>5, <1>6, <1>7, <1>8 DEF Next

\* The status is honest.
LEMMA StatusStep ==
  ASSUME TypeOK, StoredInv, ResultInv, EntryWithMessage, HonestStatus, [Next]_vars
  PROVE  HonestStatus'
<1> USE DEF clientVars, dbVars, sendVars, pipeVars, connVars, stanVars, smtpVars
<1>1. ASSUME UNCHANGED <<entry, mailed, refused, reason>> PROVE HonestStatus'
  BY <1>1 DEF HonestStatus
<1>2. CASE UNCHANGED vars
  BY <1>1, <1>2 DEF vars
<1>3. ASSUME NEW c \in Clients, Client(c) PROVE HonestStatus'
  BY <1>1, <1>3 DEF Client, SendCmd, SendReturns, SendFails, Relaunch, ListCmd
<1>4. CASE Main
  BY <1>1, <1>4 DEF Main, Boot, Prepare, SubscribeEmailEntry, Stop, CloseAll, Exit,
                    Crash, ProcessEnds
<1>5. CASE Conn \/ Run
  BY <1>1, <1>5 DEF Conn, Connect, Resubscribe, Disconnect, Run, RunFails, Rerun
<1>6. ASSUME NEW m \in Mails, Send(m) PROVE HonestStatus'
  <2>1. CASE Commit(m)
    BY <2>1 DEF Commit, HonestStatus, TypeOK
  <2> QED BY <1>1, <1>6, <2>1
          DEF Send, Drop, Begin, InsertEmailEntry, PublishEmailEntry, Rollback
<1>7. ASSUME NEW m \in Mails, Pipe(m) PROVE HonestStatus'
  BY <1>1, <1>7 DEF Pipe, Flush, FlushFails, Confirm, NotDeleted, NotConfirmed, Fails
<1>8. ASSUME NEW s \in Slots, Handler(s) PROVE HonestStatus'
  <2>1. CASE Record(s)
    <3>1. UNCHANGED <<mailed, refused>> /\ task[s].at \in {"sent", "unsent"}
      BY <2>1 DEF Record
    <3>2. /\ task[s].at = "sent" => mailed[task[s].mail] > 0
          /\ task[s].at = "unsent" => task[s].mail \in refused
      BY DEF ResultInv
    <3> QED BY <2>1, <3>1, <3>2, RecordDoes DEF HonestStatus
  <2>2. CASE DialAndSend(s)
    <3>1. task[s].mail \in Mails
      BY <2>2 DEF DialAndSend, StoredInv, Busy
    <3>3. \A m \in Mails : mailed[m] > 0 => mailed'[m] > 0
      BY <2>2, <3>1, DialAndSendDoes
    <3>4. UNCHANGED <<entry, reason>>
      BY <2>2 DEF DialAndSend
    <3> QED BY <2>2, <3>1, <3>3, <3>4, DialAndSendDoes DEF HonestStatus
  <2> QED BY <1>1, <1>8, <2>1, <2>2 DEF Handler, Deliver, NotRecorded, Ack
<1> QED BY <1>2, <1>3, <1>4, <1>5, <1>6, <1>7, <1>8 DEF Next

\* A handler that does not go on leaves the results of the others.
LEMMA ResultFrame ==
  ASSUME ResultInv, UNCHANGED <<mailed, refused, entry>>,
         \A s \in Slots : \/ task'[s].at \in {"idle", "dial"}
                          \/ task'[s].at = task[s].at /\ task'[s].mail = task[s].mail,
         due' \ owed' \subseteq due \ owed
  PROVE  ResultInv'
BY DEF ResultInv

\* Handlers know their results, and what is acked is recorded.
LEMMA ResultStep ==
  ASSUME TypeOK, TypeOK', SendInv, StoredInv, ResultInv, EntryWithMessage, [Next]_vars
  PROVE  ResultInv'
<1> USE DEF clientVars, dbVars, sendVars, pipeVars, connVars, stanVars, smtpVars
<1>1. ASSUME UNCHANGED <<mailed, refused, entry, task, due, owed>> PROVE ResultInv'
  BY <1>1 DEF ResultInv
<1>2. ASSUME Disconnected, UNCHANGED <<mailed, refused, entry, due, owed>>
      PROVE  ResultInv'
  <2>1. \A s \in Slots : task[s] \in Tasks
    BY DEF TypeOK
  <2>2. \A s \in Slots : task'[s].at = task[s].at /\ task'[s].mail = task[s].mail
    BY <1>2, <2>1 DEF Disconnected, Tasks
  <2> QED BY <1>2, <2>2, ResultFrame
<1>3. ASSUME NEW s \in Slots, task' = [task EXCEPT ![s] = Idle],
             UNCHANGED <<mailed, refused, entry, due, owed>>
      PROVE  ResultInv'
  <2>1. \A t \in Slots : task'[t] = IF t = s THEN Idle ELSE task[t]
    BY <1>3 DEF TypeOK
  <2> QED BY <1>3, <2>1, ResultFrame DEF Idle
<1>4. CASE UNCHANGED vars
  BY <1>1, <1>4 DEF vars
<1>5. ASSUME NEW c \in Clients, Client(c) PROVE ResultInv'
  BY <1>1, <1>5 DEF Client, SendCmd, SendReturns, SendFails, Relaunch, ListCmd
<1>6. CASE Main
  <2>1. CASE Boot \/ Prepare \/ SubscribeEmailEntry \/ Stop
    BY <1>1, <2>1 DEF Boot, Prepare, SubscribeEmailEntry, Stop
  <2>2. CASE CloseAll
    BY <1>2, <2>2 DEF CloseAll
  <2>3. CASE ProcessEnds
    BY <2>3, ResultFrame DEF ProcessEnds, Idle
  <2> QED BY <1>6, <2>1, <2>2, <2>3 DEF Main, Exit, Crash
<1>7. CASE Conn \/ Run
  BY <1>1, <1>2, <1>7 DEF Conn, Connect, Resubscribe, Disconnect, Run, RunFails, Rerun
<1>8. ASSUME NEW m \in Mails, Send(m) PROVE ResultInv'
  <2>1. CASE Commit(m)
    <3>1. entry[m] = "none" /\ \A n \in Mails : n # m => entry'[n] = entry[n]
      BY <2>1 DEF Commit, SendInv, TypeOK
    <3>2. \A s \in Slots : task[s].at = "ack" => task[s].mail # m /\ task[s].mail \in Mails
      BY <3>1 DEF ResultInv, StoredInv, Busy
    <3>3. \A q \in due \ owed : q[1] # m /\ q[1] \in Mails
      BY <3>1 DEF ResultInv, TypeOK
    <3>4. UNCHANGED <<mailed, refused, task, due, owed>>
      BY <2>1 DEF Commit
    <3> QED BY <3>1, <3>2, <3>3, <3>4 DEF ResultInv
  <2> QED BY <1>1, <1>8, <2>1
          DEF Send, Drop, Begin, InsertEmailEntry, PublishEmailEntry, Rollback
<1>9. ASSUME NEW m \in Mails, Pipe(m) PROVE ResultInv'
  <2>1. CASE Flush(m)
    <3>1. /\ due' \ owed' \subseteq due \ owed
          /\ UNCHANGED <<mailed, refused, entry, task>>
      BY <2>1 DEF Flush
    <3> QED BY <3>1, ResultFrame
  <2> QED BY <1>1, <1>9, <2>1 DEF Pipe, FlushFails, Confirm, NotDeleted, NotConfirmed, Fails
<1>10. ASSUME NEW s \in Slots, Handler(s) PROVE ResultInv'
  <2>1. ASSUME NEW q \in owed, NEW again \in BOOLEAN, Deliver(s, q, again)
        PROVE  ResultInv'
    <3>1. \A t \in Slots : task'[t] =
            IF t = s THEN [mail |-> q[1], copy |-> q[2], at |-> "dial", live |-> TRUE]
            ELSE task[t]
      BY <2>1 DEF Deliver, TypeOK
    <3>2. task'[s].at = "dial" /\ \A t \in Slots : t # s => task'[t] = task[t]
      BY <3>1
    <3> QED BY <2>1, <3>2, ResultFrame DEF Deliver
  <2>2. CASE DialAndSend(s)
    <3>1. task[s].mail \in Mails
      BY <2>2 DEF DialAndSend, StoredInv, Busy
    <3>2. PICK a \in {"sent", "unsent", "too long"} :
            /\ Goto(s, a)
            /\ a = "sent" => mailed'[task[s].mail] > 0
            /\ a # "sent" => task[s].mail \in refused'
      BY <2>2, <3>1, DialAndSendDoes
    <3>3. /\ \A t \in Slots : t # s => task'[t] = task[t]
          /\ task'[s].mail = task[s].mail /\ task'[s].at = a
      <4>1. a \in Places /\ task \in [Slots -> Tasks]
        BY DEF Places, TypeOK
      <4> QED BY <3>2, <4>1, GotoMade
    <3>5. \A m \in Mails : mailed[m] > 0 => mailed'[m] > 0
      BY <2>2, <3>1, DialAndSendDoes
    <3>6. refused \subseteq refused' /\ UNCHANGED <<entry, due, owed>>
      BY <2>2, <3>1, DialAndSendDoes DEF DialAndSend
    <3>7. \A t \in Slots : Busy(t) => task[t].mail \in Mails
      BY DEF StoredInv
    <3> QED BY <3>2, <3>3, <3>5, <3>6, <3>7 DEF ResultInv, Busy
  <2>3. CASE Record(s)
    <3>1. /\ \A m \in Mails : \/ entry'[m] = entry[m]
                              \/ entry'[m] \in {"SUCCESS", "FAILED"}
          /\ entry'[task[s].mail] \in {"SUCCESS", "FAILED"}
      BY <2>3, RecordDoes
    <3>2. \A t \in Slots : \/ task'[t].at = "idle"
                           \/ task'[t] = task[t]
                           \/ t = s /\ task'[t].at = "ack" /\ task'[t].mail = task[s].mail
      <4>1. CASE Goto(s, "ack")
        BY <4>1, GotoMade DEF TypeOK, Places
      <4>2. CASE task' = [task EXCEPT ![s] = Idle]
        BY <4>2 DEF TypeOK, Idle
      <4> QED BY <2>3, <4>1, <4>2 DEF Record
    <3>3. UNCHANGED <<mailed, refused, due, owed>>
      BY <2>3 DEF Record
    <3>4. /\ \A t \in Slots : Busy(t) => task[t].mail \in Mails
          /\ \A q \in due : q[1] \in Mails
      BY DEF StoredInv, TypeOK
    <3> QED BY <3>1, <3>2, <3>3, <3>4 DEF ResultInv, Busy
  <2>4. CASE NotRecorded(s)
    BY <1>3, <2>4 DEF NotRecorded, OnError
  <2>5. CASE Ack(s)
    <3>1. CASE UNCHANGED owed
      BY <1>3, <2>5, <3>1 DEF Ack
    <3>2. CASE owed' = owed \ Acked(s)
      <4>1. \A q \in Acked(s) : q[1] = task[s].mail
        BY DEF Acked, Working, Message
      <4>2. entry[task[s].mail] \in {"SUCCESS", "FAILED"}
        BY <2>5 DEF Ack, ResultInv
      <4>3. \A q \in due' \ owed' : entry'[q[1]] \in {"SUCCESS", "FAILED"}
        BY <2>5, <3>2, <4>1, <4>2 DEF Ack, ResultInv
      <4>4. \A t \in Slots : task'[t] = IF t = s THEN Idle ELSE task[t]
        BY <2>5 DEF Ack, TypeOK
      <4>5. UNCHANGED <<mailed, refused, entry>>
        BY <2>5 DEF Ack
      <4>6. \A t \in Slots : task'[t].at = "idle" \/ task'[t] = task[t]
        BY <4>4 DEF Idle
      <4> QED BY <4>3, <4>5, <4>6 DEF ResultInv
    <3> QED BY <2>5, <3>1, <3>2 DEF Ack
  <2> QED BY <1>10, <2>1, <2>2, <2>3, <2>4, <2>5 DEF Handler
<1> QED BY <1>4, <1>5, <1>6, <1>7, <1>8, <1>9, <1>10 DEF Next
-----------------------------------------------------------------------------
(***************************************************************************)
(* The queue: what is about to be acked, and how often a message is        *)
(* stored.                                                                 *)
(***************************************************************************)
\* A step that takes no handler to its ack, or takes it away.
LEMMA HandledFrame ==
  ASSUME HandledInv, UNCHANGED handled,
         \A s \in Slots : task'[s].at = "ack" =>
                            task[s].at = "ack" /\ Message(s)' = Message(s)
  PROVE  HandledInv'
BY DEF HandledInv

\* A handler acks when it has returned nil only.
LEMMA HandledStep ==
  ASSUME TypeOK, HandledInv, [Next]_vars
  PROVE  HandledInv'
<1> USE DEF clientVars, dbVars, sendVars, pipeVars, connVars, stanVars, smtpVars
<1>1. ASSUME UNCHANGED <<task, handled>> PROVE HandledInv'
  BY <1>1, HandledFrame DEF Message
<1>2. ASSUME Disconnected, UNCHANGED handled PROVE HandledInv'
  <2>1. \A s \in Slots : task[s] \in Tasks
    BY DEF TypeOK
  <2>2. \A s \in Slots : /\ task'[s].at = task[s].at /\ task'[s].mail = task[s].mail
                         /\ task'[s].copy = task[s].copy
    BY <1>2, <2>1 DEF Disconnected, Tasks
  <2> QED BY <1>2, <2>2, HandledFrame DEF Message
<1>3. ASSUME NEW s \in Slots, NEW t, t.at # "ack", task' = [task EXCEPT ![s] = t],
             UNCHANGED handled
      PROVE  HandledInv'
  <2>1. \A r \in Slots : task'[r] = IF r = s THEN t ELSE task[r]
    BY <1>3 DEF TypeOK
  <2> QED BY <1>3, <2>1, HandledFrame DEF Message
<1>4. CASE UNCHANGED vars
  BY <1>1, <1>4 DEF vars
<1>5. ASSUME NEW c \in Clients, Client(c) PROVE HandledInv'
  BY <1>1, <1>5 DEF Client, SendCmd, SendReturns, SendFails, Relaunch, ListCmd
<1>6. CASE Main
  <2>1. CASE Boot \/ Prepare \/ SubscribeEmailEntry \/ Stop
    BY <1>1, <2>1 DEF Boot, Prepare, SubscribeEmailEntry, Stop
  <2>2. CASE CloseAll
    BY <1>2, <2>2 DEF CloseAll
  <2>3. CASE ProcessEnds
    BY <2>3, HandledFrame DEF ProcessEnds, Idle
  <2> QED BY <1>6, <2>1, <2>2, <2>3 DEF Main, Exit, Crash
<1>7. CASE Conn \/ Run
  BY <1>1, <1>2, <1>7 DEF Conn, Connect, Resubscribe, Disconnect, Run, RunFails, Rerun
<1>8. ASSUME NEW m \in Mails, Send(m) PROVE HandledInv'
  BY <1>1, <1>8 DEF Send, Drop, Begin, InsertEmailEntry, PublishEmailEntry, Commit,
                    Rollback
<1>9. ASSUME NEW m \in Mails, Pipe(m) PROVE HandledInv'
  BY <1>1, <1>9 DEF Pipe, Flush, FlushFails, Confirm, NotDeleted, NotConfirmed, Fails
<1>10. ASSUME NEW s \in Slots, Handler(s) PROVE HandledInv'
  <2>1. ASSUME NEW q \in owed, NEW again \in BOOLEAN, Deliver(s, q, again)
        PROVE  HandledInv'
    BY <1>3, <2>1 DEF Deliver
  <2>2. CASE DialAndSend(s)
    <3>1. PICK a \in {"sent", "unsent", "too long"} : Goto(s, a)
      BY <2>2 DEF DialAndSend
    <3>2. /\ \A t \in Slots : t # s => task'[t] = task[t]
          /\ task'[s].at = a
      BY <3>1, GotoMade DEF TypeOK, Places
    <3> QED BY <2>2, <3>2, HandledFrame DEF DialAndSend, Message
  <2>3. CASE Record(s)
    <3>1. CASE Goto(s, "ack") /\ handled' = handled \cup {Message(s)}
      <4>1. /\ \A t \in Slots : t # s => task'[t] = task[t]
            /\ task'[s].mail = task[s].mail /\ task'[s].copy = task[s].copy
        BY <3>1, GotoMade DEF TypeOK, Places
      <4>2. \A t \in Slots : Message(t)' = Message(t)
        BY <4>1 DEF Message
      <4> QED BY <3>1, <4>1, <4>2 DEF HandledInv
    <3>2. CASE task' = [task EXCEPT ![s] = Idle] /\ UNCHANGED handled
      BY <1>3, <3>2 DEF Idle
    <3> QED BY <2>3, <3>1, <3>2 DEF Record
  <2>4. CASE NotRecorded(s) \/ Ack(s)
    BY <1>3, <2>4 DEF NotRecorded, Ack, Idle
  <2> QED BY <1>10, <2>1, <2>2, <2>3, <2>4 DEF Handler
<1> QED BY <1>4, <1>5, <1>6, <1>7, <1>8, <1>9, <1>10 DEF Next

\* A fault makes room for one more copy of a message.
LEMMA CopyFrame ==
  ASSUME TypeOK, CopyInv, UNCHANGED <<copies, stage>>,
         unconfirmed' \subseteq unconfirmed,
         \/ Fault
         \/ UNCHANGED faults /\ \A m \in Mails : Unpublished(m)' => Unpublished(m)
  PROVE  CopyInv'
<1>1. /\ copies \in [Mails -> Nat] /\ faults \in Nat /\ faults' \in Nat
      /\ faults' <= MaxFaults
  BY DEF TypeOK, CopyInv, Fault
<1>2. stage' \in {"down", "closed"} => unconfirmed' = {}
  BY DEF CopyInv
<1>3. ASSUME NEW m \in Mails
      PROVE  copies'[m] + (IF Unpublished(m)' THEN 1 ELSE 0)
                        + (IF stage' = "stopping" THEN 1 ELSE 0) <= faults' + 1
  <2>1. copies[m] \in Nat /\ copies'[m] = copies[m] /\ stage' = stage
    BY <1>1
  <2>2. copies[m] + (IF Unpublished(m) THEN 1 ELSE 0) + (IF stage = "stopping" THEN 1 ELSE 0)
          <= faults + 1
    BY DEF CopyInv
  <2>3. CASE Fault
    BY <1>1, <2>1, <2>2, <2>3 DEF Fault
  <2>4. CASE UNCHANGED faults /\ (Unpublished(m)' => Unpublished(m))
    BY <1>1, <2>1, <2>2, <2>4
  <2> QED BY <2>3, <2>4
<1> QED BY <1>1, <1>2, <1>3 DEF CopyInv

\* What a step does to the bound of one message is enough.
LEMMA CopyBound ==
  ASSUME TypeOK, CopyInv, Fault \/ UNCHANGED faults,
         stage' \in {"down", "closed"} => unconfirmed' = {},
         \A m \in Mails :
           copies'[m] + (IF Unpublished(m)' THEN 1 ELSE 0)
                      + (IF stage' = "stopping" THEN 1 ELSE 0) + faults <=
           copies[m] + (IF Unpublished(m) THEN 1 ELSE 0)
                     + (IF stage = "stopping" THEN 1 ELSE 0) + faults',
         \A m \in Mails : copies'[m] \in Nat
  PROVE  CopyInv'
<1>1. /\ copies \in [Mails -> Nat] /\ faults \in Nat /\ faults' \in Nat
      /\ faults' <= MaxFaults
  BY DEF TypeOK, CopyInv, Fault
<1>2. ASSUME NEW m \in Mails
      PROVE  copies'[m] + (IF Unpublished(m)' THEN 1 ELSE 0)
                        + (IF stage' = "stopping" THEN 1 ELSE 0) <= faults' + 1
  <2> DEFINE new == (IF Unpublished(m)' THEN 1 ELSE 0)
                      + (IF stage' = "stopping" THEN 1 ELSE 0)
             old == (IF Unpublished(m) THEN 1 ELSE 0)
                      + (IF stage = "stopping" THEN 1 ELSE 0)
  <2>1. new \in Nat /\ old \in Nat
    OBVIOUS
  <2>2. copies'[m] + new + faults <= copies[m] + old + faults' /\ copies[m] + old <= faults + 1
    BY <1>1 DEF CopyInv
  <2>3. copies[m] \in Nat /\ copies'[m] \in Nat
    BY <1>1
  <2>4. copies'[m] + new <= faults' + 1
    <3> HIDE DEF new, old
    <3> QED BY <1>1, <2>1, <2>2, <2>3
  <2> QED BY <2>4, <2>3
<1> QED BY <1>1, <1>2 DEF CopyInv

\* The end of the server, orderly or not, and a signal.
LEMMA CopyMain ==
  ASSUME TypeOK, CopyInv, Main
  PROVE  CopyInv'
<1> USE DEF clientVars, dbVars, sendVars, pipeVars, connVars, stanVars, smtpVars
<1> USE DEF Unpublished
<1>1. \A m \in Mails : copies[m] \in Nat
  BY DEF TypeOK
<1>2. faults \in Nat
  BY DEF TypeOK
<1>3. CASE Boot \/ Prepare \/ SubscribeEmailEntry
  <2>1. /\ stage \notin {"closed", "stopping"} /\ stage' \notin {"down", "closed", "stopping"}
        /\ UNCHANGED <<copies, unconfirmed, outbox, faults>>
    BY <1>3 DEF Boot, Prepare, SubscribeEmailEntry
  <2> QED BY <1>1, <1>2, <2>1, CopyBound
<1>4. CASE Stop
  <2>1. /\ stage = "ready" /\ stage' = "stopping"
        /\ UNCHANGED <<copies, unconfirmed, outbox>> /\ Fault /\ faults' = faults + 1
    BY <1>4 DEF Stop, Fault
  <2> QED BY <1>1, <1>2, <2>1, CopyBound
<1>5. CASE CloseAll
  <2>1. /\ stage = "stopping" /\ stage' = "closed" /\ unconfirmed' = {}
        /\ UNCHANGED <<copies, outbox, faults>>
    BY <1>5 DEF CloseAll, Disconnected
  <2> QED BY <1>1, <1>2, <2>1, CopyBound
<1>6. CASE Exit
  <2>1. /\ stage = "closed" /\ stage' = "down" /\ unconfirmed' = {} /\ unconfirmed = {}
        /\ UNCHANGED <<copies, outbox, faults>>
    BY <1>6 DEF Exit, ProcessEnds, CopyInv
  <2> QED BY <1>1, <1>2, <2>1, CopyBound
<1>7. CASE Crash
  <2>1. /\ stage' = "down" /\ unconfirmed' = {}
        /\ UNCHANGED <<copies, outbox>> /\ Fault /\ faults' = faults + 1
    BY <1>7 DEF Crash, ProcessEnds, Fault
  <2> QED BY <1>1, <1>2, <2>1, CopyBound
<1> QED BY <1>3, <1>4, <1>5, <1>6, <1>7 DEF Main

\* The pipe: a copy is stored when it is to be, and confirmed once.
LEMMA CopyPipe ==
  ASSUME TypeOK, StoredInv, CopyInv, NEW m \in Mails, Pipe(m)
  PROVE  CopyInv'
<1> USE DEF clientVars, dbVars, sendVars, pipeVars, connVars, stanVars, smtpVars
<1>1. copies \in [Mails -> Nat] /\ faults \in Nat
  BY DEF TypeOK
<1>2. CASE Flush(m)
  <2>1. /\ \A n \in Mails : copies'[n] = IF n = m THEN copies[n] + 1 ELSE copies[n]
        /\ unconfirmed' = unconfirmed \cup {m}
        /\ UNCHANGED <<stage, outbox, faults>> /\ stage \notin {"down", "closed"}
    BY <1>1, <1>2 DEF Flush, Running
  <2>2. Unpublished(m) /\ ~Unpublished(m)'
    BY <1>2, <2>1 DEF Flush, Flushable, Unpublished
  <2>3. \A n \in Mails : n # m => Unpublished(n)' = Unpublished(n)
    BY <2>1 DEF Unpublished
  <2> HIDE DEF Flush
  <2>4. ASSUME NEW n \in Mails
        PROVE  /\ copies'[n] \in Nat
               /\ copies'[n] + (IF Unpublished(n)' THEN 1 ELSE 0)
                             + (IF stage' = "stopping" THEN 1 ELSE 0) + faults <=
                  copies[n] + (IF Unpublished(n) THEN 1 ELSE 0)
                            + (IF stage = "stopping" THEN 1 ELSE 0) + faults'
    <3>1. copies[n] \in Nat
      BY <1>1
    <3> QED BY <1>1, <2>1, <2>2, <2>3, <3>1
  <2> QED BY <2>1, <2>4, CopyBound
<1>3. CASE Confirm(m)
  <2>1. /\ outbox' = outbox \ {m} /\ copies[m] > 0 /\ unconfirmed' = unconfirmed \ {m}
        /\ UNCHANGED <<copies, stage, faults>>
    BY <1>3 DEF Confirm, StoredInv
  <2>2. \A n \in Mails : Unpublished(n)' => Unpublished(n)
    BY <1>1, <2>1 DEF Unpublished
  <2> QED BY <2>1, <2>2, CopyFrame
<1>4. CASE NotDeleted(m) \/ NotConfirmed(m)
  BY <1>4, CopyFrame DEF NotDeleted, NotConfirmed, Fails
<1>5. CASE FlushFails(m)
  <2>1. UNCHANGED <<copies, stage, unconfirmed, outbox, faults>>
    BY <1>5 DEF FlushFails
  <2> QED BY <2>1, CopyFrame DEF Unpublished
<1> QED BY <1>2, <1>3, <1>4, <1>5 DEF Pipe

\* A message has at most as many copies as there were faults, and one more.
LEMMA CopyStep ==
  ASSUME TypeOK, SendInv, StoredInv, EntryWithMessage, CopyInv, [Next]_vars
  PROVE  CopyInv'
<1> USE DEF clientVars, dbVars, sendVars, pipeVars, connVars, stanVars, smtpVars
<1>1. ASSUME UNCHANGED <<copies, stage, unconfirmed, outbox>>, Fault \/ UNCHANGED faults
      PROVE  CopyInv'
  BY <1>1, CopyFrame DEF Unpublished
<1>2. CASE UNCHANGED vars
  BY <1>1, <1>2 DEF vars
<1>3. ASSUME NEW c \in Clients, Client(c) PROVE CopyInv'
  BY <1>1, <1>3 DEF Client, SendCmd, SendReturns, SendFails, Relaunch, ListCmd
<1>4. CASE Conn \/ Run
  <2>1. CASE Connect \/ Resubscribe
    BY <1>1, <2>1 DEF Connect, Resubscribe
  <2>2. CASE Disconnect
    BY <2>2, CopyFrame DEF Disconnect, Disconnected
  <2>3. CASE RunFails \/ Rerun
    BY <1>1, <2>3 DEF RunFails, Rerun
  <2> QED BY <1>4, <2>1, <2>2, <2>3 DEF Conn, Run
<1>5. ASSUME NEW m \in Mails, Send(m) PROVE CopyInv'
  <2>1. CASE Commit(m)
    <3>1. copies[m] = 0
      BY <2>1 DEF Commit, SendInv, EntryWithMessage, TypeOK
    <3>2. /\ outbox' = outbox \cup {m} /\ UNCHANGED <<copies, stage, unconfirmed>>
          /\ Fault \/ UNCHANGED faults
      BY <2>1 DEF Commit
    <3>3. \A n \in Mails : Unpublished(n)' => Unpublished(n)
      BY <3>1, <3>2 DEF Unpublished
    <3> QED BY <3>2, <3>3, CopyFrame
  <2> QED BY <1>1, <1>5, <2>1
          DEF Send, Drop, Begin, InsertEmailEntry, PublishEmailEntry, Rollback
<1>6. ASSUME NEW s \in Slots, Handler(s) PROVE CopyInv'
  BY <1>1, <1>6 DEF Handler, Deliver, DialAndSend, Record, NotRecorded, Ack
<1> QED BY <1>2, <1>3, <1>4, <1>5, <1>6, CopyMain, CopyPipe DEF Next
-----------------------------------------------------------------------------
(***************************************************************************)
(* Without faults.                                                         *)
(***************************************************************************)
\* Faults are never taken back.
LEMMA FaultsCount ==
  ASSUME TypeOK, [Next]_vars, faults' = 0
  PROVE  faults = 0 /\ ~Fault
<1> USE DEF clientVars, dbVars, sendVars, pipeVars, connVars, stanVars, smtpVars
<1>1. faults \in Nat
  BY DEF TypeOK
<1>2. ~Fault
  BY <1>1, FaultCounted
<1>3. UNCHANGED faults
  <2>1. CASE UNCHANGED vars
    BY <2>1 DEF vars
  <2>2. ASSUME NEW c \in Clients, Client(c) PROVE UNCHANGED faults
    BY <2>2 DEF Client, SendCmd, SendReturns, SendFails, Relaunch, ListCmd
  <2>3. CASE Main \/ Conn \/ Run
    BY <1>2, <2>3 DEF Main, Boot, Prepare, SubscribeEmailEntry, Stop, CloseAll, Exit,
                      Crash, Conn, Connect, Resubscribe, Disconnect, Run, RunFails, Rerun
  <2>4. ASSUME NEW m \in Mails, Send(m) \/ Pipe(m) PROVE UNCHANGED faults
    BY <1>2, <2>4 DEF Send, Drop, Begin, InsertEmailEntry, PublishEmailEntry, Commit,
                      Rollback, Pipe, Flush, FlushFails, Confirm, NotDeleted, NotConfirmed, Fails
  <2>5. ASSUME NEW s \in Slots, Handler(s) PROVE UNCHANGED faults
    <3>1. CASE DialAndSend(s)
      BY <1>2, <3>1 DEF DialAndSend
    <3> QED BY <1>2, <2>5, <3>1 DEF Handler, Deliver, Record, NotRecorded, Ack
  <2> QED BY <2>1, <2>2, <2>3, <2>4, <2>5 DEF Next
<1> QED BY <1>1, <1>2, <1>3

\* What does not touch messages, handlers and entries leaves a calm state so.
LEMMA CalmFrame ==
  ASSUME Calm, UNCHANGED <<task, copies, owed, mailed, reason, entry, stage>>,
         outbox' \ unconfirmed' \subseteq outbox \ unconfirmed
  PROVE  Calm'
BY DEF Calm, CalmStage, CalmMsgs, CalmTasks, CalmOwed, Once, Busy, Fresh, Message

\* Sending, as seen by what follows.
LEMMA CalmSend ==
  ASSUME TypeOK, SendInv, StoredInv, EntryWithMessage, Calm,
         NEW m \in Mails, Send(m)
  PROVE  Calm'
<1> USE DEF clientVars, dbVars, sendVars, pipeVars, connVars, stanVars, smtpVars
<1>1. CASE Commit(m)
  <2>1. entry[m] = "none"
    BY <1>1 DEF Commit, SendInv
  <2>2. copies \in [Mails -> Nat]
    BY DEF TypeOK
  <2>3. copies[m] = 0
    BY <2>1, <2>2 DEF EntryWithMessage
  <2>4. CalmMsgs'
    BY <1>1, <2>3 DEF Commit, Calm, CalmMsgs
  <2>5. Once'
    BY <1>1 DEF Commit, Calm, Once, TypeOK
  <2>6. UNCHANGED <<stage, task, owed, mailed, reason>>
    BY <1>1 DEF Commit
  <2>7. CalmTasks' /\ CalmOwed'
    BY <2>6 DEF Calm, CalmTasks, CalmOwed, Busy, Fresh, Message
  <2>8. CalmStage'
    BY <2>6 DEF Calm, CalmStage, Busy
  <2> QED BY <2>4, <2>5, <2>7, <2>8 DEF Calm
<1>2. CASE Drop(m) \/ Begin(m) \/ InsertEmailEntry(m) \/ PublishEmailEntry(m)
             \/ Rollback(m)
  <2>1. UNCHANGED <<task, copies, owed, mailed, reason, entry, outbox, unconfirmed, stage>>
    BY <1>2 DEF Drop, Begin, InsertEmailEntry, PublishEmailEntry, Rollback
  <2> QED BY <2>1, CalmFrame
<1> QED BY <1>1, <1>2 DEF Send

\* The pipe publishes each message once.
LEMMA CalmPipe ==
  ASSUME TypeOK, StoredInv, HonestStatus, Calm, ~Fault, NEW m \in Mails, Pipe(m)
  PROVE  Calm'
<1> USE DEF clientVars, dbVars, sendVars, pipeVars, connVars, stanVars, smtpVars
<1>1. CASE Flush(m)
  <2>1. m \in outbox \ unconfirmed /\ copies[m] = 0
    BY <1>1 DEF Flush, Flushable, Calm, CalmMsgs
  <2>2. Fresh(m)
    <3>1. mailed[m] \in 0..2
      BY DEF TypeOK
    <3> QED BY <2>1, <3>1 DEF Fresh, StoredInv, HonestStatus
  <2>3. CalmMsgs'
    <3>1. copies' = [copies EXCEPT ![m] = 1]
      BY <1>1, <2>1 DEF Flush
    <3>2. \A n \in Mails : copies'[n] = IF n = m THEN 1 ELSE copies[n]
      BY <3>1 DEF TypeOK
    <3>3. outbox' \ unconfirmed' = (outbox \ unconfirmed) \ {m} /\ outbox \subseteq Mails
      BY <1>1 DEF Flush, TypeOK
    <3> QED BY <3>2, <3>3 DEF Calm, CalmMsgs
  <2>4. UNCHANGED <<stage, task, mailed, reason, entry>>
    BY <1>1 DEF Flush
  <2>5. /\ owed \subseteq owed'
        /\ \A q \in owed' : q \in owed \/ q[1] = m
    BY <1>1 DEF Flush
  <2>6. CalmTasks'
    BY <2>4, <2>5 DEF Calm, CalmTasks, Busy, Fresh, Message
  <2>7. CalmOwed'
    BY <2>2, <2>4, <2>5 DEF Calm, CalmOwed, Busy, Fresh
  <2> QED BY <2>3, <2>4, <2>6, <2>7 DEF Calm, CalmStage, Once, Busy
<1>2. CASE Confirm(m)
  <2>1. outbox' \ unconfirmed' \subseteq outbox \ unconfirmed
    BY <1>2 DEF Confirm
  <2>2. UNCHANGED <<task, copies, owed, mailed, reason, entry, stage>>
    BY <1>2 DEF Confirm
  <2> QED BY <2>1, <2>2, CalmFrame
<1>3. CASE FlushFails(m)
  BY <1>3, CalmFrame DEF FlushFails
<1> QED BY <1>1, <1>2, <1>3 DEF Pipe, NotDeleted, NotConfirmed

\* A handler takes each message once, and is alone with it.
LEMMA CalmDeliver ==
  ASSUME TypeOK, SubInv, StoredInv, Calm, ~Fault, NEW s \in Slots, NEW q \in owed,
         NEW again \in BOOLEAN, Deliver(s, q, again)
  PROVE  Calm'
<1> USE DEF clientVars, dbVars, sendVars, pipeVars, connVars, stanVars, smtpVars
<1>1. Working(q) = {} /\ stage = "ready" /\ ~Busy(s)
  BY DEF Deliver, Idle, Busy, SubInv, Calm, CalmStage
<1>2. q \in Mails \X Nat /\ q[2] = 1 /\ \A p \in owed : p \in Mails \X Nat /\ p[2] = 1
  <2>1. \A p \in owed : p \in Mails \X Nat /\ p[2] \in 1..copies[p[1]]
    BY DEF TypeOK, StoredInv
  <2>2. \A p \in owed : copies[p[1]] \in Nat /\ copies[p[1]] <= 1
    BY <2>1 DEF TypeOK, Calm, CalmMsgs
  <2>3. \A p \in owed : p[2] = 1
    BY <2>1, <2>2
  <2> QED BY <2>1, <2>3
<1>3. \A t \in Slots : Busy(t) => task[t].mail # q[1]
  <2> SUFFICES ASSUME NEW t \in Slots, Busy(t), task[t].mail = q[1] PROVE FALSE
    OBVIOUS
  <2>1. Message(t) \in owed /\ task[t].live
    BY DEF Calm, CalmTasks
  <2>2. task[t].copy = 1
    BY <1>2, <2>1 DEF Message
  <2>3. Message(t) = q
    BY <1>2, <2>2 DEF Message
  <2> QED BY <1>1, <2>1, <2>3 DEF Working
<1>4. Fresh(q[1])
  BY <1>3 DEF Calm, CalmOwed
<1>5. \A t \in Slots : task'[t] =
        IF t = s THEN [mail |-> q[1], copy |-> q[2], at |-> "dial", live |-> TRUE]
        ELSE task[t]
  BY DEF Deliver, TypeOK
<1>6. /\ task'[s].mail = q[1] /\ task'[s].copy = q[2]
      /\ task'[s].at = "dial" /\ task'[s].live
      /\ \A t \in Slots : t # s => task'[t] = task[t]
  BY <1>5
<1>7. UNCHANGED <<stage, copies, outbox, unconfirmed, owed, mailed, reason, entry>>
  BY DEF Deliver
<1>8. CalmTasks'
  <2> SUFFICES ASSUME NEW t \in Slots, Busy(t)'
      PROVE  /\ task'[t].live /\ task'[t].at # "too long"
             /\ <<task'[t].mail, task'[t].copy>> \in owed'
             /\ task'[t].at = "dial" =>
                  mailed'[task'[t].mail] = 0 /\ task'[t].mail \notin reason'
             /\ task'[t].at = "sent" => task'[t].mail \notin reason'
             /\ \A u \in Slots : Busy(u)' /\ task'[u].mail = task'[t].mail => t = u
    BY DEF CalmTasks, Busy, Fresh, Message
  <2>1. CASE t = s
    <3>1. <<q[1], q[2]>> = q
      BY <1>2
    <3> QED BY <1>3, <1>4, <1>6, <1>7, <2>1, <3>1 DEF Busy, Fresh
  <2>2. CASE t # s
    <3>1. Busy(t) /\ task'[t] = task[t]
      BY <1>6, <2>2 DEF Busy
    <3>2. task[t].mail # q[1]
      BY <1>3, <3>1
    <3>3. \A u \in Slots : Busy(u)' /\ task'[u].mail = task'[t].mail => t = u
      <4>1. ASSUME NEW u \in Slots, u # s, Busy(u)', task'[u].mail = task'[t].mail
            PROVE  t = u
        <5>1. Busy(u) /\ task'[u] = task[u]
          BY <1>6, <4>1 DEF Busy
        <5> QED BY <3>1, <4>1, <5>1 DEF Calm, CalmTasks
      <4> QED BY <1>6, <3>1, <3>2, <4>1
    <3>4. /\ task[t].live /\ task[t].at # "too long"
          /\ Message(t) \in owed
          /\ task[t].at = "dial" => Fresh(task[t].mail)
          /\ task[t].at = "sent" => task[t].mail \notin reason
      BY <3>1 DEF Calm, CalmTasks
    <3>5. /\ task'[t].at = task[t].at /\ task'[t].mail = task[t].mail
          /\ task'[t].copy = task[t].copy /\ task'[t].live = task[t].live
      BY <3>1
    <3> QED BY <1>7, <3>3, <3>4, <3>5 DEF Fresh, Message
  <2> QED BY <2>1, <2>2
<1>9. CalmOwed'
  BY <1>1, <1>4, <1>6, <1>7 DEF Calm, CalmOwed, Busy, Fresh
<1> QED BY <1>1, <1>7, <1>8, <1>9 DEF Calm, CalmStage, CalmMsgs, Once

\* A handler that goes on with its message.
LEMMA CalmGoto ==
  ASSUME TypeOK, Calm, NEW s \in Slots, NEW a \in Places, Goto(s, a), Busy(s),
         a \in {"sent", "unsent", "ack"}, task[s].mail \in Mails,
         a = "sent" => task[s].mail \notin reason',
         \A m \in Mails : m # task[s].mail =>
           (mailed'[m] = mailed[m] /\ (m \in reason' <=> m \in reason)),
         UNCHANGED <<owed, stage>>, owed \subseteq Mails \X Nat,
         \A t \in Slots : Busy(t) => task[t].mail \in Mails
  PROVE  CalmTasks' /\ CalmOwed' /\ CalmStage'
<1>1. /\ \A t \in Slots : t # s => task'[t] = task[t]
      /\ task'[s].at = a /\ task'[s].mail = task[s].mail
      /\ task'[s].copy = task[s].copy /\ task'[s].live = task[s].live
  BY GotoMade DEF TypeOK
<1>2. \A t \in Slots : /\ Busy(t)' <=> Busy(t)
                       /\ task'[t].mail = task[t].mail /\ task'[t].copy = task[t].copy
                       /\ task'[t].live = task[t].live
                       /\ t # s => task'[t].at = task[t].at
  BY <1>1 DEF Busy
<1>3. CalmTasks'
  <2> SUFFICES ASSUME NEW t \in Slots, Busy(t)'
      PROVE  /\ task'[t].live /\ task'[t].at # "too long"
             /\ <<task'[t].mail, task'[t].copy>> \in owed'
             /\ task'[t].at = "dial" =>
                  mailed'[task'[t].mail] = 0 /\ task'[t].mail \notin reason'
             /\ task'[t].at = "sent" => task'[t].mail \notin reason'
             /\ \A u \in Slots : Busy(u)' /\ task'[u].mail = task'[t].mail => t = u
    BY DEF CalmTasks, Busy, Fresh, Message
  <2>1. Busy(t) /\ /\ task[t].live /\ task[t].at # "too long"
                   /\ Message(t) \in owed
                   /\ task[t].at = "dial" =>
                        mailed[task[t].mail] = 0 /\ task[t].mail \notin reason
                   /\ task[t].at = "sent" => task[t].mail \notin reason
                   /\ \A u \in Slots : Busy(u) /\ task[u].mail = task[t].mail => t = u
    BY <1>2 DEF Calm, CalmTasks, Fresh
  <2>2. CASE t = s
    BY <1>1, <1>2, <2>1, <2>2 DEF Message
  <2>3. CASE t # s
    <3>1. task[t].mail # task[s].mail
      BY <2>1, <2>3
    <3> QED BY <1>2, <2>1, <2>3, <3>1 DEF Message
  <2> QED BY <2>2, <2>3
<1>4. CalmOwed'
  <2> SUFFICES ASSUME NEW q \in owed
      PROVE  \/ mailed'[q[1]] = 0 /\ q[1] \notin reason'
             \/ \E t \in Slots : Busy(t)' /\ task'[t].mail = q[1]
    BY DEF CalmOwed, Busy, Fresh
  <2>1. q[1] \in Mails
    OBVIOUS
  <2>2. CASE q[1] = task[s].mail
    BY <1>2, <2>2
  <2>3. CASE q[1] # task[s].mail
    <3>1. \/ mailed[q[1]] = 0 /\ q[1] \notin reason
          \/ \E t \in Slots : Busy(t) /\ task[t].mail = q[1]
      BY DEF Calm, CalmOwed, Fresh
    <3> QED BY <1>2, <2>1, <2>3, <3>1
  <2> QED BY <2>2, <2>3
<1>5. CalmStage'
  BY <1>2 DEF Calm, CalmStage
<1> QED BY <1>3, <1>4, <1>5

\* A handler works on its message once.
LEMMA CalmHandle ==
  ASSUME TypeOK, StoredInv, EntryWithMessage, Calm, ~Fault, NEW s \in Slots,
         DialAndSend(s) \/ Record(s) \/ NotRecorded(s) \/ Ack(s)
  PROVE  Calm'
<1> USE DEF clientVars, dbVars, sendVars, pipeVars, connVars, stanVars, smtpVars
<1>1. Busy(s) /\ task[s].mail \in Mails
  BY DEF DialAndSend, Record, NotRecorded, Ack, StoredInv, Busy
<1>2. owed \subseteq Mails \X Nat /\ \A t \in Slots : Busy(t) => task[t].mail \in Mails
  BY DEF TypeOK, StoredInv
<1>3. stage = "ready" /\ task[s].at # "too long"
  BY <1>1 DEF Calm, CalmStage, CalmTasks
<1>4. CASE DialAndSend(s)
  <2>1. PICK a \in {"sent", "unsent"} : Goto(s, a)
    BY <1>1, <1>4, DialAndSendDoes
  <2>2. a \in Places
    BY DEF Places
  <2>3. UNCHANGED <<stage, owed, copies, outbox, unconfirmed, entry, reason>>
    BY <1>4 DEF DialAndSend
  <2>4. /\ \A m \in Mails : m # task[s].mail => mailed'[m] = mailed[m]
        /\ mailed[task[s].mail] = 0 => mailed'[task[s].mail] <= 1
    BY <1>1, <1>4, DialAndSendDoes
  <2>5. mailed[task[s].mail] = 0 /\ task[s].mail \notin reason
    BY <1>1, <1>4 DEF DialAndSend, Calm, CalmTasks, Fresh
  <2>6. Once'
    BY <2>3, <2>4, <2>5 DEF Calm, Once
  <2>7. CalmMsgs'
    BY <2>3 DEF Calm, CalmMsgs
  <2>8. CalmTasks' /\ CalmOwed' /\ CalmStage'
    BY <1>1, <1>2, <2>1, <2>2, <2>3, <2>4, <2>5, CalmGoto
  <2> QED BY <2>6, <2>7, <2>8 DEF Calm
<1>5. CASE Record(s)
  <2>1. Goto(s, "ack") /\ "ack" \in Places
    BY <1>5 DEF Record, Places
  <2>2. UNCHANGED <<stage, owed, copies, outbox, unconfirmed, mailed>>
    BY <1>5 DEF Record
  <2>3. /\ entry'[task[s].mail] = IF task[s].at = "sent" THEN "SUCCESS" ELSE "FAILED"
        /\ \A m \in Mails : m # task[s].mail => entry'[m] = entry[m]
        /\ reason' = IF task[s].at = "sent" THEN reason ELSE reason \cup {task[s].mail}
    BY <1>5, RecordDoes
  <2>4. task[s].at = "sent" => task[s].mail \notin reason
    BY <1>1 DEF Calm, CalmTasks
  <2>5. Once'
    BY <2>2, <2>3, <2>4 DEF Calm, Once
  <2>6. CalmMsgs'
    BY <2>2 DEF Calm, CalmMsgs
  <2>7. CalmTasks' /\ CalmOwed' /\ CalmStage'
    BY <1>1, <1>2, <2>1, <2>2, <2>3, CalmGoto
  <2> QED BY <2>5, <2>6, <2>7 DEF Calm
<1>6. CASE NotRecorded(s)
  BY <1>3, <1>6 DEF NotRecorded
<1>7. CASE Ack(s)
  <2>1. Message(s) \in owed /\ task[s].live
    BY <1>1 DEF Calm, CalmTasks
  <2>2. owed' = owed \ Acked(s)
    BY <1>7 DEF Ack
  <2>3. Acked(s) = {Message(s)}
    BY <2>1 DEF Acked, Working, Message
  <2>4. UNCHANGED <<stage, copies, outbox, unconfirmed, mailed, reason, entry>>
    BY <1>7 DEF Ack
  <2>5. \A t \in Slots : task'[t] = IF t = s THEN Idle ELSE task[t]
    BY <1>7 DEF Ack, TypeOK
  <2>6. ~Busy(s)' /\ \A t \in Slots : t # s => task'[t] = task[t]
    BY <2>5 DEF Busy, Idle
  <2>7. \A t \in Slots : Busy(t)' => t # s /\ Busy(t) /\ task[t].mail # task[s].mail
    BY <1>1, <2>6 DEF Calm, CalmTasks, Busy
  <2>8. CalmTasks'
    <3> SUFFICES ASSUME NEW t \in Slots, Busy(t)'
        PROVE  /\ task'[t].live /\ task'[t].at # "too long"
               /\ <<task'[t].mail, task'[t].copy>> \in owed'
               /\ task'[t].at = "dial" =>
                    mailed'[task'[t].mail] = 0 /\ task'[t].mail \notin reason'
               /\ task'[t].at = "sent" => task'[t].mail \notin reason'
               /\ \A u \in Slots : Busy(u)' /\ task'[u].mail = task'[t].mail => t = u
      BY DEF CalmTasks, Busy, Fresh, Message
    <3>1. t # s /\ Busy(t) /\ task[t].mail # task[s].mail /\ task'[t] = task[t]
      BY <2>6, <2>7
    <3>2. /\ task[t].live /\ task[t].at # "too long"
          /\ Message(t) \in owed
          /\ task[t].at = "dial" =>
               mailed[task[t].mail] = 0 /\ task[t].mail \notin reason
          /\ task[t].at = "sent" => task[t].mail \notin reason
          /\ \A u \in Slots : Busy(u) /\ task[u].mail = task[t].mail => t = u
      BY <3>1 DEF Calm, CalmTasks, Fresh
    <3>3. Message(t) \in owed'
      BY <2>2, <2>3, <3>1, <3>2 DEF Message
    <3>4. \A u \in Slots : Busy(u)' /\ task'[u].mail = task'[t].mail => t = u
      BY <2>6, <2>7, <3>1, <3>2
    <3> QED BY <2>4, <3>1, <3>2, <3>3, <3>4 DEF Message
  <2>9. CalmOwed'
    <3> SUFFICES ASSUME NEW q \in owed'
        PROVE  \/ mailed'[q[1]] = 0 /\ q[1] \notin reason'
               \/ \E t \in Slots : Busy(t)' /\ task'[t].mail = q[1]
      BY DEF CalmOwed, Busy, Fresh
    <3>1. q \in owed /\ q # Message(s)
      BY <2>2, <2>3
    <3>2. \A p \in owed : p \in Mails \X Nat /\ p[2] = 1
      <4>1. \A p \in owed : p \in Mails \X Nat /\ p[2] \in 1..copies[p[1]]
        BY DEF TypeOK, StoredInv
      <4>2. \A p \in owed : copies[p[1]] \in Nat /\ copies[p[1]] <= 1
        BY <4>1 DEF TypeOK, Calm, CalmMsgs
      <4> QED BY <4>1, <4>2
    <3>3. q[1] # task[s].mail
      BY <2>1, <3>1, <3>2 DEF Message
    <3>4. \/ mailed[q[1]] = 0 /\ q[1] \notin reason
          \/ \E t \in Slots : Busy(t) /\ task[t].mail = q[1]
      BY <3>1 DEF Calm, CalmOwed, Fresh
    <3> QED BY <2>4, <2>6, <3>3, <3>4 DEF Busy
  <2>10. CalmStage' /\ CalmMsgs' /\ Once'
    BY <2>4, <2>7 DEF Calm, CalmStage, CalmMsgs, Once
  <2> QED BY <2>8, <2>9, <2>10 DEF Calm
<1> QED BY <1>4, <1>5, <1>6, <1>7

\* Without faults the state stays calm.
LEMMA CalmStep ==
  ASSUME TypeOK, SendInv, SubInv, StoredInv, EntryWithMessage, HonestStatus, CalmInv,
         [Next]_vars
  PROVE  CalmInv'
<1> USE DEF clientVars, dbVars, sendVars, pipeVars, connVars, stanVars, smtpVars
<1> SUFFICES ASSUME faults' = 0 PROVE Calm'
  BY DEF CalmInv
<1>1. Calm /\ ~Fault
  BY FaultsCount DEF CalmInv
<1>2. ASSUME UNCHANGED <<task, copies, owed, mailed, reason, entry, stage, outbox, unconfirmed>>
      PROVE  Calm'
  BY <1>1, <1>2, CalmFrame
<1>3. CASE UNCHANGED vars
  BY <1>2, <1>3 DEF vars
<1>4. ASSUME NEW c \in Clients, Client(c) PROVE Calm'
  BY <1>2, <1>4 DEF Client, SendCmd, SendReturns, SendFails, Relaunch, ListCmd
<1>5. CASE Main
  <2>1. CASE Boot \/ Prepare \/ SubscribeEmailEntry
    <3>1. UNCHANGED <<task, copies, owed, mailed, reason, entry, outbox, unconfirmed>>
      BY <2>1 DEF Boot, Prepare, SubscribeEmailEntry
    <3>2. stage # "ready" /\ stage' \notin {"stopping", "closed"}
      BY <2>1 DEF Boot, Prepare, SubscribeEmailEntry
    <3>3. CalmStage'
      BY <1>1, <3>1, <3>2 DEF Calm, CalmStage, Busy
    <3> QED BY <1>1, <3>1, <3>3 DEF Calm, CalmMsgs, CalmTasks, CalmOwed, Once, Busy, Fresh, Message
  <2>2. ~Stop /\ ~CloseAll /\ ~Exit /\ ~Crash
    BY <1>1 DEF Stop, CloseAll, Exit, Crash, Calm, CalmStage
  <2> QED BY <1>5, <2>1, <2>2 DEF Main
<1>6. CASE Conn \/ Run
  BY <1>1, <1>2, <1>6 DEF Conn, Connect, Resubscribe, Disconnect, Run, RunFails, Rerun
<1>7. ASSUME NEW m \in Mails, Send(m) PROVE Calm'
  BY <1>1, <1>7, CalmSend
<1>8. ASSUME NEW m \in Mails, Pipe(m) PROVE Calm'
  BY <1>1, <1>8, CalmPipe
<1>9. ASSUME NEW s \in Slots, Handler(s) PROVE Calm'
  <2>1. CASE \E q \in owed, again \in BOOLEAN : Deliver(s, q, again)
    BY <1>1, <2>1, CalmDeliver
  <2> QED BY <1>1, <1>9, <2>1, CalmHandle DEF Handler
<1> QED BY <1>3, <1>4, <1>5, <1>6, <1>7, <1>8, <1>9 DEF Next
-----------------------------------------------------------------------------
(***************************************************************************)
(* The theorems.                                                           *)
(***************************************************************************)
\* The conjunction of the parts holds in every state the example reaches.
THEOREM Invariance == Spec => []IndInv
<1>1. Init => IndInv
  <2> SUFFICES ASSUME Init PROVE IndInv
    OBVIOUS
  <2> USE DEF Init
  <2>1. TypeOK
    <3>1. /\ task \in [Slots -> Tasks]
          /\ mailed \in [Mails -> 0..2] /\ copies \in [Mails -> Nat]
      BY TaskIdle
    <3>2. /\ shell \in [Clients -> {"prompt", "sending", "dead"}]
          /\ form \in [Clients -> Mails \cup {NoMail}]
          /\ reply \in [Mails -> {"none", "entry", "error"}]
          /\ staged \in [Mails -> SUBSET {"entry", "message"}]
          /\ entry \in [Mails -> Statuses]
      BY DEF Statuses
    <3> QED BY <3>1, <3>2 DEF TypeOK
  <2>2. \A s \in Slots : task[s].at = "idle"
    BY DEF Idle
  <2>3. SendInv /\ SubInv /\ StoredInv /\ ResultInv
    BY <2>2 DEF SendInv, SubInv, StoredInv, ResultInv, Busy
  <2>4. CalmInv
    BY <2>2 DEF CalmInv, Calm, CalmStage, CalmMsgs, CalmTasks, CalmOwed, Once, Busy
  <2>5. EntryWithMessage /\ HonestStatus
    BY DEF EntryWithMessage, HonestStatus
  <2>6. HandledInv /\ CopyInv
    BY <2>2 DEF HandledInv, CopyInv, Unpublished
  <2> QED BY <2>1, <2>3, <2>4, <2>5, <2>6 DEF IndInv
<1>2. IndInv /\ [Next]_vars => IndInv'
  <2> SUFFICES ASSUME IndInv, [Next]_vars PROVE IndInv'
    OBVIOUS
  <2>1. /\ TypeOK /\ SendInv /\ SubInv /\ StoredInv /\ ResultInv /\ CalmInv
        /\ EntryWithMessage /\ HonestStatus /\ HandledInv /\ CopyInv
    BY DEF IndInv
  <2>2. TypeOK'
    BY <2>1, TypeStep
  <2>3. SendInv' /\ SubInv' /\ StoredInv' /\ ResultInv'
    BY <2>1, <2>2, SendStep, SubStep, StoredStep, ResultStep
  <2>4. EntryWithMessage' /\ HonestStatus' /\ CalmInv'
    BY <2>1, EntryStep, StatusStep, CalmStep
  <2>5. HandledInv' /\ CopyInv'
    BY <2>1, HandledStep, CopyStep
  <2> QED BY <2>2, <2>3, <2>4, <2>5 DEF IndInv
<1> QED BY <1>1, <1>2, PTL DEF Spec

\* Type correctness of clients, server, tables, queue and SMTP server.
THEOREM TypeCorrect == Spec => []TypeOK
BY Invariance, PTL DEF IndInv

\* Send inserts the entry and publishes its message, or neither, whatever fails
\* and wherever the server crashes.
THEOREM SendIsAtomic == Spec => []EntryWithMessage
BY Invariance, PTL DEF IndInv

\* No status or reason claims what the SMTP server has not said.
THEOREM StatusIsHonest == Spec => []HonestStatus
BY Invariance, PTL DEF IndInv

\* A mail that is still SENDING is still to be handled.
THEOREM MailsAreNotForgotten == Spec => []NoneForgotten
<1>1. IndInv => NoneForgotten
  <2> SUFFICES ASSUME IndInv, NEW m \in Mails, entry[m] = "SENDING",
                      NEW q \in due, q[1] = m
               PROVE  q \in owed
    BY DEF NoneForgotten
  <2> QED BY DEF IndInv, ResultInv
<1> QED BY <1>1, Invariance, PTL

\* Without faults a mail goes out once, with any number of clients and handlers.
THEOREM MailedOnceWhenCalm == Spec => []OnceWhenCalm
<1>1. IndInv => OnceWhenCalm
  BY DEF IndInv, CalmInv, Calm, Once, OnceWhenCalm
<1> QED BY <1>1, Invariance, PTL

\* A step of the example is one of the outbox, or leaves it.
LEMMA OutboxStep ==
  ASSUME IndInv, [Next]_vars
  PROVE  [O!Next]_(O!vars)
<1> USE DEF clientVars, dbVars, sendVars, pipeVars, connVars, stanVars, smtpVars
<1> DEFINE C == {m \in Mails : entry[m] # "none"}
           D == {m \in Mails : copies[m] > 0}
           R == {m \in Mails : copies[m] > 0 /\ m \notin outbox}
<1>0. /\ TypeOK /\ SendInv /\ StoredInv /\ EntryWithMessage
      /\ entry \in [Mails -> Statuses] /\ copies \in [Mails -> Nat] /\ outbox \subseteq Mails
  BY DEF IndInv, TypeOK
<1>1. ASSUME UNCHANGED <<entry, copies, outbox>> PROVE UNCHANGED O!vars
  BY <1>1 DEF O!vars
<1>2. CASE UNCHANGED vars
  BY <1>1, <1>2 DEF vars
<1>3. ASSUME NEW c \in Clients, Client(c) PROVE [O!Next]_(O!vars)
  BY <1>1, <1>3 DEF Client, SendCmd, SendReturns, SendFails, Relaunch, ListCmd
<1>4. CASE Main
  BY <1>1, <1>4 DEF Main, Boot, Prepare, SubscribeEmailEntry, Stop, CloseAll, Exit,
                    Crash, ProcessEnds
<1>5. CASE Conn \/ Run
  BY <1>1, <1>5 DEF Conn, Connect, Resubscribe, Disconnect, Run, RunFails, Rerun
<1>6. ASSUME NEW m \in Mails, Send(m) PROVE [O!Next]_(O!vars)
  <2>1. CASE Commit(m)
    <3>1. entry[m] = "none" /\ copies[m] = 0
      BY <1>0, <2>1 DEF Commit, SendInv, EntryWithMessage
    <3>2. /\ \A n \in Mails : entry'[n] = IF n = m THEN "SENDING" ELSE entry[n]
          /\ outbox' = outbox \cup {m} /\ copies' = copies
      BY <1>0, <2>1 DEF Commit
    <3>3. C' = C \cup {m} /\ D' = D /\ R' = R
      BY <3>1, <3>2
    <3> QED BY <3>3 DEF O!Next, O!Commit
  <2> QED BY <1>1, <1>6, <2>1
          DEF Send, Drop, Begin, InsertEmailEntry, PublishEmailEntry, Rollback
<1>7. ASSUME NEW m \in Mails, Pipe(m) PROVE [O!Next]_(O!vars)
  <2>1. CASE Flush(m)
    <3>1. m \in outbox /\ UNCHANGED <<entry, outbox>>
      BY <2>1 DEF Flush, Flushable
    <3>2. entry[m] # "none"
      BY <1>0, <3>1 DEF EntryWithMessage
    <3>3. copies'[m] > 0 /\ \A n \in Mails : n # m => copies'[n] = copies[n]
      BY <1>0, <2>1 DEF Flush
    <3>4. C' = C /\ D' = D \cup {m} /\ R' = R /\ m \in C
      BY <3>1, <3>2, <3>3
    <3> QED BY <3>4 DEF O!Next, O!Deliver
  <2>2. CASE Confirm(m)
    <3>1. copies[m] > 0
      BY <1>0, <2>2 DEF Confirm, StoredInv
    <3>2. outbox' = outbox \ {m} /\ UNCHANGED <<entry, copies>>
      BY <2>2 DEF Confirm
    <3>3. C' = C /\ D' = D /\ R' = R \cup {m} /\ m \in D
      BY <3>1, <3>2
    <3> QED BY <3>3 DEF O!Next, O!Remove
  <2> QED BY <1>1, <1>7, <2>1, <2>2 DEF Pipe, FlushFails, NotDeleted, NotConfirmed, Fails
<1>8. ASSUME NEW s \in Slots, Handler(s) PROVE [O!Next]_(O!vars)
  <2>1. CASE Record(s)
    <3>1. \A m \in Mails : entry'[m] # "none" <=> entry[m] # "none"
      BY <1>0, <2>1, RecordDoes
    <3>2. C' = C /\ D' = D /\ R' = R
      BY <2>1, <3>1 DEF Record
    <3> QED BY <3>2 DEF O!vars
  <2> QED BY <1>1, <1>8, <2>1 DEF Handler, Deliver, DialAndSend, NotRecorded, Ack
<1> QED BY <1>2, <1>3, <1>4, <1>5, <1>6, <1>7, <1>8 DEF Next

\* The copies of a message have numbers up to one more than the faults there may be.
LEMMA CopiesNumbered ==
  ASSUME TypeOK, CopyInv, NEW m \in Mails
  PROVE  /\ copies[m] \in Nat /\ copies[m] <= MaxFaults + 1
         /\ Unpublished(m) => copies[m] + 1 \in Copies
<1>1. /\ copies[m] \in Nat /\ faults \in Nat /\ faults <= MaxFaults
      /\ copies[m] + (IF Unpublished(m) THEN 1 ELSE 0)
           + (IF stage = "stopping" THEN 1 ELSE 0) <= faults + 1
  BY DEF TypeOK, CopyInv
<1> QED BY <1>1 DEF Copies

\* What the queue was owed are copies with such numbers.
LEMMA DueNumbered ==
  ASSUME TypeOK, StoredInv, CopyInv, NEW q \in due
  PROVE  q \in Mails \X Copies
<1>1. q \in Mails \X Nat /\ q[1] \in Mails /\ q[2] \in 1..copies[q[1]]
  BY DEF TypeOK, StoredInv
<1>2. copies[q[1]] \in Nat /\ copies[q[1]] <= MaxFaults + 1
  BY <1>1, CopiesNumbered
<1>3. q[2] \in Copies
  BY <1>1, <1>2 DEF Copies
<1> QED BY <1>1, <1>3

\* What the durable queue is taken to have stored and confirmed.
StoredCopies == {q \in Mails \X Copies : q[2] <= copies[q[1]]}
ConfirmedCopies == {q \in Mails \X Copies : q[2] = copies[q[1]] /\ q[1] \notin outbox}

\* The pipe publishes: the queue stores a copy, or confirms it.
LEMMA QueuePipe ==
  ASSUME IndInv, NEW m \in Mails, Flush(m) \/ Confirm(m)
  PROVE  Q!Next
<1> USE DEF clientVars, dbVars, sendVars, pipeVars, connVars, stanVars, smtpVars
<1>0. /\ TypeOK /\ StoredInv /\ CopyInv
      /\ copies \in [Mails -> Nat] /\ copies[m] \in Nat
  BY DEF IndInv, TypeOK
<1>1. CASE Flush(m)
  <2> DEFINE q == <<m, copies[m] + 1>>
  <2>1. /\ \A n \in Mails : copies'[n] = IF n = m THEN copies[n] + 1 ELSE copies[n]
        /\ m \in outbox /\ UNCHANGED <<outbox, handled>>
        /\ due' = due \cup (IF queue THEN {q} ELSE {})
        /\ owed' = owed \cup (IF queue THEN {q} ELSE {})
    BY <1>0, <1>1 DEF Flush, Flushable
  <2>2. q \in Mails \X Copies
    BY <1>0, <1>1, CopiesNumbered DEF Flush, Flushable, Unpublished
  <2>3. q \notin StoredCopies
    BY <1>0 DEF StoredCopies
  <2>4. StoredCopies' = StoredCopies \cup {q}
    <3>1. ASSUME NEW r \in Mails \X Copies
          PROVE  r[2] <= copies'[r[1]] <=> r[2] <= copies[r[1]] \/ r = q
      <4>1. r = <<r[1], r[2]>> /\ r[1] \in Mails /\ r[2] \in Nat /\ copies[r[1]] \in Nat
        BY <1>0 DEF Copies
      <4>2. CASE r[1] = m
        <5>1. r[2] <= copies[m] + 1 <=> r[2] <= copies[m] \/ r[2] = copies[m] + 1
          BY <1>0, <4>1
        <5>2. r = q <=> r[2] = copies[m] + 1
          BY <4>1, <4>2
        <5> QED BY <2>1, <4>2, <5>1, <5>2
      <4>3. CASE r[1] # m
        BY <2>1, <4>1, <4>3
      <4> QED BY <4>2, <4>3
    <3> QED BY <2>2, <3>1 DEF StoredCopies
  <2>5. ConfirmedCopies' = ConfirmedCopies
    <3>1. \A r \in Mails \X Copies : r[1] # m => copies'[r[1]] = copies[r[1]]
      BY <2>1
    <3> QED BY <2>1, <3>1 DEF ConfirmedCopies
  <2> DEFINE K == IF queue THEN {"queue"} ELSE {}
  <2>6. K \in SUBSET {"queue"}
    OBVIOUS
  <2>7. /\ [k \in {"queue"} |-> due'] =
             [k \in {"queue"} |-> IF k \in K THEN due \cup {q} ELSE due]
        /\ [k \in {"queue"} |-> owed'] =
             [k \in {"queue"} |-> IF k \in K THEN owed \cup {q} ELSE owed]
    BY <2>1
  <2> HIDE DEF K, q
  <2>8. PICK r \in Mails \X Copies : r = q
    BY <2>2
  <2>9. Q!Store(r)
    BY <2>1, <2>3, <2>4, <2>5, <2>6, <2>7, <2>8 DEF Q!Store, StoredCopies, ConfirmedCopies
  <2> QED BY <2>9 DEF Q!Next
<1>2. CASE Confirm(m)
  <2> DEFINE q == <<m, copies[m]>>
  <2>1. /\ m \in unconfirmed /\ outbox' = outbox \ {m}
        /\ UNCHANGED <<copies, due, owed, handled>>
    BY <1>2 DEF Confirm
  <2>2. q \in Mails \X Copies
    BY <1>0, <2>1, CopiesNumbered DEF StoredInv, Copies
  <2>3. q \in StoredCopies /\ StoredCopies' = StoredCopies
    BY <1>0, <2>1, <2>2 DEF StoredCopies
  <2>4. ConfirmedCopies' = ConfirmedCopies \cup {q}
    <3>1. ASSUME NEW r \in Mails \X Copies
          PROVE  r[2] = copies[r[1]] /\ r[1] \notin outbox' <=>
                   (r[2] = copies[r[1]] /\ r[1] \notin outbox) \/ r = q
      BY <2>1
    <3> QED BY <2>1, <2>2, <3>1 DEF ConfirmedCopies
  <2> HIDE DEF q
  <2>5. PICK r \in Mails \X Copies : r = q
    BY <2>2
  <2>6. Q!Confirm(r)
    BY <2>1, <2>3, <2>4, <2>5 DEF Q!Confirm, StoredCopies, ConfirmedCopies
  <2> QED BY <2>6 DEF Q!Next
<1> QED BY <1>1, <1>2

\* A handler returns nil or its ack arrives: the queue has its message handled, or
\* forgets it.
LEMMA QueueHandler ==
  ASSUME IndInv, NEW s \in Slots, Record(s) \/ Ack(s)
  PROVE  Q!Next \/ UNCHANGED <<copies, outbox, due, owed, handled>>
<1> USE DEF clientVars, dbVars, sendVars, pipeVars, connVars, stanVars, smtpVars
<1>0. TypeOK /\ StoredInv /\ CopyInv /\ HandledInv
  BY DEF IndInv
<1> DEFINE q == Message(s)
<1>1. q \in due /\ q \in Mails \X Copies
  <2>1. Busy(s)
    BY DEF Record, Ack, Busy
  <2>2. q \in due
    BY <1>0, <2>1 DEF StoredInv
  <2> QED BY <1>0, <2>2, DueNumbered
<1> HIDE DEF q
<1>2. ASSUME UNCHANGED <<copies, outbox>>
      PROVE  StoredCopies' = StoredCopies /\ ConfirmedCopies' = ConfirmedCopies
  BY <1>2 DEF StoredCopies, ConfirmedCopies
<1>3. CASE Record(s)
  <2>1. UNCHANGED <<copies, outbox, due, owed>>
    BY <1>3 DEF Record
  <2>2. CASE handled' = handled \cup {q}
    <3>1. [k \in {"queue"} |-> handled'] =
            [[k \in {"queue"} |-> handled] EXCEPT !["queue"] = @ \cup {q}]
      BY <2>2
    <3>2. Q!Handle(q, "queue")
      BY <1>1, <1>2, <2>1, <3>1 DEF Q!Handle, StoredCopies, ConfirmedCopies
    <3> QED BY <1>1, <3>2 DEF Q!Next
  <2> QED BY <1>3, <2>1, <2>2 DEF Record, q
<1>4. CASE Ack(s)
  <2>1. UNCHANGED <<copies, outbox, due, handled>> /\ q \in handled
    BY <1>0, <1>4 DEF Ack, HandledInv, q
  <2>2. CASE owed' = owed \ {q}
    <3>1. [k \in {"queue"} |-> owed'] =
            [[k \in {"queue"} |-> owed] EXCEPT !["queue"] = @ \ {q}]
      BY <2>2
    <3>2. Q!Forget(q, "queue")
      BY <1>2, <2>1, <3>1 DEF Q!Forget, StoredCopies, ConfirmedCopies
    <3> QED BY <1>1, <3>2 DEF Q!Next
  <2>3. owed' = owed \/ owed' = owed \ {q}
    <3>1. \A r \in Acked(s) : r = q
      BY DEF Acked, Working, q
    <3> QED BY <1>4, <3>1 DEF Ack
  <2> QED BY <2>1, <2>2, <2>3
<1> QED BY <1>3, <1>4

\* A step of the example is one of the durable queue, or leaves it.
LEMMA QueueStep ==
  ASSUME IndInv, [Next]_vars
  PROVE  [Q!Next]_(Q!vars)
<1> USE DEF clientVars, dbVars, sendVars, pipeVars, connVars, stanVars, smtpVars
<1>0. TypeOK /\ SendInv /\ EntryWithMessage
  BY DEF IndInv
<1>1. ASSUME UNCHANGED <<copies, outbox, due, owed, handled>> PROVE UNCHANGED Q!vars
  BY <1>1 DEF Q!vars
<1>2. CASE UNCHANGED vars
  BY <1>1, <1>2 DEF vars
<1>3. ASSUME NEW c \in Clients, Client(c) PROVE [Q!Next]_(Q!vars)
  BY <1>1, <1>3 DEF Client, SendCmd, SendReturns, SendFails, Relaunch, ListCmd
<1>4. CASE Main
  BY <1>1, <1>4 DEF Main, Boot, Prepare, SubscribeEmailEntry, Stop, CloseAll, Exit,
                    Crash, ProcessEnds
<1>5. CASE Conn \/ Run
  BY <1>1, <1>5 DEF Conn, Connect, Resubscribe, Disconnect, Run, RunFails, Rerun
<1>6. ASSUME NEW m \in Mails, Send(m) PROVE [Q!Next]_(Q!vars)
  <2>1. CASE Commit(m)
    <3>1. copies[m] = 0
      BY <1>0, <2>1 DEF Commit, SendInv, EntryWithMessage, TypeOK
    <3>2. /\ outbox' = outbox \cup {m}
          /\ UNCHANGED <<copies, due, owed, handled>>
      BY <2>1 DEF Commit
    <3>3. ConfirmedCopies' = ConfirmedCopies
      BY <3>1, <3>2 DEF ConfirmedCopies, Copies
    <3> QED BY <3>2, <3>3 DEF Q!vars, ConfirmedCopies
  <2> QED BY <1>1, <1>6, <2>1
          DEF Send, Drop, Begin, InsertEmailEntry, PublishEmailEntry, Rollback
<1>7. ASSUME NEW m \in Mails, Pipe(m) PROVE [Q!Next]_(Q!vars)
  BY <1>1, <1>7, QueuePipe DEF Pipe, FlushFails, NotDeleted, NotConfirmed, Fails
<1>8. ASSUME NEW s \in Slots, Handler(s) PROVE [Q!Next]_(Q!vars)
  <2>1. CASE Record(s) \/ Ack(s)
    BY <1>1, <2>1, QueueHandler
  <2> QED BY <1>1, <1>8, <2>1 DEF Handler, Deliver, DialAndSend, NotRecorded, OnError
<1> QED BY <1>2, <1>3, <1>4, <1>5, <1>6, <1>7, <1>8 DEF Next

\* The message of a mail is stored again only after a fault, one copy for each; so
\* Copies, of which the fairness of deliveries speaks, leaves no message out.
CopiesBounded ==
  /\ \A m \in Mails : copies[m] <= faults + 1
  /\ due \subseteq Mails \X Copies

THEOREM StoredAgainAfterFaults == Spec => []CopiesBounded
<1>1. IndInv => CopiesBounded
  <2> SUFFICES ASSUME IndInv PROVE CopiesBounded
    OBVIOUS
  <2>1. TypeOK /\ StoredInv /\ CopyInv
    BY DEF IndInv
  <2>2. due \subseteq Mails \X Copies
    BY <2>1, DueNumbered
  <2>3. ASSUME NEW m \in Mails PROVE copies[m] <= faults + 1
    BY <2>1 DEF TypeOK, CopyInv
  <2> QED BY <2>2, <2>3 DEF CopiesBounded
<1> QED BY <1>1, Invariance, PTL

\* Entries and their messages keep the promise of an outbox, the copies of messages
\* that of a durable queue, in the composition of all parts with its crashes.
THEOREM SendMailImplementsParts == Spec => ImplementsParts
<1>1. Init => O!Init
  BY DEF Init, O!Init
<1>2. Init => Q!Init
  <2> SUFFICES ASSUME Init PROVE Q!Init
    OBVIOUS
  <2>1. StoredCopies = {} /\ ConfirmedCopies = {}
    BY DEF Init, StoredCopies, ConfirmedCopies, Copies
  <2> QED BY <2>1 DEF Init, Q!Init, StoredCopies, ConfirmedCopies
<1>3. IndInv /\ [Next]_vars => [O!Next]_(O!vars)
  BY OutboxStep
<1>4. IndInv /\ [Next]_vars => [Q!Next]_(Q!vars)
  BY QueueStep
<1> QED BY <1>1, <1>2, <1>3, <1>4, Invariance, PTL DEF Spec, ImplementsParts, O!Spec, Q!Spec
=============================================================================
