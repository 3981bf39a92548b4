------------------------------- MODULE SendMail -------------------------------
(***************************************************************************)
(* The sendmail example: every package of the library in one service.      *)
(*                                                                         *)
(* A client calls Send over natsrpc.  In one MySQL transaction the server  *)
(* inserts an entry for the mail and publishes a message about it, through *)
(* binlogmsg, into a table.  The MsgPipe of the server publishes the       *)
(* message to nats-streaming, and the server subscribes there: its handler *)
(* sends the mail by SMTP and then records in the entry how that went.     *)
(*                                                                         *)
(* The parts are taken at what their own modules show: Outbox (MsgPipe),   *)
(* DurableQueue (StanMsg), the connection that is made again and then      *)
(* subscribed again (DurConn), requests handled at most once (NatsRpc).    *)
(* MySQL, nats-streaming and the SMTP server are external.                 *)
(***************************************************************************)
EXTENDS Naturals

CONSTANTS
  Clients,    \* the client processes
  Mails,      \* mails a client may be asked to send, each one once
  Slots,      \* places for message handlers in the runner of the DurConn
  NoMail,
  MaxFaults   \* bound on crashes, stops, lost connections, acks and results

ASSUME SendMailAssumption == NoMail \notin Mails /\ MaxFaults \in Nat

\* A message of nats-streaming: the message of a mail, the n-th time it is stored.
Copies == 1..(MaxFaults + 1)

VARIABLES
  \* clients
  shell,       \* what a client process does
  form,        \* the mail it sends
  told,        \* mails whose entry a client was shown
  \* the server process
  stage,       \* how far main is
  asked,       \* requests on their way
  open,        \* mails whose Send is in its transaction
  reply,       \* what Send returned
  unconfirmed, \* mails whose message the pipe has published, result unknown yet
  left,        \* mails whose message this run leaves to the next: not confirmed, or not deleted
  failing,     \* this run of the pipe has an error, and ends
  linked,      \* DurConn has a connection
  subscribed,  \* which has the subscription
  task,        \* handlers of messages
  \* MySQL
  staged,      \* rows inserted by the transaction of Send: the entry, the message
  entry,       \* the status of the entry
  reason,      \* mails whose entry has a failed_reason
  outbox,      \* mails with a message in the message table
  \* nats-streaming
  copies,      \* how often the message of a mail was stored
  queue,       \* the durable queue exists
  due, owed,   \* messages stored for the queue, and not acked yet
  handled,     \* messages for which a handler has returned nil (history)
  \* SMTP
  mailed,      \* how often a mail was accepted, 2 for more
  refused,     \* mails for which an attempt to send has returned an error
  faults

clientVars == <<shell, form, told>>
dbVars     == <<entry, reason, outbox>>
sendVars   == <<asked, open, reply, staged>>
pipeVars   == <<unconfirmed, left, failing>>
connVars   == <<linked, subscribed>>
stanVars   == <<copies, queue, due, owed, handled>>
smtpVars   == <<mailed, refused>>
vars == <<clientVars, stage, sendVars, pipeVars, connVars, task, dbVars,
          stanVars, smtpVars, faults>>

Fault == faults < MaxFaults /\ faults' = faults + 1

Statuses == {"none", "SENDING", "SUCCESS", "FAILED"}
Places == {"idle", "dial", "sent", "unsent", "too long", "ack"}
Tasks == [mail : Mails \cup {NoMail}, copy : Nat, at : Places, live : BOOLEAN]
Idle == [mail |-> NoMail, copy |-> 1, at |-> "idle", live |-> FALSE]

-----------------------------------------------------------------------------
(***************************************************************************)
(* Clients: main of the client, and the stubs                              *)
(***************************************************************************)
\* The command "s", when the form is confirmed.
SendCmd(c, m) ==
  /\ shell[c] = "prompt"
  /\ \A d \in Clients : form[d] # m
  /\ m \notin asked \cup open /\ reply[m] = "none" /\ entry[m] = "none"
  /\ shell' = [shell EXCEPT ![c] = "sending"]
  /\ form' = [form EXCEPT ![c] = m]
  /\ asked' = asked \cup {m}
  /\ UNCHANGED <<told, stage, open, reply, staged, pipeVars, connVars, task,
                 dbVars, stanVars, smtpVars, faults>>

\* Send has returned an entry, which is printed, or an error: panic.
SendReturns(c) ==
  /\ shell[c] = "sending" /\ reply[form[c]] # "none"
  /\ IF reply[form[c]] = "entry"
     THEN /\ told' = told \cup {form[c]}
          /\ shell' = [shell EXCEPT ![c] = "prompt"]
     ELSE /\ shell' = [shell EXCEPT ![c] = "dead"]
          /\ UNCHANGED told
  /\ UNCHANGED <<form, stage, sendVars, pipeVars, connVars, task, dbVars,
                 stanVars, smtpVars, faults>>

\* Send returns an error of the client's own, a deadline that passed: panic.
SendFails(c) ==
  /\ shell[c] = "sending"
  /\ shell' = [shell EXCEPT ![c] = "dead"]
  /\ UNCHANGED <<form, told, stage, sendVars, pipeVars, connVars, task,
                 dbVars, stanVars, smtpVars, faults>>

\* The client is started again.
Relaunch(c) ==
  /\ shell[c] = "dead"
  /\ shell' = [shell EXCEPT ![c] = "prompt"]
  /\ UNCHANGED <<form, told, stage, sendVars, pipeVars, connVars, task,
                 dbVars, stanVars, smtpVars, faults>>

\* Both methods are registered.
Serving == stage \in {"serving", "ready"}

\* The command "l": the entries are printed, or List fails: panic.
ListCmd(c) ==
  /\ shell[c] = "prompt"
  /\ \/ /\ Serving
        /\ told' = told \cup {m \in Mails : entry[m] # "none"}
        /\ UNCHANGED shell
     \/ /\ shell' = [shell EXCEPT ![c] = "dead"]
        /\ UNCHANGED told
  /\ UNCHANGED <<form, stage, sendVars, pipeVars, connVars, task,
                 dbVars, stanVars, smtpVars, faults>>

-----------------------------------------------------------------------------
(***************************************************************************)
(* The server's main                                                       *)
(***************************************************************************)
\* Connections to nats and MySQL, a DurConn that connects on its own, a MsgPipe
\* that runs, a ServerConn without methods.
Boot ==
  /\ stage = "down"
  /\ stage' = "piping"
  /\ UNCHANGED <<clientVars, sendVars, pipeVars, connVars, task, dbVars,
                 stanVars, smtpVars, faults>>

\* createDatabase, CreateMsgTable and createEmailEntryTable: nothing is changed if
\* these exist.  Then ServeSendMailSvc.
Prepare ==
  /\ stage = "piping"
  /\ stage' = "serving"
  /\ UNCHANGED <<clientVars, sendVars, pipeVars, connVars, task, dbVars,
                 stanVars, smtpVars, faults>>

\* SubscribeEmailEntry: subscribed at once if there is a connection.
SubscribeEmailEntry ==
  /\ stage = "serving"
  /\ stage' = "ready"
  /\ subscribed' = linked
  /\ queue' = (queue \/ linked)
  /\ UNCHANGED <<clientVars, sendVars, pipeVars, linked, task, dbVars,
                 copies, due, owed, handled, smtpVars, faults>>

\* The connection ends: the handlers' messages cannot be acked any more, and the
\* pipe is told of errors, if it waits for confirmations.
Disconnected ==
  /\ linked' = FALSE /\ subscribed' = FALSE
  /\ task' = [s \in Slots |-> [task[s] EXCEPT !.live = FALSE]]
  /\ unconfirmed' = {} /\ left' = left \cup unconfirmed
  /\ failing' = (failing \/ unconfirmed # {})

\* A signal: stopCtx is done.
Stop ==
  /\ Fault
  /\ stage = "ready"
  /\ stage' = "stopping"
  /\ UNCHANGED <<clientVars, sendVars, pipeVars, connVars, task, dbVars,
                 stanVars, smtpVars>>

\* The deferred calls: the ServerConn and the DurConn are closed.
CloseAll ==
  /\ stage = "stopping"
  /\ stage' = "closed"
  /\ Disconnected
  /\ UNCHANGED <<clientVars, sendVars, dbVars, stanVars, smtpVars, faults>>

\* The process ends, and with it its transactions.
ProcessEnds ==
  /\ stage' = "down"
  /\ linked' = FALSE /\ subscribed' = FALSE
  /\ task' = [s \in Slots |-> Idle]
  /\ unconfirmed' = {} /\ left' = {} /\ failing' = FALSE
  /\ open' = {} /\ staged' = [m \in Mails |-> {}]
  /\ UNCHANGED <<clientVars, asked, reply, dbVars, stanVars, smtpVars>>

\* main returns.
Exit == stage = "closed" /\ ProcessEnds /\ UNCHANGED faults

\* A crash, or a panic because main is refused something it needs.
Crash == stage # "down" /\ Fault /\ ProcessEnds

-----------------------------------------------------------------------------
(***************************************************************************)
(* The rpc Send                                                            *)
(***************************************************************************)
\* nats drops a request that nobody subscribes to.
Drop(m) ==
  /\ m \in asked /\ ~Serving
  /\ asked' = asked \ {m}
  /\ UNCHANGED <<clientVars, stage, open, reply, staged, pipeVars, connVars,
                 task, dbVars, stanVars, smtpVars, faults>>

\* BeginTx.
Begin(m) ==
  /\ m \in asked /\ Serving
  /\ asked' = asked \ {m}
  /\ open' = open \cup {m}
  /\ UNCHANGED <<clientVars, stage, reply, staged, pipeVars, connVars, task,
                 dbVars, stanVars, smtpVars, faults>>

\* insertEmailEntry, which reads the entry back.
InsertEmailEntry(m) ==
  /\ m \in open /\ staged[m] = {}
  /\ staged' = [staged EXCEPT ![m] = {"entry"}]
  /\ UNCHANGED <<clientVars, stage, asked, open, reply, pipeVars, connVars,
                 task, dbVars, stanVars, smtpVars, faults>>

PublishEmailEntry_OutsideTx(m) ==
  /\ m \in open /\ staged[m] = {"entry"}
  /\ staged' = [staged EXCEPT ![m] = {"entry", "message"}]
  /\ outbox' = outbox \cup {m}
  /\ UNCHANGED <<clientVars, stage, asked, open, reply, pipeVars, connVars,
                 task, entry, reason, stanVars, smtpVars, faults>>
\* PublishEmailEntry with a publisher on the transaction.
PublishEmailEntry(m) ==
  /\ m \in open /\ staged[m] = {"entry"}
  /\ staged' = [staged EXCEPT ![m] = {"entry", "message"}]
  /\ UNCHANGED <<clientVars, stage, asked, open, reply, pipeVars, connVars,
                 task, dbVars, stanVars, smtpVars, faults>>

\* Send returns.
Return(m, r) ==
  /\ open' = open \ {m}
  /\ staged' = [staged EXCEPT ![m] = {}]
  /\ reply' = [reply EXCEPT ![m] = r]

\* The transaction is committed, and the result is an error if it gets lost.
Commit(m) ==
  /\ m \in open /\ staged[m] = {"entry", "message"}
  /\ stage \in {"serving", "ready"}
  /\ entry' = [entry EXCEPT ![m] = "SENDING"]
  /\ outbox' = outbox \cup {m}
  /\ \/ Return(m, "entry") /\ UNCHANGED faults
     \/ Return(m, "error") /\ Fault
  /\ UNCHANGED <<clientVars, stage, asked, pipeVars, connVars, task, reason,
                 stanVars, smtpVars>>

\* Something fails, or the context is done: the deferred Rollback.
Rollback(m) ==
  /\ m \in open
  /\ Return(m, "error")
  /\ UNCHANGED <<clientVars, stage, asked, pipeVars, connVars, task, dbVars,
                 stanVars, smtpVars, faults>>

-----------------------------------------------------------------------------
(***************************************************************************)
(* MsgPipe and DurConn                                                     *)
(***************************************************************************)
\* They work; stopCtx does not end them at once.
Running == stage \in {"piping", "serving", "ready", "stopping"}

Connect ==
  /\ Running /\ ~linked
  /\ linked' = TRUE
  /\ UNCHANGED <<clientVars, stage, sendVars, pipeVars, subscribed, task,
                 dbVars, stanVars, smtpVars, faults>>

\* subscribeAll of a new connection.
Resubscribe ==
  /\ stage \in {"ready", "stopping"} /\ linked /\ ~subscribed
  /\ subscribed' = TRUE /\ queue' = TRUE
  /\ UNCHANGED <<clientVars, stage, sendVars, pipeVars, linked, task, dbVars,
                 copies, due, owed, handled, smtpVars, faults>>

Disconnect ==
  /\ linked /\ Fault /\ Disconnected
  /\ UNCHANGED <<clientVars, stage, sendVars, dbVars, stanVars, smtpVars>>

Flushable_Again(m) == m \in outbox
Flushable_Deleted(m) == entry[m] # "none" /\ m \notin unconfirmed \cup left
\* A message of the table that this run of the pipe has still to publish.
Flushable(m) == m \in outbox \ (unconfirmed \cup left)

\* The pipe publishes a message of the table, and nats-streaming stores it: for
\* the queue, if that exists by now.  A run that fails may still do so: the select
\* of flush takes the quota or the end of the context, if it can have either.
Flush(m) ==
  /\ Running /\ linked
  /\ Flushable(m)
  /\ copies' = [copies EXCEPT ![m] = @ + 1]
  /\ LET new == IF queue THEN {<<m, copies[m] + 1>>} ELSE {}
     IN due' = due \cup new /\ owed' = owed \cup new
  /\ unconfirmed' = unconfirmed \cup {m}
  /\ UNCHANGED <<clientVars, stage, sendVars, left, failing, connVars, task,
                 dbVars, queue, handled, smtpVars, faults>>

\* The run has an error: it leaves the message to the next.
Fails(m) == left' = left \cup {m} /\ failing' = TRUE

\* The pipe publishes without a connection, and that is refused.
FlushFails(m) ==
  /\ Running /\ ~linked
  /\ Flushable(m)
  /\ Fails(m)
  /\ UNCHANGED <<clientVars, stage, sendVars, unconfirmed, connVars, task,
                 dbVars, stanVars, smtpVars, faults>>

\* The publication is confirmed, and the message deleted from the table.
Confirm(m) ==
  /\ m \in unconfirmed
  /\ outbox' = outbox \ {m}
  /\ unconfirmed' = unconfirmed \ {m}
  /\ UNCHANGED <<clientVars, stage, sendVars, left, failing, connVars, task,
                 entry, reason, stanVars, smtpVars, faults>>

\* The publication is confirmed, and the DELETE fails: the run goes on, and leaves
\* the message to the next one.
NotDeleted(m) ==
  /\ m \in unconfirmed /\ Fault
  /\ unconfirmed' = unconfirmed \ {m}
  /\ left' = left \cup {m}
  /\ UNCHANGED <<clientVars, stage, sendVars, failing, connVars, task, dbVars,
                 stanVars, smtpVars>>

\* The confirmation is lost: the publication has an error, and the run ends.
NotConfirmed(m) ==
  /\ m \in unconfirmed /\ Fault
  /\ unconfirmed' = unconfirmed \ {m}
  /\ Fails(m)
  /\ UNCHANGED <<clientVars, stage, sendVars, connVars, task, dbVars, stanVars,
                 smtpVars>>

\* The run ends for a reason of its own, an error of MySQL.
RunFails ==
  /\ Running /\ ~failing /\ Fault
  /\ failing' = TRUE
  /\ UNCHANGED <<clientVars, stage, sendVars, unconfirmed, left, connVars,
                 task, dbVars, stanVars, smtpVars>>

\* It ends once all its publications are confirmed or not, and is repeated: the
\* next one takes every message that is in the table.
Rerun ==
  /\ Running /\ failing /\ unconfirmed = {}
  /\ failing' = FALSE /\ left' = {}
  /\ UNCHANGED <<clientVars, stage, sendVars, unconfirmed, connVars, task, dbVars,
                 stanVars, smtpVars, faults>>

-----------------------------------------------------------------------------
(***************************************************************************)
(* The handler of messages                                                 *)
(***************************************************************************)
Message(s) == <<task[s].mail, task[s].copy>>

\* Handlers at work on a message they can ack.
Working(q) == {s \in Slots : Message(s) = q /\ task[s].live}

\* A message is delivered: not while a handler is at work on it, unless AckWait
\* has passed.
Deliver(s, q, again) ==
  /\ subscribed
  /\ task[s] = Idle /\ q \in owed
  /\ again <=> Working(q) # {}
  /\ IF again THEN Fault ELSE UNCHANGED faults
  /\ task' = [task EXCEPT ![s] =
                [mail |-> q[1], copy |-> q[2], at |-> "dial", live |-> TRUE]]
  /\ UNCHANGED <<clientVars, stage, sendVars, pipeVars, connVars, dbVars,
                 stanVars, smtpVars>>

Goto(s, at) == task' = [task EXCEPT ![s].at = at]

\* DialAndSend.  A mail may have been accepted although it returns an error.
DialAndSend(s) ==
  /\ task[s].at = "dial"
  /\ LET m == task[s].mail
         more == IF mailed[m] < 2 THEN mailed[m] + 1 ELSE 2
     IN \/ /\ Goto(s, "sent")
           /\ mailed' = [mailed EXCEPT ![m] = more]
           /\ UNCHANGED <<refused, faults>>
        \/ /\ \/ Goto(s, "unsent") /\ UNCHANGED faults
              \/ Goto(s, "too long") /\ Fault  \* more than failed_reason holds
           /\ refused' = refused \cup {m}
           /\ \E n \in {mailed[m], more} : mailed' = [mailed EXCEPT ![m] = n]
  /\ UNCHANGED <<clientVars, stage, sendVars, pipeVars, connVars, dbVars, stanVars>>

UpdateEmailEntry_IgnoresError(s) ==
  entry' = [entry EXCEPT ![task[s].mail] = "SUCCESS"] /\ UNCHANGED reason
UpdateEmailEntry_SuccessOnly(s) ==
  /\ entry' = [entry EXCEPT ![task[s].mail] = IF task[s].at = "sent" THEN "SUCCESS" ELSE @]
  /\ UNCHANGED reason
\* updateEmailEntry: the reason is written with FAILED, and not cleared with SUCCESS.
UpdateEmailEntry(s) ==
  LET m == task[s].mail
  IN  /\ entry' = [entry EXCEPT ![m] = IF task[s].at = "sent" THEN "SUCCESS" ELSE "FAILED"]
      /\ reason' = IF task[s].at = "sent" THEN reason ELSE reason \cup {m}

\* The transaction of the handler is committed; the handler returns nil, or an
\* error if the result gets lost.
Record(s) ==
  /\ task[s].at \in {"sent", "unsent"} /\ stage = "ready"
  /\ UpdateEmailEntry(s)
  /\ \/ /\ Goto(s, "ack")
        /\ handled' = handled \cup {Message(s)}
        /\ UNCHANGED faults
     \/ task' = [task EXCEPT ![s] = Idle] /\ Fault /\ UNCHANGED handled
  /\ UNCHANGED <<clientVars, stage, sendVars, pipeVars, connVars, outbox,
                 copies, queue, due, owed, smtpVars>>

\* The message of a handler, if it can still be acked.
Acked(s) == {q \in owed : s \in Working(q)}

OnError_Acks(s) == owed' = owed \ Acked(s)
\* The handler has returned an error.
OnError(s) == UNCHANGED owed

\* The context is done, or MySQL fails or refuses the reason: no ack.
NotRecorded(s) ==
  /\ task[s].at \in {"sent", "unsent", "too long"}
  /\ IF stage # "ready" \/ task[s].at = "too long" THEN UNCHANGED faults ELSE Fault
  /\ OnError(s)
  /\ task' = [task EXCEPT ![s] = Idle]
  /\ UNCHANGED <<clientVars, stage, sendVars, pipeVars, connVars, dbVars,
                 copies, queue, due, handled, smtpVars>>

\* The ack of msgHandler, which arrives unless the connection is gone.
Ack(s) ==
  /\ task[s].at = "ack"
  /\ \/ /\ owed' = owed \ Acked(s)
        /\ UNCHANGED faults
     \/ Fault /\ UNCHANGED owed
  /\ task' = [task EXCEPT ![s] = Idle]
  /\ UNCHANGED <<clientVars, stage, sendVars, pipeVars, connVars, dbVars,
                 copies, queue, due, handled, smtpVars>>

-----------------------------------------------------------------------------
Init ==
  /\ shell = [c \in Clients |-> "prompt"] /\ form = [c \in Clients |-> NoMail]
  /\ told = {}
  /\ stage = "down"
  /\ asked = {} /\ open = {} /\ reply = [m \in Mails |-> "none"]
  /\ staged = [m \in Mails |-> {}]
  /\ unconfirmed = {} /\ left = {} /\ failing = FALSE
  /\ linked = FALSE /\ subscribed = FALSE
  /\ task = [s \in Slots |-> Idle]
  /\ entry = [m \in Mails |-> "none"] /\ reason = {} /\ outbox = {}
  /\ copies = [m \in Mails |-> 0] /\ queue = FALSE
  /\ due = {} /\ owed = {} /\ handled = {}
  /\ mailed = [m \in Mails |-> 0] /\ refused = {}
  /\ faults = 0

Client(c) ==
  \/ \E m \in Mails : SendCmd(c, m)
  \/ SendReturns(c) \/ SendFails(c) \/ Relaunch(c) \/ ListCmd(c)

Main == Boot \/ Prepare \/ SubscribeEmailEntry \/ Stop \/ CloseAll \/ Exit \/ Crash

Send(m) == Drop(m) \/ Begin(m) \/ InsertEmailEntry(m) \/ PublishEmailEntry(m)
             \/ Commit(m) \/ Rollback(m)

Conn == Connect \/ Resubscribe \/ Disconnect
Run == RunFails \/ Rerun
Pipe(m) == Flush(m) \/ FlushFails(m) \/ Confirm(m) \/ NotDeleted(m) \/ NotConfirmed(m)

Handler(s) ==
  \/ \E q \in owed, again \in BOOLEAN : Deliver(s, q, again)
  \/ DialAndSend(s) \/ Record(s) \/ NotRecorded(s) \/ Ack(s)

Next ==
  \/ \E c \in Clients : Client(c)
  \/ Main \/ Conn \/ Run
  \/ \E m \in Mails : Send(m) \/ Pipe(m)
  \/ \E s \in Slots : Handler(s)

(***************************************************************************)
(* Fairness: the server is started again when it ends, and its goroutines  *)
(* run.  That the DurConn connects and subscribes, that a run of the pipe  *)
(* publishes what it has not yet published and deletes what is confirmed,  *)
(* that one that has failed is repeated, and that messages are delivered   *)
(* again is what the modules DurConn, MsgPipe and StanMsg show of them.    *)
(* SMTP dialogues end.                                                     *)
(***************************************************************************)
Fairness ==
  /\ WF_vars(Boot) /\ WF_vars(Prepare) /\ WF_vars(SubscribeEmailEntry)
  /\ WF_vars(CloseAll) /\ WF_vars(Exit)
  /\ WF_vars(Connect) /\ WF_vars(Resubscribe) /\ WF_vars(Rerun)
  /\ \A m \in Mails : WF_vars(~failing /\ Flush(m)) /\ WF_vars(Confirm(m))
  /\ \A m \in Mails, n \in Copies :
       WF_vars(\E s \in Slots : <<m, n>> \in owed /\ Deliver(s, <<m, n>>, FALSE))
  /\ \A s \in Slots :
       /\ WF_vars(DialAndSend(s)) /\ WF_vars(Record(s) \/ NotRecorded(s))
       /\ WF_vars(Ack(s))

Spec == Init /\ [][Next]_vars
FairSpec == Spec /\ Fairness

-----------------------------------------------------------------------------
(***************************************************************************)
(* Properties                                                              *)
(***************************************************************************)
\* Type invariant of the clients, the server, its tables, the queue and SMTP.
TypeOK ==
  /\ shell \in [Clients -> {"prompt", "sending", "dead"}]
  /\ form \in [Clients -> Mails \cup {NoMail}] /\ told \subseteq Mails
  /\ stage \in {"down", "piping", "serving", "ready", "stopping", "closed"}
  /\ asked \subseteq Mails /\ open \subseteq Mails
  /\ reply \in [Mails -> {"none", "entry", "error"}]
  /\ staged \in [Mails -> SUBSET {"entry", "message"}]
  /\ unconfirmed \subseteq outbox /\ left \subseteq outbox \ unconfirmed
  /\ failing \in BOOLEAN
  /\ linked \in BOOLEAN /\ subscribed \in BOOLEAN
  /\ task \in [Slots -> Tasks]
  /\ entry \in [Mails -> Statuses] /\ reason \subseteq Mails /\ outbox \subseteq Mails
  /\ copies \in [Mails -> Nat] /\ queue \in BOOLEAN
  /\ due \subseteq Mails \X Nat /\ owed \subseteq due /\ handled \subseteq due
  /\ mailed \in [Mails -> 0..2] /\ refused \subseteq Mails
  /\ faults \in Nat

\* Send is atomic and its answer is honest: a mail has an entry if and only if its
\* message is in the message table or has been published from there, and a client
\* was shown no entry that is not committed.
EntryWithMessage ==
  \A m \in Mails :
    /\ entry[m] # "none" <=> m \in outbox \/ copies[m] > 0
    /\ m \in told \/ reply[m] = "entry" => entry[m] # "none"

\* The status says what has happened: SUCCESS only if the SMTP server has
\* accepted the mail, FAILED or a reason only if an attempt has returned an error.
HonestStatus ==
  \A m \in Mails :
    /\ entry[m] = "SUCCESS" => mailed[m] > 0
    /\ entry[m] = "FAILED" => m \in refused
    /\ m \in reason => m \in refused

\* A mail whose status is SENDING is not forgotten: its message is in the table or
\* the queue owes it, whatever crashed, stopped or got lost, unless each copy was
\* published before there was a queue.
NoneForgotten ==
  \A m \in Mails :
    entry[m] = "SENDING" /\ m \notin outbox /\ (\E q \in due : q[1] = m) =>
      \E q \in owed : q[1] = m

\* A mail goes out twice, or has a reason with SUCCESS, only after a crash, a stop,
\* a lost result or connection, or a delivery after AckWait.
OnceWhenCalm ==
  faults = 0 => \A m \in Mails :
    /\ mailed[m] <= 1
    /\ entry[m] = "SUCCESS" => m \notin reason

O == INSTANCE Outbox WITH
       Msgs      <- Mails,
       committed <- {m \in Mails : entry[m] # "none"},
       delivered <- {m \in Mails : copies[m] > 0},
       removed   <- {m \in Mails : copies[m] > 0 /\ m \notin outbox}

Q == INSTANCE DurableQueue WITH
       Msgs      <- Mails \X Copies,
       Keys      <- {"queue"},
       stored    <- {q \in Mails \X Copies : q[2] <= copies[q[1]]},
       confirmed <- {q \in Mails \X Copies :
                       q[2] = copies[q[1]] /\ q[1] \notin outbox},
       due       <- [k \in {"queue"} |-> due],
       owed      <- [k \in {"queue"} |-> owed],
       handled   <- [k \in {"queue"} |-> handled]

\* What binlogmsg promises, of entries instead of rows: only mails whose entry is
\* committed are published, and one leaves the table after that only.  And what
\* stanmsg promises, of each copy of a message that the pipe stores: the pipe takes
\* it for confirmed only when it is stored, and the queue forgets it only when a
\* handler has returned nil for this copy, whatever crashed, stopped or got lost.
ImplementsParts == O!Spec /\ Q!Spec

\* Liveness, under FairSpec: a mail does not stay SENDING if the queue owes its
\* message or, when the queue exists, the pipe has still to publish it, in its run or
\* in the next one, if this has an error.  Nothing is promised of a mail whose message
\* was published before that, confirmed, and not deleted, while the run goes on.
Settled ==
  \A m \in Mails :
    (\/ queue /\ m \in outbox \ unconfirmed /\ (m \in left => failing)
     \/ \E q \in owed : q[1] = m)
      ~> entry[m] \in {"SUCCESS", "FAILED"}
=============================================================================
