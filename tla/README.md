# nproto in TLA+

A specification of [nproto](../src) (rpc over nats, messages over
nats-streaming-server, and a transactional outbox that reads the MySQL binlog):
TLA+ modules translated from its Go source, TLC configurations that check them on
small instances, and TLAPS proofs for instances of every size.

## The system

| Component | State | Operations | Interacts with |
|---|---|---|---|
| `binlogmsg.MsgPipe` | per run: `ctrlCh` (quota), `entryCh` (results), `pubCbWg`, `wg`, the context, the db; in MySQL: the message tables, the binlog, the slave's position | `Run`: full dump, incremental dump, flush, publish callback, delete, retry | MySQL (external), a `MsgAsyncPublisher` or `MsgPublisher` downstream |
| `binlogmsg` publisher | the caller's transaction | `Publish` = INSERT of the message | MySQL |
| `stanmsg.DurConn` connection | `closed`, `subs`, `sc`, `scStaleCh`, `wg`, `connectMu`, `mu` | `connect`, lost handler, `subscribeOne`, `subscribeAll`, `Close` | stan.go (external) |
| `stanmsg` delivery | runner, a connection's acks | `publishAsync`, `msgHandler` | stan.go, the limited runner |
| `natsrpc.ServerConn` | `closed`, `subs`, `methodMaps`, runner | `RegistHandler`, `Close`, `msgHandler` | nats (external), runner |
| `natsrpc.ClientConn` | a call's context | the handler of `makeHandler` | nats |
| `rpc` | none | middlewares of servers and clients, `RPCError` | natsrpc |
| `msg` | none | `MsgAsyncPublisherFunc.Publish`: wait for a callback or the context | publishers |
| `tracing`, `enc`, `md` | none (spans, contexts) | middlewares, encoders, meta data | all |
| `sendmail` example | MySQL: the entries, the message table; a server process with all of the above; client processes | `Send`, `List`, the handler of entries, boot, stop | all, and an SMTP server |

A message is published by an application, directly through a `stanmsg` publisher or by
a `binlogmsg` publisher into a row that `MsgPipe` reads from the binlog and publishes to its
downstream, usually the `stanmsg` publisher; it reaches the handlers of each queue through the
subscriptions of `DurConn`. An rpc goes from `ClientConn` over nats to one `ServerConn` of a group and
back. Each of these hops may be wrapped in middlewares, encodes or decodes by
`enc`, and carries meta data of `md`.

What is hard in them:

* **MsgPipe.** Callbacks of the downstream run in any goroutine, in any order, up to
  any time; a quota must bound them, and `run` must not return, nor close what they
  use, before them. The handoff from a snapshot to the binlog must neither skip nor
  repeat a row, while rows are committed and deleted. Publishing fails, the process
  dies between publishing and deleting: at least once, never a loss.
* **DurConn.** Connections get lost while one is being set up, resubscribed or
  closed. There must be one connection in the end, no leaked one, every
  subscription on it once, and `Close` must end everything.
* **natsrpc.** Registration of methods that share a subscription, with a flush in the
  middle; a group of servers that come and go; busy and closed runners; replies that
  are late, lost or never sent; handlers that outlive their calls.
* **Messages over DurConn.** A publish reads the connection under a lock and uses it
  after; its callback may come from a connection that is gone, after its caller has
  given up. Messages, acknowledgements, deliveries and acks are lost; what is not acked is
  redelivered; the runner is full or closed, handlers fail or panic. An ack must follow the handler.
* **Formats.** Publishers and subscribers, clients and servers choose formats on their own.
  What one sends the other must be able to decode, over a pipe that does not know the type.
* **Names and ownership.** Subjects are strings cut at dots, with wildcards; meta data come in and
  go out of a handler; options replace what the constructors have made.
* **A service of all of them** (`sendmail`): a request, a transaction, a message, an SMTP dialogue
  and another transaction, with a crash between any two.

`PROJECT.json` lists the components, including those that are not modelled, and the
hazards, each at its line with the properties that are aimed at it.

## Modules

| Module | What it is |
|---|---|
| `Outbox` | What binlogmsg promises, abstractly: committed messages are delivered, delivered ones may be removed. |
| `MsgPipe` | `binlogmsg/binlogmsg.go` with the SQL it uses, MySQL, its replication and the downstream. Refines `Outbox`. |
| `MsgPipeProofs` | Theorems about `MsgPipe`. |
| `DurConn` | The connection part of `stanmsg/durconn.go`, with stan.go. |
| `DurConnProofs` | Theorems about `DurConn`. |
| `RemoteCall` | What natsrpc promises of a call, abstractly: refused, or handled once; one result, which is what happened to it, though its code does not always say which. |
| `NatsRpc` | `natsrpc/server.go`, `natsrpc/client.go` and the middlewares of `rpc/server.go`, with nats and the runner. Refines `RemoteCall`. |
| `NatsRpcProofs` | Theorems about `NatsRpc`. |
| `DurableQueue` | What the delivery of messages promises, abstractly: a message is kept for each queue until it has been handled, and a confirmed one is never lost. |
| `StanMsg` | `publishAsync`, `msgHandler` and its task in `stanmsg/durconn.go`, `msg/async_publisher.go` and the asynchronous tracing middleware, with the server. Extends `DurConn`, whose steps it interleaves with its own. Refines `DurableQueue`. |
| `StanMsgProofs` | Theorems about `StanMsg`. |
| `SendMail` | `examples/sendmail`: the composition of all packages, each at what its own module shows. Refines `Outbox` and `DurableQueue`. |
| `SendMailProofs` | Theorems about `SendMail`. |
| `Enc` | The encoders and decoders of `enc`, as pure operators. |
| `Tracing` | Meta data, contexts and spans (`md`, `tracing`), as pure operators. |
| `Relay` | What one message carries over its hops: data, meta data, spans. |
| `Exchange` | What one rpc carries: input, output, errors, meta data, spans. |
| `Subjects` | Specs and subjects: what names are accepted, and whom a subject reaches. |
| `Options` | `NewServerConn` and `NewDurConn`: options, and who closes the runner. |
| `FormatProofs` | Theorems about `Relay` and `Exchange`, and the operators of `Enc` and `Tracing` they rest on. |
| `RoutingProofs` | Theorems about `Subjects` and `Options`. |
| `MCMsgPipe`, `MCDurConn`, `MCNatsRpc`, `MCStanMsg`, `MCSendMail`, `MCFormats` | Instances for TLC. `MCFormats` has those of `Relay`, `Exchange`, `Subjects` and `Options`, which share operators but no state: a behaviour is one of one of them. |

Operators named `X_Something` are faulty variants of `X` (a dropped guard, a missing
reset). No specification uses them. Putting one in the place of `X` makes TLC report
the property that `PROJECT.json` pairs it with, which shows that the property is
sensitive to that piece of code.

### MsgPipe

A row is a message (or a row of another table, which the filter must drop). MySQL is
its binlog: `insPos` and `delPos` give the transaction that inserted or deleted a row,
`logLen` the number of transactions, `slavePos` how many the server that is dumped has
applied. Applications insert into a transaction (`AddMsg`, the publisher of
`NewMsgPublisher`) that commits or rolls back.

`phase` is where the goroutine of `Run` is: `idle` - `start` (run has made its channels
and the post process goroutine) - `full` - `wait` (`pubCbWg.Wait()`) - `incr` - `wait` -
`closing` (the defers `close(entryCh)` and `cancel()`) - `wgwait` (`wg.Wait()`, then
`db.Close()`) - `retry`. `todo` is what the dump has read (a snapshot through
`listMsgTables`, or the rows of a transaction) and not flushed. `Flush` takes quota and
hands the row downstream; `PubCb` and `PubCbDone` are the callback, split at
`pubCbWg.Done()`; `PostRecv`, `DelMsg`, `DelMsgFail`, `PostRelease` and `PostEnd` the post
process goroutine. A failed publish may nevertheless have reached the downstream.
`Crash` may happen in every state and keeps only MySQL and what the downstream has.
`downstream`, fixed by `NewMsgPipe`, tells a `MsgAsyncPublisher` from a `MsgPublisher`, whose
callback runs before `flushMsgEntry` returns.

### DurConn

A connection is `none` (not dialled), `open`, `lost` or `closed`; `lostCb` holds the lost
ones whose handler has not run. `pc` and `loc` are the program counter and the local `sc`
of each connect goroutine, `pending`, `round` and `subAll` the state of `subscribeAll` of
each connection, `closer` and `closerSc` that of `Close`. What the code does with `mu` held is one
action; `connectMu` is held while `pc` is in `Critical`. The connection's stale channel is
identified with the connection, since they are stored and taken together. A
subscription is its key; `nSub` counts the successful `QueueSubscribe` calls.

`Lost` requires that another connection can be dialled later (`Conns` bounds how many
are, and with it how often one is lost); so the bound never makes `stan.Connect` hang.

### NatsRpc

A subscription is identified by its ServerConn, its service and a number (`Attempts`
bounds the numbers, and so how often `registHandler` tries again after a failed
`Flush`). `subState` is its state at the ServerConn, `onBroker` whether nats-server has
it: the two differ for a while after `Subscribe` and `Unsubscribe`. `methods` is the method
map made with each subscription, so that a map that is not stored is told from one that
is. `reg` holds the registrations that are in `Flush` with `mu` held, and `srv` is
`closing` while `Close` holds it.

A request is published (`net`), handed to one subscription of the group (`Route`),
submitted to the runner by `msgHandler` (`Submit`), begun by a worker (`Worker`: no such
method, undecodable, or the handler is called) and ended (`HandlerEnd`); `task` is how far it is.
`Answer` and `FromResponse` are what a handler's outcome becomes on the wire, and what that
becomes at the caller. A handler may return any `*RPCError`, that of a call of its own for instance, and `replyError`
passes its code on (`server.go:218`): so a call that was handled may look refused, with `MethodNotFound`, to its caller.
What is promised is the converse: a call that natsrpc itself refused is never handled (`HonestResult`, `RemoteCall`).
The runner refuses tasks when it is closed, and may do so whenever all its workers are busy, its queue being of any
length up to `QueueSize`. A deadline passes at some time (`late`); the handler's context
ends after the deadline of the call, since the request carries what is left of it when it is made.
Three outcomes of a handler leave no response (`Unanswered`): a panic, a nil output, on which
`AssertOutputType` panics (`rpc/common.go:242`), and an error whose text is not UTF-8, which
`proto.Marshal` refuses (`server.go:203`); the caller waits for its deadline.

`Fate` is what the state says has become of a call, for `RemoteCall`: nothing yet, `refused` by `msgHandler` or
its task before the handler, being `run`, ended with an outcome, or `lost`.

### StanMsg

A message is one call of `MsgAsyncPublisherFunc.Publish`. `call` is where it is: `idle` -
`picked` (`publishAsync` has read `dc.sc`, kept in `pubSc`) - `wait` (stan.go has accepted it) -
`returned`, with `result`. `cb` is the callback given to stan.go, `tail` the callbacks that
have called the caller's and have still to finish their span, `nCb` and `nFin` count both. Between
`picked` and `wait` the lock is free, so the connection may end, `Close` run, or another connection
take its place. `Unpublishable` stands for the errors before the connection is looked at; the
span of a publish whose context cannot be injected stays unfinished, which `tracing/msg/msg.go:121` does.

The server is external: `net` and `pubAcks` are what is on its way to and from it, `stored` what
it has, `owed` what a queue has not acked, `due` what a queue was ever owed. A queue exists from its
first subscription on. A delivery under way (`work`) is `sent` - `queued` in the
runner (`Accept`) - `running` - `ack`, on the connection that carried it; an ack is of no use
when that connection has ended. `HandlerFails` is a message that cannot be decoded, an
error and a panic alike, none of which acks. `OnReturn` is what stan.go does when the
callback returns: nothing, thanks to `SetManualAckMode`.

### SendMail

`stage` is how far `main` of the server is: `down` - `piping` (connections, DurConn, the pipe runs) -
`serving` (tables exist, methods registered) - `ready` (subscribed) - `stopping` (a signal) -
`closed` (the deferred calls) - `down`. `main` does not wait for its `WaitGroup`, so the process ends
with the pipe at work; that makes no difference to a crash. `ProcessEnds` leaves nothing but the tables, the
queue and what the SMTP server has accepted.

A mail is asked for at most once (`SendCmd`), by a client process that panics on an error and is started
again. `Send` is `Begin`, `InsertEmailEntry`, `PublishEmailEntry`, `Commit` or `Rollback`;
`staged` is what its transaction has inserted. `unconfirmed` are the messages the pipe has published without a
result, `left` those that its current run leaves to the next one: not confirmed (`NotConfirmed`, `FlushFails`), which
makes the run fail (`failing`) and be repeated (`Rerun`), or not deleted (`NotDeleted`), which does not, since the error
of `delMsg` is dropped. `copies` how often the message of a mail was stored, `due` and `owed` what the queue was and is to
deliver. A handler (`task`) has its message (`dial`), has an answer of SMTP (`sent`, `unsent`, or `too
long`, an error that `failed_reason` cannot hold), has committed the status (`ack`), and acks.
Another delivery of its message may come when `AckWait` has passed. `handled` is history: the messages
for which a handler has returned nil, which `DurableQueue` speaks of.

What the code does not do shows in the properties: a mail may go out twice (`OnceWhenCalm` allows it
only after a fault), `SUCCESS` may keep the reason of an earlier failure, the status may be that of the
attempt that ended last (`HonestStatus` asks only that it is true of some attempt), and messages published on the
very first start before the queue exists are lost, their mails `SENDING` for ever
(`NoneForgotten` and `Settled` leave them out). A message whose `DELETE` failed stays in its table while the run goes on
(finding `pipe_delete_retried`), so `Settled` promises nothing of it unless the queue owes it or the run
has an error: a mail whose message was published before there was a queue, confirmed, and not
deleted stays `SENDING` until something else makes the pipe run again.

### Enc, Tracing, Relay and Exchange

Encoded data remember the format that made them, so a decoder that is given bytes of another
format fails. An encoder or decoder returns the set of its results, empty for an error: of the type,
of the format, or of the marshaler, which may refuse a value of a type it takes (a channel in a struct, a string that is not
UTF-8) or write what does not read back. The constants `Unwritable` and `Unreadable` say for which contents of each format;
the proofs hold for any. Meta data are functions
and a span is named for what it is of. `Relay` takes a message from the application (`Publish`) over an
optional row (`FlushMsgEntry`) to the handler (`Handle`) and records which spans are started and what they
refer to. All hops have one tracer, which reads what it has written; but the meta data of the application may have a
tracing key that it cannot read (`Corrupt`), and an injection may fail: a publisher then returns an error, a row stays in
its table, and a message is redelivered for ever. `NoPoison` says why each message that does not arrive does not. `Exchange` takes the input of a call from the client (`Request`) to the server (`Serve`, or
`ServeForeign` for one that is not of this library, and may answer with a response type on which the client
panics) and the output back (`Receive`), with the context of
the caller, what the handler does (an output of the right or a wrong type, nil, an error, a panic) and the
spans that the middlewares finish. Its properties do not say that typed calls succeed, since a value of the right type may not be
writable (`natsrpc_test.go:543` has such), but that they fail with the error of the step that failed, for a reason. The initial
states enumerate all kinds of values, formats, meta data,
paths and middlewares.

### Subjects and Options

A name is the sequence of its tokens, wildcards and the empty name included, so that what the regular
expressions refuse is refused for its reason. `RouteInit` takes every set of up to `MaxServed` specs that one
connection can serve and every spec that another one may ask for; `MakeSpec`, `Send` and `Dispatch` say what
becomes of it. A connection is made with each sequence of up to `MaxOptions` options: those that give a runner, that
are accepted, that are refused.

## Runs

| Run | Bounds | Shows |
|---|---|---|
| `pipe_safety` | both kinds of downstream, 2 message rows, 1 other, quota 1, 2 failures or crashes | callbacks are safe, the dumps meet, runs end clean, and the pipe implements Outbox |
| `pipe_liveness` | both kinds of downstream, 2 message rows, quota 1, 1 failure | delivery, removal, termination |
| `pipe_delete_retried` | as `pipe_liveness` | violated: see findings |
| `durconn` | 3 connections, 2 connect goroutines, 2 subscriptions, 1 failure | one in charge, no leak, every subscription once; DurConn ends up connected and subscribed; Close returns |
| `durconn_close_waits` | 2 connections, no failure | violated: see findings |
| `rpc_calls` | 2 ServerConns, 2 methods of a service, 2 attempts, 1 call, 1 worker and no queue, 2 faults | handled and answered at most once, RemoteCall, registration |
| `rpc_liveness` | 1 ServerConn, 2 calls, 1 worker, queue of up to 1, middlewares, 1 fault | calls return, requests are answered |
| `rpc_middleware` | 1 ServerConn behind a middleware | violated: see findings |
| `stan_safety` | 1 message, 2 connections, 2 connect goroutines, 2 deliveries, runner for 1 task, 1 failure of stan, 2 messages, acks or handlers lost | publishing is honest, callbacks come once, and StanMsg implements DurableQueue |
| `stan_liveness` | 1 message, 2 connections, 1 delivery at a time, 1 loss | callbacks come, what the server owes is handled |
| `formats` | 3 contents, of which each format fails to write one and to read another, 4 formats, 1 key of meta data, 2 words, 2 prefixes, names of up to 2 tokens, up to 2 specs served, 3 options, every combination | content, meta data and spans arrive or fail for a reason; subjects reach the handler of their names; runners are closed |
| `sendmail` | 1 client, 1 mail, 2 handlers, 2 faults (crash, stop, lost connection, confirmation, ack, commit result; failed DELETE or run of the pipe; late ack; long error) | entry and message are one, statuses are true, no mail is forgotten, each that is still to be published or owed is settled; Outbox and DurableQueue |

A property that is a conjunction of named parts (`CallbacksSafe`, `ConnectionsEnd`, ...) is one subject
seen from several sides; each part has a theorem of its own where it is proved.

**Why the bounds suffice.** Three rows make a snapshot overlap a transaction of the
binlog with a row of each kind; a quota of 1 makes flush block
(a larger one lets callbacks overtake each other, which the proofs cover).
Two failures cover a failed run that is repeated and fails again. In `durconn` a failure is one of
Connect or QueueSubscribe; losing a connection costs none. Three connections
make a loss during the setup of the replacement of a lost connection possible. Two
names for connect goroutines are enough since `OneInCharge` implies that at most one of
them is at work before its connection is open, and that one may overlap with the tail of
another (`update`, `drop`); the name is free again when its goroutine has ended. Two calls on one
worker make the runner busy, and full if its queue has no place (in `rpc_liveness`), two methods meet in the registration of their service, two servers make the group route around a closed one. One message
delivered twice at once fills the runner; two drops lose an ack and then the redelivery's handler;
two connections let the one a publish has picked, or a delivery came on, end before it is used.
Messages do not influence each other but through the runner, and `stan_safety` fills it. Mails of `sendmail` do not influence each other but
through the two handlers, which one mail can occupy by its redelivery; two faults let a crash follow another
or a lost ack follow a late one. In `formats` two words are enough to differ in either part of a name, and a word
that is also a prefix lets a prefix be mistaken for a service.
The proofs below do not depend on any bound.

**Fairness.** Goroutines that can run do (weak fairness per goroutine); timers fire; the
slave replicates; the server delivers again what is not acked as long as the queue has a member, at
times that have nothing to do with the runner (strong fairness of a delivery while the runner has
room: it is not full whenever a delivery arrives); a `MsgAsyncPublisher` calls back for each message it accepted, which is
its contract; stan.go's calls return; a handler returns once its context is done; the
runner runs what it accepted. Nothing is assumed of callers, of losses, of failures (whose
number is bounded by `MaxFaults`, so that they cease) or of crashes. Failing with
the context done costs no fault. `SendMail` assumes of DurConn, the pipe and the queue what their own
liveness runs show (they reconnect, a run publishes what it has not yet published, one with an error is repeated, what
is owed is delivered again), and not that a message whose `DELETE` failed is published again; that the server is started again, and that SMTP
dialogues end; nothing of clients, who may be gone, nor of requests, which may be refused.

`Quiescent`, `Terminated` and the like are stuttering steps in the states where the system may
rest, so deadlock is checked in all runs: any other state without a step is an error.

## Findings

* `pipe_delete_retried`: the error of `delMsg` is assigned and never read
  (`binlogmsg.go:160`); the row stays until something else makes the pipe dump again,
  and is then published again. The documentation of `PipeOptRetryWait`
  (`options.go:40`) speaks of retries due to all kinds of errors. At-least-once is not at stake
  (`AtLeastOnce`, `EventuallyRemovedOrFailed` hold).
* `durconn_close_waits`: a lost handler that runs late calls `goConnect`, hence `wg.Add(1)`,
  after `Close` has returned from `wg.Wait()` (`durconn.go:191`); the goroutine does no harm
  (`ConnectionsEnd` holds) but `Close` has not waited for it.
* `rpc_middleware`: `RPCServerWithMWs.RegistHandler` wraps nil (`rpc/server.go:40`), so a
  method behind middlewares is not deregistered but made to panic.

Not checked by a run, since only wording is concerned: the comment at
`durconn.go:200`, "reconnect immediately", precedes `goConnect(true)`, which waits for
`reconnectWait`.

## Proofs

`MsgPipeProofs` proves for every set of rows, quota, number of failures and both kinds of
downstream: `TypeOK`, `CallbacksSafe` (that is, `NoPanic` and `QuotaConserved`), `DumpsMeet`
(`NoRowSkipped` and `AtMostOncePerRun`), `RunEndsClean` (`RunLeavesNothing` and `ConfirmedAreRemoved`),
`DeleteOnlyConfirmed` and `ImplementsOutbox`.
`IndInv` is inductive; the properties alone are not. Its parts say: how the positions in
the binlog are ordered; which phases have callbacks, an open db and a post process
goroutine; that quota is conserved and hence `entryCh` has room whenever a callback sends;
what each row's way through a run looks like (in the dump, in flight, in `entryCh`, being
deleted, or done) so that every confirmed row is accounted for. Each lemma shows one part to be
kept by every action. The refinement follows from the invariant
step by step: a commit maps to `Commit`, a callback or a crash to `Deliver`, a `DELETE` to
`Remove`, everything else to a stutter.

`DurConnProofs` proves for every set of connections, goroutine names and keys and any number of
failures: `TypeOK`, `OneInCharge`, `ConnectionsEnd` (`NoneLeaked`, `NoDoubleClose` and `ClosedForGood`)
and `Subscribed` (`SubscribedOnce` and `NoneForgotten`). The strengthening: `MutexInv` (at most one goroutine past
`connectMu`, it alone has a local, `sc` is nil meanwhile), `CloseInv` (where `Close` is and what that says
of `closed`), `OwnerInv` (a connection whose stale channel is open is owned by one of `sc`, a connect
goroutine and `Close`), `FreshInv` (nobody knows a connection before it is dialled) and
`SubInv` (a pending subscription is registered and not yet made).

`StanMsgProofs` proves for every set of messages and deliveries, on top of any `DurConn`: `MsgTypeOK`,
`NoneLost`, `HonestPublish`, `CallbackOnce` and `ImplementsQueue`. `MessagesOverDurConn`
shows that each behaviour of `StanMsg` is one of `DurConn`, so every theorem of
`DurConnProofs` holds of it. `PublishInd` says what each stage of a publish implies for the callback, the span
and the message; `QueueInd` that what a queue was owed is still owed or handled, and that an ack under
way is for a handled message. In the refinement `Arrive` maps to storing a message, a `Return` of nil to
confirming it, `HandlerOk` to handling it, an ack to forgetting it, and everything else to a stutter.

`NatsRpcProofs` proves for every set of ServerConns, services, methods and calls, every runner and any number of faults:
`TypeOK`, `AtMostOnce`, `RegisteredReachable`, `NoneOrphaned`, `HonestResult` and `ImplementsRemoteCall`. `TokenInv` says that a
call's request is in one place: not sent, with nats, at one subscription, or handled; so no other can handle it.
`ReplyInv` ties a reply on its way to what its handler did, and to `ran` and `nReply`: one with a code of the library is
natsrpc's own, or its handler's. `RegInv` is the lock: at most one
registration of a ServerConn is in `Flush`, and none while `Close` holds `mu`. `SubInv` says which
subscription is stored, being flushed, known to nats, or gone, and whose method map has what is
registered. That a client gives up late or early plays no part. In the refinement a `Call` maps to making the call,
one that cannot be encoded or has no time left to rejecting it; a refusal by `msgHandler` or the task, the start of the
handler and its end each serve it; the client's receiving a reply or giving up returns it; everything else
stutters. It needs `FateInv` besides: a fate does not change any more when the task is done, and a call that could
not be encoded is nowhere.

`SendMailProofs` proves for every set of clients, mails and handlers and any number of faults: `TypeOK`,
`EntryWithMessage`, `HonestStatus`, `NoneForgotten`, `OnceWhenCalm`, `CopiesBounded` and `ImplementsParts`. `SendInv` keeps
requests apart from what has an entry, `StoredInv` says that what is published, delivered or mailed was
stored before, `ResultInv` what a handler's stage implies for SMTP and that a mail the queue no longer owes
has a status, and `CalmInv` what holds before the first fault: every message was stored at most once, and each that is owed is
fresh or has one handler. `SubInv` puts deliveries between `SubscribeEmailEntry` and `Close`. `HandledInv` says that
what is about to be acked is handled, `CopyInv` that a message is stored again only after a fault: each crash, each lost
connection or confirmation, each failed `DELETE` makes room for one more copy, an orderly end uses the fault of its signal
up when `Close` drops what is unconfirmed. In the refinement of `Outbox`
`Commit` maps to committing, the first `Flush` of a message to delivering, its `Confirm` to removing it. In that of
`DurableQueue`, whose messages are the copies, each `Flush` maps to storing one, a `Confirm` to confirming the
last one, a `Record` whose result arrives to handling, an `Ack` that arrives to forgetting. All else stutters. So the
composition keeps the promises of both of its parts, which `MsgPipe` and `StanMsg` are shown to keep alone.

`FormatProofs` proves for every set of contents, keys and values of meta data: `Delivered`, `SpansChained`
(`Relay`), `CallFaithful` and `CallTraced` (`Exchange`). First come lemmas about the operators: a value encoded in a
format is decoded as it was or not at all, the default format supports the types it is chosen for, so that only `Unwritable`
and `Unreadable` contents fail, a middleware's span
replaces that of the meta data and leaves the rest. `RelayInv` then says what a message is at each hop: `Carried` (the
content, its format and the keys of its meta data) and `Started` (the spans of the hops so far, the last one of which
is in the meta data). `CallInv` does so for a call: `Requested` (what the request has), `Responded` (the response stands
for the handler's output, in the request's format) and `Unfinished` (which span there may be before the client returns).

`RoutingProofs` proves for every set of words and prefixes, names of any length and any number of specs served
`RoutedRight`, and for every sequence of options `RunnersOwned`. The first rests on lemmas about subjects as sequences: a subject
of a name without wildcards is matched by the pattern of that name and prefix only, and is parsed into the parts it was
made from. `RouteInv` says what has been decided at each step of a call or message, `OptionsInv` that each runner a
constructor was given is closed or the one it has.

Assumptions are those named in the modules (`PipeAssumption`, `DurConnAssumption`, `StanMsgAssumption`,
`NatsRpcAssumption`, `SendMailAssumption`, `EncAssumption`, `RelayAssumption`, `SubjectsAssumption`, `OptionsAssumption`): the sets of
names are disjoint where they are compared (a word is no wildcard, an application's key of meta data is not that of
tracing; `EncAssumption` says only what `Unwritable` and `Unreadable` are sets of), the quota and the number of workers are positive (as the options demand), bounds are natural numbers.

Every safety property and every refinement that a run checks has a theorem. Only model-checked is everything
under fairness (`AtLeastOnce`, `StopTerminates`, `Durable`, `CloseReturns`, `CallReturns`, `Settled`, ...), since liveness is out of the
prover's reach, and the three properties that are violated.

## Plan

The order in which the project was built, the most important behaviour first, and what is left:

1. *Done.* `Outbox`, `MsgPipe`, its refinement and proofs.
2. *Done.* `DurConn` and its proofs.
3. *Done.* `DurableQueue`, `StanMsg` on top of `DurConn`, with the context racing the callback and
   the spans of the asynchronous middleware; its refinement and proofs.
4. *Done.* `NatsRpc` and its proofs.
5. *Done.* `Enc`, `Tracing`, `Relay`, `Exchange`: messages and calls end to end, with their spans.
6. *Done.* `Subjects` and `Options`.
7. *Done.* `SendMail`, the composition, and its proofs.
8. *Done.* `RemoteCall`, the refinement of `DurableQueue` by `SendMail`, and the proofs of all safety
   properties and refinements that the runs check.
9. `MsgPipe` with `StanMsg`'s publisher downstream in full detail, instead of the two behind `SendMail`'s
   abstract pipe and queue. The product is beyond what TLC can enumerate, so this would be a proof; what it could add to the
   refinements of `Outbox` and `DurableQueue`, which `SendMail` composes, is the callback's way between the two.

## Not modelled

* Generated code, beyond the messages and enums (records in `NatsRpc`, `Exchange`, `Relay`) and the stubs that
  `SendMail` uses: reflection, getters and descriptors have no behaviour of their own.
* `protoc-gen-nproto2`: templates over the descriptors of a file, run once; neither state nor concurrency.
* `examples/bench-natsrpc`: a benchmark whose calls are those of `NatsRpc`, with a histogram of their durations.
* Logging, wording and the values of options other than the runner; DDL other than that it changes nothing the second
  time; the unused advisory lock of `sqls.go`.
* Payloads and names, except where `Relay`, `Exchange` and `Subjects` are about them (model values). Keys and values of
  meta data are text that protobuf takes; a response whose error text is not UTF-8 is in `NatsRpc` (`Unanswered`).
* Errors of `failed_reason` that stay too long for ever (`main.go:423`): the model has one as one of its bounded faults, after which
  the mail is tried again; that this may go on for ever is a hazard no property covers. So is a mail published before there is a
  queue (`main.go:219`), which the properties leave out.
* `SendMail` has no error of the full dump that recurs for ever, and no `DELETE` that hangs.
* Clocks: a deadline passes at some time. The timeout of a request is relative, and its conversion
  (`uint64(dur)`, for a positive `dur`) loses nothing.
* MySQL, nats, nats-streaming-server, stan.go, the SMTP server and the runner except for what the code relies on.
  The runner's source is not part of the repository: accepted tasks are assumed to run, also when it is
  closed, and nothing is assumed of whether its `Close` waits for them.
