------------------------------- MODULE NatsRpc -------------------------------
(***************************************************************************)
(* natsrpc: rpc over nats.  ServerConns of one queue group serve the       *)
(* methods of some services; a ClientConn makes calls.  A ServerConn may   *)
(* be wrapped in rpc.RPCServerWithMWs.                                     *)
(*                                                                         *)
(* A ServerConn has one nats subscription per service, made when its first *)
(* method is registered, and a method map per subscription.  Its mu is     *)
(* held through registHandler and Close.  A request is taken from the      *)
(* subscription by msgHandler, submitted to a limited runner, and handled  *)
(* in a task there.                                                        *)
(*                                                                         *)
(* nats, the runner and the handlers are external.  nats gives a request   *)
(* to one subscription of the group.  It learns of Subscribe some time     *)
(* later, at the latest when Flush succeeds, and of Unsubscribe some time  *)
(* later, what it hands over meanwhile being dropped by nats.go.  The      *)
(* runner runs a bounded number of tasks, queues a bounded number, and     *)
(* refuses the others, and all when it is closed.                          *)
(***************************************************************************)
EXTENDS Integers, FiniteSets

CONSTANTS
  Servers,    \* the ServerConns
  Methods,    \* the methods served
  SvcOf,      \* the service of each method
  Calls,      \* the calls made
  Target,     \* the method each call is for
  Attempts,   \* bound on the subscriptions a ServerConn makes for a service
  Workers,    \* of the runner of a ServerConn: tasks running at a time
  QueueSize,  \* and tasks waiting, at most
  CtxDeadline, \* calls whose context has a deadline
  WithMWs,    \* is the ServerConn wrapped in RPCServerWithMWs?
  NoSub,
  MaxFaults   \* bound on failures of Flush and lost messages

ASSUME NatsRpcAssumption ==
  /\ Target \in [Calls -> Methods]
  /\ Attempts \in Nat \ {0} /\ Workers \in Nat \ {0} /\ QueueSize \in Nat
  /\ CtxDeadline \subseteq Calls
  /\ WithMWs \in BOOLEAN /\ MaxFaults \in Nat
  /\ NoSub \notin Servers \X {SvcOf[m] : m \in Methods} \X (1..Attempts)

Svcs == {SvcOf[m] : m \in Methods}

\* Subscriptions, by the ServerConn and service they are for.
Subs == Servers \X Svcs \X (1..Attempts)
Owner(u) == u[1]
Service(u) == u[2]

VARIABLES
  \* ServerConn
  srv,         \* open; closing: closed is set, Close holds mu; closed
  svcSub,      \* the field subs
  methods,     \* the method map made with each subscription
  reg,         \* registHandler in Flush: its subscription and handler, {} if none
  subState,    \* nats.Subscription
  task,        \* what has become of a call's request at a subscription
  expired,     \* tasks whose context is done
  \* nats
  onBroker,    \* subscriptions nats-server knows
  net,         \* requests published and not handed over yet
  inbox,       \* replies on their way to a call
  \* ClientConn
  call, result,
  late,        \* calls past their deadline
  \* history
  registered,  \* what RegistHandler last registered successfully
  ran,         \* how often a handler was started for the call
  outcome,     \* what that handler did
  nReply,      \* replies published for the call
  faults

srvVars  == <<srv, svcSub, methods, reg, subState, registered>>
taskVars == <<task, expired, ran, outcome>>
netVars  == <<onBroker, net, inbox, nReply>>
cliVars  == <<call, result, late>>
vars     == <<srvVars, taskVars, netVars, cliVars, faults>>

Fault == faults < MaxFaults /\ faults' = faults + 1

\* Errors of type *RPCError, by their code: those of the library and a user's own.
\* A handler may return each: the error of a call it made itself, for example.
RpcErrors == {"MethodNotFound", "DecodeRequestError", "EncodeResponseError",
              "EncodeRequestError", "DecodeResponseError", "AppCode"}
Response  == [type : {"RpcErr"}, code : RpcErrors]
               \cup [type : {"Output", "Err"}, code : {"none"}]
\* What leaves no response: a panic of the handler, a nil output, on which
\* AssertOutputType panics, an error whose text the response cannot hold (not
\* UTF-8), and so cannot be marshaled.
Unanswered == {"panic", "nil", "not UTF-8"}
Results   == RpcErrors \cup {"none", "Output", "Err", "CtxErr"}
\* What a handler did, a *RPCError by its code.
Outcomes  == {"none", "output", "badOutput", "error"} \cup RpcErrors \cup Unanswered

-----------------------------------------------------------------------------
(***************************************************************************)
(* Registration                                                            *)
(***************************************************************************)
\* What RegistHandler is called with: a function, or nil to deregister.
Handlers == {"fn", "nil"}

\* RPCServerWithMWs.RegistHandler: each middleware makes a handler of the one it
\* is given, be that nil.
WrapMWs(h) == IF WithMWs /\ h = "nil" THEN "mw(nil)" ELSE h

MuFree_Unlocked(s) == TRUE
\* mu.Lock() does not block.
MuFree(s) == srv[s] # "closing" /\ \A m \in Methods : reg[s][m] = {}

\* methodMap.Regist in the method map of u: a nil handler is deleted.
Regist(u, m, h) ==
  /\ methods' = [methods EXCEPT ![u][m] = WrapMWs(h)]
  /\ registered' = [registered EXCEPT ![Owner(u)][m] = h]

\* Unsubscribe the subscriptions U; nats.go drops what is pending for them.
Unsubscribe(U) ==
  /\ subState' = [u \in Subs |-> IF u \in U THEN "gone" ELSE subState[u]]
  /\ task' = [u \in Subs |-> [c \in Calls |->
                 IF u \in U /\ task[u][c] = "pend" THEN "dropped" ELSE task[u][c]]]

\* The service of m is subscribed already: Regist only.  A call on a closed
\* ServerConn returns ErrClosed and changes nothing.
RegistMore(s, m, h) ==
  LET u == svcSub[s][SvcOf[m]]
  IN  /\ MuFree(s) /\ srv[s] = "open" /\ u # NoSub
      /\ Regist(u, m, h)
      /\ UNCHANGED <<srv, svcSub, reg, subState, taskVars, netVars, cliVars, faults>>

\* First method of a service: QueueSubscribe with an empty method map, then
\* Flush with mu held.  (When QueueSubscribe fails nothing changes.)
RegistFirst(s, m, h) ==
  /\ MuFree(s) /\ srv[s] = "open" /\ svcSub[s][SvcOf[m]] = NoSub
  /\ reg[s][m] = {}
  /\ \E u \in {s} \X {SvcOf[m]} \X (1..Attempts) :
       /\ subState[u] = "none"
       /\ \A w \in Subs : w[1] = u[1] /\ w[2] = u[2] /\ w[3] < u[3] => subState[w] # "none"
       /\ subState' = [subState EXCEPT ![u] = "flush"]
       /\ reg' = [reg EXCEPT ![s][m] = {<<u, h>>}]
  /\ UNCHANGED <<srv, svcSub, methods, registered, taskVars, netVars, cliVars, faults>>

\* The subscription is on nats-server.
Flushed(u) == u \in onBroker

\* Flush succeeds; store the subscription and its method map, then Regist.
FlushDone(s, m) ==
  /\ \E u \in Subs, h \in Handlers :
       /\ <<u, h>> \in reg[s][m]
       /\ Flushed(u)
       /\ subState' = [subState EXCEPT ![u] = "active"]
       /\ svcSub' = [svcSub EXCEPT ![s][SvcOf[m]] = u]
       /\ Regist(u, m, h)
  /\ reg' = [reg EXCEPT ![s][m] = {}]
  /\ UNCHANGED <<srv, taskVars, netVars, cliVars, faults>>

UnsubOnError_Omitted(U) == UNCHANGED <<subState, task>>
UnsubOnError(U) == Unsubscribe(U)

\* Flush fails.
FlushFail(s, m) ==
  /\ reg[s][m] # {} /\ Fault
  /\ UnsubOnError({uh[1] : uh \in reg[s][m]})
  /\ reg' = [reg EXCEPT ![s][m] = {}]
  /\ UNCHANGED <<srv, svcSub, methods, registered, expired, ran, outcome,
                 netVars, cliVars>>

\* Close with mu held: closed = true and runner.Close().
CloseBegin(s) ==
  /\ MuFree(s) /\ srv[s] = "open"
  /\ srv' = [srv EXCEPT ![s] = "closing"]
  /\ UNCHANGED <<svcSub, methods, reg, subState, registered, taskVars, netVars,
                 cliVars, faults>>

\* Then unsubscribe all and return.
CloseEnd(s) ==
  /\ srv[s] = "closing"
  /\ srv' = [srv EXCEPT ![s] = "closed"]
  /\ Unsubscribe({svcSub[s][v] : v \in Svcs})
  /\ UNCHANGED <<svcSub, methods, reg, registered, expired, ran, outcome,
                 netVars, cliVars, faults>>

-----------------------------------------------------------------------------
(***************************************************************************)
(* nats                                                                    *)
(***************************************************************************)
\* nats-server learns of a subscription, or of its end.
SubArrives(u) ==
  /\ subState[u] = "flush" /\ u \notin onBroker
  /\ onBroker' = onBroker \cup {u}
  /\ UNCHANGED <<srvVars, taskVars, net, inbox, nReply, cliVars, faults>>

UnsubArrives(u) ==
  /\ subState[u] = "gone" /\ u \in onBroker
  /\ onBroker' = onBroker \ {u}
  /\ UNCHANGED <<srvVars, taskVars, net, inbox, nReply, cliVars, faults>>

\* The subscriptions a request for c may go to.
Candidates(c) == {u \in onBroker : Service(u) = SvcOf[Target[c]]}

\* One subscription of the group gets a request.
OneOf(U) == {{u} : u \in U}

\* nats hands a request over.  It is lost if there is no subscription, or none
\* any more at the ServerConn.
Route(c) ==
  /\ c \in net
  /\ net' = net \ {c}
  /\ IF Candidates(c) = {}
     THEN UNCHANGED task
     ELSE \E U \in OneOf(Candidates(c)) :
            task' = [u \in Subs |-> IF u \in U
                       THEN [task[u] EXCEPT ![c] = IF subState[u] = "gone" THEN "dropped" ELSE "pend"]
                       ELSE task[u]]
  /\ UNCHANGED <<srvVars, expired, ran, outcome, onBroker, inbox, nReply, cliVars, faults>>

\* A request or the replies to a call get lost.
Lose(c) ==
  /\ c \in net \/ inbox[c] # {}
  /\ Fault
  /\ net' = net \ {c}
  /\ inbox' = [inbox EXCEPT ![c] = {}]
  /\ UNCHANGED <<srvVars, taskVars, onBroker, nReply, cliVars>>

-----------------------------------------------------------------------------
(***************************************************************************)
(* Handling of a request                                                   *)
(***************************************************************************)
\* replyError: the type of the error decides on the response.
ReplyError_NoCode(e) ==
  [type |-> IF e \in RpcErrors THEN "RpcErr" ELSE "Err", code |-> "none"]
ReplyError_Untyped(e) == [type |-> "Err", code |-> "none"]
ReplyError(e) ==
  IF e \in RpcErrors THEN [type |-> "RpcErr", code |-> e]
                     ELSE [type |-> "Err", code |-> "none"]

\* Publish the responses R to the request of c.
Reply(c, R) ==
  /\ inbox' = [inbox EXCEPT ![c] = @ \cup R]
  /\ nReply' = [nReply EXCEPT ![c] = @ + Cardinality(R)]
  /\ UNCHANGED <<onBroker, net>>

\* Tasks of ServerConn s in state st.
Tasks(s, st) == {uc \in Subs \X Calls : Owner(uc[1]) = s /\ task[uc[1]][uc[2]] = st}

InRunner(s) == Cardinality(Tasks(s, "queued") \cup Tasks(s, "run"))

\* runner.Submit accepts a task, or refuses it: it is closed, or full, its queue
\* being of any length up to QueueSize.
Accepts(s) == srv[s] = "open" /\ InRunner(s) < Workers + QueueSize
Refuses(s) == srv[s] # "open" \/ InRunner(s) >= Workers

\* msgHandler: submit the task, or reply that it could not be (not a *RPCError).
Submit(u, c) ==
  /\ task[u][c] = "pend"
  /\ \/ /\ Accepts(Owner(u))
        /\ task' = [task EXCEPT ![u][c] = "queued"] /\ UNCHANGED netVars
     \/ /\ Refuses(Owner(u))
        /\ task' = [task EXCEPT ![u][c] = "done"]
        /\ Reply(c, {ReplyError("submit task error")})
  /\ UNCHANGED <<srvVars, expired, ran, outcome, cliVars, faults>>

\* A worker takes the task.
Begins(u, c) == task[u][c] = "queued" /\ Cardinality(Tasks(Owner(u), "run")) < Workers

\* No such method, or a request that cannot be decoded.
TaskRefused(u, c) ==
  /\ Begins(u, c)
  /\ \E e \in {"MethodNotFound", "DecodeRequestError"} :
       /\ (e = "MethodNotFound") <=> (methods[u][Target[c]] = "nil")
       /\ Reply(c, {ReplyError(e)})
  /\ task' = [task EXCEPT ![u][c] = "done"]
  /\ UNCHANGED <<srvVars, expired, ran, outcome, cliVars, faults>>

\* A handler made of nil by a middleware panics; the panic is recovered.
TaskNil(u, c) ==
  /\ Begins(u, c) /\ methods[u][Target[c]] = "mw(nil)"
  /\ task' = [task EXCEPT ![u][c] = "done"]
  /\ outcome' = [outcome EXCEPT ![c] = "panic"]
  /\ UNCHANGED <<srvVars, expired, ran, netVars, cliVars, faults>>

\* The handler is called.
TaskStart(u, c) ==
  /\ Begins(u, c) /\ methods[u][Target[c]] = "fn"
  /\ task' = [task EXCEPT ![u][c] = "run"]
  /\ ran' = [ran EXCEPT ![c] = @ + 1]
  /\ UNCHANGED <<srvVars, expired, outcome, netVars, cliVars, faults>>

Expires_NoTimeout(c) == FALSE
\* The context of the handler of c ends.  The request carries what was left of
\* the deadline when it was made, so that is later than the deadline of c.
Expires(c) == c \in late

TaskExpires(u, c) ==
  /\ task[u][c] = "run" /\ Expires(c) /\ <<u, c>> \notin expired
  /\ expired' = expired \cup {<<u, c>>}
  /\ UNCHANGED <<srvVars, task, ran, outcome, netVars, cliVars, faults>>

Answer_NoReturn(o) ==
  {[type |-> "Output", code |-> "none"]} \cup
    IF o = "output" THEN {} ELSE {ReplyError(o)}
\* What is replied when the handler has returned an output, an output of a wrong
\* type or that cannot be encoded, or an error, whose code is passed on as it is.
Answer(o) ==
  CASE o = "output"    -> {[type |-> "Output", code |-> "none"]}
    [] o = "badOutput" -> {ReplyError("EncodeResponseError")}
    [] o \in RpcErrors \cup {"error"} -> {ReplyError(o)}
    [] o \in Unanswered -> {}

\* The handler returns; what it returns is replied, if it can be.
HandlerEnd(u, c) ==
  /\ task[u][c] = "run"
  /\ \E o \in Outcomes \ {"none"} :
       /\ outcome' = [outcome EXCEPT ![c] = o]
       /\ Reply(c, Answer(o))
  /\ task' = [task EXCEPT ![u][c] = "done"]
  /\ expired' = expired \ {<<u, c>>}
  /\ UNCHANGED <<srvVars, ran, cliVars, faults>>

-----------------------------------------------------------------------------
(***************************************************************************)
(* ClientConn                                                              *)
(***************************************************************************)
End(c, r) == call' = [call EXCEPT ![c] = "done"] /\ result' = [result EXCEPT ![c] = r]

\* The input has a wrong type or cannot be encoded, or no time is left: the call
\* returns without a request.
CallRefused(c) ==
  /\ call[c] = "idle"
  /\ call' = [call EXCEPT ![c] = "unsent"]
  /\ \E r \in {"EncodeRequestError", "CtxErr"} : result' = [result EXCEPT ![c] = r]
  /\ UNCHANGED <<late, srvVars, taskVars, netVars, faults>>

\* The request is published.
Call(c) ==
  /\ call[c] = "idle"
  /\ call' = [call EXCEPT ![c] = "sent"]
  /\ net' = net \cup {c}
  /\ UNCHANGED <<result, late, srvVars, taskVars, onBroker, inbox, nReply, faults>>

WithDeadline_CtxOnly == CtxDeadline
\* Calls with a deadline: cc.timeout from now where the context has none.
WithDeadline == CtxDeadline \cup (Calls \ CtxDeadline)

DeadlinePasses(c) ==
  /\ call[c] \in {"sent", "done"} /\ c \in WithDeadline \ late
  /\ late' = late \cup {c}
  /\ UNCHANGED <<call, result, srvVars, taskVars, netVars, faults>>

\* RequestWithContext returns the error of the context, which may also have been
\* cancelled.
CtxErr(c) ==
  /\ call[c] = "sent"
  /\ End(c, "CtxErr")
  /\ UNCHANGED <<late, srvVars, taskVars, netVars, faults>>

\* What the response r makes the call return.
FromResponse(r) ==
  CASE r.type = "Output" -> {"Output", "DecodeResponseError"}
    [] r.type = "RpcErr" -> {r.code}
    [] r.type = "Err"    -> {"Err"}

\* RequestWithContext returns a response; nobody waits for a later one.
Receive(c) ==
  /\ call[c] = "sent"
  /\ \E r \in inbox[c] : \E res \in FromResponse(r) : End(c, res)
  /\ inbox' = [inbox EXCEPT ![c] = {}]
  /\ UNCHANGED <<late, srvVars, taskVars, onBroker, net, nReply, faults>>

-----------------------------------------------------------------------------
Init ==
  /\ srv = [s \in Servers |-> "open"]
  /\ svcSub = [s \in Servers |-> [v \in Svcs |-> NoSub]]
  /\ methods = [u \in Subs |-> [m \in Methods |-> "nil"]]
  /\ reg = [s \in Servers |-> [m \in Methods |-> {}]]
  /\ subState = [u \in Subs |-> "none"]
  /\ task = [u \in Subs |-> [c \in Calls |-> "none"]] /\ expired = {}
  /\ onBroker = {} /\ net = {} /\ inbox = [c \in Calls |-> {}]
  /\ call = [c \in Calls |-> "idle"] /\ result = [c \in Calls |-> "none"]
  /\ late = {}
  /\ registered = [s \in Servers |-> [m \in Methods |-> "nil"]]
  /\ ran = [c \in Calls |-> 0] /\ outcome = [c \in Calls |-> "none"]
  /\ nReply = [c \in Calls |-> 0] /\ faults = 0

RegistHandler(s, m) ==
  \/ \E h \in Handlers : RegistFirst(s, m, h) \/ RegistMore(s, m, h)
  \/ FlushDone(s, m) \/ FlushFail(s, m)

Broker == \/ \E u \in Subs : SubArrives(u) \/ UnsubArrives(u)
          \/ \E c \in Calls : Route(c) \/ Lose(c)

Worker(u, c) == TaskRefused(u, c) \/ TaskNil(u, c) \/ TaskStart(u, c)

Client(c) == CallRefused(c) \/ Call(c) \/ DeadlinePasses(c) \/ CtxErr(c) \/ Receive(c)

\* Every call has returned and every ServerConn is closed.
Terminated ==
  /\ \A s \in Servers : srv[s] = "closed"
  /\ \A c \in Calls : call[c] \in {"done", "unsent"}
  /\ UNCHANGED vars

Next ==
  \/ \E s \in Servers : CloseBegin(s) \/ CloseEnd(s)
  \/ \E s \in Servers, m \in Methods : RegistHandler(s, m)
  \/ Broker
  \/ \E u \in Subs, c \in Calls :
       Submit(u, c) \/ Worker(u, c) \/ TaskExpires(u, c) \/ HandlerEnd(u, c)
  \/ \E c \in Calls : Client(c)
  \/ Terminated

(***************************************************************************)
(* Fairness: goroutines run, timers fire, and a handler returns once its   *)
(* context is done.  It need not return before; servers need not be closed *)
(* or methods registered; and messages may be lost, MaxFaults at most.     *)
(***************************************************************************)
Fairness ==
  /\ \A u \in Subs, c \in Calls :
       /\ WF_vars(Submit(u, c)) /\ WF_vars(Worker(u, c)) /\ WF_vars(TaskExpires(u, c))
       /\ WF_vars(<<u, c>> \in expired /\ HandlerEnd(u, c))
  /\ \A c \in Calls :
       WF_vars(DeadlinePasses(c)) /\ WF_vars(c \in late /\ CtxErr(c))

Spec == Init /\ [][Next]_vars
FairSpec == Spec /\ Fairness

-----------------------------------------------------------------------------
(***************************************************************************)
(* Safety                                                                  *)
(***************************************************************************)
\* Type invariant of natsrpc's ServerConns and calls, and of nats.
TypeOK ==
  /\ srv \in [Servers -> {"open", "closing", "closed"}]
  /\ svcSub \in [Servers -> [Svcs -> Subs \cup {NoSub}]]
  /\ methods \in [Subs -> [Methods -> Handlers \cup {"mw(nil)"}]]
  /\ reg \in [Servers -> [Methods -> SUBSET (Subs \X Handlers)]]
  /\ subState \in [Subs -> {"none", "flush", "active", "gone"}]
  /\ task \in [Subs -> [Calls -> {"none", "pend", "dropped", "queued", "run", "done"}]]
  /\ expired \subseteq Subs \X Calls
  /\ onBroker \subseteq Subs /\ net \subseteq Calls
  /\ inbox \in [Calls -> SUBSET Response]
  /\ call \in [Calls -> {"idle", "sent", "done", "unsent"}] /\ result \in [Calls -> Results]
  /\ late \subseteq Calls
  /\ registered \in [Servers -> [Methods -> Handlers]]
  /\ ran \in [Calls -> Nat] /\ outcome \in [Calls -> Outcomes]
  /\ nReply \in [Calls -> Nat] /\ faults \in Nat

\* At most once: a request is handled by one ServerConn of the group, and once,
\* and answered once, whatever way through msgHandler and its task it takes.
AtMostOnce == \A c \in Calls : ran[c] <= 1 /\ nReply[c] <= 1

\* Once RegistHandler has returned, and until the method is deregistered or the
\* ServerConn closed, nats-server knows the subscription of the service (that is
\* what Flush is for) and the method map of that subscription has the method,
\* concurrent registrations of other methods of the service notwithstanding.
RegisteredReachable ==
  \A s \in Servers, m \in Methods :
    srv[s] = "open" /\ registered[s][m] = "fn" =>
      LET u == svcSub[s][SvcOf[m]]
      IN  u # NoSub /\ u \in onBroker /\ subState[u] = "active" /\ methods[u][m] = "fn"

\* No subscription is left behind: one that exists is in the field subs of a
\* ServerConn that is not closed, or being flushed.
NoneOrphaned ==
  \A u \in Subs :
    \/ subState[u] \in {"none", "gone"}
    \/ subState[u] = "active" /\ svcSub[Owner(u)][Service(u)] = u /\ srv[Owner(u)] # "closed"
    \/ subState[u] = "flush" /\ srv[Owner(u)] = "open"
         /\ \E m \in Methods, h \in Handlers : <<u, h>> \in reg[Owner(u)][m]

\* What a call returns is what happened to it at a server: an output only if its
\* handler returned one, an error with the type and code it was given there.  A
\* code of the library does not say who gave it: natsrpc at this call, which is
\* then not handled (MethodNotFound, DecodeRequestError), not sent
\* (EncodeRequestError) or handled with an output that is lost on the way, or the
\* handler, with the error of a call of its own, say.
HonestResult ==
  \A c \in Calls :
    /\ result[c] = "Output" => outcome[c] = "output"
    /\ result[c] = "Err" => outcome[c] = "error" \/ ran[c] = 0
    /\ result[c] \in RpcErrors =>
         \/ outcome[c] = result[c]
         \/ result[c] \in {"MethodNotFound", "DecodeRequestError"} /\ ran[c] = 0
         \/ result[c] = "EncodeResponseError" /\ outcome[c] = "badOutput"
         \/ result[c] = "DecodeResponseError" /\ outcome[c] = "output"
         \/ result[c] = "EncodeRequestError" /\ call[c] = "unsent" /\ ran[c] = 0

\* natsrpc implements a remote call: what becomes of a call at the servers is
\* settled once, by at most one handler or a refusal; what the caller is told
\* agrees with it, then and for ever after, and is told once.  A call natsrpc
\* refused is never handled later, nor is one that was not sent; but one that looks
\* refused may have been handled, by a handler that passed such an error on.
Fate(c) ==
  CASE outcome[c] \in Unanswered                            -> "lost"
    [] outcome[c] \notin Unanswered \cup {"none"}            -> outcome[c]
    [] outcome[c] = "none" /\ ran[c] > 0                     -> "run"
    [] outcome[c] = "none" /\ ran[c] = 0 /\ nReply[c] > 0    -> "refused"
    [] OTHER                                                 -> "none"

RC == INSTANCE RemoteCall WITH
  sent   <- {c \in Calls : call[c] \in {"sent", "done"}},
  fate   <- [c \in Calls |-> Fate(c)]

ImplementsRemoteCall == RC!Spec

\* What the comment on RPCServer.RegistHandler says, "deregist it otherwise":
\* after RegistHandler(spec, nil) a method is not in the method map.
DeregistRemoves ==
  \A s \in Servers, m \in Methods :
    registered[s][m] = "nil" /\ svcSub[s][SvcOf[m]] # NoSub =>
      methods[svcSub[s][SvcOf[m]]][m] = "nil"

-----------------------------------------------------------------------------
(***************************************************************************)
(* Liveness, under FairSpec                                                *)
(***************************************************************************)
\* Every call returns, even if no server has the method, its request or reply is
\* lost, or its handler panics or never returns of its own accord.
CallReturns == \A c \in Calls : call[c] = "sent" ~> call[c] = "done"

\* Every request msgHandler is to take is answered, unless its handler leaves no
\* response or Close drops it before: a runner that is busy, full or closed does not
\* swallow it, nor does a worker blocked in the handler of a call long given up.
RequestAnswered ==
  \A u \in Subs, c \in Calls :
    task[u][c] = "pend" ~> (nReply[c] > 0 \/ outcome[c] \in Unanswered \/ task[u][c] = "dropped")
=============================================================================
