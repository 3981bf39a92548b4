----------------------------- MODULE DurableQueue -----------------------------
(***************************************************************************)
(* What stanmsg promises, abstractly: a message is stored once, for some   *)
(* of the queues; publishers are told so only then; each of these queues   *)
(* owes it until a handler has succeeded on it, which may happen more than *)
(* once (src/msg/subscriber.go: at least once delivery).                   *)
(***************************************************************************)
CONSTANTS Msgs, Keys

VARIABLES
  stored,     \* messages the server has
  confirmed,  \* those whose publisher knows
  due, owed,  \* per queue: messages stored for it, and not forgotten yet
  handled     \* per queue: those a handler has succeeded on

vars == <<stored, confirmed, due, owed, handled>>

Init ==
  /\ stored = {} /\ confirmed = {}
  /\ due = [k \in Keys |-> {}] /\ owed = [k \in Keys |-> {}]
  /\ handled = [k \in Keys |-> {}]

Store(m) ==
  /\ m \notin stored /\ stored' = stored \cup {m}
  /\ \E K \in SUBSET Keys :
       /\ due' = [k \in Keys |-> IF k \in K THEN due[k] \cup {m} ELSE due[k]]
       /\ owed' = [k \in Keys |-> IF k \in K THEN owed[k] \cup {m} ELSE owed[k]]
  /\ UNCHANGED <<confirmed, handled>>

Confirm(m) ==
  /\ m \in stored
  /\ confirmed' = confirmed \cup {m}
  /\ UNCHANGED <<stored, due, owed, handled>>

Handle(m, k) ==
  /\ m \in due[k]
  /\ handled' = [handled EXCEPT ![k] = @ \cup {m}]
  /\ UNCHANGED <<stored, confirmed, due, owed>>

Forget(m, k) ==
  /\ m \in handled[k]
  /\ owed' = [owed EXCEPT ![k] = @ \ {m}]
  /\ UNCHANGED <<stored, confirmed, due, handled>>

Next ==
  \E m \in Msgs :
    \/ Store(m) \/ Confirm(m)
    \/ \E k \in Keys : Handle(m, k) \/ Forget(m, k)

Spec == Init /\ [][Next]_vars
=============================================================================
