------------------------------- MODULE Outbox -------------------------------
(***************************************************************************)
(* What binlogmsg promises, as a transactional outbox: only messages whose *)
(* transaction committed reach the downstream, and a message is removed    *)
(* from its table only after the downstream has it.                        *)
(***************************************************************************)
CONSTANT Msgs

VARIABLES
  committed,  \* messages whose transaction has committed
  delivered,  \* messages the downstream has
  removed     \* messages removed from the table

vars == <<committed, delivered, removed>>

\* A transaction commits some messages.
Commit ==
  /\ \E S \in SUBSET Msgs : committed' = committed \cup S
  /\ UNCHANGED <<delivered, removed>>

\* Committed messages reach the downstream.
Deliver ==
  /\ \E S \in SUBSET committed : delivered' = delivered \cup S
  /\ UNCHANGED <<committed, removed>>

\* A message the downstream has is removed.
Remove ==
  /\ \E m \in delivered : removed' = removed \cup {m}
  /\ UNCHANGED <<committed, delivered>>

Init == committed = {} /\ delivered = {} /\ removed = {}
Next == Commit \/ Deliver \/ Remove
Spec == Init /\ [][Next]_vars
=============================================================================
