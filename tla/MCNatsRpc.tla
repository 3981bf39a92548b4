------------------------------ MODULE MCNatsRpc ------------------------------
(***************************************************************************)
(* Instances of NatsRpc for TLC.                                           *)
(***************************************************************************)
EXTENDS NatsRpc, TLC

CONSTANTS s1, s2, m1, m2, v1, c1, c2

OneServer    == {s1}
TwoServers   == {s1, s2}
OneMethod    == {m1}
TwoMethods   == {m1, m2}
NoCalls      == {}
OneCall      == {c1}
TwoCalls     == {c1, c2}

\* All methods are of one service.
OneSvc == [m \in TwoMethods |-> v1]

\* Calls are for m1.
OneTarget  == [c \in OneCall |-> m1]
TwoTargets == [c \in TwoCalls |-> m1]

\* ServerConns, and calls for the same method, are interchangeable.
Symmetry == Permutations(TwoServers) \cup Permutations(TwoCalls)
=============================================================================
