------------------------------ MODULE MCStanMsg ------------------------------
(***************************************************************************)
(* Instances of StanMsg for TLC.                                           *)
(***************************************************************************)
EXTENDS StanMsg, TLC

CONSTANTS c1, c2, p1, p2, k1, m1, d1, d2

TwoConns == {c1, c2}
OneProc  == {p1}
TwoProcs == {p1, p2}
OneKey   == {k1}
OneMsg   == {m1}
OneDel   == {d1}
TwoDels  == {d1, d2}

\* Connections, goroutine names and names of deliveries are interchangeable.
Symmetry == Permutations(TwoConns) \cup Permutations(TwoProcs)
              \cup Permutations(TwoDels)
=============================================================================
