------------------------------ MODULE MCDurConn ------------------------------
(***************************************************************************)
(* Instances of DurConn for TLC.                                           *)
(***************************************************************************)
EXTENDS DurConn, TLC

CONSTANTS c1, c2, c3, p1, p2, k1, k2

TwoConns   == {c1, c2}
ThreeConns == {c1, c2, c3}
TwoProcs   == {p1, p2}
TwoKeys    == {k1, k2}

\* Connections, goroutine names and keys are interchangeable.
Symmetry == Permutations(ThreeConns) \cup Permutations(TwoProcs)
              \cup Permutations(TwoKeys)
=============================================================================
