------------------------------ MODULE MCMsgPipe ------------------------------
(***************************************************************************)
(* Instances of MsgPipe for TLC.                                           *)
(***************************************************************************)
EXTENDS MsgPipe, TLC

CONSTANTS r1, r2, r3

TwoRows   == {r1, r2}
ThreeRows == {r1, r2, r3}

\* For safety runs in which r1 and r2 are message rows and r3 is not.
TwoRowSymmetry == Permutations(TwoRows)
\* For safety runs in which all rows are message rows.
ThreeRowSymmetry == Permutations(ThreeRows)
=============================================================================
