SPECIFICATION Spec
CONSTANTS
  r1 = r1
  r2 = r2
  r3 = r3
  NoRow = NoRow
  Rows <- ThreeRows
  MsgRows <- TwoRows
  MaxInflight = 1
  MaxFaults = 2
SYMMETRY TwoRowSymmetry
INVARIANTS
  TypeOK
  CallbacksSafe
  DumpsMeet
  RunEndsClean
PROPERTIES
  ImplementsOutbox
