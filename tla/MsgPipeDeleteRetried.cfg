SPECIFICATION FairSpec
CONSTANTS
  r1 = r1
  r2 = r2
  r3 = r3
  NoRow = NoRow
  Rows <- TwoRows
  MsgRows <- TwoRows
  MaxInflight = 1
  MaxFaults = 1
PROPERTIES
  EventuallyRemoved
