SPECIFICATION MsgSpec
CONSTANTS
  c1 = c1
  c2 = c2
  p1 = p1
  p2 = p2
  k1 = k1
  m1 = m1
  d1 = d1
  d2 = d2
  NoConn = NoConn
  Conns <- TwoConns
  Procs <- TwoProcs
  Keys <- OneKey
  Msgs <- OneMsg
  Traced <- OneMsg
  Dels <- TwoDels
  MaxFaults = 1
  MaxTasks = 1
  MaxDrops = 2
SYMMETRY Symmetry
INVARIANTS
  MsgTypeOK
  HonestPublish
  CallbackOnce
PROPERTIES
  ImplementsQueue
