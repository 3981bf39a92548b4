SPECIFICATION MsgFairSpec
CONSTANTS
  c1 = c1
  c2 = c2
  p1 = p1
  p2 = p2
  k1 = k1
  m1 = m1
  d1 = d1
  d2 = d2
  NoConn = NoConn
  Conns <- TwoConns
  Procs <- OneProc
  Keys <- OneKey
  Msgs <- OneMsg
  Traced <- OneMsg
  Dels <- OneDel
  MaxFaults = 0
  MaxTasks = 1
  MaxDrops = 1
PROPERTIES
  CallbackComes
  HandledAtLeastOnce
