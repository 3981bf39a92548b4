SPECIFICATION FairSpec
CONSTANTS
  c1 = c1
  c2 = c2
  c3 = c3
  p1 = p1
  p2 = p2
  k1 = k1
  k2 = k2
  NoConn = NoConn
  Conns <- ThreeConns
  Procs <- TwoProcs
  Keys <- TwoKeys
  MaxFaults = 1
INVARIANTS
  TypeOK
  OneInCharge
  ConnectionsEnd
  Subscribed
PROPERTIES
  Durable
  CloseReturns
