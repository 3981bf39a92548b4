SPECIFICATION Spec
CONSTANTS
  s1 = s1
  s2 = s2
  m1 = m1
  m2 = m2
  v1 = v1
  c1 = c1
  c2 = c2
  NoSub = NoSub
  Servers <- TwoServers
  Methods <- TwoMethods
  SvcOf <- OneSvc
  Calls <- OneCall
  Target <- OneTarget
  CtxDeadline <- NoCalls
  Attempts = 2
  Workers = 1
  QueueSize = 0
  WithMWs = FALSE
  MaxFaults = 2
SYMMETRY Symmetry
INVARIANTS
  TypeOK
  AtMostOnce
  RegisteredReachable
  NoneOrphaned
PROPERTIES
  ImplementsRemoteCall
