SPECIFICATION FairSpec
CONSTANTS
  s1 = s1
  s2 = s2
  m1 = m1
  m2 = m2
  v1 = v1
  c1 = c1
  c2 = c2
  NoSub = NoSub
  Servers <- OneServer
  Methods <- OneMethod
  SvcOf <- OneSvc
  Calls <- TwoCalls
  Target <- TwoTargets
  CtxDeadline <- NoCalls
  Attempts = 1
  Workers = 1
  QueueSize = 1
  WithMWs = TRUE
  MaxFaults = 1
PROPERTIES
  CallReturns
  RequestAnswered
