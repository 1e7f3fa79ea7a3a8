SPECIFICATION Spec
CONSTANTS
  m1 = m1
  m2 = m2
  m3 = m3
  Texts = {1, 2, 3}
  Wrong = {3}
  CwMaxWrites = 3
  Calls = {}
  AgentCalls = {}
  EventCap = 1
  MaxAttempts = 1
  MaxConns = 2
  Messages <- MCMessages
  UserOf <- MCUserOf
  TaskOf <- MCTaskOf
  NoUser = NoUser
  Ping = Ping
  Permits = 1
  Rpm = 2
  RateWindow = 2
  DedupWindow = 1
  RecentCap = 1
  MaxTime = 2
INVARIANTS
  InboundInHand
PROPERTIES
  QuietFileIsLoaded
  EveryInboundEnds
CHECK_DEADLOCK FALSE
