SPECIFICATION ServiceFairSpec
CONSTANTS
  t1 = t1  t2 = t2  c1 = c1  w1 = w1
  Threads <- TwoThreads
  Conns <- OneConn
  WsConns <- OneWsConn
  None = None
  Listener = Listener
  Nobody = Nobody
  LogsAddress = TRUE
  MaxQueries = 2
INVARIANTS
  SessionExclusive
  AlwaysAccepting
  CoroutinesExclusive
  ServiceTypeOK
PROPERTIES
  Answered
  ThreadsLeave
  WsAnswered
CHECK_DEADLOCK FALSE
