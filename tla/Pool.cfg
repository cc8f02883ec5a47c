SPECIFICATION FairSpec
CONSTANTS
  u1 = u1  u2 = u2  u3 = u3
  Clients <- ThreeClients
  None = None
  initialSize = 1
  maxPoolSize = 2
  maxConnections = 2
  maxIdleTime = 1
  MaxCreated = 4
  MaxTime = 2
INVARIANTS
  OneUserEach
  CapMissedByFew
  CountCoversUsers
PROPERTIES
  ExpiredGo
CHECK_DEADLOCK FALSE
