SPECIFICATION FairSpec
CONSTANTS
  p1 = p1  p2 = p2  p3 = p3
  Producers <- TwoProducers
  Reader = Reader
  None = None
  Size = 2
  MaxLines = 3
  MaxBuffers = 4
INVARIANTS
  QueueInv
PROPERTIES
  DeliveryUnlessFreed
CHECK_DEADLOCK FALSE
