SPECIFICATION FairSpec
CONSTANTS
  p1 = p1  p2 = p2  p3 = p3
  Producers <- TwoProducers
  Reader = Reader
  None = None
  Size = 2
  MaxLines = 2
  MaxBuffers = 3
PROPERTIES
  GuaranteedDelivery
CHECK_DEADLOCK FALSE
