SPECIFICATION FairSpec
CONSTANTS
  p1 = p1  p2 = p2  p3 = p3
  Producers <- TwoProducers
  Reader = Reader
  None = None
  Size = 2
  Wrap = 3
  MaxLines = 3
INVARIANTS
  DrainedUnlessDropped
  TakenWhole
PROPERTIES
  InOrderUntilLapped
  ImplementsLossyLog
  PushEnds
CHECK_DEADLOCK FALSE
