SPECIFICATION Spec
CONSTANTS
  p1 = p1  p2 = p2  p3 = p3
  Producers <- OneProducer
  Reader = Reader
  None = None
  Size = 2
  Wrap = 4
  MaxLines = 4
INVARIANTS
  DrainedAtShutdown
CHECK_DEADLOCK FALSE
