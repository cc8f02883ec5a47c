SPECIFICATION Spec
CONSTANTS
  p1 = p1  p2 = p2  p3 = p3
  Producers <- ThreeProducers
  Reader = Reader
  None = None
  Size = 2
  MaxLines = 2
  MaxBuffers = 4
INVARIANTS
  SlotsExclusive
  ReadsLiveBuffer
  OvershootBounded
  TypeOK
PROPERTIES
  SwitchWhenFull
  ImplementsLogQueue
CHECK_DEADLOCK FALSE
