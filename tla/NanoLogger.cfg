SPECIFICATION FairSpec
CONSTANTS
  w1 = w1  w2 = w2
  Workers <- OneWorker
  Main = Main
  NoLine = NoLine
  Quiet <- SomeQuiet
  Echo = TRUE
  MaxLines = 2
  MaxDays = 2
  MaxTroubles = 1
INVARIANTS
  NothingLostAtExit
  InfoIsDurable
  TeeAgrees
  StampsFollowFiles
PROPERTIES
  ShutdownCompletes
CHECK_DEADLOCK FALSE
