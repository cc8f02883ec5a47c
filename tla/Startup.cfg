SPECIFICATION StartupSpec
CONSTANTS
  NoText = NoText
  NoPort = NoPort
  Args <- Spellings
  Cores = 2
  MaxArgs = 4
  Databases <- MCDatabases
  Ephemeral <- MCEphemeral
  MaxThreads = 3
INVARIANTS
  ParsesAsSpelled
  ServesWhatItBound
CHECK_DEADLOCK FALSE
