SPECIFICATION Spec
CONSTANTS
  Sizes <- MCSizes
  StringId = 2
  Texts <- MCTexts
  Values = {7}
  Header = 1
  StackSize = 4
  HeapSize = 6
  MaxArgs = 3
INVARIANTS
  NeverOverruns
  PrintsWhatWasLogged
CHECK_DEADLOCK FALSE
