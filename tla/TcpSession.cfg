SPECIFICATION FairSpec
CONSTANTS
  Known = {"known"}
  Unknown = {"unknown"}
  MaxQueries = 3
INVARIANTS
  TypeOK
PROPERTIES
  ImplementsQueryService
  EveryQueryAnswered
CHECK_DEADLOCK FALSE
