SPECIFICATION WebSocketFairSpec
CONSTANTS
  Known = {"known"}
  Unknown = {"unknown"}
  Window = 2
  MaxMessages = 3
INVARIANTS
  WebSocketTypeOK
PROPERTIES
  MessagesImplementQueryService
  EveryMessageAnswered
  SessionEnds
CHECK_DEADLOCK FALSE
