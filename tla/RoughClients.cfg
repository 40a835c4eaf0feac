CONSTANTS
  MAX_USERS = 1
  MAX_DATACHANNELS = 1
  Sockets = {1, 2, 3}
  Commands = {"LIST", "STOR", "PASV"}
  MaxInbox = 1
  MaxBacklog = 1
  LowestFirst = TRUE
  Faults = {"pipeline", "slow", "handles", "crowd"}
SPECIFICATION Spec
CHECK_DEADLOCK FALSE
INVARIANTS
  HandlesFit
  FreeSlotsClean
  WaitsOnOwnChannel
