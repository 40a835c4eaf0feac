CONSTANTS
  MAX_USERS = 2
  MAX_DATACHANNELS = 1
  Sockets = {1, 2, 3, 4, 5}
  Commands = {"STOR", "PASV"}
  MaxInbox = 1
  MaxBacklog = 1
  LowestFirst = TRUE
  Faults = {"hangup", "wild"}
SPECIFICATION Spec
CHECK_DEADLOCK FALSE
INVARIANTS
  HandlesUnshared
  HandlesOwned
  PolledCurrent
  SentBeforeWait
  DelayedWoken
PROPERTIES
  Isolation
  SessionEndsWhole
  ImplementsService
