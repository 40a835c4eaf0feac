CONSTANTS
  MAX_USERS = 1
  MAX_DATACHANNELS = 1
  Sockets = {1, 2, 3}
  Commands = {"LIST"}
  MaxInbox = 1
  MaxBacklog = 1
  LowestFirst = TRUE
  Faults = {"crowd"}
SPECIFICATION Spec
CHECK_DEADLOCK FALSE
PROPERTY
  RefusedWhenFull
