CONSTANTS
  MAX_USERS = 1
  MAX_DATACHANNELS = 1
  Sockets = {1, 2, 3}
  Commands = {"LIST", "PASV"}
  MaxInbox = 1
  MaxBacklog = 1
  LowestFirst = TRUE
  Faults = {}
SPECIFICATION FairSpec
PROPERTY
  WaitEnds
