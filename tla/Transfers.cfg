CONSTANTS
  MAX_USERS = 1
  MAX_DATACHANNELS = 2
  Sockets = {1, 2, 3, 4}
  Commands = {"LIST", "RETR", "STOR", "PORT", "PASV", "QUIT", "NOOP"}
  MaxInbox = 1
  MaxBacklog = 1
  LowestFirst = FALSE
  Faults = {"hangup", "cut", "abort"}
SPECIFICATION FairSpecKnocking
CHECK_DEADLOCK FALSE
INVARIANTS
  TypeOK
  HandlesFit
  SlotsInv
  NoUseAfterFree
PROPERTIES
  DelayedRuns
  WaitEnds
  HangupNoticed
