CONSTANTS
  SendMax = 2
  MaxText = 3
  MaxBytes = 9
  AppendWhileDraining = FALSE
SPECIFICATION FairSpec
CHECK_DEADLOCK FALSE
INVARIANTS
  ReadsInside
  SentInOrder
PROPERTIES
  ImplementsStream
  Drains
