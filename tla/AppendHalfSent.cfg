CONSTANTS
  SendMax = 2
  MaxText = 3
  MaxBytes = 9
  AppendWhileDraining = TRUE
SPECIFICATION Spec
CHECK_DEADLOCK FALSE
INVARIANT
  SentInOrder
