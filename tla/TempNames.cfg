CONSTANTS
  Args <- TempArgs
  Dirs0 <- MCDirs
  Kept <- MCKept
  MaxPath = 8
  MaxMade = 1
SPECIFICATION Spec
INVARIANT
  TempEntered
