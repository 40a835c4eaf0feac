CONSTANTS
  Args <- MCArgs
  Dirs0 <- MCDirs
  Kept <- MCKept
  MaxPath = 8
  MaxMade = 1
SPECIFICATION Spec
INVARIANTS
  WdirServed
  ChangeMeant
  EntersReal
  ListedOpens
  ListedEntered
  AbsoluteAgrees
