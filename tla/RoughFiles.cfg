CONSTANTS
  Sessions = {s1, s2}
  Files = {f}
  Handles = {1, 2}
  BLOCK = 3
  MaxLen = 1
  MaxRest = 0
  Resuming = {}
  Rough = {s2}
  Faults = {"size", "unasked", "again", "cut", "short", "fin", "reset", "odd", "wild"}
SPECIFICATION Spec
INVARIANT
  NoneLost
PROPERTY
  ImplementsLocks
