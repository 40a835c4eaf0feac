CONSTANTS
  Sessions = {s1}
  Files = {f}
  Handles = {1}
  BLOCK = 2
  MaxLen = 3
  MaxRest = 0
  Resuming = {}
  Rough = {s1}
  Faults = {"fin"}
SPECIFICATION Spec
PROPERTY
  UploadComplete
