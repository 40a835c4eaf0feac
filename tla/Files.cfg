CONSTANTS
  Sessions = {s1, s2}
  Files = {f}
  Handles = {1, 2}
  BLOCK = 2
  MaxLen = 2
  MaxRest = 1
  Resuming = {s1}
  Rough = {s2}
  Faults = {"size", "unasked", "again", "cut", "short", "fin", "reset"}
SPECIFICATION FairSpec
INVARIANTS
  TypeOK
  HFileLive
  Answered
PROPERTIES
  DownloadExact
  UploadStored
  FilesFreed
