SPECIFICATION FairSpec
CONSTANTS
  a = a
  b = b
  NoFile = NoFile
  NFiles = 3
  Chunk <- MCChunk
  Source <- Entries
  Regular = {0, 2}
  Disks <- FewDisks
  SameTime = {2}
  Edits <- MCEdits
  OutCap = 2
  InCap = 1
  Sessions <- AllSessions
  Faults <- LiveFaults
PROPERTIES DoReturns EndsOnceSenderGone
CHECK_DEADLOCK FALSE
