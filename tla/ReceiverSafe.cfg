SPECIFICATION Spec
CONSTANTS
  a = a
  b = b
  NoFile = NoFile
  NFiles = 3
  Chunk <- MCChunk
  Source <- Entries
  Regular = {0, 2}
  Disks <- TwoDisks
  SameTime = {2}
  Edits <- MCEdits
  OutCap = 1
  InCap = 1
  Sessions <- AllSessions
  Faults <- AllFaults
INVARIANTS TypeOK InSync SuccessIsQuiet OnlyAnAbandonedReadHangs
PROPERTIES VerifiedIsStored NoPartialCommit Delivers
CHECK_DEADLOCK FALSE
