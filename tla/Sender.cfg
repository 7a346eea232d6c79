SPECIFICATION FairSpec
CONSTANTS
  a = a
  b = b
  z = z
  NoFile = NoFile
  Zero = z
  NFiles = 2
  Chunk <- MCChunk
  Stores <- MCStores
  Edits <- MCEdits
  MaxRequests = 2
  InCap = 1
  DryRuns = {FALSE, TRUE}
  RootSizes = {0, 2}
  RootWindow = 1
  Faults = {"open", "other", "read", "root", "edit", "crash"}
INVARIANTS TypeOK RequestsDecode RepliesDecode AnswersInOrder SumsCoverTheAnswer
PROPERTY SessionEnds
CHECK_DEADLOCK FALSE
