SPECIFICATION Spec
CONSTANTS
  a = a
  b = b
  z = z
  NoFile = NoFile
  Zero = z
  NFiles = 2
  Chunk <- MCChunk
  Stores <- MCStores
  Edits <- MCEdits
  MaxRequests = 1
  InCap = 1
  DryRuns = {FALSE}
  RootSizes = {0, 1, 2}
  RootWindow = 1
  Faults = {}
INVARIANT SearchSendsTheFile
CHECK_DEADLOCK FALSE
