SPECIFICATION Spec
CONSTANTS
  Byte <- MCByte
  AlignBoundary = 2
  Files <- MCFiles
  Copies <- MCCopies
  BlockLengths = {2, 3}
  Modulus = 4
  ChunkSize = 4
  ReadSize = 4
  BlockSize = 3
  MaxBlockLen = 8
  Half = 16
  Shrinks = TRUE
INVARIANTS TypeOK TokensRebuildTheFile RollingIsDirect NoBlockMissed BacklogBounded WindowFaithful PanicNeedsCause UnreadableIsZeros
CHECK_DEADLOCK FALSE
