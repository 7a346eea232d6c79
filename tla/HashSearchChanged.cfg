SPECIFICATION Spec
CONSTANTS
  Byte <- MCByte
  AlignBoundary = 2
  Files <- LongFiles
  Copies <- OneCopy
  BlockLengths = {2, 3}
  Modulus = 4
  ChunkSize = 4
  ReadSize = 4
  BlockSize = 3
  MaxBlockLen = 8
  Half = 16
  Shrinks = FALSE
INVARIANT ReadFailsOnlyIfChanged
CHECK_DEADLOCK FALSE
