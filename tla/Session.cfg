SPECIFICATION Session
CONSTANTS
  Sizes = {1, 2, 3, 5}
  Span = 4
  MaxMessage = 2
  Buffers = {1, 2}
  Greetings = {1, 2}
  Roles = {"sender", "receiver"}
  Scripts <- MCScripts
  MaxWritten = 3
  ErrorSize = 1
INVARIANTS TypeOK StaysFramed LargeBufferIsEnough FailureIsHeard DeletionIsSafe
PROPERTIES CarriesTheStream BothEnd
CHECK_DEADLOCK FALSE
