SPECIFICATION LSpec
CONSTANTS
  Chars <- MCChars
  Chunks <- MCChunks
  Transform <- MCTransform
  StartIndex = 1
  MaxCalls = 5
INVARIANTS ChunkingInvisible WireOnce BlocksInTurn
CHECK_DEADLOCK FALSE
