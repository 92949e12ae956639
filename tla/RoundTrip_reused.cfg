SPECIFICATION Spec
CONSTANTS
  MaxRounds = 3
  MaxDeltas = 0
  MaxTools = 1
  MaxLost = 0
  UniqueIDs = FALSE
  Faults = {}
  EmptyInput = EmptyInput
INVARIANTS ResultsMatchCalls
CHECK_DEADLOCK FALSE
