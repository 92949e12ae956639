SPECIFICATION Spec
CONSTANTS
  MaxRounds = 2
  MaxDeltas = 2
  MaxTools = 2
  MaxLost = 1
  UniqueIDs = TRUE
  Faults = {"sink", "copy", "tool", "provider"}
  EmptyInput = EmptyInput
INVARIANTS ExactWhenComplete CutIsPrefix NoGarbling ResultsMatchCalls
  ATypeOK IndicesAscend NoStrayEvents OneBlockOpen DenseWhenFinished ResultAnswersUse
CHECK_DEADLOCK FALSE
