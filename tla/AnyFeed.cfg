SPECIFICATION Spec
CONSTANTS
  Inputs <- MCInputs
  Chunks <- MCChunks
  MaxInputs = 4
  EmptyInput = EmptyInput
INVARIANTS RTypeOK TextConserved TimelineIsTurn OneOpenRun NothingInvented
CHECK_DEADLOCK FALSE
