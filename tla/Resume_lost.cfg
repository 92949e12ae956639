SPECIFICATION RSpec
CONSTANTS
  Streams = {s1}
  Stream = s1
  Producers = {p1}
  Capacity = 2
  MaxEmits = 2
  MaxDrops = 1
  CutFrames = TRUE
  IDs <- MCEvents
  Data <- MCEvents
  NoData <- MCNoData
  NoID = NoID
  NoBuffer = NoBuffer
  MaxSeq = 2
INVARIANTS CutIsRecovered
CHECK_DEADLOCK FALSE
