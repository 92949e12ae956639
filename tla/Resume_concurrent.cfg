SPECIFICATION RSpec
CONSTANTS
  Streams = {s1}
  Stream = s1
  Producers = {p1, p2}
  Capacity = 2
  MaxEmits = 1
  MaxDrops = 1
  CutFrames = FALSE
  IDs <- MCEvents
  Data <- MCEvents
  NoData <- MCNoData
  NoID = NoID
  NoBuffer = NoBuffer
  MaxSeq = 2
INVARIANTS NothingMissed
CHECK_DEADLOCK FALSE
