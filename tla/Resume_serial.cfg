SPECIFICATION RSpec
CONSTANTS
  Streams = {s1}
  Stream = s1
  Producers = {p1}
  Capacity = 2
  MaxEmits = 5
  MaxDrops = 3
  CutFrames = TRUE
  IDs <- MCEvents
  Data <- MCEvents
  NoData <- MCNoData
  NoID = NoID
  NoBuffer = NoBuffer
  MaxSeq = 5
INVARIANTS NothingMissed NamedOnce InOrder
CHECK_DEADLOCK FALSE
PROPERTIES CaughtUp
