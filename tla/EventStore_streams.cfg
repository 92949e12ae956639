SPECIFICATION Spec
CONSTANTS
  Streams = {s1, s2}
  Capacity = 2
  IDs = {a, b}
  NoID = NoID
  Data = {x, y}
  NoData = x
  NoBuffer = NoBuffer
  MaxSeq = 5
INVARIANTS TypeOK RingContiguous IndexExact GapFree SinceExact
PROPERTIES ImplementsRetainedLog ReplayOnlyGrows
