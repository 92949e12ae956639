SPECIFICATION FairSpec
CONSTANTS
  Deliverers = {d1}
  Closers = {c1}
  NoOne = NoOne
  Capacity = 1
  MaxEvents = 3
  Quits = {"stop"}
PROPERTIES CloseReturns
CHECK_DEADLOCK FALSE
