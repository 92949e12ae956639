SPECIFICATION FairSpec
CONSTANTS
  Deliverers = {d1, d2}
  Closers = {c1, c2}
  NoOne = NoOne
  Capacity = 2
  MaxEvents = 3
  Quits = {"stop", "ctx"}
INVARIANTS NoPanic NoHoles
PROPERTIES NothingAfterClose ImplementsChannel CallsReturn ConsumerEnds
CHECK_DEADLOCK FALSE
