SPECIFICATION PSpec
CONSTANTS
  WordBits = 4
  MsInNs = 2
  MaxLine = 7
  ReadSizes = {1, 7}
  Events <- MCEvents
  Comments <- MCComments
  Delays <- MCDelays
  MaxItems = 3
  Breaks = TRUE
CHECK_DEADLOCK FALSE
PROPERTIES ImplementsChannel Arrives
