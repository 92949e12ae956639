SPECIFICATION FSpec
CONSTANTS
  WordBits = 4
  MsInNs = 2
  MaxLine = 5
  ReadSizes = {1, 2, 5}
  Producers <- MCProducers
INVARIANTS LinesExact ParsedAsSpecified RetryAsAsked
CHECK_DEADLOCK FALSE
