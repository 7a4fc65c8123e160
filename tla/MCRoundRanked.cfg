SPECIFICATION RoundSpec
CONSTANTS
  p1 = p1
  p2 = p2
  p3 = p3
  p4 = p4
  Tab = {p1, p2, p3, p4}
  Early <- Four
  Loaded = {p1, p2, p3, p4}
  Twice = {}
  MaxCloses = 0
  Bursts = TRUE
  Quick = TRUE
  Renders = {p1, p2, p3, p4}
  None = None
  Blob = {}
  Price = {5}
  HourInput = {}
  MaxBuyers = 3
  EpochSize = 5
  Day = 24
  StartHour = 13
  MaxKeyID = 1
  MaxTrades = 3
  MaxChain = 0
INVARIANTS SealedIsRanked
CHECK_DEADLOCK FALSE
