SPECIFICATION RoundSpec
CONSTANTS
  p1 = p1
  p2 = p2
  p3 = p3
  p4 = p4
  Tab = {p1, p2}
  Early <- One
  Loaded = {p1}
  Twice = {}
  MaxCloses = 1
  Bursts = TRUE
  Quick = FALSE
  Renders = {p1, p2}
  None = None
  Blob = {}
  Price = {5}
  HourInput = {}
  MaxBuyers = 2
  EpochSize = 5
  Day = 24
  StartHour = 13
  MaxKeyID = 2
  MaxTrades = 3
  MaxChain = 0
INVARIANTS KeyLabel 
CHECK_DEADLOCK FALSE
