SPECIFICATION AuditSpec
CONSTANTS
  p1 = p1
  p2 = p2
  p3 = p3
  p4 = p4
  Tab = {p1, p2, p3}
  Early <- Two
  Ledger <- TwoBooks
  Loaded = {p1, p2}
  MaxPresses = 1
  MaxCloses = 1
  MaxRenewals = 0
  Bursts = FALSE
  Quick = TRUE
  Renders = {}
  None = None
  Blob = {}
  Price = {5}
  HourInput = {}
  MaxBuyers = 3
  EpochSize = 1
  Day = 24
  StartHour = 13
  MaxKeyID = 0
  MaxTrades = 1
  MaxChain = 4
INVARIANTS SharesOpenSum WholeSum
CHECK_DEADLOCK FALSE
