SPECIFICATION FairAuditSpec
CONSTANTS
  p1 = p1
  p2 = p2
  p3 = p3
  p4 = p4
  Tab = {p1, p2, p3}
  Early <- Three
  Ledger <- ThreeBooks
  Loaded = {p1, p2, p3}
  MaxPresses = 1
  MaxCloses = 0
  MaxRenewals = 1
  Bursts = TRUE
  Quick = FALSE
  Renders = {p1}
  None = None
  Blob = {}
  Price = {5}
  HourInput = {}
  MaxBuyers = 3
  EpochSize = 1
  Day = 24
  StartHour = 13
  MaxKeyID = 0
  MaxTrades = 1
  MaxChain = 4
INVARIANT LedgersReset
PROPERTIES AuditPromise AuditReported
CHECK_DEADLOCK FALSE
