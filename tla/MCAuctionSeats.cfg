SPECIFICATION Spec
CONSTANTS
  Tab = {p1, p2, p3, p4}
  AuditTabs = 2
  None = None
  Blob = {}
  Price = {5}
  HourInput = {}
  MaxBuyers = 2
  EpochSize = 1
  Day = 2
  StartHour = 1
  MaxKeyID = 1
  MaxTrades = 1
  MaxChain = 2
SYMMETRY TabSymmetry
INVARIANT SeatsUnique
CHECK_DEADLOCK FALSE
