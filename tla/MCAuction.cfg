SPECIFICATION BoundedSpec
CONSTANTS
  Tab = {p1, p2, p3}
  AuditTabs = 2
  None = None
  Blob = {blob}
  Price = {5}
  HourInput <- Hours
  MaxBuyers = 2
  EpochSize = 1
  Day = 2
  StartHour = 1
  MaxKeyID = 2
  MaxTrades = 1
  MaxChain = 1
SYMMETRY TabSymmetry
INVARIANT RelayInv
PROPERTY StrandedForCause
CHECK_DEADLOCK FALSE
