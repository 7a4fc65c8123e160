SPECIFICATION PartSpec
CONSTANTS
  alice = alice
  nobody = nobody
  NoConn = 0
  Nobody = nobody
  Pseudonym <- OneName
  Conn = {1, 2}
  SendBufferSize = 1
  Burst = 1
  MaxSeq = 2
  p1 = p1
  p2 = p2
  p3 = p3
  admin = admin
  Sender <- Three
  Trigger = admin
  N = 5
  Consuming <- Collects
  Target = 2
  Concurrent = FALSE
  EnterFails = {1, 3}
  ExitFails = {2}
  RefusesSome = {2}
  NumVoters = 3
  MaxOnions = 2
  Picks = {1, 2}
  Weights <- SomeWeights
  MaxParties = 3
  Closers = {"c1"}
  MaxComparators = 3
  MaxConcurrency = 4
INVARIANTS
  HandledOnce RecordedReaches
  InOrder ExitComplete
  BatchPeelable 
  OwnAnswer ChainOpens
  LanesServed
PROPERTIES HubPumpsEnd RunnerCompletes  HelperCallsReturn PoolReturns
CHECK_DEADLOCK FALSE
