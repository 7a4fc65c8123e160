SPECIFICATION Spec
CONSTANTS
  p1 = p1
  p2 = p2
  p3 = p3
  admin = admin
  Sender <- Two
  Trigger = admin
  N = 4
  Consuming <- Collects
  Target = 2
  Concurrent = TRUE
  EnterFails = {}
  ExitFails = {}
  RefusesSome = {}
INVARIANT ExitComplete
CHECK_DEADLOCK FALSE
