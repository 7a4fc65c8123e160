SPECIFICATION Spec
CONSTANTS
  p1 = p1
  p2 = p2
  p3 = p3
  admin = admin
  Sender <- Two
  Trigger = admin
  N = 4
  Consuming <- Collects
  Target = 2
  Concurrent = FALSE
  EnterFails = {}
  ExitFails = {}
  RefusesSome = {}
INVARIANT NeverPanics
CHECK_DEADLOCK FALSE
