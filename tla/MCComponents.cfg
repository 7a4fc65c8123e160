SPECIFICATION PartSpec
CONSTANTS
  Calls <- AllCalls
  Workers = {"v", "w"}
  Sessions = {"s", "t"}
  Content = {"d", "e"}
  TTL = 2
  MaxTime = 4
  RingSize = 3
  QueueSize = 2
  MaxLines = 7
  Types = {"a", "b"}
  MaxFrames = 4
  MaxCalls = 3
  Peers = {"p", "q"}
  SlotPayloads = {"x", "y"}
  MaxMessages = 2
  NumBuckets = 3
  NumSlots = 2
  Sellers = {"s1", "s2"}
  Buyers = {"b1"}
  Quantities = {1, 2}
  HalfTicks <- Ticks
  Participant = {"a", "b"}
  Outsider = {"z"}
  Party = {"a", "b"}
  Stranger = {"z"}
INVARIANTS
  Released NoCrash BoundedResidency
  KeysInPlace
  FetchableForTTL
  StreamComplete
  FramesDelivered
  
   DispatchConserves
   RestsForCause
  
 
CHECK_DEADLOCK FALSE
