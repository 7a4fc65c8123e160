SPECIFICATION HubSpec
CONSTANTS
  alice = alice
  nobody = nobody
  NoConn = 0
  Nobody = nobody
  Pseudonym <- OneName
  Conn = {1, 2}
  SendBufferSize = 1
  Burst = 1
  MaxSeq = 2
INVARIANT IsConnected
CHECK_DEADLOCK FALSE
