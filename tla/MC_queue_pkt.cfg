\* one sender, one receiver that is handed the buffer and frees it later
CONSTANTS
  Producers = {p1}
  Consumers = {c1}
  Entries = 2
  NBuffers = 4
  CounterMod = 32
  Packet = TRUE
  MaxSends = 5
SPECIFICATION FairSpec
INVARIANTS BufferOwnership HeldPacketIntact
PROPERTIES SendReturns
CHECK_DEADLOCK FALSE
