\* packets, one reader that frees each packet before it receives again, and a buffer
\* for each write
CONSTANTS
  Writer = w
  Readers = {r1}
  NSlots = 2
  NBuffers = 6
  CounterMod = 16
  Packet = TRUE
  MaxBusy = 0
  MaxHeld = 1
  MaxWrites = 6
SPECIFICATION Spec
INVARIANTS NoAssertFails HeldPacketIntact
CHECK_DEADLOCK FALSE
