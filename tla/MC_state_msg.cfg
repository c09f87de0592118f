\* values copied out by a reader; the counter passes its maximum, and a write
\* may find no buffer
CONSTANTS
  Writer = w
  Readers = {r1}
  NSlots = 2
  NBuffers = 2
  CounterMod = 8
  Packet = FALSE
  MaxBusy = 1
  MaxHeld = 1
  MaxWrites = 7
SPECIFICATION WriterFairSpec
INVARIANTS ReadUncorrupted ReadFresh
PROPERTIES WriteReturns ReadReturns
CHECK_DEADLOCK FALSE
