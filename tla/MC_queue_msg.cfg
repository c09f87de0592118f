\* one sender, one receiver, messages copied out of the queue; the counters
\* pass their maximum
CONSTANTS
  Producers = {p1}
  Consumers = {c1}
  Entries = 2
  NBuffers = 2
  CounterMod = 12
  Packet = FALSE
  MaxSends = 7
SPECIFICATION FairSpec
INVARIANTS NoAssertFails EntryExclusive
PROPERTIES AvailableIsKept ImplementsFifo SendReturns ReceiveReturns
CHECK_DEADLOCK FALSE
