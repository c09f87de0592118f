\* two threads of one process and one of another, in phases; one is ended by a
\* signal and started again
CONSTANTS
  Threads <- Threads3
  Proc <- Proc3
  Num <- NumDistinct
  MaxDomains = 1
  MaxNodes = 2
  Overlap = {}
  MaxInits = 4
  MaxCrashes = 1
SPECIFICATION Spec
INVARIANTS NoFault NodeHasItsSlot SameDatabase SlotsAccounted FreedByLast
PROPERTIES RefusedForReason
CHECK_DEADLOCK FALSE
