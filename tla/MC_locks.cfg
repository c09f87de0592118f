\* one entry of the table, of each kind in turn, deleted and with extended
\* error checking never used again
CONSTANTS
  NNodes = 2
  MaxSems = 1
  MaxShared = 2
  Types = {"mutex", "sem", "rwl"}
  Guards = {"sem"}
  Recursive = TRUE
  ExtError = TRUE
  Timeouts = {0, 1, 2}
  Waits = {}
  Posts = TRUE
  Deletes = TRUE
  Early = FALSE
  MaxRefs = 2
  MaxCreates = 2
  MaxDepth = 3
SPECIFICATION FairSpec
INVARIANTS CountIsExact HolderIsTold GrantedAsAsked
PROPERTIES TimedCallReturns
CHECK_DEADLOCK FALSE
