\* two semaphores, locked one by one and together, also half created
CONSTANTS
  NNodes = 2
  MaxSems = 2
  MaxShared = 1
  Types = {"sem"}
  Guards = {"sem"}
  Recursive = TRUE
  ExtError = FALSE
  Timeouts = {0, 1, 2}
  Waits = {"any", "all"}
  Posts = FALSE
  Deletes = FALSE
  Early = TRUE
  MaxRefs = 0
  MaxCreates = 2
  MaxDepth = 3
SPECIFICATION Spec
INVARIANTS Exclusive CountIsExact
CHECK_DEADLOCK FALSE
