\* a request is cancelled, and the next receive waits
CONSTANTS
  Entries = 2
  NHandles = 1
  MayCancel = {"owner"}
  ReuseArray = FALSE
  MaxMsgs = 3
  MaxIssues = 3
SPECIFICATION FairSpec
PROPERTIES WaitReturns
CHECK_DEADLOCK FALSE
