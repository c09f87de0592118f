\* one request at a time, cancelled by its own or by another thread; wait_any
\* also gets a cleared handle
CONSTANTS
  Entries = 2
  NHandles = 1
  MayCancel = {"owner", "other"}
  ReuseArray = TRUE
  MaxMsgs = 5
  MaxIssues = 6
SPECIFICATION FairSpec
PROPERTIES WaitReturnsUnlessBubble
CHECK_DEADLOCK FALSE
