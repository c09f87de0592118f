\* more requests outstanding than entries in the queue
CONSTANTS
  Entries = 2
  NHandles = 3
  MayCancel = {"owner"}
  ReuseArray = FALSE
  MaxMsgs = 4
  MaxIssues = 4
SPECIFICATION Spec
INVARIANTS DeliveredInOrder HandleIsLive SuccessIsReceipt
CHECK_DEADLOCK FALSE
