\* two threads compete for two requests, two outstanding each
CONSTANTS
  Threads = {t1, t2}
  Requests = {q1, q2}
  MaxOwned = 2
SPECIFICATION FairSpec
INVARIANTS OwnedIsLive LimitIsReal
PROPERTIES LockFreeUnlessLost
CHECK_DEADLOCK FALSE
