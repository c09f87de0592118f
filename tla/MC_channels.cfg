\* two nodes; both connect the channel between their endpoints, in order with
\* open, close and delete
CONSTANTS
  NNodes = 2
  MaxEndpoints = 2
  Ports = {1, 2}
  MaxCreates = 3
  Chans <- OneChannel
  Orderly = TRUE
SPECIFICATION FairSpec
INVARIANTS TableIsExact ConnectIsKept OpenIsKept SentToPeer
PROPERTIES GetReturnsUnlessHole OpenReturns
CHECK_DEADLOCK FALSE
