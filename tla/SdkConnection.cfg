SPECIFICATION FairSpec
CONSTANTS
  p1 = p1
  c1 = c1
  s1 = s1
  s2 = s2
  s3 = s3
  s4 = s4
  NoSocket = NoSocket
  Requests = {p1, c1}
  Prints = {p1}
  Sockets = {s1, s2, s3, s4}
  Reconnects = TRUE
  GivesUp = TRUE
  MaxConnects = 2
  MaxDisconnects = 1
  MaxLosses = 2
INVARIANT NoneForgotten
INVARIANT CancelSentOnce
PROPERTY SettledIsFinal
PROPERTY QueuedIsServed
CHECK_DEADLOCK FALSE
