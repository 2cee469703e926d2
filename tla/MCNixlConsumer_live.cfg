SPECIFICATION FairSpec
CONSTANTS
  Reqs = {r1, r2, r3}
  Empty = {r3}
  Ranks = {p1, p2}
  HandshakeFails = FALSE
  SetupFails = FALSE
  XferFails = TRUE
\* A worker that ends in an uncaught exception takes no further step.
CHECK_DEADLOCK FALSE
INVARIANTS
  ReportedOnlyWhenDone
  WaitingIsPending
PROPERTIES
  WaitingResolved
  CachedNotified
  ImplementsFetch
