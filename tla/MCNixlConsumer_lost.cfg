SPECIFICATION Spec
CONSTANTS
  Reqs = {r1}
  Empty = {}
  Ranks = {p1}
  HandshakeFails = TRUE
  SetupFails = FALSE
  XferFails = FALSE
\* A worker that ends in an uncaught exception takes no further step.
CHECK_DEADLOCK FALSE
INVARIANTS
  WaitingIsPending
