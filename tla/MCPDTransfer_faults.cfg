SPECIFICATION TransferSpec
CONSTANTS
  Reqs = {r1, r2, r3}
  Empty = {r3}
  Ranks = {p1}
  HandshakeFails = TRUE
  SetupFails = TRUE
  XferFails = TRUE
  Timeout = 1
  MaxClock = 1
SYMMETRY Symmetry
\* A worker that ends in an uncaught exception takes no further step.
CHECK_DEADLOCK FALSE
INVARIANTS
  TypeOK
  ReportedHasMetadata
  LoadedIsComplete
  LoadedIsFresh
PROPERTIES
  ImplementsFetch
  WorkerStops
