SPECIFICATION Spec
CONSTANTS
  Reqs = {r1}
  Empty = {}
  Ranks = {p1, p2}
  HandshakeFails = FALSE
  SetupFails = TRUE
  XferFails = FALSE
INVARIANTS
  ReportedOnlyWhenDone
