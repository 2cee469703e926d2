SPECIFICATION Spec
CONSTANTS
  Reqs = {r1, r2}
  Ranks = {w1, w2}
  Readers = {d1}
  UuidOf <- OwnUuid
  Bare = {}
  Timeout = 1
  Horizon = 2
  Depth = 2
SYMMETRY Symmetry
INVARIANTS
  TypeOK
  OnlyHeldReported
  ReportedOnce
  TimersTracked
  NoAbortAfterTimer
  ReleasedForgotten
PROPERTIES
  NoOverdueTimer
  ImplementsLease
