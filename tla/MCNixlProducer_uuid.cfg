SPECIFICATION Spec
CONSTANTS
  Reqs = {r1, r2}
  Ranks = {w1}
  Readers = {d1}
  UuidOf <- SharedUuid
  Bare = {}
  Timeout = 1
  Horizon = 2
  Depth = 2
INVARIANTS
  LeaseRespected
