SPECIFICATION FairSpec
CONSTANTS
  Reqs = {r1, r2}
  Ranks = {w1}
  Readers = {d1, d2}
  UuidOf <- OwnUuid
  Bare = {d2}
  Timeout = 1
  Horizon = 2
  Depth = 2
INVARIANTS
  LeaseRespected
PROPERTIES
  HeldEventuallyFreed
  AbortedForgotten
