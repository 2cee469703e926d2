SPECIFICATION Spec
CONSTANTS
  r1 = r1
  r2 = r2
  Reqs = {r1, r2}
  Prompt <- Prompts
  BlockSize = 2
  Budget = 4
  MaxRunning = 2
  Depth = 2
  MaxRuns = 3
INVARIANTS
  HeldIsStaged
