SPECIFICATION OverlapSpec
CONSTANTS
  r1 = r1
  r2 = r2
  Reqs = {r1, r2}
  Prompt <- Prompts
  BlockSize = 2
  Budget = 4
  MaxRunning = 1
  Depth = 2
  MaxRuns = 2
  MaxStarts = 2
  MaxMessages = 2
INVARIANTS
  HeldIsStaged
  NoSaveLeft
  AnnouncedInOrder
  SentInOrder
  NothingStuck
