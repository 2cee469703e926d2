SPECIFICATION FairSpec
CONSTANTS
  Engines <- ThreeStarts
  Compatible = {1, 2}
  SplitFails = FALSE
  MaxFaults = 1
\* After the last start, or the end of the worker, nothing need happen.
CHECK_DEADLOCK FALSE
INVARIANTS
  TypeOK
  ReadyIsUsable
  KnownIsSettled
PROPERTIES
  HandshakeEnds
  RetriesSucceed
