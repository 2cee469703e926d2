SPECIFICATION Spec
CONSTANTS
  Configs <- TailConfigs
  PartialTails = TRUE
\* A request's reads are posted once.
CHECK_DEADLOCK FALSE
INVARIANTS
  ReadsUncomputed
