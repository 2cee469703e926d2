SPECIFICATION Spec
CONSTANTS
  Configs <- WholeConfigs
  PartialTails = FALSE
\* A request's reads are posted once.
CHECK_DEADLOCK FALSE
INVARIANTS
  ReadsUncomputed
  WritesOwnBlocks
  DescriptorsFit
