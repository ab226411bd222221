CONSTANTS
  XorKey <- DefaultKey
  Blocks <- Edges
  BlockSize = 100
SPECIFICATION Spec
INVARIANTS TypeOK MixReversible BlockCodesDistinct
CHECK_DEADLOCK FALSE
