CONSTANTS
  XorKey <- DefaultKey
  Blocks <- FirstPair
  BlockSize = 1
SPECIFICATION Spec
INVARIANT CodesUnique
CHECK_DEADLOCK FALSE
