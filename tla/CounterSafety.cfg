CONSTANTS
  Nodes = {n1, n2}
  Calls = {c1, c2, c3}
  BlockSize = 2
  MaxTerm = 2
  None = None
SPECIFICATION Spec
SYMMETRY Symmetry
INVARIANTS TermBlocksContiguous UniqueUnlessStale IssuedFromCommittedBlock IInv
PROPERTY ImplementsDispenser
