CONSTANTS
  Nodes = {n1, n2}
  Calls = {c1, c2}
  BlockSize = 2
  MaxTerm = 2
  None = None
SPECIFICATION Spec
SYMMETRY Symmetry
INVARIANT ValuesUnique
