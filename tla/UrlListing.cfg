CONSTANTS
  Pods = {p1, p2}
  Codes = {a, b, c}
  PageSize = 1
  MaxLog = 3
  MaxRestarts = 1
  MaxLoads = 4
  MaxOpen = 2
SPECIFICATION MCSpec
SYMMETRY Symmetry
INVARIANTS ListingInv NoURLSkipped SameOrder
CHECK_DEADLOCK FALSE
