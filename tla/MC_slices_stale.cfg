SPECIFICATION Spec
CONSTANTS
  SliceIds = {s1, s2, s3}
  Rntis = {r1, r2}
  Directions = {"dl"}
  SlaConfigs <- Templates
  CellWidths = {3, 5}
  Amounts = {1, 2}
  WORD = 65536
  COUNT_WORD = 4
  IndeterminateCounts = {3}
  MaxAsked = 1
  MaxCalls = 7
SYMMETRY SliceSymmetry
INVARIANTS NoOverdraft
CHECK_DEADLOCK FALSE
