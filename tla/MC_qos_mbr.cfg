SPECIFICATION Spec
CONSTANTS
  Rntis = {r1}
  Qfis = {q1, q2}
  Directions = {"dl"}
  Rates = {3, 8}
  NON_GBR_RATE = 16
  SECOND = 4
  DEPTH = 12
  WORD = 1000
  Amounts = {1, 4}
  Padding = 1
  MaxTime = 3
  MaxBlocks = 3
  MaxCalls = 3
SYMMETRY FlowSymmetry
INVARIANTS SentWithinMbr
CHECK_DEADLOCK FALSE
