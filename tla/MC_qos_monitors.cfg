SPECIFICATION Spec
CONSTANTS
  Rntis = {r1}
  Qfis = {q1}
  Directions = {"dl"}
  GuaranteedRates = {8000, 16000}
  Budgets = {1, 2}
  WINDOW = 2
  STRICTNESS = 95
  MARGIN = 8
  PacketBytes = 1
  MaxTime = 5
  MaxPackets = 5
  MaxCalls = 2
INVARIANTS TypeOK CriticalFlowsHaveOldPackets ViolationsAreReal SteadyFlowsNotInDeficit
CHECK_DEADLOCK FALSE
