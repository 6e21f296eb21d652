SPECIFICATION Spec
CONSTANTS
  MAX_SFN = 2
  HarqIds = {0, 1}
  CLEANUP_AGE = 2
  Cells = {c1}
  Rntis = {r1, r2}
  SlotsPerFrame <- TwoSlotFrames
  StartTiming <- BeforeTheWrap
  NumRbs <- ThreeRbs
  Duplex <- Tdd
  TddPattern <- Mixed
  StartSymbol = 2
  NumSymbols = 2
  Bytes = {0, 1, 3}
  MinGrant = 1
  Mcs = {0}
  MinRbs <- BlocksNeeded
  Configs <- OneLimited
  K1 = 2
  UlCrcDelay = 1
  UninitialisedFlags <- NoFlags
  DrxSettings = {FALSE, TRUE}
  RelockOutcomes = {"proceed", "hang"}
  MaxLate = 0
  ReportDelay = 1
  MaxSlots = 5
  MaxUeId = 2
  MaxCalls = 5
SYMMETRY RntiSymmetry
INVARIANTS TypeOK GridPacked AirDisjoint EveryTransmissionTracked SlotServesTraffic
PROPERTIES AllocationFailsOnlyWhenFull BlocksGrantedOnce TimeoutMeansReleased
CHECK_DEADLOCK FALSE
