SPECIFICATION FairSpec
CONSTANTS
  MAX_SFN = 3
  HarqIds = {0, 1}
  CLEANUP_AGE = 2
  Cells = {c1}
  Rntis = {r1}
  SlotsPerFrame <- TwoSlotFrames
  StartTiming <- BeforeTheWrap
  NumRbs <- ThreeRbs
  Duplex <- Fdd
  TddPattern <- NoPattern
  StartSymbol = 2
  NumSymbols = 1
  Bytes = {0, 1}
  MinGrant = 1
  Mcs = {0}
  MinRbs <- BlocksNeeded
  Configs <- OnlyDefault
  K1 = 2
  UlCrcDelay = 1
  UninitialisedFlags <- NoFlags
  DrxSettings = {FALSE}
  RelockOutcomes = {"proceed", "hang"}
  MaxLate = 0
  ReportDelay = 1
  MaxSlots = 2
  MaxUeId = 2
  MaxCalls = 3
PROPERTIES SlotIsCompleted
CHECK_DEADLOCK FALSE
