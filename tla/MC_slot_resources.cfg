SPECIFICATION Spec
CONSTANTS
  GridRbs = 3
  GridSymbols = 2
  NumCces = 7
  AggregationLevels = {1, 2, 4}
INVARIANTS TypeOK GridMarksHeld ScanFindsLowestRun CountIsExact CanAllocateExact
PROPERTIES GridGrantedOnce CcesGrantedOnce
