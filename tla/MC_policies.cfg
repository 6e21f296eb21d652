SPECIFICATION FairSpec
CONSTANTS
  MAX_SFN = 2
  Rntis = {r1, r2, r3}
  Directions <- Uplink
  StartStrategies = {"RoundRobin"}
  Strategies = {"RoundRobin", "ProportionalFair"}
  SlotsPerFrame = 2
  StartTiming <- BeforeTheWrap
  MaxPerTti = 1
  NEVER = 4
  WORD = 64
  WINDOW = 2
  MaxWait = 6
  MaxUpdates = 1
INVARIANTS TypeOK WaitBounded
PROPERTIES RoundRobinServesEveryUe
