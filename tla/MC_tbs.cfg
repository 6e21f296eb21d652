SPECIFICATION FairSpec
CONSTANTS
  Mcs = {0, 1, 2, 3, 4, 5, 6, 7, 8, 9, 10, 11, 12, 13, 14, 15, 16, 17, 18, 19, 20, 21, 22, 23, 24, 25, 26, 27, 28}
  Layers = {1, 2, 4}
  Sizes = {1, 3, 9, 40, 118, 119, 262, 476, 477, 3000, 20000}
  Widths = {1, 11, 51, 273}
  Casts = {"saturated", "truncated"}
INVARIANTS TypeOK ResultIsTight MinimalForSmallBlocks FitsItsResources
PROPERTIES SearchEnds
CHECK_DEADLOCK FALSE
