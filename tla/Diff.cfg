SPECIFICATION MCSpec
CONSTANTS
  Width = 2
  Height = 13
  Gap = 1
  MaxDirty = 4
INVARIANTS ReturnsRegions Tight Apart
PROPERTY Returns
CHECK_DEADLOCK FALSE
