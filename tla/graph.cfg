SPECIFICATION GraphSpec
CONSTANTS
  Most = 5
  MaxSrc = 2
  Ids = {1, 2, 3, 4, 5}
  Sizes = {1, 3}
  Alignment = 2
  Limit = 18
  MaxFreeBlocks = 6
  Sessions <- MCSessions
CHECK_DEADLOCK FALSE
INVARIANTS
  GraphTypeOK
  SpaceIsExact
  ValuesAreIntact
  NothingLeaks
