CONSTANTS
  MaxId = 3
  MaxViews = 2
  Sizes = {1, 2}
  Mine <- MineIs
  Matching <- MatchingIs
  Tables <- AllTables
  None = None
SPECIFICATION FairSpec
INVARIANTS
  NoRepeat
  NothingSkipped
PROPERTIES
  WalkEnds
CHECK_DEADLOCK FALSE
