SPECIFICATION lvSpec
CONSTANTS
  Keys = {1, 2, 3}
  NumLevels = 4
  GrandParentLimit = 1
  ExpandLimit = 4
  ManualLimit = 2
  Modes <- mcSplit
INVARIANTS SmallerLevelIsNewer
CHECK_DEADLOCK FALSE
