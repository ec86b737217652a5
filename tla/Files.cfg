SPECIFICATION FlSpec
CONSTANTS
  Name = {"a", "b"}
  MaxDepth = 2
  MaxIno = 3
  MaxNode = 4
  MaxFh = 1
  BufEntries = 1
  ReadOnly = {TRUE, FALSE}
  LPath <- MCLPath
  MaxLayers = 2
  MaxHeaders = 3
  Privileges <- MCPrivileges
  SrcTrees <- MCSrcTrees
  Filters <- MCFilters
  MetaBlock = 8
  DataBlock = 2
  GroupMax = 2
  BasicMax = 7
  PosWidth = 8
  Cont = {a, b}
  MaxImgRuns = 2
  MaxClears = 1
  MaxCrashes = 1
  Proc = {"a", "b", "s"}
  Snappers = {"s"}
  Img = {"x", "y"}
  LowersOf <- MCLowersOf
  FirstImg = "x"
  NLoops = 2
  MaxStarts = 2
  MaxKills = 1
  MaxReplaced = 1
INVARIANTS
  ShareSafe   ImagesSafe RootfsSafe
PROPERTIES
  ReadOnlyHolds
SYMMETRY MCSymmetry
CHECK_DEADLOCK FALSE
