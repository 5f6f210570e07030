SPECIFICATION Spec
CONSTANTS
  HalfSeq = 2
  Videos <- MCVideos
  Scenarios <- MCScenarios
  Starts <- MCStarts
  CacheSize = 3
  MaxSize = 4
  Capacity = 8
  HeaderSize = 1
  RocSize = 1
  TagSize = 2
  NackBits = 1
  ResendCap = 1
  MaxNacks = 1
  UnitCap = 1
  IndexMod = 16
  MaxCopies = 1
INVARIANTS ResendIsCurrent IndexIsRight UnitsAreWhole OrderlyDelivery
CHECK_DEADLOCK FALSE
PROPERTIES NacksAreServed 
