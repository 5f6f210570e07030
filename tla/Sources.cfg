SPECIFICATION FairSpec
CONSTANTS
  User = {u1, u2}
  Frame = {f1}
  Capacity = 1
  None = None
  Kinds = {"v4l2", "rtsp"}
  Arrivals = {"orderly", "any"}
  Loop = {l1, l2}
  MaxStops = 1
  MaxNalus = 1
INVARIANTS MemoryWillBeUnmapped 
PROPERTIES  ErrorReachesReceivers AbandonedReaderEnds
CHECK_DEADLOCK FALSE
