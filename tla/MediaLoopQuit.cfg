SPECIFICATION FairSpec
CONSTANTS
  User = {u1, u2}
  Frame = {f1, f2}
  Capacity = 1
  None = None
  MaxStops = 1
  Loop = {l1, l2}
  Arrivals = {"any"}
PROPERTIES QuitEndsLoop
CHECK_DEADLOCK FALSE
