SPECIFICATION FairSpec
CONSTANTS
  User = {u1, u2}
  Frame = {f1, f2, f3}
  Capacity = 1
  None = None
  MaxStops = 1
  Loop = {l1, l2}
  Arrivals = {"orderly", "any"}
INVARIANTS CountsAreExact ClosedIsSilent VotesMatch
PROPERTIES AbandonedLoopEnds
CHECK_DEADLOCK FALSE
