SPECIFICATION FairSpec
CONSTANTS
  b1 = b1
  h1 = h1
  r1 = r1
  r2 = r2
  x1 = x1
  None = None
  Base = {b1}
  Local = {h1}
  Host = {h1}
  Signalled = {r1}
  Reflexive = {x1}
  BaseOf <- MCBaseOf
  Address <- MCAddress
  Compatible <- MCCompatible
  Priority <- MCPriority
  MaxFailCount = 0
  MaxChecks = 1
  MaxTriggered = 1
  Timely = TRUE
  MayStop = FALSE
INVARIANT SelectedIsUsable
PROPERTIES  SelectionReachesStream
CHECK_DEADLOCK FALSE
