SPECIFICATION Spec
CONSTANTS
  b1 = b1
  h1 = h1
  r1 = r1
  r2 = r2
  x1 = x1
  None = None
  Base = {b1}
  Local = {h1}
  Host = {h1}
  Signalled = {r1}
  Reflexive = {}
  BaseOf <- MCBaseOf
  Address <- MCAddress
  Compatible <- MCCompatible
  Priority <- MCPriority
  MaxFailCount = 1
  MaxChecks = 2
  MaxTriggered = 2
  Timely = FALSE
  MayStop = TRUE
INVARIANTS NoMissedSelection InProgressMovesOn ListenerWillBeTold
CHECK_DEADLOCK FALSE
