SPECIFICATION DtlsSpec
CONSTANTS
  Conditions = {"calm", "racy"}
  Roles = {"client", "server"}
  MaxSends = 1
  MaxRest = 1
  MaxData = 1
INVARIANTS  SuccessMeansFinished
PROPERTIES HandshakeCompletes StopReachesCreator StopReachesReader
CHECK_DEADLOCK FALSE
