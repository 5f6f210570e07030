SPECIFICATION FairSpec
CONSTANTS
  n1 = n1
  n2 = n2
  d1 = d1
  n3 = n3
  i1 = i1
  name = name
  other = other
  Resolver = {n1, n2, n3}
  Name = {name, other}
  NameOf <- MCNameOf
  Ephemeral = {name}
  Addr = {a1}
  NoAddr = NoAddr
  InitialPruneSize = 0
  MaxRecords = 3
  MaxPrunes = 1
  Scenarios <- MCScenarios
  Offer = Offer
  End = End
  Direct = {d1}
  Ignored = {i1}
  CandCap = 1
  LcandCap = 1
  Locals = 1
INVARIANTS WaitersWillBeTold CandidatesConserved
PROPERTIES CandidatesReachAgent 
CHECK_DEADLOCK FALSE
