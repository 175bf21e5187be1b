SPECIFICATION Spec
CONSTANTS
  n1 = n1  n2 = n2
  h1 = h1  o1 = o1  o2 = o2
  Rank <- MCRank
  Nodes = {n1, n2}
  Hashes = {h1}
  Objects = {o1, o2}
  AllParts = {1, 2}
  RF = 2
  FaultKinds <- AnyFault
  MaxFaults = 1
  Views <- AllNodes
  MaxSyncs = 1
  PartHash <- EqualParts
  MaxSends = 2
INVARIANTS CompletedSomewhere WholeOrEmpty PartQuorumSurvives
CHECK_DEADLOCK FALSE
