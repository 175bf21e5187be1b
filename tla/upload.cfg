SPECIFICATION Spec
CONSTANTS
  n1 = n1  n2 = n2  n3 = n3
  h1 = h1  h2 = h2  o1 = o1  o2 = o2  r1 = r1
  Rank <- MCRank
  Nodes = {n1, n2, n3}
  Hashes = {h1, h2}
  Objects = {o1}
  AllParts = {1, 2}
  RF = 3
  FaultKinds <- AnyFault
  MaxFaults = 1
  Views <- AllNodes
  MaxSyncs = 1
  Body <- RepeatedChunk
  Readers = {}
  Rebalancing = FALSE
INVARIANT AckedComplete
INVARIANT QuorumSurvives
PROPERTY ServiceSpec
CHECK_DEADLOCK FALSE
