SPECIFICATION FairSpec
CONSTANTS
  n1 = n1  n2 = n2  n3 = n3
  h1 = h1  h2 = h2  o1 = o1  o2 = o2  r1 = r1
  Rank <- MCRank
  Nodes = {n1, n2}
  Hashes = {h1}
  Objects = {o1}
  AllParts = {1}
  RF = 1
  FaultKinds <- AnyFault
  MaxFaults = 1
  Views <- Pairs
  MaxSyncs = 2
  Body <- OneChunk
  Readers = {}
  Rebalancing = TRUE
INVARIANT RowsCurrent
PROPERTY Repaired
PROPERTY PassEnds
PROPERTY UploadEnds
PROPERTY DeleteEnds
CHECK_DEADLOCK FALSE
