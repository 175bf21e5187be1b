SPECIFICATION FairSpec
CONSTANTS
  n1 = n1  n2 = n2  n3 = n3
  h1 = h1  h2 = h2  o1 = o1  o2 = o2  r1 = r1
  Rank <- MCRank
  Nodes = {n1, n2}
  Hashes = {h1, h2}
  Objects = {o1}
  AllParts = {1, 2}
  RF = 2
  FaultKinds <- ReaderFaults
  MaxFaults = 2
  Views <- AllNodes
  MaxSyncs = 1
  Body <- TwoChunks
  Readers = {r1}
  Rebalancing = FALSE
INVARIANT DownloadWhole
PROPERTY DownloadEnds
CHECK_DEADLOCK FALSE
