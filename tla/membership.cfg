SPECIFICATION FairSpec
CONSTANTS
  s = s  a = a  h1 = h1  o1 = o1
  Nodes = {s, a}
  Seed = s
  Joiners = {a}
  Hashes = {h1}
  Objects = {o1}
  AllParts = {1}
  RF = 2
  Rank <- AnyRank
  Views = {}
  MaxSyncs = 0
  FaultKinds <- AnyFault
  MaxFaults = 2
INVARIANT TypeOK
PROPERTY RingConverges
PROPERTY HealthConverges
CHECK_DEADLOCK FALSE
