SPECIFICATION FairSpec
CONSTANTS
  s = s  a = a  h1 = h1  o1 = o1
  Nodes = {s, a}
  Seed = s
  Joiners = {}
  Hashes = {h1}
  Objects = {o1}
  AllParts = {1}
  RF = 2
  Rank <- AnyRank
  Views = {}
  MaxSyncs = 0
  FaultKinds <- AnyFault
  MaxFaults = 0
PROPERTY RegisteredInRing
CHECK_DEADLOCK FALSE
