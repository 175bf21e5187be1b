SPECIFICATION FairSpec
CONSTANTS
  s = s  a = a
  Nodes = {s, a}
  Addresses = {s, a}
  Replicas = {s, a}
  Seed = s
  NoNode = NoNode
  Peers <- Scripts
  MaxFaults = 2
INVARIANT TypeOK
INVARIANT FsmIsLog
INVARIANT JoinedInLog
CHECK_DEADLOCK FALSE
PROPERTY StateSpec
PROPERTY StateConverges
PROPERTY JoinEnds
