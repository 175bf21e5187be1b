SPECIFICATION FairSpec
CONSTANTS
  Callers = {p1, p2, p3}
  Threshold = 3
  Cooldown = 2
  MaxFailures = 6
INVARIANTS TypeOK ClosedIffFew
PROPERTIES ShutAfterFailure Recovers
