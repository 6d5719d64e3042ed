CONSTANTS
  Request = {r1, r2, r3}
  Configs <- Reloadable
  MaxTimeout = 1
  MaxAbandoned = 1
  DefaultHalfOpenMax = 1
  MaxRun = 3
SPECIFICATION HFairSpec
INVARIANTS TypeOK CountersFit GrantsBounded
PROPERTIES ImplementsContract OpenLastsTimeout OpenEnds HalfOpenEnds
