CONSTANTS
  Request = {r1, r2, r3}
  Provider = {p1, p2}
  MaxConcurrent = 0
  DefaultMaxConcurrentPerProvider = 2
  NoSemaphore = NoSemaphore
SPECIFICATION FairSpec
INVARIANTS TypeOK InFlightBound ActiveCounts
PROPERTY WaitEnds
