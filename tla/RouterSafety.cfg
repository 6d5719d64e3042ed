CONSTANTS
  p1 = p1
  p2 = p2
  p3 = p3
  Request = {r1, r2}
  Provider = {p1, p2, p3}
  Registered = {p1, p2}
  Reliable = {p2}
  Traffic <- Mixed
  Capacity = 1
  AttemptLimits <- NoneOrTwo
  Errors = {400, 503}
  BreakerConfig <- TwoFailures
  MaxCancels = 1
  DefaultHalfOpenMax = 2
SPECIFICATION Spec
INVARIANTS TypeOK SlotsMatch RetriesCounted ReliableServes
SYMMETRY Requests
