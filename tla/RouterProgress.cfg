CONSTANTS
  p1 = p1
  p2 = p2
  p3 = p3
  Request = {r1, r2}
  Provider = {p1, p2, p3}
  Registered = {p1, p2}
  Reliable = {}
  Traffic <- Crossing
  Capacity = 1
  AttemptLimits = {2}
  Errors = {503}
  BreakerConfig <- TwoSuccesses
  MaxCancels = 0
  DefaultHalfOpenMax = 2
SPECIFICATION FairSpec
PROPERTIES RequestEnds PrimaryRecovers
