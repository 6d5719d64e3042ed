CONSTANTS
  p1 = p1
  p2 = p2
  p3 = p3
  Request = {r1, r2}
  Provider = {p1, p2, p3}
  Registered = {p1, p2}
  Reliable = {}
  Traffic <- Single
  Capacity = 1
  AttemptLimits = {1}
  Errors = {400, 503}
  BreakerConfig <- TwoSuccesses
  MaxCancels = 1
  DefaultHalfOpenMax = 2
SPECIFICATION FairSpec
PROPERTY PrimaryRecovers
