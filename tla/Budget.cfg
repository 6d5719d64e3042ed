CONSTANTS
  Request = {r1, r2}
  Models = {"gpt-4o-mini", "new"}
  Usages <- Answers
  Prices <- Table
  DefaultPricing <- Unknown
  Configs <- Reloadable
  HourWindow = 2
  HourBucket = 1
  DayWindow = 4
  DayBucket = 2
  MaxTime = 5
  MaxSpent = 4
SPECIFICATION Spec
INVARIANTS WindowsAccurate OvershootBounded
PROPERTY RejectedOverBudget
SYMMETRY Requests
