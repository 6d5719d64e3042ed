CONSTANTS
  Request = {r1}
  Models = {"gpt-4o-mini"}
  Usages <- Answers
  Prices <- Table
  DefaultPricing <- Unknown
  Configs <- Rejecting
  HourWindow = 2
  HourBucket = 1
  DayWindow = 4
  DayBucket = 2
  MaxTime = 2
  MaxSpent = 3
SPECIFICATION Spec
INVARIANT SpendRecorded
