CONSTANTS
  a = a
  b = b
  s = s
  t = t
  Request = {r1, r2}
  IP = {a, b}
  Shard = {s, t}
  ShardOf <- ApartShards
  Limiter = {l1, l2, l3, l4}
  NoLimiter = NoLimiter
  Rate = 1
  Burst = 2
  TTL = 3
  Dwell = 1
SPECIFICATION FairSpec
INVARIANTS EntriesCounted OneLimiter
PROPERTIES ImplementsBucket IdleForgotten
