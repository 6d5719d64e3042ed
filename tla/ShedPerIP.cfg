CONSTANTS
  Request = {}
  Conn = {c1, c2, c3}
  IP = {a}
  MaxActive = 0
  MaxPerIP = 1
  NoCounter = NoCounter
SPECIFICATION Spec
INVARIANT ConnectionsWithinLimit
