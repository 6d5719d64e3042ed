CONSTANTS
  Request = {r1, r2}
  Conn = {c1, c2, c3, c4}
  IP = {a, b}
  MaxActive = 1
  MaxPerIP = 1
  NoCounter = NoCounter
SPECIFICATION Spec
INVARIANTS ActiveMatches CountWithinLimit CountsExplained
SYMMETRY Symmetry
