CONSTANTS
  Variables = {"${KEY}"}
  Environment <- OneSet
  Malformed = Malformed
  Contents <- Unwatched
  Timer = {t1}
  Admin = {a1}
  Nobody = Nobody
  MaxEdits = 1
SPECIFICATION Spec
INVARIANT AllInUse
CHECK_DEADLOCK FALSE
