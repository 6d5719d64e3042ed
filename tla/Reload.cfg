CONSTANTS
  Variables = {"${KEY}"}
  Environment <- OneSet
  Malformed = Malformed
  Contents <- Files
  Timer = {t1}
  Admin = {a1}
  Nobody = Nobody
  MaxEdits = 2
  Request = {r1}
  Model = {"gpt-4o"}
SPECIFICATION SFairSpec
INVARIANTS WatchedInUse InUseConfigured RoutedInUse WaitBounded
PROPERTIES NeverOlder LastEditApplied ShutdownEnds
CHECK_DEADLOCK FALSE
