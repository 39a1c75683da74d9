SPECIFICATION FairSpec
CONSTANTS
  t1 = t1  t2 = t2
  Target = {t1, t2}
  MaxScans = 4
  MaxCrashes = 2
INVARIANTS OneChild RestartsFollowChanges
PROPERTIES AppliesLatest SupervisorStops
CHECK_DEADLOCK FALSE
