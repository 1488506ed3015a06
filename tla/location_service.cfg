SPECIFICATION FairSpec
CONSTANTS
  Trips = {t1, t2}
  NoTrip = NoTrip
  MaxQueue = 2
  MaxWork = 4
  MaxInstances = 2
  MaxCrashes = 1
INVARIANTS
  OwnTrip
  OldestFirst
  NoSilentLoss
PROPERTIES
  StopEndsUpdates
\* A trip may end with nothing left to do.
CHECK_DEADLOCK FALSE
