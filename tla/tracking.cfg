SPECIFICATION FairSpec
CONSTANTS
  Trips = {t1}
  First <- MCOneTrip
  Runs = {r1, r2}
  None = None
INVARIANTS
  
  WatcherEndsWithScreen
PROPERTIES
  KeepsTracking
\* The driver may leave the application alone.
CHECK_DEADLOCK FALSE
