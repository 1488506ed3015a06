SPECIFICATION ScreensSpec
CONSTANTS
  None = None
  Keys = {k1, k2}
  Handlers = {h1}
  MaxLoads = 4
  MaxVersion = 2
  k3 = k3
  Tokens = {k1, k3}
  Saved = {k1}
  Logins = {l1}
  Refreshes = {r1}
  Mobiles = {m1}
  Emails = {e1}
  Slots = {s1, s2}
  MaxCodes = 1
  Calls = {c1, c2}
  ReceiverForms = {"as ordered", "less"}
  SitePhotos = {"site"}
  DriverRequests = {c1}
  MaxDriverPresses = 4
INVARIANTS
  
  PushFollowsSession
  DataOfKey
  ReadsItsWrites
  CodeOnItsWay
  PodAsSubmitted
PROPERTIES
  
  WaitsEnd
\* The screens and their bounded calls end.
CHECK_DEADLOCK FALSE
