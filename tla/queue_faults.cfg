SPECIFICATION Spec
CONSTANTS
  Events = {1}
  Premade = {}
  Materializers = {m1}
  Sessions = {1, 2}
  WorkerOf <- MCSameWorker
  Tokens = {11, 12}
  NoEvent = NoEvent
  NoToken = NoToken
  NoWorker = NoWorker
  Policy <- MCPolicy
  Requests <- MCWholePolicy
  Enabled = {"n8n", "email", "sms"}
  Skipped = {}
  Misconfigured = {"email"}
  Quietable = {"sms"}
  MaxAttempts = 2
  AttemptCap = 3
  LeaseTicks = 1
  RetryBase = 1
  RetryCap = 2
  SendCap = 1
  Faults = {"overrun", "crash", "database", "ambiguous", "materialize"}
  w1 = w1
  w2 = w2
INVARIANTS
  
  OneHolder
  
PROPERTIES
  SettledByLatestClaim
  
\* The queue may drain for good.
CHECK_DEADLOCK FALSE
