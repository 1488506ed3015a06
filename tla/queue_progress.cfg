SPECIFICATION EitherSpec
CONSTANTS
  Events = {1, 2}
  Premade = {1, 2}
  Materializers = {}
  Sessions = {1, 2}
  WorkerOf <- MCTwoWorkers
  Tokens = {11, 12, 13, 14, 15}
  NoEvent = NoEvent
  NoToken = NoToken
  NoWorker = NoWorker
  Policy <- MCFullPolicy
  Requests <- MCWholePolicy
  Enabled = {"n8n", "sms", "vapi", "email"}
  Skipped = {"vapi"}
  Misconfigured = {"email"}
  Quietable = {"sms"}
  MaxAttempts = 2
  AttemptCap = 3
  LeaseTicks = 1
  RetryBase = 1
  RetryCap = 2
  SendCap = 2
  Faults = {}
  w1 = w1
  w2 = w2
  m1 = m1
  m2 = m2
INVARIANTS
  CleanSendsOnce
PROPERTIES
  LiveSettles
\* The queue may drain for good.
CHECK_DEADLOCK FALSE
