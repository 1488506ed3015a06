SPECIFICATION FairSpec
CONSTANTS
  Employees = {e1, e2}
  Amounts = {n1}
  Refs = {r1, r2}
  Calls = {c1, c2}
  None = None
  MaxWrites = 2
  MaxCloses = 2
  MaxFaults = 1
INVARIANTS
  LedgerFollowsPayroll
  PayslipsMatchLedger
  OneCloser

  
\* Nothing happens once the bounded requests are spent.
CHECK_DEADLOCK FALSE
