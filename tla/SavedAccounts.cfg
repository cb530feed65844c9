SPECIFICATION FairSpec
CONSTANTS
  a1 = a1
  a2 = a2
  Accounts = {a1, a2}
  None = None
  Msgs = {1}
  Ops = {o1}
  Logins = {start, web}
  Startup = start
  MaxLogins = 4
  MaxOps = 2
  MaxJobs = 1
  MaxStarts = 2
INVARIANTS LoginConsistent OwnRecords JobKeepsAccount
PROPERTIES AccountHeld SwitchEnds
CHECK_DEADLOCK FALSE
