SPECIFICATION FairSpec
CONSTANTS
  p1 = p1
  job = job
  N = 2
  Posts = {p1}
  Job = job
  PostSizes = {3}
  JobSizes = {9}
  LocalServer = TRUE
  UploadLimit = 3
  Limits <- MCLimits
  Second = 1
  Cooldown = 2
  Longest = 2
  Rounds = 2
  RetryAfter = {0}
  MaxFiles = 1
  MaxJobFiles = 1
  MaxFloods = 1
  MaxRevoked = 2
  MaxChanges = 1
INVARIANTS PoolConsistent ReadyServed
PROPERTIES LimitsHold UploadsEnd
CHECK_DEADLOCK FALSE
