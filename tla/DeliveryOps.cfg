SPECIFICATION FairSpec
CONSTANTS
  m1 = m1
  m2 = m2
  m3 = m3
  Msgs = {m1, m2}
  Workers = {w1}
  Groups <- SplitGroups
  Dropped = {}
  Modes = {"api", "clone"}
  Forces = {FALSE}
  NetRetries = 1
  GroupRounds = 2
  CloneRounds = 2
  MaxFloods = 1
  MaxOps = 2
  MaxCrashes = 1
  MaxStops = 1
INVARIANTS TypeOK DoubtReported CopiesBounded
PROPERTIES OperationsEnd ConfirmedNotResent
CHECK_DEADLOCK FALSE
