SPECIFICATION Spec
CONSTANTS
  m1 = m1
  m2 = m2
  m3 = m3
  Msgs = {m1, m2}
  Workers = {w1, w2}
  Groups <- AlbumOnly
  Dropped = {}
  Modes = {"api", "clone"}
  Forces = {FALSE}
  NetRetries = 1
  GroupRounds = 2
  CloneRounds = 1
  MaxFloods = 0
  MaxOps = 2
  MaxCrashes = 0
  MaxStops = 0
PROPERTY ConfirmedNotResent
CHECK_DEADLOCK FALSE
