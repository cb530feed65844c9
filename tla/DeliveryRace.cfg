SPECIFICATION Spec
CONSTANTS
  m1 = m1
  m2 = m2
  m3 = m3
  Msgs = {m1, m2, m3}
  Workers = {w1, w2}
  Groups <- MixedGroups
  Dropped = {m3}
  Modes = {"api", "clone"}
  Forces = {TRUE, FALSE}
  NetRetries = 1
  GroupRounds = 1
  CloneRounds = 1
  MaxFloods = 0
  MaxOps = 2
  MaxCrashes = 1
  MaxStops = 0
SYMMETRY Symmetric
INVARIANTS ExposedIsTraced MappingSound ReservationExclusive ReportSound
PROPERTIES ImplementsLedger UnconfirmedSticks
CHECK_DEADLOCK FALSE
