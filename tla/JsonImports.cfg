SPECIFICATION Spec
CONSTANTS
  MaxItems = 2
  Window = 2
  Limit = 6
  Scenarios <- AllScenes
  NetRetries = 1
  BotRounds = 2
INVARIANTS LedgerConsistent CopiesExplained ReportSound CutsSound
PROPERTY ImplementsLedger
CHECK_DEADLOCK FALSE
