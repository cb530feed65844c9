SPECIFICATION Spec
CONSTANTS
  MaxItems = 2
  Window = 2
  Limit = 6
  Scenarios <- RepairScene
  NetRetries = 1
  BotRounds = 2
PROPERTIES ConfirmedNotResent
CHECK_DEADLOCK FALSE
