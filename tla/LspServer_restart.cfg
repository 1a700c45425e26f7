SPECIFICATION LspSpec
CONSTANTS
  Callers = {c}
  None = None
  MaxAttempts = 2
  MaxLaunches = 2
  MaxVersion = 2
PROPERTY CurrentReplaces
CHECK_DEADLOCK FALSE
