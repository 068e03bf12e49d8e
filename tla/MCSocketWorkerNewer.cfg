CONSTANTS
  MaxConns = 2
  MaxFrames = 2
  MaxWrites = 0
  EvCap = 2
  Timeout = 1
  SleepUnit = 1
  MaxSleeps = 1
  Prompt = FALSE
SPECIFICATION Spec
PROPERTY
  KeepsNew
CHECK_DEADLOCK FALSE
