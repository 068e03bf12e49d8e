CONSTANTS
  MaxConns = 2
  MaxFrames = 0
  MaxWrites = 0
  EvCap = 5
  Timeout = 1
  SleepUnit = 1
  MaxSleeps = 0
  Prompt = TRUE
SPECIFICATION FairSpec
PROPERTY
  Reconnects
CHECK_DEADLOCK FALSE
