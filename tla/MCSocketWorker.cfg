CONSTANTS
  MaxConns = 2
  MaxFrames = 1
  MaxWrites = 1
  EvCap = 2
  Timeout = 1
  SleepUnit = 1
  MaxSleeps = 1
  Prompt = FALSE
SPECIFICATION Spec
INVARIANTS
  TypeOK
  Attended
  StaysStopped
CHECK_DEADLOCK FALSE
