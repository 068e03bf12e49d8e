CONSTANTS
  p1 = p1
  p2 = p2
  p3 = p3
  Producers = {p1, p2, p3}
  DirOf <- MCDirOf
  Buf <- MCBuf
  TapWr = 1
SPECIFICATION FairSpec
INVARIANTS
  TypeOK
  ProducersSafe
  CountExact
PROPERTY
  ConsumersReleased
CHECK_DEADLOCK FALSE
