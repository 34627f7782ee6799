\* Three buffers; a duration of one second on a clock that stands still is no
\* limit.
CONSTANTS
  CheckCnt = 2
  Mbufs = {m1, m2, m3}
  Captures <- MCCaptures
  RxDescs = {1, 4}
  MaxPktBurst = 2
  BufSize = 2
  DataRoom = 2
  TxDesc = 2
  Period = 2
  IntMax = 3
  U16 = 4
  Durations = {1}
  MaxSends = 2
  MaxFrames = 2
  MaxJumps = 0
SPECIFICATION FairSpec
INVARIANTS EndsByRefusal
PROPERTIES DeadPortEnds
CHECK_DEADLOCK FALSE
