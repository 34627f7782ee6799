\* Four buffers for a receive queue of one, three or (too many) five descriptors and
\* captures of one to three packets, of which the array takes two.
CONSTANTS
  Half = 4
  Missing = Missing
  MbufSz = 1
  HgpageSz = 4
  OtherFds = 1
  Limits = {2}
  CheckCnt = 1
  Mbufs = {m1, m2, m3, m4}
  ConfigFiles <- MCConfigFiles
  YamlFiles <- MCYamlFiles
  Captures <- MCCaptures
  RxDescs = {1, 3, 5}
  MaxPktBurst = 2
  BufSize = 2
  DataRoom = 2
  TxDesc = 2
  Period = 1
  IntMax = 1
  U16 = 4
  Durations = {1}
  MaxSends = 2
  MaxFrames = 1
  MaxJumps = 0
SPECIFICATION FairSystem
INVARIANTS WholeLife PoolSuffices SavedCounts
PROPERTIES Spec CalledAsAssumed RunEnds
CHECK_DEADLOCK FALSE
