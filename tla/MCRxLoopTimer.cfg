\* One packet and no reception: a long run of the counter, across its wrap,
\* under a clock that is set twice.
CONSTANTS
  m1 = m1
  m2 = m2
  Mbufs = {m1}
  Bursts <- Single
  TxDesc = 2
  Period = 3
  IntMax = 7
  U16 = 4
  Durations = {0, 2, 4, 5}
  MaxSends = 8
  MaxFrames = 0
  MaxJumps = 2
SPECIFICATION FairSpec
INVARIANTS BurstSpacing LastsAsConfigured
PROPERTIES Termination
CHECK_DEADLOCK FALSE
