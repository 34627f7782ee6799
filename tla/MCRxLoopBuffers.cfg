\* Four buffers, two bursts of up to two packets, a transmit ring of three
\* descriptors that can refuse a part of the second burst.
CONSTANTS
  m1 = m1
  m2 = m2
  Mbufs = {m1, m2, m3, m4}
  Bursts <- ShortAndLong
  TxDesc = 3
  Period = 2
  IntMax = 3
  U16 = 4
  Durations = {1}
  MaxSends = 2
  MaxFrames = 2
  MaxJumps = 0
SYMMETRY Symmetry
SPECIFICATION Spec
INVARIANTS TypeOK MbufAccounting CleanWire RxBudget
PROPERTIES Contract ReportFaithful
CHECK_DEADLOCK FALSE
