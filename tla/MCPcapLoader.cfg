\* An array of two entries, a pool of at most four buffers and captures of at
\* most three records: the array, the pool and the file each run out first.
CONSTANTS
  Mbufs = {m1, m2, m3, m4}
  MaxPktBurst = 2
  BufSize = 4
  DataRoom = 2
  MaxRecords = 3
  Captures <- MCCaptures
SYMMETRY Symmetry
SPECIFICATION Spec
INVARIANTS TypeOK BufferAccounting BurstIsCapture LoadResult UndefinedFor
CHECK_DEADLOCK FALSE
