\* Fields of two characters stand for those of eighteen and of a hundred.
CONSTANTS
  NameRoom = 2
  AddrRoom = 2
  CfgRoom = 3
  NUL = NUL
  Junk = Junk
  Garbled = Garbled
  Missing = Missing
  NoNumber = NoNumber
  Documents <- MCDocuments
  Devices <- MCDevices
  Frames <- MCFrames
SPECIFICATION MCSpec
INVARIANTS PrintedAsWritten OnlyEnabled ChecksumRight
CHECK_DEADLOCK FALSE
