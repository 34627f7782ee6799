\* A 16-bit cell holds two bits, a word four; two polls stand for the hundred.
CONSTANTS
  Half = 4
  Missing = Missing
  ConfigFiles <- MCConfigFiles
  MbufSz = 3
  HgpageSz = 4
  OtherFds = 1
  Limits = {2, 5}
  CheckCnt = 2
  YamlFiles <- MCYamlFiles
SPECIFICATION Spec
INVARIANTS CaptureFromWorkingDir
CHECK_DEADLOCK FALSE
