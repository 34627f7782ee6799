\* A 16-bit cell holds two bits, a word four; two polls stand for the hundred.
CONSTANTS
  Half = 4
  Missing = Missing
  ConfigFiles <- MCConfigFiles
  MbufSz = 3
  HgpageSz = 4
  OtherFds = 1
  Limits = {2, 5}
  CheckCnt = 2
  YamlFiles <- MCYamlFiles
SPECIFICATION FairSpec
INVARIANTS
  TypeOK
  SettingsHold
  FdLimit
  PoolBeforeUse
  StartedMeansLink
  SummaryFile
  SavedIsTrue
PROPERTIES Terminates
CHECK_DEADLOCK FALSE
