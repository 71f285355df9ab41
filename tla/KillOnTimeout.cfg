SPECIFICATION FairSpec
CONSTANTS
  d1 = d1
  NCalls = 1
  Dirs = {d1}
  DirOf <- MCDirOf
  MaxEvents = 0
CHECK_DEADLOCK FALSE
PROPERTY TimeoutKillsCompile
