SPECIFICATION FairSpec
CONSTANTS
  d1 = d1
  NCalls = 3
  Dirs = {d1}
  DirOf <- MCDirOf
  MaxEvents = 1
INVARIANTS TypeOK CompileIsAttended BusyOnlyAfterAbandon OverlapTakesThirdCall OwnFirmware
PROPERTY AbandonedIsStopped
CHECK_DEADLOCK FALSE
