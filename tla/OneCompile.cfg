SPECIFICATION Spec
CONSTANTS
  d1 = d1
  NCalls = 3
  Dirs = {d1}
  DirOf <- MCDirOf
  MaxEvents = 0
CHECK_DEADLOCK FALSE
INVARIANT OneCompileAtATime
