SPECIFICATION FairSpec
CONSTANTS
  v1 = v1
  v2 = v2
  u1 = u1
  w1 = w1
  w2 = w2
  NoFile = NoFile
  Torn = Torn
  Versions = {v1, v2}
  Uploads = {u1}
  Drops = {w1, w2}
  Downloads = {d1}
  VersionOf <- MCVersionOf
  MaxRequests = 2
  MaxRestarts = 1
INVARIANTS TypeOK ListedHasFile ServedWhole
PROPERTIES DropIsRegistered
CHECK_DEADLOCK FALSE
