SPECIFICATION ProvSpec
CONSTANTS
  c1 = c1
  r1 = r1
  t1 = t1
  v1 = v1
  old = old
  Chips = {c1, c2}
  Versions = {v1, v2}
  Requests = {r1}
  Tokens = {t1}
  Bundles <- MCBundles
  Names <- MCNames
  FwOf <- MCFwOf
  KindOf <- MCMerged
  NoRow = NoRow
  NoVersion = NoVersion
  Nothing = Nothing
  OldFleet <- MCOldFleet
  OldVersion = v1
INVARIANTS ProvTypeOK RowMatchesChip OkMeansEnrolled ReportedVersionIsOwn InstalledAsPrepared KeysAreApart
CHECK_DEADLOCK FALSE
