SPECIFICATION FairHubSpec
CONSTANTS
  c1 = c1
  old = old
  Chips = {c1, c2}
  Bundles = {old}
  NoRow = NoRow
  Nothing = Nothing
  OldFleet <- MCOldFleet
  Modules = {m1, m2}
  Mine = {}
  MaxCrashes = 1
  MaxBuilds = 2
  NoBuild = NoBuild
  Tabs = {s1}
  MaxOutput = 1
INVARIANTS FleetKept CatalogueAfterStart TerminalHasAll OneBuild
PROPERTIES HubServes TabEnds
CHECK_DEADLOCK FALSE
