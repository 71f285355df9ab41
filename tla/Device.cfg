SPECIFICATION DeviceSpec
CONSTANTS
  Levels = {0, 64}
  CTs = {370}
  Gamma <- MCGamma
  RawDuties = {1023}
  Configs <- MCConfigs
  WIFI_MAX_RETRIES = 1
  MaxEvents = 2
INVARIANTS ShowsLastCaller BrakeNeedsRace SilentMeansGaveUp OnlineWithoutMatter
CHECK_DEADLOCK FALSE
