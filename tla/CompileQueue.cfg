SPECIFICATION FairSpec
CONSTANTS
  j1 = j1
  d1 = d1
  NoJob = NoJob
  Jobs = {j1, j2}
  Devices = {d1}
  DeviceOf <- MCDeviceOf
INVARIANTS TypeOK NoLostWakeup UnsettledJobsAreHeld QueueHoldsPendingJobs DoneHasBinary FleetHasBuiltDevicesOnly
PROPERTIES ImplementsLifecycle EveryJobSettles
CHECK_DEADLOCK FALSE
