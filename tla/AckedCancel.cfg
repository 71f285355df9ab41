SPECIFICATION Spec
CONSTANTS
  j1 = j1
  d1 = d1
  NoJob = NoJob
  Jobs = {j1}
  Devices = {d1}
  DeviceOf <- MCDeviceOf
PROPERTY AckedCancelIsFinal
CHECK_DEADLOCK FALSE
