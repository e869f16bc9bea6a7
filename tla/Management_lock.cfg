\* The application holds the notifications while it updates its device.
CONSTANTS
  NULL = NULL
  CustomId <- MCCustomId
  AddRequests <- MCAddRequests
  InstanceIds = {0, 1}
  Values = {0, 1}
  Cases <- MCLockCases
  BatteryUpdates <- MCBattery
  ErrorCodes = {0, 2, 5, 33}
  SourceUpdates <- MCSources
  Attributes <- MCAttributes
  MaxInstances = 2
  MaxSources = 2
  Faults = {"memory"}
SPECIFICATION Spec
VIEW View
INVARIANT LockIsKept
