\* Every kind of Object, with a Server that reads, writes, executes, creates and deletes.
CONSTANTS
  NULL = NULL
  CustomId <- MCCustomId
  AddRequests <- MCAddRequests
  InstanceIds = {0, 1}
  Values = {0, 1}
  Cases <- MCCases
  BatteryUpdates <- MCBattery
  ErrorCodes = {0, 2, 5, 33}
  SourceUpdates <- MCSources
  Attributes <- MCAttributes
  MaxInstances = 2
  MaxSources = 2
  Faults = {"memory"}
SPECIFICATION Spec
VIEW View
INVARIANTS TypeOK ServersAreToldOfObjects AnswersAreRight
PROPERTIES InstancesAgree ChangeIsTold RefusedChangesNothing
