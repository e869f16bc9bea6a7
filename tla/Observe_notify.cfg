\* One server with two observations; Instances are removed, allocations fail, responses are too large.
CONSTANTS
  NULL = NULL
  t1 = t1
  t2 = t2
  i1 = i1
  i2 = i2
  NServer = 1
  Token = {t1, t2}
  Instance = {i1}
  Values = {0, 2}
  Targets <- MCTargets
  Queries <- MCQueries
  MaxAge = 2
  MaxSleep = 2
  Faults = {"malloc", "large", "remove"}
SPECIFICATION FairSpec
INVARIANTS TypeOK ObservationsAgree PmaxIsKept
PROPERTIES NotificationsAreDue ChangeIsSeen
