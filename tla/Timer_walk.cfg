SPECIFICATION Spec
CONSTANTS
  NULL = NULL
  s1 = s1
  s2 = s2
  Server = {s1, s2}
  Lifetimes = {1, 2, 3}
  MaxTxWait = 1
  ExchangeWait = 2
  DisableTimeout = 1
  MaxSleep = 3
  MaxTime = 4
  Removes = FALSE
SYMMETRY Symmetry
INVARIANTS TypeOK HeldPointersAreLive TimersAreOwned
PROPERTIES SleepEndsInTime
