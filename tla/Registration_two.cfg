\* Two servers, one plain and one secure: every allocation may fail.
CONSTANTS
  s1 = s1
  s2 = s2
  Server = {s1, s2}
  Secure = {s2}
  Lifetimes = {5}
  DefaultLifetime = 5
  DisableTimeouts = {}
  DefaultDisable = 4
  MaxTxWait = 3
  MaxDelay = 8
  Faults = {"malloc"}
SPECIFICATION Spec
INVARIANTS NothingLeftBehind ChangesStayFlagged EventAgrees
PROPERTIES FailedUntilReset
