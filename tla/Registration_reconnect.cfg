\* A plain server whose channel breaks and cannot be opened again.
CONSTANTS
  s1 = s1
  s2 = s2
  Server = {s1}
  Secure = {}
  Lifetimes = {5}
  DefaultLifetime = 5
  DisableTimeouts = {}
  DefaultDisable = 4
  MaxTxWait = 3
  MaxDelay = 8
  Faults = {"open", "closed"}
SPECIFICATION Spec
INVARIANT ReconnectionIsHarmless
