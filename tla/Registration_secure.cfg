\* One secure server, every fault, every lifetime class: zero, one (its update
\* delay is zero), short (below MaxTxWait), long, and one that overflows.
CONSTANTS
  s1 = s1
  s2 = s2
  Server = {s1}
  Secure = {s1}
  Lifetimes = {0, 1, 2, 9}
  DefaultLifetime = 5
  DisableTimeouts = {0, 4}
  DefaultDisable = 4
  MaxTxWait = 3
  MaxDelay = 8
  Faults = {"malloc", "open", "send", "closed"}
SPECIFICATION FairSpec
INVARIANTS TypeOK RegistrationInv
PROPERTIES DisabledIsLeftAlone RequestsEnd ChangesAreSent ServersComeBack
