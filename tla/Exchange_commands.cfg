SPECIFICATION FairSpec
CONSTANTS
  NULL = NULL
  r1 = r1
  r2 = r2
  t1 = t1
  t2 = t2
  a1 = a1
  a2 = a2
  c1 = c1
  c2 = c2
  Request = {r1}
  Command = {c1, c2}
  Confirmable = {c1}
  Token = {t1}
  Address = {a1}
  MaxRetransmit = 1
  MaxExecuted = 2
  Faults = {"malloc", "send"}
CHECK_DEADLOCK FALSE
INVARIANTS ExecutedOnce
PROPERTIES TransmissionsEnd
