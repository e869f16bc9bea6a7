SPECIFICATION Spec
CONSTANTS
  NULL = NULL
  r1 = r1
  r2 = r2
  t1 = t1
  t2 = t2
  a1 = a1
  a2 = a2
  c1 = c1
  c2 = c2
  Request = {r1, r2}
  Command = {}
  Confirmable = {}
  Token = {t1, t2}
  Address = {a1, a2}
  MaxRetransmit = 1
  MaxExecuted = 2
  Faults = {"malloc", "send"}
SYMMETRY Symmetry
INVARIANTS TypeOK PendingIsWaiting ReplyIsItsOwn
PROPERTIES FailureIsItsOwn ImplementsService
CHECK_DEADLOCK FALSE
