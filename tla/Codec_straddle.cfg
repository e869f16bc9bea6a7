SPECIFICATION Spec
CONSTANTS
  NULL = NULL
  NumberSpan = 8
  FLT_MAX = 50
  Expected <- MCExpected
  Exchanges <- MCExchanges
  Datagrams = {}
  Payloads = {}
  Numbers = {}
  LinkLists = {}
  Servers = {}
  Registrations = {}
INVARIANTS InOrderIsReadAsSent
CHECK_DEADLOCK FALSE
