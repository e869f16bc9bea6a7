SPECIFICATION Spec
CONSTANTS
  NULL = NULL
  NumberSpan = 8
  FLT_MAX = 50
  Expected <- MCExpected
  Exchanges <- MCExchanges
  Datagrams <- MCDatagrams
  Payloads <- MCPayloads
  Numbers <- MCNumbers
  LinkLists <- MCLinkLists
  Servers <- MCServers
  Registrations <- MCRegistrations
INVARIANTS FitsItsBuffer SentIsRead OnlySentIsRead RegistrationIsTold
CHECK_DEADLOCK FALSE
