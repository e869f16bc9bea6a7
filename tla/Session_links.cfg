\* Two servers, one of them secure, each binding, and every fault but the
\* failure to shrink the channel array.
CONSTANTS
  v1 = v1
  v2 = v2
  x1 = x1
  x2 = x2
  k1 = k1
  k2 = k2
  Server = {v1, v2}
  Secure = {v1}
  Session = {x1, x2}
  Conn = {k1, k2}
  Libraries = {"tinydtls", "mbedtls"}
  Modes <- MCModes
  MaxRetransmit = 1
  Faults = {"open", "create", "dtls", "send", "select"}
  None = None
SPECIFICATION FairSpec
INVARIANTS LinksAgree StatesAgree HeldIsLive
PROPERTIES HandshakeEnds
