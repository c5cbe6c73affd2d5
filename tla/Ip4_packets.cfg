SPECIFICATION Ip4Spec
CONSTANTS
  Ips = {a, b}
  Macs = {x, y}
  TableSize = 1
  PendingCount = 1
  ArpAttempts = 1
  ArpResendTimeout = 1
  CacheTimeout = 1
  MayLose = FALSE
  MaxCalls <- ThreeCalls
  MaxPendingPackets = 2
  MaxPackets = 3
SYMMETRY Ip4Symmetry
INVARIANTS  SentOnce Accounted NoneLeftBehind FreshMapping
PROPERTY SentToLatest
