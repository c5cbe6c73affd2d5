SPECIFICATION ArpSpec
CONSTANTS
  host1 = host1
  host2 = host2
  Ips <- TwoHosts
  Macs = {x}
  TableSize = 1
  PendingCount = 2
  ArpAttempts = 2
  ArpResendTimeout = 1
  CacheTimeout = 1
  MayLose = TRUE
  MaxCalls <- CallsOfHost
INVARIANTS   CacheChain RequestsBounded PendingIsWatched
PROPERTIES OldEntriesLeave RequestsEnd
