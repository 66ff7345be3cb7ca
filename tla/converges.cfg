SPECIFICATION TFairSpec
CONSTANTS
  Debounced = debounced
  Scheduled = scheduled
  NoIP = NoIP
  NoNetwork = NoNetwork
  NoData = NoData
  Refreshes <- MCRefreshes
  Items <- MCHosts
  Hosts <- MCHosts
  Readings <- MCHosts
  Network <- MCNetwork
  Contents <- MCContents
  InitialBackoff = 5
  MaxBackoff = 8
  Faults <- TokenFaults
  DnsEnabled = FALSE
  MaxRetries = 1
  ScheduledLocks = TRUE
INVARIANTS TTypeOK SafetyNetHolds
PROPERTIES LockKeepsMatch Converges
CHECK_DEADLOCK FALSE
