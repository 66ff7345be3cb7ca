SPECIFICATION TSpec
CONSTANTS
  Debounced = debounced
  Scheduled = scheduled
  NoIP = NoIP
  NoNetwork = NoNetwork
  NoData = NoData
  Refreshes <- MCRefreshes
  Items <- MCHosts
  Hosts <- MCHosts
  Readings <- UsableOrNot
  Network <- MCNetwork
  Contents <- MCContents
  InitialBackoff = 5
  MaxBackoff = 8
  Faults <- SomeFaults
  DnsEnabled = FALSE
  MaxRetries = 1
  ScheduledLocks = FALSE
INVARIANTS TTypeOK SafetyNetHolds
CHECK_DEADLOCK FALSE
