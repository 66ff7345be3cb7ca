SPECIFICATION Spec
CONSTANTS
  one = one
  two = two
  NoIP = NoIP
  NoNetwork = NoNetwork
  NoData = NoData
  Refreshes <- OneRefresh
  Items <- MCItems
  Hosts <- MCHosts
  Readings <- MCReadings
  Network <- MCNetwork
  Contents <- MCContents
  Faults <- AllFaults
  DnsEnabled = TRUE
  MaxRetries = 2
  InitialBackoff = 5
  MaxBackoff = 8
PROPERTY IssueClearsOnlyWhenReachable
