SPECIFICATION Spec
CONSTANTS
  one = one
  two = two
  NoIP = NoIP
  NoNetwork = NoNetwork
  NoData = NoData
  Refreshes <- TwoRefreshes
  Items <- MCFewItems
  Hosts <- MCHosts
  Readings <- MCFewReadings
  Network <- MCFewNetwork
  Contents <- MCFewContents
  Faults <- LostAnswers
  DnsEnabled = FALSE
  MaxRetries = 2
  InitialBackoff = 5
  MaxBackoff = 8
INVARIANTS RefreshesUpheld ReportIsCoherent NotificationMatchesReport
SYMMETRY RefreshSymmetry
