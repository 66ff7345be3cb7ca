SPECIFICATION FairSpec
CONSTANTS
  one = one
  NoIP = NoIP
  NoId = NoId
  NoRecord = NoRecord
  InitialBackoff = 5
  MaxBackoff = 8
  Refreshes <- OneRefresh
  Addresses <- MCAddresses
  TypeFor <- MCTypeFor
  Stored <- MCStored
  Ids <- MCIds
  Foreign <- MCForeign
  Faults <- AllFaults
  MaxRetries = 2
INVARIANTS TypeOK InSyncIsCurrent
PROPERTIES RetriesFollowSchedule CreatesOnlyIfNone ImplementsOutcome DnsHalfEnds
