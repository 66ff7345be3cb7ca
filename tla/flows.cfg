SPECIFICATION MCSpec
CONSTANTS
  first = first
  second = second
  Nothing = Nothing
  Flows <- BothFlows
  Tokens <- MCTokens
  Genuine <- MCGenuine
  AccountOwned <- MCAccountOwned
  Accounts <- MCAccounts
  Lists <- MCLists
  MaxEntries = 2
  Objects <- MCObjects
  Blank <- MCBlank
  Labels <- MCLabels
  LowerCase <- MCLowerCase
  ZoneName <- MCZoneName
  Inputs <- MCInputs
  PageSize = 2
INVARIANTS FTypeOK OTypeOK OneEntryPerList OnlyGenuineTokens ReadIsWhole KeptAreSeen
PROPERTIES AllowedNotRefused ZoneIsClosest CallEnds
