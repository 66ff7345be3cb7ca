SPECIFICATION MCSpec
CONSTANTS
  left = left
  right = right
  NoCoordinator = NoCoordinator
  Coordinators <- MCCoordinators
  Tokens <- MCTokens
  Ips <- MCIps
  Nothing = Nothing
  MaxEvents = 3
INVARIANTS LTypeOK StoredTakesEffect NeverForgotten
PROPERTIES GoneIsQuiet ReloadServed LifeConverges
CHECK_DEADLOCK FALSE
