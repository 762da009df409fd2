SPECIFICATION MCSpec
CONSTANTS
  Pages = {p1, p2}
  Settings <- MCSettings
  DefaultGrbl <- MCDefaultGrbl
  Wifis <- MCWifis
  Keys = {k1}
  Choices <- MCChoices
  None = none
  Failures = 2
  Faults = {"save", "apply", "rc", "wedge", "crash", "death", "power", "edit"}
  MaxRequests = 2
  MaxHits = 1
INVARIANT TypeOK SettledAgrees
PROPERTY NobodyIsOverwritten ErrorsChangeNothing BridgeComesBack

