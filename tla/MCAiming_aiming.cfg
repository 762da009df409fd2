SPECIFICATION FairSpec
CONSTANTS
  Requests = {r1, r2}
  Sessions = {s1}
  NoSession = nobody
  Slots = 2
  OnDisconnect = "hold"
  LeaseIsLong = TRUE
  Faults = {"port"}
INVARIANT TypeOK
PROPERTY NoLonelyM5 UnheldBeamGoesOut
CHECK_DEADLOCK FALSE
