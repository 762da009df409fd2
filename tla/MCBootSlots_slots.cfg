SPECIFICATION FairSpec
CONSTANTS
  Versions = {v0, v1, v2}
  Works = {v0, v1}
  Factory = v0
  NoSlot = NoSlot
  MaxRequests = 3
  MaxFaults = 3
INVARIANTS TypeOK AWorkingSlotRemains NoFourthAttempt
PROPERTIES KeepsPromise Recovers Settles
