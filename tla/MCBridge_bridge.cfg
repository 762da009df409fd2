SPECIFICATION FairSpec
CONSTANTS
  Clients = {c1, c2}
  NoClient = nil
  MaxCommands = 1
INVARIANT TypeOK OwnerIsServed OneSender OneCommander
PROPERTY LeaversAreHandled ShutdownEnds DepartureIsSettled
CHECK_DEADLOCK FALSE
