SPECIFICATION Spec
CONSTANTS
  Clients = {c1, c2}
  NoClient = nil
  MaxCommands = 1
SYMMETRY Symmetry
INVARIANT DroppedStartsNoLadder
CHECK_DEADLOCK FALSE
