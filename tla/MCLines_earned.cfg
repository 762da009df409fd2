SPECIFICATION Spec
CONSTANTS
  Clients = {c1}
  NoClient = nil
  Slots = 2
  Operator = {TRUE}
  MaxLines = 1
  MaxResets = 0
  MaxOpens = 1
PROPERTY EarnedOks
CHECK_DEADLOCK FALSE
