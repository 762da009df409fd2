SPECIFICATION MCSpec
CONSTANTS
  Clients = {c1, c2}
  NoClient = nil
  Slots = 2
  Operator = {TRUE, FALSE}
  MaxLines = 2
  MaxResets = 1
  MaxOpens = 2
INVARIANT TypeOK BooksBalance SlotsAreForLines
PROPERTY GateOpens SlotsComeBack
CHECK_DEADLOCK FALSE
