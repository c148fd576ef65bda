SPECIFICATION Spec
CONSTANTS
  Chats = {a, b}
  PolicyIds = {p, q}
  MaxUpdates = 2
  Keep = 2
  MaxTurns = 1
  MaxCalls = 1
SYMMETRY Symmetry
INVARIANTS
  TypeOK
  OnlyNewestIsActive
  ResetClearsWhatStood
PROPERTY ClosedStaysClosed
CHECK_DEADLOCK FALSE
