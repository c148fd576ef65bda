SPECIFICATION Spec
CONSTANTS
  Chats = {a, b}
  PolicyIds = {p}
  MaxUpdates = 2
  Keep = 2
  MaxTurns = 1
  MaxCalls = 1
INVARIANT FreshStartStaysFresh
CHECK_DEADLOCK FALSE
