SPECIFICATION SharedSpec
CONSTANTS
  None = None
  Malformed = Malformed
  aave = aave
  shady = shady
  bob = bob
  Chats = {chat}
  p1 = p1
  p2 = p2
  Protocols <- MCProtocols
  Lower <- MCLower
  DecimalMax <- MCDecimalMax
  Cent = 2
  Users = {bob}
  PolicyIds = {p1, p2}
  Calls = {c}
  RuleLists <- MCRuleLists
  Wires <- MCWires
  Unreadable = Unreadable
  ToolArgs <- MCToolArgs
  HandWritten <- MCHandWritten
INVARIANT SuccessMeansCreated
CHECK_DEADLOCK FALSE
