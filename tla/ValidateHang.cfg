SPECIFICATION FairSpec
CONSTANTS
  None = None
  Malformed = Malformed
  Unreadable = Unreadable
  aave = aave
  Protocols <- MCProtocols
  Lower <- MCLower
  DecimalMax <- MCDecimalMax
  Users = {u1}
  PolicyIds = {p1, p2}
  RuleLists <- TwoLists
  Wires <- TwoWires
  Calls = {c1}
PROPERTY VerdictStillReturns
