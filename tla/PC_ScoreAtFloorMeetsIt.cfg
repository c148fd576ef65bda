SPECIFICATION Spec
CONSTANTS
  None = None
  Malformed = Malformed
  aave = aave
  Aave = Aave
  shady = shady
  Protocols <- MCProtocols
  Lower <- MCLower
  DecimalMax <- MCDecimalMax
  PolicyIds = {p1, p2}
  RuleLists <- MCRuleLists
  Wires <- MCWires
INVARIANT ScoreAtFloorMeetsIt
