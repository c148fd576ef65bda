SPECIFICATION Spec
CONSTANTS
  None = None
  Malformed = Malformed
  Unreadable = Unreadable
  aave = aave
  Protocols <- MCProtocols
  Lower <- MCLower
  DecimalMax <- MCDecimalMax
  Users = {u1, u2}
  PolicyIds = {p1, p2}
  Calls = {c1}
  RuleLists <- MCRuleLists
  Wires <- MCWires
INVARIANTS
  TypeOK
  ApprovalHonoursStandingPolicies
  SigningPathIsGuarded
  VerdictGivenIsLogged
  ExportTellsTheVerdict
PROPERTIES
  RecordsStay
  ImplementsGate
