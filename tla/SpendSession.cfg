SPECIFICATION Spec
CONSTANTS
  None = None
  aave = aave
  shady = shady
  Protocols <- MCProtocols
  Audited = {aave}
  Cent <- MCCent
  DecimalMax <- MCDecimalMax
  Agents = {m1, m2}
  ChaosAgents = {}
  Calls = {c1, c2, c3}
  ToolArgs <- MCToolArgs
  Rules <- Budget
INVARIANT SessionWithinBudget
CHECK_DEADLOCK FALSE
