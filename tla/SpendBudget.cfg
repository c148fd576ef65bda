SPECIFICATION Spec
CONSTANTS
  None = None
  aave = aave
  shady = shady
  Protocols <- MCProtocols
  Audited = {aave}
  Cent <- MCCent
  DecimalMax <- MCDecimalMax
  Agents = {m1, x}
  ChaosAgents = {x}
  Calls = {c1, c2, c3}
  ToolArgs <- MCToolArgs
  Rules <- Budget
SYMMETRY Symmetry
INVARIANTS
  TypeOK
  BudgetHolds
  TotalIsWhatWasCounted
PROPERTY ImplementsLedger
CHECK_DEADLOCK FALSE
