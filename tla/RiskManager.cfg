SPECIFICATION Spec
CONSTANTS
  Owner = {o1}
  Thread = {t1, t2}
  Quantity <- MCQuantity
  Price <- MCPrice
  Pnl <- MCPnl
  MaxQuantity = 2
  MaxValue = 3
  MaxDailyLoss = 2
  LedgerBound = 2
  LastDay = 2
SYMMETRY ThreadSymmetry
INVARIANTS
  BudgetForetells
  HaltedRefusesReal
  KillSwitchSeals
  SealedRefusesAll
  PaperLossSparesReal
PROPERTY HaltLatches
