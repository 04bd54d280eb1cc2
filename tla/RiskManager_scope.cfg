SPECIFICATION Spec
CONSTANTS
  Owner = {o1}
  Thread = {t1, t2}
  Quantity <- MCQuantity
  Price <- MCPrice
  Pnl <- MCPnl
  MaxQuantity = 2
  MaxValue = 3
  MaxDailyLoss = 2
  LedgerBound = 2
  LastDay = 2
PROPERTY KillSwitchStopsEverything
