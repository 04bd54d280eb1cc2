SPECIFICATION Spec
CONSTANTS
  a1 = a1
  r1 = r1
  Account = {a1}
  Request = {r1, r2}
  AccountOf <- OneAccount
  Killer = {k1}
  Desk = {}
  MaxRestart = 1
INVARIANTS
  SteadyOrders
  
  BookedOnce
  EveryBookingHasARow
