SPECIFICATION FairSpec
CONSTANTS
  a1 = a1
  r1 = r1
  Account = {a1, a2}
  Request = {r1}
  AccountOf <- TwoAccounts
  Killer = {k1}
  Desk = {d1}
  MaxRestart = 0

  
  
  
PROPERTIES
  CallsEnd
