SPECIFICATION Spec
CONSTANTS
  s1 = s1
  s2 = s2
  t1 = t1
  t2 = t2
  Instrument = {s1, s2}
  Thread = {t1, t2}
  Quantity = {1, 2}
  Price = {120, 360}
  MaxFills = 3
  MaxResets = 1
  Request = {t1}
  Amount = {4, 100, 1010, 9999}
  Infinity = 9999
  MaxTransfer = 1000
  MaxChanges = 2
  TestPrice = {40, 60}
  Capital = {100, 1000}
  BuyQuantity = 2
  TargetPct = 40
  StopPct = 30
  Cap = 9
  Segments = 2
  MaxBars = 5
  Seconds = 2
  TickPrice = {1, 2, 3}
  LastTime = 5
  MaxTicks = 4
  Definition <- Definitions
  Identifier = {"sma"}
  Bands <- NamedBands
  Close = {40, 60}
  Level = {50}
  Number = 50
  ReadBars = 2
  Wanted = {{s1}}
  Held = {s1}
  DemoHeld = {s1}
  Reader = {t1, t2}
  Trader = {t1}
  Lifetime = 2
  MaxModes = 2
  Listed <- Rows
  Known <- Indices
  Provider = "AUTO"
  Searcher = {t1}
  MaxSessions = 2
  Rate = 2
  Second = 4
  Modulus = 12
  Down = 3
  StartTimes = {3, 6}
  Horizon = 12
  MaxRestarts = 1
  User = {"u1", "u2"}
  State = {"x1", "x2"}
  Redirected = {t1, t2}
  LinkTtl = 2
  Copy = {"c1"}
  Update = {1, 2}
  Asset = {"program", "page"}
INVARIANTS
  BookBalances
  BarsAreTrue
  
  NoNumberTwice
  SignalsAreTrue
  
  NoStaleQuote
  
  OneSessionPerLink
  ProgramSurvives
  InstrumentsAreTrue
  PayoutsLeaveARecord
CHECK_DEADLOCK FALSE
