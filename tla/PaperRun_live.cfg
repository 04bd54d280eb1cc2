SPECIFICATION FairSpec
CONSTANTS
  Run = {r1}
  Worker = {w1, w2}
  NoRun = NoRun
  s1 = s1
  s2 = s2
  Strategy = {s1}
  StrategyOf <- OneStrategy
  MaxFailures = 3
  MaxFills = 3
INVARIANTS
  OneFillAfterStop
  PositionAlternates
PROPERTIES
  StopEndsLoop
  
CHECK_DEADLOCK FALSE
