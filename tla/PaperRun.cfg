SPECIFICATION Spec
CONSTANTS
  Run = {r1, r2}
  Worker = {w1, w2}
  NoRun = NoRun
  s1 = s1
  s2 = s2
  Strategy = {s1}
  StrategyOf <- OneStrategy
  MaxFailures = 1
  MaxFills = 1
SYMMETRY Symmetry
INVARIANTS
  StoppableRun
  
PROPERTIES
  HaltedKeepsFigures
  RefinesLifecycle
CHECK_DEADLOCK FALSE
