CONSTANTS
  User = {u1, u2}
  Thread = {t1, t2}
  Object = {o1, o2}
  Overlapping = {}
  Bystander = {u2}
SPECIFICATION Spec
SYMMETRY Symmetry
INVARIANTS NeverBackToLive UsableSession DisconnectForgets RememberedIsStored
