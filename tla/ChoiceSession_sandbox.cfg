CONSTANTS
  User = {u1}
  Thread = {t1}
  Object = {o1}
  Overlapping = {}
  Bystander = {}
SPECIFICATION Spec
SYMMETRY Symmetry
INVARIANT SandboxNeverLive
