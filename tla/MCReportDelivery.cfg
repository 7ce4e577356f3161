SPECIFICATION Spec
CONSTANTS
  Key = {a}
  Usage = {u}
  Profile = {p, q}
  QueueDepth = 1
  None = None
SYMMETRY Swap
INVARIANTS TypeOK NoStuckKey OneHost
