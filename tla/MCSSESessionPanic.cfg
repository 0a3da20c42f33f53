\* A request that reaches its select late.
CONSTANTS
  Sessions = {s1}
  Requests = {m1}
  Capacity = 1
  None = None
  Beat = Beat
SPECIFICATION Spec
INVARIANTS
  NeverAborted
