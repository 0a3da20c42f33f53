\* A rebuild that started before a removal and installs after it.
CONSTANTS
  Admins = {a1, a2}
  Specs = {p1, p2}
  Ops = {o1}
  Fields = {f1}
  MaxRequests = 3
  MaxCrashes = 0
  ReadsFail = FALSE
  Absent = Absent
  NoSpec = NoSpec
SPECIFICATION Spec
SYMMETRY Symmetry
INVARIANTS
  DeletedToolsGone
