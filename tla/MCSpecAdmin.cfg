\* Two admins at once, three requests among two specs of two operations, one kill.
CONSTANTS
  Admins = {a1, a2}
  Specs = {p1, p2}
  Ops = {o1, o2}
  Fields = {f1}
  MaxRequests = 3
  MaxCrashes = 1
  ReadsFail = TRUE
  Absent = Absent
  NoSpec = NoSpec
SPECIFICATION Spec
SYMMETRY Symmetry
INVARIANTS
  TypeOK
  PromisesKept
  RegistryFollowsStore
  OwnWriteInstalled
