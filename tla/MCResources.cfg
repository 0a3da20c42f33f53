\* Two admins at once, four requests among two resources, one reader, one kill.
CONSTANTS
  Admins = {a1, a2}
  Readers = {c1}
  Ids = {i1, i2}
  MaxRequests = 4
  MaxCrashes = 1
  Absent = Absent
  Gone = Gone
  NoId = NoId
SPECIFICATION Spec
SYMMETRY Symmetry
INVARIANTS
  ReadsFindContent
  ContentHasOwner
  AnswersHold
  OwnChangeInstalled
