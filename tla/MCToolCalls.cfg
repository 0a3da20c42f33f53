\* Three callers of one spec, so that two wait for a third in the lock; a change.
CONSTANTS
  Callers = {c1, c2, c3}
  Specs = {s1}
  Configs = {k1, bad}
  Malformed = {bad}
  Absent = Absent
  NoOne = NoOne
  NoTool = NoTool
  MaxCalls = 3
  MaxEdits = 1
SPECIFICATION FairSpec
INVARIANTS
  OneAuthenticator
  BareOnlyWithoutFile
  CountedOnce
PROPERTIES
  CallsAnswered
