\* Three sends with a tool call each, on two instances of the page; two sessions are kept.
CONSTANTS
  SessionIds = {s1, s2, s3}
  NoSession = NoSession
  MaxSends = 3
  MaxCalls = 1
  MaxMounts = 2
  MaxSessions = 2
SPECIFICATION Spec
SYMMETRY Symmetry
INVARIANTS
  TypeOK
  AnswersStayHome
PROPERTIES
  KeepsEarlier
