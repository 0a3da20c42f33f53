\* Two requests that compete for a channel of one slot, and two rebuilds that notify at
\* the same time; one client reads its stream, the other need not.  No symmetry under liveness.
CONSTANTS
  Sessions = {s1, s2}
  Requests = {m1, m2}
  Capacity = 1
  None = None
  Beat = Beat
  Connections = {s1, s2}
  Rebuilders = {r1, r2}
  MaxRebuilds = 2
  NoSession = NoSession
  Readers = {s1}
SPECIFICATION BothSpec
INVARIANTS
  RegisteredIsOpen
  AcceptedIsKept
PROPERTIES
  ParkedNeverAborted
  RequestsAnswered
  SessionsEnd
  CatchesUp
