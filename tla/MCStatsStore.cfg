\* Two handlers, two operations, one failing write, one kill, one SSE connection.
CONSTANTS
  Handlers = {h1, h2}
  Ops = {o1, o2}
  MaxCalls = 3
  MaxFailures = 1
  MaxKills = 1
  MaxStreams = 1
SPECIFICATION StatsFairSpec
INVARIANTS
  CleanIsSaved
  DrainedShutdownSaves
PROPERTIES
  SavedOnlyGrows
  CountsReachFile
  ShutdownEnds
