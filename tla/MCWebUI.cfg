CONSTANTS
  NoData = NoData
  MaxMounts = 2
  NumOps = 2
  Values = {v1, v2}
  Blank = Blank
  MaxRows = 2
  MaxSaves = 2
  MaxChanges = 2
  Files = {f1, f2}
  Untitled = {f2}
  Typed = {t}
  None = None
  MaxAsked = 2
  MaxEdits = 2
  Choices = {a, h}
  Sse = {a}
  NoChoice = NoChoice
  MaxClients = 2
  MaxRequests = 3
  MaxConnects = 2
SPECIFICATION WebSpec
CHECK_DEADLOCK FALSE
INVARIANTS ShowsOwnChanges BulkReaches NameIsUsers OwnAnswer InUse
PROPERTIES SaveKeepsOthers RequestsSettle
