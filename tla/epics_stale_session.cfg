\* The names arrive too late for the first call, and the connection is replaced.
SPECIFICATION Spec
CONSTANTS
  Channels = {valid}
  ValidChannels = {valid}
  MaxCalls = 2
  Cells <- MCCells
  Forms <- NoForms
  MaxConnections = 2
  MaxUpdates = 0
CHECK_DEADLOCK FALSE
INVARIANTS
  ResubscribeWorks
