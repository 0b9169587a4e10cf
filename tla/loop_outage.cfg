SPECIFICATION FairSpec
CONSTANTS
  Players = {g, a}
  GProxy = {g}
  NumEmpty = 2
  LoadInGame = FALSE
  AutoSave = FALSE
  SyncLimit = 2
  LongOutages = TRUE
  Large = {1}
  MaxUpdates = 4
  MaxResets = 1
INVARIANTS KeepsPace NobodyLeftBehind
PROPERTIES UpdatesOffScreen LagEnds
CHECK_DEADLOCK FALSE
