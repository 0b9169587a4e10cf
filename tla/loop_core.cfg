SPECIFICATION Spec
CONSTANTS
  Players = {g, a, b}
  GProxy = {g}
  NumEmpty = 1
  LoadInGame = TRUE
  AutoSave = FALSE
  SyncLimit = 2
  LongOutages = FALSE
  Large = {1}
  MaxUpdates = 3
  MaxResets = 1
INVARIANTS TypeOK SameData ScreenShows
PROPERTY OneHistory
SYMMETRY PlayerSymmetry
CHECK_DEADLOCK FALSE
