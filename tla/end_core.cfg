SPECIFICATION FairSpec
CONSTANTS
  Players = {p1, p2, p3}
  Sentinel = {p1, p2}
  Admins = {p1, p3}
  Reserved = {p3}
  Nobody = Nobody
  KickAllowed = TRUE
  KickPercentage = 85
  EndAccept = TRUE
  BaseFallen = TRUE
  MinPlayers = 2
  MaxCommands = 4
INVARIANTS VotesAreOpen
PROPERTIES LoserGaveUp LonelyGameCloses
CHECK_DEADLOCK FALSE
