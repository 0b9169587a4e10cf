SPECIFICATION FairSpec
CONSTANTS
  Clients = {r, p}
  Pids = {1}
  Reserved = {r}
  Trusted = {r}
  NumSlots = 2
  Computers = {1}
  MapParts = 2
  Burst = 1
  Nobody = Nobody
  Computer = Computer
  NormalCountdown = FALSE
  LateErrors = TRUE
  UnspoofedKick = TRUE
INVARIANTS StartsComplete
PROPERTIES DownloadsEnd
CHECK_DEADLOCK FALSE
