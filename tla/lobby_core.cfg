SPECIFICATION Spec
CONSTANTS
  NumSlots = 2
  PlayerLimit = 2
  Conns = {c1, c2, c3}
  Names = {o, a, r, p}
  NoName = none
  Owner = o
  Admins = {a}
  Safe = {}
  SafeImmune = FALSE
  Banned = {}
  HeldAtStart = {r}
  Holdable = {}
  HoldSeats = {}
  ScoreCheck = FALSE
  NormalCountdown = FALSE
  LateErrors = FALSE
  UnspoofedKick = FALSE
  LadderScores = FALSE
  Commands = {"kick", "open", "close", "fakeplayer"}
  CountFrom = 0
SYMMETRY ConnSymmetry
INVARIANTS TypeOK HostHasRoom SeatsAccounted MembersSeated
PROPERTIES DisplacementRule
CHECK_DEADLOCK FALSE
