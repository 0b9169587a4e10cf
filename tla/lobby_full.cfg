SPECIFICATION Spec
CONSTANTS
  NumSlots = 2
  PlayerLimit = 2
  Conns = {c1, c2, c3}
  Names = {o, r, p}
  NoName = none
  Owner = o
  Admins = {}
  Safe = {r}
  SafeImmune = TRUE
  Banned = {r}
  HeldAtStart = {}
  Holdable = {p}
  HoldSeats = {255}
  ScoreCheck = TRUE
  NormalCountdown = FALSE
  LateErrors = TRUE
  UnspoofedKick = TRUE
  LadderScores = TRUE
  Commands = {"kick", "team", "start", "sp", "comp", "hold"}
  CountFrom = 1
SYMMETRY ConnSymmetry
INVARIANTS PidsDistinct NamesDistinct
PROPERTIES RosterFrozen
CHECK_DEADLOCK FALSE
