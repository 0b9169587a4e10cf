SPECIFICATION Spec
CONSTANTS
  NumSlots = 3
  PlayerLimit = 3
  Conns = {c1, c2, c3}
  Names = {o, r, p}
  NoName = none
  Owner = o
  Admins = {}
  Safe = {}
  SafeImmune = FALSE
  Banned = {}
  HeldAtStart = {}
  Holdable = {r}
  HoldSeats = {1}
  ScoreCheck = FALSE
  NormalCountdown = FALSE
  LateErrors = FALSE
  UnspoofedKick = FALSE
  LadderScores = FALSE
  Commands = {"swap", "hold", "unhold", "abc"}
  CountFrom = 0
SYMMETRY ConnSymmetry
PROPERTIES OwnerComesFirst
CHECK_DEADLOCK FALSE
