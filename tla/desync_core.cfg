SPECIFICATION FairSpec
CONSTANTS
  Players = {p1, p2, p3}
  States = {s1, s2}
  Window = 2
  Cycle = 2
INVARIANTS TypeOK
PROPERTIES FairVerdict DesyncNoticed
CHECK_DEADLOCK FALSE
