SPECIFICATION FairSpec
CONSTANTS
  LoadInGame = FALSE
  LoadedPacket = 2
  MaxSaid = 3
  MaxLocal = 3
  MaxLosses = 2
INVARIANTS TypeOK NothingForgotten
PROPERTIES Reliable EverythingArrives
CHECK_DEADLOCK FALSE
