SPECIFICATION FairSpec
CONSTANTS
  Objects = {c1, c2}
  Connections = {k1, k2, k3}
  NoConnection = NoConnection
  First = k1
  MaxConnections = 0
  MaxGames = 1
  AutoHostGames = 1
  NoLobby = NoLobby
  NoCallable = NoCallable
  NumBound = 2
  Spare = 1
INVARIANTS TypeOK ConnectionsUsedOnce PoolCounted OneOwner
PROPERTIES ThreadsKeepTheirs ExitsInTheEnd AllComeBack
