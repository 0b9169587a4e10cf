SPECIFICATION FairSpec
CONSTANTS
  Names = 2
  ChatLimit = 3
  NoLobby = NoLobby
  Nothing = Nothing
  QueueBound = 2
  AnswerBound = 2
  DropBound = 1
INVARIANTS TypeOK OnlyLobbyListed PrivateAdvertisedThere
PROPERTIES ListedInTheEnd
