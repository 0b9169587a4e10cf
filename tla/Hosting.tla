------------------------------- MODULE Hosting --------------------------------
(***************************************************************************)
(* The bot's main loop, CGHost::Update of src/ghost/ghost.cpp: the lobby,  *)
(* the games in progress, and the callables that they and the Battle.net   *)
(* connections leave to the bot when they are deleted before the database  *)
(* has answered.                                                           *)
(*                                                                         *)
(* A pass goes through its parts in order, and the database's threads run  *)
(* in between.  What a lobby or a game does on its own is in Lobby and     *)
(* GameLoop; here it begins, starts, is rehosted, is saved and is deleted. *)
(* A timer may run out in any pass.  A definition whose name ends in _Slip *)
(* is not part of the model: it is the definition below it with a likely   *)
(* mistake.                                                                *)
(***************************************************************************)
EXTENDS Callables

CONSTANTS
  MaxGames,      \* m_MaxGames
  AutoHostGames, \* m_AutoHostMaximumGames
  NoLobby, NoCallable, \* NULL
  NumBound,      \* bound: connections up to which a thread may fail to start
  Spare          \* bound: callables left free by what is not bound to be issued

ASSUME HostingAssumption ==
  /\ MaxGames \in Nat /\ AutoHostGames \in Nat
  /\ NumBound \in Nat /\ Spare \in Nat /\ NoCallable \notin Objects

VARIABLES
  db,          \* m_DB
  part,        \* the part of the pass, "over" after the last, or "crashed"
  at,          \* the game that is looked at in part "games"
  lobby,       \* m_CurrentGame
  games,       \* m_Games
  newGame,     \* newGame: a lobby is to be hosted again
  exitingNice, \* m_ExitingNice
  finished,    \* m_AllGamesFinished
  orphans,     \* m_Callables
  lists,       \* m_CallableAdminList and its like, which a connection waits for
  alongside,   \* a list that is asked for together with the admins'
  lost         \* callables nobody has a pointer to

vars == <<db, part, at, lobby, games, newGame, exitingNice, finished,
          orphans, lists, alongside, lost>>
bnet == <<lists, alongside, lost>>
plan == <<newGame, exitingNice, finished>>

(* A rehost was asked for when m_EndGameTime is set.  checks are the       *)
(* callables the game waits for: scores, bans, warnings, statistics.       *)
Lobbies == [countdown : BOOLEAN, rehost : BOOLEAN, checks : SUBSET Objects]
ASSUME LobbyAssumption == NoLobby \notin Lobbies

(* save is m_CallableGameAdd, which is there from m_Saving on.             *)
Games == [rehost : BOOLEAN, empty : BOOLEAN, save : Objects \cup {NoCallable},
          checks : SUBSET Objects]

NewLobby == [countdown |-> FALSE, rehost |-> FALSE, checks |-> {}]

(* m_BNETs is empty from the first pass of a nice exit on.  What is typed  *)
(* after the !exit in the same pass is left out.                           *)
Connected_Slip == TRUE
Connected      == ~exitingNice

(* The checks CreateGame makes, but for a name or a map that is not valid  *)
(* and hosting that is disabled, which may happen any time.                *)
MayHost_Slip == Len(games) =< MaxGames
MayHost      == Len(games) < MaxGames

Init ==
  /\ db = NewDatabase /\ part = "callables" /\ at = 1
  /\ lobby = NoLobby /\ games = <<>>
  /\ newGame = FALSE /\ exitingNice = FALSE /\ finished = FALSE
  /\ orphans = {} /\ lists = {} /\ alongside = {} /\ lost = {}

-----------------------------------------------------------------------------
(* The database's threads, at any time while the process runs.  That there *)
(* is a connection for a thread to open is a bound of the model.           *)
Running == part \notin {"over", "crashed"}

ThreadBegins(c) ==
  /\ Running /\ db.stage[c] = "issued" /\ Unused(db) # {}
  /\ db' = Begin(db, c)
  /\ UNCHANGED <<part, at, lobby, games, plan, orphans, bnet>>

ThreadEnds(c) ==
  /\ Running /\ db.stage[c] = "running"
  /\ db' = Finish(db, c)
  /\ UNCHANGED <<part, at, lobby, games, plan, orphans, bnet>>

(* A thread can fail to start.                                             *)
Spawns(spawned) == spawned \/ db.num < NumBound

(* Issuing what the bot need not issue leaves callables for the rest.      *)
CanAsk == Cardinality(Free(db)) > Spare

-----------------------------------------------------------------------------
(* A pass begins with the nice exit if one was asked for.                  *)
NextPass == part' = IF exitingNice THEN "exit" ELSE "callables"

(* The nice exit: the connections are deleted, then the lobby; both leave  *)
(* their callables.  ~CBNET forgets four lists, the safe vouchers, the two *)
(* of the notes and the count of today's games.  When no game is left the  *)
(* bot waits for the threads, but not for longer than a minute, and its    *)
(* last pass is over.                                                      *)
ExitNicely ==
  /\ part = "exit" /\ exitingNice
  /\ \E forgotten \in SUBSET alongside :
       /\ orphans' = orphans \cup lists \cup (alongside \ forgotten)
                      \cup (IF lobby = NoLobby THEN {} ELSE lobby.checks)
       /\ lost' = lost \cup forgotten
  /\ lists' = {} /\ alongside' = {}
  /\ lobby' = NoLobby
  /\ finished' = (games = <<>> \/ finished)
  /\ \E waited \in BOOLEAN :
       part' = IF games = <<>> /\ finished /\ (orphans' = {} \/ waited)
                 THEN "over" ELSE "callables"
  /\ UNCHANGED <<db, at, games, newGame, exitingNice>>

(* Callables that nobody waits for are recovered when they are ready.      *)
RecoverOrphan(c) ==
  /\ part = "callables" /\ c \in orphans /\ db.stage[c] = "ready"
  /\ db' = Recover(db, c) /\ orphans' = orphans \ {c}
  /\ UNCHANGED <<part, at, lobby, games, plan, bnet>>

OrphansLookedAt ==
  /\ part = "callables" /\ orphans \cap Ready(db) = {}
  /\ part' = "lobby"
  /\ UNCHANGED <<db, at, lobby, games, plan, orphans, bnet>>

-----------------------------------------------------------------------------
(* The lobby's update: first the answers of the database that are there.   *)
LobbyHears(c) ==
  /\ part = "lobby" /\ lobby # NoLobby
  /\ c \in lobby.checks /\ db.stage[c] = "ready"
  /\ db' = Recover(db, c) /\ lobby' = [lobby EXCEPT !.checks = @ \ {c}]
  /\ UNCHANGED <<part, at, games, plan, orphans, bnet>>

LobbyHasHeard == part = "lobby" /\ (lobby # NoLobby => lobby.checks \cap Ready(db) = {})

(* !start, the autostart, and a player who leaves.                         *)
BeginCountdown ==
  /\ part = "lobby" /\ lobby # NoLobby /\ ~lobby.countdown
  /\ lobby' = [lobby EXCEPT !.countdown = TRUE]
  /\ UNCHANGED <<db, part, at, games, plan, orphans, bnet>>

AbortCountdown ==
  /\ part = "lobby" /\ lobby # NoLobby /\ lobby.countdown
  /\ lobby' = [lobby EXCEPT !.countdown = FALSE]
  /\ UNCHANGED <<db, part, at, games, plan, orphans, bnet>>

(* !rehost says that the lobby is hosted anew in three seconds.            *)
AskRehost ==
  /\ part = "lobby" /\ lobby # NoLobby /\ ~lobby.countdown
  /\ lobby' = [lobby EXCEPT !.rehost = TRUE]
  /\ UNCHANGED <<db, part, at, games, plan, orphans, bnet>>

(* The rest of the update.  The lobby may ask the database something.  The *)
(* game starts when the countdown has ended, which makes it a game in      *)
(* progress.                                                               *)
LobbyAsks(spawned) ==
  /\ LobbyHasHeard /\ lobby # NoLobby /\ lobby.checks = {}
  /\ CanAsk /\ Spawns(spawned)
  /\ db' = Issue(db, NextObject(db), spawned)
  /\ lobby' = [lobby EXCEPT !.checks = @ \cup {NextObject(db)}]
  /\ part' = "games" /\ at' = 1
  /\ UNCHANGED <<games, plan, orphans, bnet>>

LobbyGoesOn ==
  /\ LobbyHasHeard
  /\ part' = "games" /\ at' = 1
  /\ UNCHANGED <<db, lobby, games, plan, orphans, bnet>>

LobbyStarts ==
  /\ LobbyHasHeard /\ lobby # NoLobby /\ lobby.countdown
  /\ games' = Append(games, [rehost |-> lobby.rehost, empty |-> FALSE,
                             save |-> NoCallable, checks |-> lobby.checks])
  /\ lobby' = NoLobby
  /\ part' = "games" /\ at' = 1
  /\ UNCHANGED <<db, plan, orphans, bnet>>

(* When the update that starts the game also ends the three seconds of a   *)
(* rehost, it says that the lobby is to be deleted, and m_CurrentGame is   *)
(* NULL by then.                                                           *)
LobbyStartsAndEnds ==
  /\ LobbyHasHeard /\ lobby # NoLobby /\ lobby.countdown /\ lobby.rehost
  /\ part' = "crashed"
  /\ UNCHANGED <<db, at, lobby, games, plan, orphans, bnet>>

LobbyCloses_Slip ==
  /\ LobbyHasHeard /\ lobby # NoLobby
  /\ \E due, valid \in BOOLEAN :
       LET again == (newGame \/ due) /\ Connected /\ MayHost /\ valid
       IN  /\ due => lobby.rehost
           /\ lobby' = IF again THEN NewLobby ELSE NoLobby
           /\ newGame' = ((newGame \/ due) /\ ~again)
  /\ part' = "games" /\ at' = 1
  /\ UNCHANGED <<db, games, exitingNice, finished, orphans, bnet>>

(* The lobby is deleted: by !unhost, when its time is over, or when it is  *)
(* due to be rehosted.  If newGame is set, now or from an earlier time, it *)
(* is hosted again, unless CreateGame refuses, which leaves it set.        *)
LobbyCloses ==
  /\ LobbyHasHeard /\ lobby # NoLobby
  /\ orphans' = orphans \cup lobby.checks
  /\ \E due, valid \in BOOLEAN :
       LET again == (newGame \/ due) /\ Connected /\ MayHost /\ valid
       IN  /\ due => lobby.rehost
           /\ lobby' = IF again THEN NewLobby ELSE NoLobby
           /\ newGame' = ((newGame \/ due) /\ ~again)
  /\ part' = "games" /\ at' = 1
  /\ UNCHANGED <<db, games, exitingNice, finished, bnet>>

-----------------------------------------------------------------------------
(* The games in progress, one after the other.                             *)
Looking == part = "games" /\ at \in DOMAIN games

GameHears(c) ==
  /\ Looking /\ c \in games[at].checks /\ db.stage[c] = "ready"
  /\ db' = Recover(db, c) /\ games' = [games EXCEPT ![at].checks = @ \ {c}]
  /\ UNCHANGED <<part, at, lobby, plan, orphans, bnet>>

GameHasHeard == Looking /\ games[at].checks \cap Ready(db) = {}

GameAsks(spawned) ==
  /\ GameHasHeard /\ games[at].checks = {} /\ CanAsk /\ Spawns(spawned)
  /\ db' = Issue(db, NextObject(db), spawned)
  /\ games' = [games EXCEPT ![at].checks = @ \cup {NextObject(db)}]
  /\ at' = at + 1
  /\ UNCHANGED <<part, lobby, plan, orphans, bnet>>

(* The last player has left.                                               *)
Empties ==
  /\ Looking /\ ~games[at].empty
  /\ games' = [games EXCEPT ![at].empty = TRUE]
  /\ UNCHANGED <<db, part, at, lobby, plan, orphans, bnet>>

GameGoesOn ==
  /\ GameHasHeard
  /\ at' = at + 1
  /\ UNCHANGED <<db, part, lobby, games, plan, orphans, bnet>>

(* Without players for half a minute, the game is saved: first the game's  *)
(* own row, whose number the others need.                                  *)
Saving(g)  == g.save # NoCallable
IsSaved(g) == Saving(g) /\ db.stage[g.save] = "ready"

GameSaves(spawned) ==
  /\ GameHasHeard /\ games[at].empty /\ ~Saving(games[at])
  /\ Free(db) # {} /\ Spawns(spawned)
  /\ db' = Issue(db, NextObject(db), spawned)
  /\ games' = [games EXCEPT ![at].save = NextObject(db)]
  /\ UNCHANGED <<part, at, lobby, plan, orphans, bnet>>

Without(s, i) == SubSeq(s, 1, i - 1) \o SubSeq(s, i + 1, Len(s))

Delete_Slip(g, spawned) ==
  /\ games' = Without(games, at)
  /\ UNCHANGED at
  /\ IF Saving(g)
       THEN db' = Recover(db, g.save) /\ orphans' = orphans \cup g.checks
       ELSE db' = db /\ orphans' = orphans \cup g.checks

(* CGame::~CGame and CBaseGame::~CBaseGame.  When the answer is there, and *)
(* it is a number, the rows of the players are added (one callable stands  *)
(* for them all); when it is not, it is left to the bot like the others.   *)
Delete(g, spawned) ==
  /\ games' = Without(games, at)
  /\ UNCHANGED at
  /\ IF IsSaved(g)
       THEN \/ /\ db' = Recover(db, g.save)
               /\ orphans' = orphans \cup g.checks
            \/ /\ Free(db) # {} /\ Spawns(spawned)
               /\ db' = Recover(Issue(db, NextObject(db), spawned), g.save)
               /\ orphans' = orphans \cup g.checks \cup {NextObject(db)}
       ELSE /\ db' = db
            /\ orphans' = orphans \cup g.checks \cup ({g.save} \ {NoCallable})

GameEnds(spawned) ==
  /\ GameHasHeard /\ games[at].empty /\ IsSaved(games[at])
  /\ Delete(games[at], spawned)
  /\ UNCHANGED <<part, lobby, plan, bnet>>

(* The three seconds of a rehost end in a game that has started meanwhile: *)
(* it is deleted as it is, and the next lobby that closes is rehosted.     *)
GameCutShort(spawned) ==
  /\ GameHasHeard /\ games[at].rehost
  /\ Delete(games[at], spawned)
  /\ newGame' = TRUE
  /\ UNCHANGED <<part, lobby, exitingNice, finished, bnet>>

GamesLookedAt ==
  /\ part = "games" /\ at \notin DOMAIN games
  /\ part' = "bnets"
  /\ UNCHANGED <<db, at, lobby, games, plan, orphans, bnet>>

-----------------------------------------------------------------------------
(* The Battle.net connections: their lists, and the commands users type.   *)
BnetHears(c) ==
  /\ part = "bnets" /\ c \in lists \cup alongside /\ db.stage[c] = "ready"
  /\ db' = Recover(db, c)
  /\ lists' = lists \ {c} /\ alongside' = alongside \ {c}
  /\ UNCHANGED <<part, at, lobby, games, plan, orphans, lost>>

BnetsHaveHeard == part = "bnets" /\ (lists \cup alongside) \cap Ready(db) = {}

(* Every five minutes the admins are asked for if their last answer has    *)
(* come, and with them the access list, the safe list and the vouchers,    *)
(* whose last answers are not looked for: a callable that has not answered *)
(* by then is overwritten.                                                 *)
BnetAsks(spawned) ==
  LET d == Issue(db, NextObject(db), spawned)
  IN  /\ BnetsHaveHeard /\ Connected /\ lists = {}
      /\ Cardinality(Free(db)) > 1 /\ Spawns(spawned)
      /\ db' = Issue(d, NextObject(d), TRUE)
      /\ lists' = {NextObject(db)} /\ alongside' = {NextObject(d)}
      /\ lost' = lost \cup alongside
      /\ NextPass
      /\ UNCHANGED <<at, lobby, games, plan, orphans>>

(* !pub, !priv and their like, where CreateGame accepts.                   *)
Host ==
  /\ part = "bnets" /\ Connected /\ lobby = NoLobby /\ MayHost
  /\ lobby' = NewLobby
  /\ UNCHANGED <<db, part, at, games, plan, orphans, bnet>>

(* !exit nice, and !exit force or, when there is no game, !exit: with them *)
(* this pass is the last.                                                  *)
Exit(nice) ==
  /\ part = "bnets" /\ Connected
  /\ IF nice THEN exitingNice' = TRUE /\ UNCHANGED part
             ELSE part' = "over" /\ UNCHANGED exitingNice
  /\ UNCHANGED <<db, at, lobby, games, newGame, finished, orphans, bnet>>

(* Every half minute a lobby is hosted by the bot itself if there is none. *)
(* That a map or a name that is not valid turns this off is left out.      *)
Autohosts == Connected /\ lobby = NoLobby /\ MayHost /\ Len(games) < AutoHostGames

PassEnds ==
  /\ BnetsHaveHeard
  /\ UNCHANGED lobby \/ (Autohosts /\ lobby' = NewLobby)
  /\ NextPass
  /\ UNCHANGED <<db, at, games, plan, orphans, bnet>>

(* The process has ended.                                                  *)
Stopped == ~Running /\ UNCHANGED vars

Threads == \E c \in Objects : ThreadBegins(c) \/ ThreadEnds(c)

CallablesPart == OrphansLookedAt \/ \E c \in Objects : RecoverOrphan(c)

LobbyPart ==
  \/ \E c \in Objects : LobbyHears(c)
  \/ \E spawned \in BOOLEAN : LobbyAsks(spawned)
  \/ BeginCountdown \/ AbortCountdown \/ AskRehost
  \/ LobbyGoesOn \/ LobbyStarts \/ LobbyStartsAndEnds \/ LobbyCloses

GamesPart ==
  \/ \E c \in Objects : GameHears(c)
  \/ \E spawned \in BOOLEAN :
       GameAsks(spawned) \/ GameSaves(spawned) \/ GameEnds(spawned) \/ GameCutShort(spawned)
  \/ Empties \/ GameGoesOn \/ GamesLookedAt

BnetsPart ==
  \/ \E c \in Objects : BnetHears(c)
  \/ \E spawned \in BOOLEAN : BnetAsks(spawned)
  \/ \E nice \in BOOLEAN : Exit(nice)
  \/ Host \/ PassEnds

Next == Threads \/ ExitNicely \/ CallablesPart \/ LobbyPart \/ GamesPart \/ BnetsPart \/ Stopped

Spec == Init /\ [][Next]_vars

(* The main loop goes on and the threads are run.  Players leave a game    *)
(* some day, and then half a minute passes, twice.                         *)
GoesOn ==
  \/ ExitNicely \/ CallablesPart
  \/ LobbyGoesOn \/ LobbyStarts \/ LobbyStartsAndEnds \/ LobbyCloses
  \/ GameGoesOn \/ GamesLookedAt \/ PassEnds
  \/ \E c \in Objects : LobbyHears(c) \/ GameHears(c) \/ BnetHears(c)

GameNearsItsEnd == Empties \/ \E spawned \in BOOLEAN : GameSaves(spawned) \/ GameEnds(spawned)

FairSpec ==
  /\ Spec
  /\ WF_vars(GoesOn) /\ SF_vars(GameNearsItsEnd)
  /\ \A c \in Objects : WF_vars(ThreadBegins(c) \/ ThreadEnds(c))

-----------------------------------------------------------------------------
(* The type invariant.                                                     *)
TypeOK ==
  /\ db \in Databases
  /\ part \in {"exit", "callables", "lobby", "games", "bnets", "over", "crashed"}
  /\ at \in 1 .. (Len(games) + 1)
  /\ lobby \in Lobbies \cup {NoLobby}
  /\ games \in Seq(Games) /\ Len(games) =< MaxGames
  /\ {newGame, exitingNice, finished} \subseteq BOOLEAN
  /\ {orphans, lists, alongside, lost} \subseteq SUBSET Objects

(* A connection to the database has one user at a time, whatever lobbies,  *)
(* games and connections come and go while threads run (Callables).        *)
ConnectionsUsedOnce == SingleUse(db)

(* The database's counts are right (Callables).                            *)
PoolCounted == Counted(db)

(* Everything that was issued is waited for in exactly one place, or is    *)
(* lost in one of two known ways: as one of the four kinds of answers that *)
(* ~CBNET forgets, or as an access or safe list that had not come when the *)
(* next admin list was asked for (bnet.cpp 750-758).  Nothing else is lost *)
(* when a lobby, a game or a connection is deleted, and nothing is         *)
(* recovered twice (game_base.cpp 410-420, game.cpp 241-287, bnet.cpp      *)
(* 185-233).                                                               *)
Places ==
  <<orphans, lists, alongside, lost, IF lobby = NoLobby THEN {} ELSE lobby.checks>>
    \o [i \in DOMAIN games |-> games[i].checks]
    \o [i \in DOMAIN games |-> {games[i].save} \ {NoCallable}]

OneOwner ==
  /\ UNION {Places[i] : i \in DOMAIN Places} = Out(db)
  /\ \A i, j \in DOMAIN Places : i # j => Places[i] \cap Places[j] = {}

(* A callable is not deleted while its thread may still use it             *)
(* (ghostdb.h:220: it's NOT safe to delete a callable even if you decide   *)
(* that you don't want the result anymore).                                *)
ThreadsKeepTheirs ==
  [][\A c \in Objects : db.stage[c] \in {"issued", "running"} => db'.stage[c] # "free"]_vars

(* A nice exit comes to its end: the games are played, saved and deleted,  *)
(* no new lobby keeps the bot from it, and the wait for the threads ends   *)
(* (ghost.cpp 1438-1489).                                                  *)
ExitsInTheEnd == exitingNice ~> part = "over"

(* As long as the process runs every callable is taken back, also if who   *)
(* asked for it is gone, but for those that ~CBNET forgets (ghost.cpp      *)
(* 1494-1503).                                                             *)
AllComeBack ==
  \A c \in Objects : db.stage[c] # "free" ~> db.stage[c] = "free" \/ c \in lost \/ ~Running
=============================================================================
