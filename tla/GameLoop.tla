------------------------------ MODULE GameLoop ------------------------------
(***************************************************************************)
(* A hosted game after its countdown: CBaseGame of src/ghost/game_base.cpp *)
(* from EventGameStarted on, and the GProxy++ clients of src/3rdparty as   *)
(* far as they take part in it.                                            *)
(*                                                                         *)
(* The bot relays the game: it sends every player the same time slots      *)
(* (updates) and the same leave messages, and the games on the players'    *)
(* machines stay in step because all of them go through the same data in   *)
(* the same order.  Three things make that hard.  With load-in-game a      *)
(* player whose map is still loading can not be sent any, so they are      *)
(* buffered.  A GProxy++ client stretches the time its game waits for a    *)
(* time slot by empty slots of its own, so everybody else is sent as many  *)
(* of them by the bot.  And a GProxy++ player whose connection is lost     *)
(* stays in the game; what is sent meanwhile is handed over when the       *)
(* client comes back.                                                      *)
(*                                                                         *)
(* A connection that stands hands over at once: it keeps the order, and    *)
(* how far behind a player is shows in its keepalives only.  One pass of   *)
(* CBaseGame::Update is one of LagStarts, LagGoesOn and SendUpdate (the    *)
(* branches exclude one another), the packets and losses of the players    *)
(* that precede it are actions of their own.  Clocks are not modelled: what*)
(* waits for one may happen at any time.                                   *)
(*                                                                         *)
(* A definition whose name ends in _Slip is not part of the model: it is   *)
(* the definition below it with a likely mistake in it.                    *)
(***************************************************************************)
EXTENDS Naturals, Sequences, FiniteSets, SequencesExt

CONSTANTS
  Players,      \* m_Players when the map starts to load
  GProxy,       \* those with m_GProxy
  NumEmpty,     \* m_GProxyEmptyActions
  LoadInGame,   \* m_LoadInGame
  AutoSave,     \* m_AutoSave
  SyncLimit,    \* m_SyncLimit
  LongOutages,  \* may a GProxy++ player be cut off for a minute?
  Large,        \* the updates whose actions do not fit one packet
  MaxUpdates,   \* bound: the updates SendAllActions sends
  MaxResets     \* bound: how often the lag screen is reset

ASSUME PlayersAssumption == IsFiniteSet(Players) /\ GProxy \subseteq Players
ASSUME NumbersAssumption == /\ NumEmpty \in 0 .. 9 /\ SyncLimit \in Nat
                            /\ MaxUpdates \in Nat /\ MaxResets \in Nat
                            /\ Large \subseteq Nat
ASSUME SwitchesAssumption == /\ LoadInGame \in BOOLEAN /\ AutoSave \in BOOLEAN
                             /\ LongOutages \in BOOLEAN

VARIABLES
  members,   \* the objects in m_Players
  doomed,    \* those with m_DeleteMe
  dropped,   \* those of them with the left code PLAYERLEAVE_DISCONNECT
  finished,  \* those with m_FinishedLoading
  loaded,    \* m_GameLoaded; before that, m_GameLoading
  buffer,    \* m_LoadInGameData, in the order the player's game will see it
  cut,       \* GProxy++ players without a connection
  queue,     \* the part of m_GProxyBuffer that they have not got yet
  view,      \* the data the game of each player has gone through
  used,      \* m_NumEmptyActionsUsed of a GProxy++ client
  log,       \* the time slots and leaves in m_Replay
  turn,      \* m_SyncCounter
  resets,    \* how often a lag screen was reset
  behind,    \* m_SyncCounter - CGamePlayer::m_SyncCounter
  lagging,   \* those with CGamePlayer::m_Lagging
  lagScreen, \* m_Lagging
  waited,    \* WaitTime seconds have passed since m_StartedLaggingTime
  votes,     \* those with m_DropVote
  screen     \* whom the lag screen of each player shows

playerVars == <<members, doomed, dropped>>
loadVars   == <<finished, loaded>>
dataVars   == <<buffer, queue, view, used, log>>
countVars  == <<turn, resets>>
lagVars    == <<behind, lagging, lagScreen, waited, votes, screen>>
vars == <<members, doomed, dropped, finished, loaded, buffer, cut, queue, view, used,
          log, turn, resets, behind, lagging, lagScreen, waited, votes, screen>>

\* the items of the data: time slots with actions, the first part of one that
\* does not fit one packet, empty ones, and leaves
Update(n) == <<"update", n>>
Part(n)   == <<"part", n>>
EmptySlot == <<"empty", 0>>
Leave(c)  == <<"leave", c>>
Items == {EmptySlot} \cup {Update(n) : n \in 0 .. MaxUpdates}
           \cup {Part(n) : n \in 0 .. MaxUpdates} \cup {Leave(c) : c \in Players}

-----------------------------------------------------------------------------
(* What a time slot comes to.                                              *)

UsingGProxy == members \cap GProxy # {}

Empties == [i \in 1 .. NumEmpty |-> EmptySlot]

Extra_Slip(c) == IF UsingGProxy THEN Empties ELSE <<>>  \* to GProxy++ players too

\* the empty slots the bot sends ahead of a time slot
Extra(c) == IF UsingGProxy /\ c \notin GProxy THEN Empties ELSE <<>>

\* the empty slots a GProxy++ client puts in ahead of a time slot
Inserted(c) == IF c \in GProxy THEN Empties ELSE <<>>

\* what the time slot slot comes to for a player's game, and in the replay
Shown(c, slot) == Inserted(c) \o Extra(c) \o slot

Recorded_Slip(slot) == slot              \* no empty slots in the replay

Recorded(slot) == (IF UsingGProxy THEN Empties ELSE <<>>) \o slot

FirstEmpty(items, i) ==
  items[i] = EmptySlot /\ \A j \in 1 .. i - 1 : items[j] # EmptySlot

Net_Slip(items, k) == items

\* a client that put in k empty slots already leaves as many out of the next
Net(items, k) ==
  IF k > 0 /\ \E i \in 1 .. Len(items) : FirstEmpty(items, i)
  THEN LET first == CHOOSE i \in 1 .. Len(items) : FirstEmpty(items, i)
       IN  SubSeq(items, 1, first - 1) \o SubSeq(items, first + k, Len(items))
  ELSE items

HasSlot(items) == \E i \in 1 .. Len(items) : items[i][1] # "leave"

\* the players for whom data is buffered because their map is still loading
Buffered == IF loaded \/ ~LoadInGame THEN {} ELSE members \ finished

\* the players in stay are handed their items, nothing is kept for the others
Hand(stay, items) ==
  LET now == stay \ (Buffered \cup cut) IN
  /\ buffer' = [c \in Players |-> IF c \in stay \cap Buffered THEN buffer[c] \o items[c]
                                  ELSE IF c \in stay THEN buffer[c] ELSE <<>>]
  /\ queue' = [c \in Players |-> IF c \in stay \cap cut THEN queue[c] \o items[c]
                                 ELSE IF c \in stay THEN queue[c] ELSE <<>>]
  /\ view' = [c \in Players |-> IF c \in now THEN view[c] \o Net(items[c], used[c])
                                ELSE IF c \in stay THEN view[c] ELSE <<>>]
  /\ used' = [c \in Players |-> IF c \in stay /\ ~(c \in now /\ HasSlot(items[c]))
                                THEN used[c] ELSE 0]

HandAll(slot) ==
  /\ Hand(members, [c \in Players |-> Shown(c, slot)])
  /\ log' = log \o Recorded(slot)

-----------------------------------------------------------------------------
(* Loading.                                                                *)

ShowLoaders_Slip(c) == screen           \* the others are not told

\* EventPlayerLoaded: the newcomer's lag screen shows who is still loading,
\* and it is taken off the screens of those who were there before
ShowLoaders(c) ==
  [d \in Players |-> IF d = c THEN members \ (finished \cup {c})
                     ELSE IF d \in finished THEN screen[d] \ {c} ELSE screen[d]]

\* W3GS_GAMELOADED_SELF
PlayerLoaded(c) ==
  /\ ~loaded
  /\ c \in members \ finished
  /\ finished' = finished \cup {c}
  /\ \/ /\ LoadInGame
        /\ view' = [view EXCEPT ![c] = @ \o buffer[c]]
        /\ buffer' = [buffer EXCEPT ![c] = <<>>]
        /\ screen' = ShowLoaders(c)
     \/ /\ ~LoadInGame
        /\ UNCHANGED <<view, buffer, screen>>
  /\ UNCHANGED <<playerVars, loaded, cut, queue, used, log, countVars,
                 behind, lagging, lagScreen, waited, votes>>

\* every 30 seconds of load-in-game: the lag screen is taken down, an empty
\* time slot is sent or buffered, and the screen is put up again
LoadReset ==
  /\ ~loaded /\ LoadInGame
  /\ ~(members \subseteq finished)
  /\ resets < MaxResets
  /\ resets' = resets + 1
  /\ HandAll(<<EmptySlot>>)
  /\ screen' = [c \in Players |-> IF c \in members \cap finished
                                  THEN screen[c] \cup (members \ finished) ELSE screen[c]]
  /\ UNCHANGED <<playerVars, loadVars, cut, turn, behind, lagging, lagScreen, waited, votes>>

\* EventGameLoaded
GameLoaded ==
  /\ ~loaded
  /\ members \subseteq finished
  /\ loaded' = TRUE
  /\ UNCHANGED <<playerVars, finished, cut, dataVars, countVars, lagVars>>

-----------------------------------------------------------------------------
(* The running game.                                                       *)

\* the next update: more than 1452 bytes of actions go in two packets
NextSlot == IF turn \in Large THEN <<Part(turn), Update(turn)>> ELSE <<Update(turn)>>

\* the players more than SyncLimit updates behind
OutOfStep == {c \in members : behind[c] > SyncLimit}

OneMoreBehind == [c \in Players |-> IF c \in members THEN behind[c] + 1 ELSE behind[c]]

SendUpdate_Slip ==                       \* does not look at the lag screen
  /\ loaded /\ members # {}
  /\ turn < MaxUpdates
  /\ HandAll(NextSlot)
  /\ turn' = turn + 1
  /\ behind' = OneMoreBehind
  /\ UNCHANGED <<playerVars, loadVars, cut, resets, lagging, lagScreen, waited, votes, screen>>

\* SendAllActions when nobody lags and it is time for the next update
SendUpdate ==
  /\ loaded /\ members # {}
  /\ ~lagScreen /\ OutOfStep = {}
  /\ turn < MaxUpdates
  /\ HandAll(NextSlot)
  /\ turn' = turn + 1
  /\ behind' = OneMoreBehind
  /\ UNCHANGED <<playerVars, loadVars, cut, resets, lagging, lagScreen, waited, votes, screen>>

\* somebody fell too far behind: the lag screen goes up
LagStarts ==
  /\ loaded
  /\ ~lagScreen /\ OutOfStep # {}
  /\ lagging' = lagging \cup OutOfStep
  /\ lagScreen' = TRUE
  /\ waited' = FALSE
  /\ votes' = {}
  /\ screen' = [c \in Players |-> IF c \in members THEN screen[c] \cup lagging'
                                                   ELSE screen[c]]
  /\ UNCHANGED <<playerVars, loadVars, cut, dataVars, countVars, behind>>

StopLaggers_Slip == UNCHANGED <<doomed, dropped>>

StopLaggers ==
  /\ doomed' = doomed \cup lagging
  /\ dropped' = dropped \cup lagging

\* less than half of SyncLimit behind
CaughtUp == {c \in lagging : behind[c] < SyncLimit \div 2}

\* the lag screen is up: the laggers are dropped when they had their time, it
\* is reset every 60 seconds, and it comes down for those who caught up
LagGoesOn ==
  /\ loaded /\ lagScreen
  /\ \/ waited /\ StopLaggers
     \/ ~waited /\ UNCHANGED <<doomed, dropped>>
  /\ \/ /\ resets < MaxResets
        /\ resets' = resets + 1
        /\ HandAll(<<EmptySlot>>)
     \/ UNCHANGED <<dataVars, resets>>
  /\ lagging' = lagging \ CaughtUp
  /\ screen' = [c \in Players |-> IF c \in members THEN screen[c] \ CaughtUp ELSE screen[c]]
  /\ lagScreen' = (lagging' # {})
  /\ waited' = (waited /\ lagScreen')
  /\ UNCHANGED <<members, loadVars, cut, turn, behind, votes>>

WaitOver ==
  /\ lagScreen /\ ~waited
  /\ waited' = TRUE
  /\ UNCHANGED <<playerVars, loadVars, cut, dataVars, countVars,
                 behind, lagging, lagScreen, votes, screen>>

\* W3GS_OUTGOING_KEEPALIVE: the player's game went through one more update
KeepAlive(c) ==
  /\ loaded
  /\ c \in members \ cut
  /\ behind[c] > 0
  /\ behind' = [behind EXCEPT ![c] = @ - 1]
  /\ UNCHANGED <<playerVars, loadVars, cut, dataVars, countVars,
                 lagging, lagScreen, waited, votes, screen>>

\* W3GS_DROPREQ after the grace period of the lag screen, or without one
DropRequest(c) ==
  /\ loaded
  /\ c \in members \ (cut \cup votes)
  /\ votes' = votes \cup {c}
  /\ IF lagScreen /\ 100 * Cardinality(votes') > 49 * Cardinality(members)
     THEN StopLaggers ELSE UNCHANGED <<doomed, dropped>>
  /\ UNCHANGED <<members, loadVars, cut, dataVars, countVars,
                 behind, lagging, lagScreen, waited, screen>>

-----------------------------------------------------------------------------
(* Players who leave.                                                      *)

\* the last data of a player: an update with a save, when one is made for a
\* player who lost the connection, and the leave
Farewell(c, saves) ==
  [d \in Players |-> (IF saves THEN Shown(d, NextSlot) ELSE <<>>) \o <<Leave(c)>>]

ScreensWithout_Slip(c) ==                \* no STOP_LAG for the player who leaves
  [d \in Players |-> IF d = c THEN {} ELSE screen[d]]

\* a player who leaves is taken off the lag screens
ScreensWithout(c) == [d \in Players |-> IF d = c THEN {} ELSE screen[d] \ {c}]

\* EventPlayerDeleted, when disc says that the left code is a disconnect
EventPlayerDeleted(c, disc) ==
  LET stay  == members \ {c}
      saves == loaded /\ AutoSave /\ disc
  IN  /\ saves => turn < MaxUpdates
      /\ members' = stay
      /\ doomed' = doomed \ {c}
      /\ dropped' = dropped \ {c}
      /\ finished' = finished \ {c}
      /\ cut' = cut \ {c}
      /\ votes' = votes \ {c}
      /\ lagging' = lagging \ {c}
      /\ Hand(stay, Farewell(c, saves))
      /\ log' = log \o (IF saves THEN Recorded(NextSlot) ELSE <<>>) \o <<Leave(c)>>
      /\ turn' = IF saves THEN turn + 1 ELSE turn
      /\ behind' = [d \in Players |-> IF d = c THEN 0
                                      ELSE IF saves THEN OneMoreBehind[d] ELSE behind[d]]
      /\ screen' = ScreensWithout(c)
      /\ UNCHANGED <<loaded, resets, lagScreen, waited>>

\* a leave message: PLAYERLEAVE_LOST
Quit(c) == c \in members \ cut /\ EventPlayerDeleted(c, FALSE)

\* a lost connection, or a bad packet.  GProxy++ players are not deleted for
\* a lost connection once the game has loaded
Drop(c) == c \in members \ cut /\ EventPlayerDeleted(c, TRUE)

\* an object marked earlier goes when its CGamePlayer::Update is over, which
\* may change the left code before (Quit, Drop)
Reap(c) == c \in doomed /\ EventPlayerDeleted(c, c \in dropped)

\* !kick and a vote: PLAYERLEAVE_LOST
Kick(c) ==
  /\ c \in members
  /\ doomed' = doomed \cup {c}
  /\ dropped' = dropped \ {c}
  /\ UNCHANGED <<members, loadVars, cut, dataVars, countVars, lagVars>>

\* a GProxy++ player's connection is lost
CutOff(c) ==
  /\ loaded
  /\ c \in (members \cap GProxy) \ cut
  /\ cut' = cut \cup {c}
  /\ UNCHANGED <<playerVars, loadVars, dataVars, countVars, lagVars>>

\* EventGProxyReconnect: what was sent meanwhile is handed over
Reconnect(c) ==
  /\ c \in cut
  /\ cut' = cut \ {c}
  /\ queue' = [queue EXCEPT ![c] = <<>>]
  /\ view' = [view EXCEPT ![c] = @ \o Net(queue[c], used[c])]
  /\ used' = [used EXCEPT ![c] = IF HasSlot(queue[c]) THEN 0 ELSE @]
  /\ UNCHANGED <<playerVars, loadVars, buffer, log, countVars, lagVars>>

\* a GProxy++ client without a time slot for 60 seconds puts in an empty one
PutInEmpty(c) ==
  /\ LongOutages
  /\ c \in members \cap GProxy
  /\ c \in cut \/ lagScreen
  /\ HasSlot(view[c])
  /\ used[c] < NumEmpty
  /\ used' = [used EXCEPT ![c] = @ + 1]
  /\ view' = [view EXCEPT ![c] = Append(@, EmptySlot)]
  /\ UNCHANGED <<playerVars, loadVars, cut, buffer, queue, log, countVars, lagVars>>

-----------------------------------------------------------------------------
Nothing == [c \in Players |-> <<>>]

Init ==
  /\ members = Players /\ doomed = {} /\ dropped = {}
  /\ finished = {} /\ loaded = FALSE
  /\ cut = {}
  /\ buffer = Nothing /\ queue = Nothing /\ view = Nothing
  /\ used = [c \in Players |-> 0]
  /\ log = <<>>
  /\ turn = 0 /\ resets = 0
  /\ behind = [c \in Players |-> 0]
  /\ lagging = {} /\ lagScreen = FALSE /\ waited = FALSE /\ votes = {}
  /\ screen = [c \in Players |-> {}]

\* the packets and connections of the players
ClientStep ==
  \/ \E c \in Players : PlayerLoaded(c)
  \/ \E c \in Players : KeepAlive(c)
  \/ \E c \in Players : DropRequest(c)
  \/ \E c \in Players : Quit(c)
  \/ \E c \in Players : Drop(c)
  \/ \E c \in Players : Kick(c)
  \/ \E c \in Players : CutOff(c)
  \/ \E c \in Players : Reconnect(c)
  \/ \E c \in Players : PutInEmpty(c)

\* CBaseGame::Update
UpdateStep ==
  \/ \E c \in Players : Reap(c)
  \/ LoadReset
  \/ GameLoaded
  \/ LagStarts
  \/ LagGoesOn
  \/ SendUpdate
  \/ WaitOver

Next == ClientStep \/ UpdateStep

Spec == Init /\ [][Next]_vars

\* the bot keeps going through its loop, and clocks go on
Fairness ==
  /\ \A c \in Players : WF_vars(Reap(c))
  /\ WF_vars(LagGoesOn)
  /\ WF_vars(WaitOver)

FairSpec == Spec /\ Fairness

-----------------------------------------------------------------------------
(* The types of the state, and what the sets of players have to do with    *)
(* one another: only a loaded game lags or keeps a player who is cut off.  *)
TypeOK ==
  /\ members \subseteq Players
  /\ dropped \subseteq doomed /\ doomed \subseteq members
  /\ finished \subseteq members
  /\ loaded \in BOOLEAN
  /\ cut \subseteq members \cap GProxy
  /\ buffer \in [Players -> Seq(Items)]
  /\ queue \in [Players -> Seq(Items)]
  /\ view \in [Players -> Seq(Items)]
  /\ used \in [Players -> 0 .. NumEmpty]
  /\ log \in Seq(Items)
  /\ turn \in 0 .. MaxUpdates /\ resets \in 0 .. MaxResets
  /\ behind \in [Players -> 0 .. MaxUpdates]
  /\ lagging \subseteq members
  /\ lagScreen \in BOOLEAN /\ waited \in BOOLEAN
  /\ lagging # {} => lagScreen
  /\ lagScreen => loaded
  /\ loaded => members \subseteq finished
  /\ votes \subseteq members
  /\ screen \in [Players -> SUBSET members]

\* everything a player's game has gone through or will when it is handed over
Course(c) == view[c] \o Net(queue[c], used[c]) \o buffer[c]

(* Every player in the game gets the same time slots and leaves in the     *)
(* same order, whether the player's map was loading, whether the player    *)
(* uses GProxy++ and whether the connection was lost (the comment on       *)
(* "desyncable game data" in CBaseGame::Update).                           *)
SameData == \A c \in members : Course(c) = log

\* a course without the leaves, and without the empty slots
Only(kind, items) ==
  LET kept[i \in 0 .. Len(items)] ==
        IF i = 0 THEN <<>>
        ELSE IF items[i] \in kind THEN Append(kept[i - 1], items[i]) ELSE kept[i - 1]
  IN  kept[Len(items)]
TimeSlots == {item \in Items : item[1] # "leave"}
Slotted(s) == Only(TimeSlots, s)
Events(s)  == Only(Items \ {EmptySlot}, s)

(* With empty slots put in by a client: its game gets the same number of   *)
(* empty slots ahead of every update, no more, and the same leaves between *)
(* two updates.                                                            *)
KeepsPace ==
  \A c \in members :
    /\ Events(Course(c)) = Events(log)
    /\ \/ Slotted(Course(c)) = Slotted(log)
       \/ Slotted(Course(c)) = Slotted(log) \o [i \in 1 .. used[c] |-> EmptySlot]

(* The lag screen of a player shows exactly those the game waits for.      *)
ScreenShows ==
  \A c \in members :
    screen[c] = IF loaded THEN lagging
                ELSE IF LoadInGame /\ c \in finished THEN members \ finished ELSE {}

(* Nobody falls behind by more than an update over the limit: the game     *)
(* waits instead (LagStarts comes before SendAllActions).                  *)
NobodyLeftBehind == \A c \in members : behind[c] <= SyncLimit + 1

(* No update is sent to a game whose lag screen is up for somebody who     *)
(* stays ("the lag screen can't be up right now otherwise the server made  *)
(* a big mistake", gproxy.cpp).                                            *)
UpdatesOffScreen ==
  [][turn' > turn => \A c \in members' : screen[c] \subseteq members \ members']_vars

(* A lag screen comes down: those it waits for catch up, leave or are      *)
(* dropped.                                                                *)
LagEnds == lagScreen ~> ~lagScreen

\* the history the players are on is the replay's
Abstract == INSTANCE Broadcast WITH seen <- view

(* The game is one history that every player is somewhere in.              *)
OneHistory == Abstract!Spec
=============================================================================
