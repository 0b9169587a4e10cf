------------------------------- MODULE Listing -------------------------------
(***************************************************************************)
(* How a lobby comes into the game list of a Battle.net server: the two    *)
(* queues of CBNET in src/ghost/bnet.cpp, what the lobby and the main loop *)
(* put into them, and the connection, which may be lost at any time.       *)
(*                                                                         *)
(* There is one server, with Battle.net's or with PvPGN's ways.  What it   *)
(* does with a packet it does at once; its answer may take its time.       *)
(* Packets leave when their timers allow: m_OutPackets one at a time, with *)
(* seconds in between, m_OutPackets2 in threes.  A slot of the lobby is    *)
(* always open.  A definition whose name ends in _Slip is not part of the  *)
(* model: it is the definition below it with a likely mistake.             *)
(***************************************************************************)
EXTENDS Integers, Sequences

CONSTANTS
  Names,       \* names of games there are, numbered
  ChatLimit,   \* the length of the queue from which on chat is discarded, 11
  NoLobby,     \* m_CurrentGame is NULL
  Nothing,     \* the list shows no game of the bot
  QueueBound,  \* bound: packets queued when a user gives a command
  AnswerBound, \* bound: answers on their way
  DropBound    \* bound: lost connections

ASSUME ListingAssumption ==
  /\ Names \in Nat \ {0} /\ ChatLimit \in Nat
  /\ QueueBound \in Nat /\ AnswerBound \in Nat /\ DropBound \in Nat

VARIABLES
  pvpgn,    \* m_PasswordHashType == "pvpgn"
  renames,  \* m_RehostIfNameTaken
  socket,   \* m_Socket and m_WaitingToConnect
  loggedIn, \* m_LoggedIn
  out,      \* m_OutPackets
  out2,     \* m_OutPackets2
  lobby,    \* m_CurrentGame
  session,  \* the server takes the bot for logged in
  listed,   \* the name in the server's list
  answers,  \* the server's answers to SID_STARTADVEX3 that are on their way
  drops     \* connections lost

config == <<pvpgn, renames>>
server == <<session, listed, answers>>
vars == <<pvpgn, renames, socket, loggedIn, out, out2, lobby, session, listed, answers, drops>>

GameNames == 1 .. Names
ASSUME NothingAssumption == Nothing \notin GameNames
NextName(n) == (n % Names) + 1      \* IncGameNr, which starts over

(* told says that the server was sent the name and has been there since;   *)
(* it is there for the properties only.                                    *)
Lobbies == [name : GameNames, public : BOOLEAN, countdown : BOOLEAN,
            error : BOOLEAN,        \* m_RefreshError
            exiting : BOOLEAN,      \* m_Exiting
            told : BOOLEAN]
ASSUME LobbyAssumption == NoLobby \notin Lobbies

Advertise(n) == <<"startadv", n>>
StopAdv   == <<"stopadv", 0>>
EnterChat == <<"enterchat", 0>>
Chat      == <<"chat", 0>>
Packets   == {Advertise(n) : n \in GameNames} \cup {StopAdv, EnterChat, Chat}

Init ==
  /\ pvpgn \in BOOLEAN /\ renames \in BOOLEAN
  /\ socket = "waiting" /\ loggedIn = FALSE
  /\ out = <<>> /\ out2 = <<>> /\ lobby = NoLobby
  /\ session = FALSE /\ listed = Nothing /\ answers = <<>> /\ drops = 0

-----------------------------------------------------------------------------
(* The queues.  Nothing is queued unless the bot is logged in.             *)
Queued(q, ps) == IF loggedIn THEN q \o ps ELSE q

(* QueueChatCommand: a message is cut into one or two packets, and         *)
(* discarded when too much is queued.                                      *)
Said(q, parts) == IF Len(q) < ChatLimit THEN Queued(q, [i \in 1 .. parts |-> Chat]) ELSE q

(* What the queue is after a message to a user or to all: on PvPGN what is *)
(* whispered does not go through it.                                       *)
Announced(q) == {Said(q, 1)} \cup (IF pvpgn THEN {q} ELSE {})

(* QueueGameRefresh: on PvPGN a game is advertised by the other queue than *)
(* the one it is withdrawn by.                                             *)
First(n)  == IF pvpgn THEN <<>> ELSE <<Advertise(n)>>
Second(n) == IF pvpgn THEN Queued(out2, <<Advertise(n)>>) ELSE out2

(* UnqueueGameRefreshes looks at m_OutPackets only: it goes through it and *)
(* keeps the packets that do not advertise a game.                         *)
IsRefresh(p) == p[1] = "startadv"
Unqueued(q) ==
  LET kept[i \in 0 .. Len(q)] ==
        IF i = 0 THEN <<>>
        ELSE IF IsRefresh(q[i]) THEN kept[i - 1] ELSE Append(kept[i - 1], q[i])
  IN  kept[Len(q)]

Withdraw == <<StopAdv, EnterChat>>

(* A private game is not refreshed, so the bot goes back to the chat; not  *)
(* on PvPGN, where that would withdraw the game.                           *)
BackToChat(public) == IF public \/ pvpgn THEN <<>> ELSE <<EnterChat>>

-----------------------------------------------------------------------------
(* The lobby.                                                              *)
InLobby == lobby # NoLobby
Quiet   == Len(out) =< QueueBound /\ Len(out2) =< QueueBound

(* CreateGame: the game is announced in the chat, then advertised.         *)
Create(n, public) ==
  /\ ~InLobby /\ Quiet
  /\ lobby' = [name |-> n, public |-> public, countdown |-> FALSE, error |-> FALSE,
               exiting |-> FALSE, told |-> loggedIn]
  /\ \E said \in Announced(out) : out' = Queued(said, First(n) \o BackToChat(public))
  /\ out2' = Second(n)
  /\ UNCHANGED <<config, socket, loggedIn, server, drops>>

Refresh_Slip ==
  /\ InLobby /\ lobby.public /\ ~lobby.error /\ ~lobby.countdown
  /\ Len(out) =< 1 /\ loggedIn /\ Len(out2) =< QueueBound
  /\ out' = Queued(out, First(lobby.name)) /\ out2' = out2
  /\ lobby' = [lobby EXCEPT !.told = TRUE]
  /\ UNCHANGED <<config, socket, loggedIn, server, drops>>

(* Every three seconds a public game is advertised again, as long as there *)
(* is hardly anything else to send.                                        *)
Refresh ==
  /\ InLobby /\ lobby.public /\ ~lobby.error /\ ~lobby.countdown
  /\ Len(out) =< 1 /\ loggedIn /\ Len(out2) =< QueueBound
  /\ out' = Queued(out, First(lobby.name)) /\ out2' = Second(lobby.name)
  /\ lobby' = [lobby EXCEPT !.told = TRUE]
  /\ UNCHANGED <<config, socket, loggedIn, server, drops>>

RehostPublic_Slip(n) ==
  /\ InLobby /\ ~lobby.countdown /\ n # lobby.name /\ Quiet
  /\ lobby' = [lobby EXCEPT !.name = n, !.public = TRUE, !.error = FALSE, !.told = FALSE]
  /\ out' = Queued(out, <<EnterChat>>) /\ out2' = out2
  /\ UNCHANGED <<config, socket, loggedIn, server, drops>>

(* !pub in the lobby: the next refresh advertises the new name.            *)
RehostPublic(n) ==
  /\ InLobby /\ ~lobby.countdown /\ n # lobby.name /\ Quiet
  /\ lobby' = [lobby EXCEPT !.name = n, !.public = TRUE, !.error = FALSE, !.told = FALSE]
  /\ out' = Queued(Unqueued(out), Withdraw) /\ out2' = out2
  /\ UNCHANGED <<config, socket, loggedIn, server, drops>>

RehostPrivate_Slip(n) ==
  /\ InLobby /\ ~lobby.countdown /\ n # lobby.name /\ Quiet
  /\ lobby' = [lobby EXCEPT !.name = n, !.public = FALSE, !.error = FALSE, !.told = loggedIn]
  /\ out' = Queued(Unqueued(out), First(n) \o Withdraw \o BackToChat(FALSE))
  /\ out2' = Second(n)
  /\ UNCHANGED <<config, socket, loggedIn, server, drops>>

(* !priv in the lobby: the new name is advertised at once.                 *)
RehostPrivate(n) ==
  /\ InLobby /\ ~lobby.countdown /\ n # lobby.name /\ Quiet
  /\ lobby' = [lobby EXCEPT !.name = n, !.public = FALSE, !.error = FALSE, !.told = loggedIn]
  /\ out' = Queued(Unqueued(out), Withdraw \o First(n) \o BackToChat(FALSE))
  /\ out2' = Second(n)
  /\ UNCHANGED <<config, socket, loggedIn, server, drops>>

(* Nobody has joined for a while: the game gets the next number.           *)
AutoRehost ==
  /\ InLobby /\ lobby.public /\ Quiet
  /\ lobby' = [lobby EXCEPT !.name = NextName(@), !.error = FALSE, !.told = FALSE]
  /\ out' = Queued(out, Withdraw)
  /\ UNCHANGED <<config, socket, loggedIn, out2, server, drops>>

BeginCountdown ==
  /\ InLobby /\ ~lobby.countdown
  /\ lobby' = [lobby EXCEPT !.countdown = TRUE]
  /\ UNCHANGED <<config, socket, loggedIn, out, out2, server, drops>>

AbortCountdown ==
  /\ InLobby /\ lobby.countdown
  /\ lobby' = [lobby EXCEPT !.countdown = FALSE]
  /\ UNCHANGED <<config, socket, loggedIn, out, out2, server, drops>>

(* !unhost.                                                                *)
Unhost ==
  /\ InLobby /\ ~lobby.countdown /\ Quiet
  /\ lobby' = [lobby EXCEPT !.exiting = TRUE]
  /\ out' \in Announced(out)
  /\ UNCHANGED <<config, socket, loggedIn, out2, server, drops>>

(* The lobby is deleted, or starts.                                        *)
LobbyEnds ==
  /\ InLobby /\ Quiet /\ (lobby.exiting \/ lobby.countdown)
  /\ lobby' = NoLobby
  /\ out' = Queued(out, Withdraw)
  /\ UNCHANGED <<config, socket, loggedIn, out2, server, drops>>

(* Anything else the bot says on the server.                               *)
Talk(parts) ==
  /\ loggedIn /\ Quiet /\ out' = Said(out, parts)
  /\ UNCHANGED <<config, socket, loggedIn, out2, lobby, server, drops>>

-----------------------------------------------------------------------------
(* What the server does with the packets it is sent.  Before the login it  *)
(* does nothing.  An answer tells whether it took the name.                *)
Listings(p) ==
  IF ~session THEN {listed}
  ELSE IF IsRefresh(p) THEN {p[2], listed}
  ELSE IF p = StopAdv \/ (p = EnterChat /\ pvpgn) THEN {Nothing}
  ELSE {listed}

Answered(p, now) ==
  IF session /\ IsRefresh(p) THEN Append(answers, now = p[2]) ELSE answers

Send(p) ==
  /\ IsRefresh(p) => Len(answers) < AnswerBound
  /\ listed' \in Listings(p) /\ answers' = Answered(p, listed')
  /\ UNCHANGED session

(* One packet of m_OutPackets, when the last was long enough ago.          *)
SendFirst ==
  /\ socket = "connected" /\ out # <<>>
  /\ Send(Head(out)) /\ out' = Tail(out)
  /\ UNCHANGED <<config, socket, loggedIn, out2, lobby, drops>>

(* Up to three of m_OutPackets2, one step each.                            *)
SendSecond ==
  /\ socket = "connected" /\ out2 # <<>>
  /\ Send(Head(out2)) /\ out2' = Tail(out2)
  /\ UNCHANGED <<config, socket, loggedIn, out, lobby, drops>>

(* SID_STARTADVEX3 comes back.  The answer does not say which name it is   *)
(* about: what the lobby is called by then was taken, or was not.  If it   *)
(* was not the lobby gets another name, or is closed when it is empty; the *)
(* channel and the creator are told if the game was not renamed before.    *)
Accepted ==
  /\ loggedIn /\ answers # <<>> /\ Head(answers)
  /\ answers' = Tail(answers)
  /\ UNCHANGED <<config, socket, loggedIn, out, out2, lobby, session, listed, drops>>

Refused ==
  /\ loggedIn /\ answers # <<>> /\ ~Head(answers)
  /\ answers' = Tail(answers)
  /\ \E said \in {out, Said(out, 1), Said(Said(out, 1), 1)}, empty \in BOOLEAN :
       IF ~InLobby THEN UNCHANGED <<out, lobby>>
       ELSE IF renames
         THEN /\ lobby' = [lobby EXCEPT !.name = NextName(@), !.error = FALSE, !.told = FALSE]
              /\ out' = Queued(said, Withdraw)
         ELSE /\ lobby' = [lobby EXCEPT !.error = TRUE, !.exiting = @ \/ empty]
              /\ out' = said
  /\ UNCHANGED <<config, socket, loggedIn, out2, session, listed, drops>>

-----------------------------------------------------------------------------
(* The connection.                                                         *)
TryConnect ==
  /\ socket = "waiting" /\ socket' = "connecting"
  /\ UNCHANGED <<config, loggedIn, out, out2, lobby, server, drops>>

(* What is left in m_OutPackets is dropped.                                *)
Connected ==
  /\ socket = "connecting" /\ socket' = "connected"
  /\ out' = <<>>
  /\ UNCHANGED <<config, loggedIn, out2, lobby, server, drops>>

LogsIn ==
  /\ socket = "connected" /\ ~loggedIn
  /\ loggedIn' = TRUE /\ session' = TRUE
  /\ UNCHANGED <<config, socket, out, out2, lobby, listed, answers, drops>>

(* The server closes the connection, and the bot's games with it.          *)
ServerDrops ==
  /\ session /\ drops < DropBound
  /\ session' = FALSE /\ listed' = Nothing /\ drops' = drops + 1
  /\ UNCHANGED <<config, socket, loggedIn, out, out2, lobby, answers>>

Untold == IF InLobby THEN [lobby EXCEPT !.told = FALSE] ELSE lobby

NoticesLoss_Slip ==
  /\ socket = "connected" /\ loggedIn /\ ~session
  /\ socket' = "waiting" /\ answers' = <<>>
  /\ lobby' = Untold
  /\ UNCHANGED <<config, loggedIn, out, out2, session, listed, drops>>

(* The bot sees it and forgets what it was sent.                           *)
NoticesLoss ==
  /\ socket = "connected" /\ loggedIn /\ ~session
  /\ socket' = "waiting" /\ loggedIn' = FALSE /\ answers' = <<>>
  /\ lobby' = Untold
  /\ UNCHANGED <<config, out, out2, session, listed, drops>>

(* The connection does not come about, or the login fails.                 *)
ConnectFails ==
  /\ socket # "waiting" /\ ~loggedIn /\ drops < DropBound
  /\ socket' = "waiting" /\ drops' = drops + 1
  /\ UNCHANGED <<config, loggedIn, out, out2, lobby, server>>

Users ==
  \/ \E n \in GameNames, public \in BOOLEAN : Create(n, public)
  \/ \E n \in GameNames : RehostPublic(n) \/ RehostPrivate(n)
  \/ BeginCountdown \/ AbortCountdown \/ Unhost
  \/ \E parts \in 1 .. 2 : Talk(parts)

Sending == SendFirst \/ SendSecond \/ Accepted \/ Refused

Connection == TryConnect \/ Connected \/ LogsIn \/ NoticesLoss

Next ==
  \/ Users \/ Refresh \/ AutoRehost \/ LobbyEnds \/ Sending \/ Connection
  \/ ServerDrops \/ ConnectFails

Spec == Init /\ [][Next]_vars

(* The main loop goes on, and when the queue is short now and then, it is  *)
(* at the end of three seconds some time.                                  *)
FairSpec ==
  /\ Spec
  /\ WF_vars(SendFirst) /\ WF_vars(SendSecond) /\ WF_vars(Accepted) /\ WF_vars(Refused)
  /\ WF_vars(Connection) /\ SF_vars(Refresh)

-----------------------------------------------------------------------------
(* The type invariant.                                                     *)
TypeOK ==
  /\ pvpgn \in BOOLEAN /\ renames \in BOOLEAN
  /\ socket \in {"waiting", "connecting", "connected"} /\ loggedIn \in BOOLEAN
  /\ loggedIn => socket = "connected"
  /\ out \in Seq(Packets) /\ out2 \in Seq(Packets)
  /\ lobby \in Lobbies \cup {NoLobby}
  /\ session \in BOOLEAN /\ listed \in GameNames \cup {Nothing}
  /\ answers \in Seq(BOOLEAN) /\ drops \in 0 .. DropBound

AllSent == session /\ loggedIn /\ out = <<>> /\ out2 = <<>> /\ answers = <<>>

(* On Battle.net no game that is not there any more stays in the list: when*)
(* everything is sent the list shows the lobby or nothing, whatever was    *)
(* rehosted, refused, closed or lost in which order (game.cpp 5033-5041,   *)
(* game_base.cpp 5854-5860, ghost.cpp 1652-1656).                          *)
OnlyLobbyListed ==
  ~pvpgn /\ AllSent => listed \in {Nothing} \cup {l.name : l \in {lobby} \ {NoLobby}}

(* A private game is not refreshed, so the one packet that advertises it   *)
(* has to do (game.cpp 5043): when everything is sent it is in the list, if*)
(* it was not refused and the connection was not lost.                     *)
PrivateAdvertised ==
  AllSent /\ InLobby /\ ~lobby.public /\ lobby.told /\ ~lobby.error => listed = lobby.name

(* The same for Battle.net.                                                *)
PrivateAdvertisedThere == ~pvpgn => PrivateAdvertised

(* A public game comes into the list in the end, over lost connections,    *)
(* full queues and late answers, unless its name is refused or it is       *)
(* renamed, starts or closes, as long as the bot does not talk without     *)
(* cease (game_base.cpp 862-893).                                          *)
Waits(n) == InLobby /\ lobby.public /\ lobby.name = n /\ ~lobby.error
              /\ ~lobby.countdown /\ ~lobby.exiting

ListedInTheEnd ==
  []<>(Len(out) =< 1) => \A n \in GameNames : Waits(n) ~> (listed = n \/ ~Waits(n))
=============================================================================
