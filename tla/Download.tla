------------------------------- MODULE Download -------------------------------
(***************************************************************************)
(* How players get the map in the lobby, and what keeps a game from being  *)
(* started without it: EventPlayerMapSize and the start's checks of        *)
(* src/ghost/game_base.cpp, with the moves of slots in between.            *)
(*                                                                         *)
(* Sizes are counted in parts of 1442 bytes.  A player object is named by  *)
(* its client, which may come again when it is gone.  Slots know players   *)
(* by PID only, and a PID is free again as soon as the others were told    *)
(* that its player left, which may be before the object is deleted.        *)
(*                                                                         *)
(* A definition whose name ends in _Slip is not part of the model: it is   *)
(* the definition below it with a likely mistake.                          *)
(***************************************************************************)
EXTENDS Integers, Sequences, FiniteSetsExt

CONSTANTS
  Clients,   \* programs that may join
  Pids,      \* PIDs of players, 1 to 254
  Reserved,  \* those on the reserved list
  Trusted,   \* admins and safelisted, when they may always download
  NumSlots,  \* slots of the map
  Computers, \* those that computers play
  MapParts,  \* parts of the map
  Burst,     \* parts sent ahead when the rate allows, 50
  Nobody,    \* the PID of an open slot
  Computer,  \* the PID of a computer's slot
  NormalCountdown, \* m_NormalCountdown
  LateErrors,      \* can a socket fail between a player's removal and its deletion?
  UnspoofedKick    \* is a player kicked who does not spoof check in time?

ASSUME DownloadAssumption ==
  /\ Reserved \subseteq Clients /\ Trusted \subseteq Clients
  /\ NumSlots \in Nat /\ Computers \subseteq 0 .. NumSlots - 1
  /\ {Nobody, Computer} \cap Pids = {} /\ Nobody # Computer
  /\ MapParts \in Nat \ {0} /\ Burst \in Nat \ {0}
  /\ {NormalCountdown, LateErrors, UnspoofedKick} \subseteq BOOLEAN

VARIABLES
  allow,     \* m_AllowDownloads
  local,     \* the bot has a copy of the map
  slots,     \* m_Slots: m_PID and m_DownloadStatus
  players,   \* m_Players
  pid,       \* m_PID of a player
  doomed,    \* m_DeleteMe
  left,      \* m_LeftMessageSent
  ousted,    \* history: players whose slot was opened for another's sake
  permitted, \* m_DownloadAllowed
  started,   \* m_DownloadStarted
  finished,  \* m_DownloadFinished
  sent,      \* m_LastMapPartSent
  told,      \* clients W3GS_STARTDOWNLOAD is on its way to
  has,       \* the parts a client has
  up,        \* the W3GS_MAPSIZE on their way from a client
  countdown, \* m_CountDownStarted
  forced,    \* the start was forced
  loading    \* m_GameLoading

marks   == <<doomed, left>>
lobby   == <<slots, players, pid, marks, ousted>>
loads   == <<permitted, started, finished, sent>>
clients == <<told, has, up>>
start   == <<countdown, forced, loading>>
vars    == <<allow, local, lobby, loads, clients, start>>

Seats   == 0 .. NumSlots - 1
Unknown == MapParts + 1   \* 255, above every percentage
Open    == [pid |-> Nobody, status |-> Unknown]
Played  == [pid |-> Computer, status |-> MapParts]
Reports == [flag : {1, 3}, size : 0 .. MapParts]

Init ==
  /\ allow \in 0 .. 2 /\ local \in BOOLEAN
  /\ slots = [s \in Seats |-> IF s \in Computers THEN Played ELSE Open]
  /\ players = {} /\ pid = [c \in Clients |-> Nobody] /\ doomed = {} /\ left = {}
  /\ ousted = {}
  /\ permitted = {} /\ started = {} /\ finished = {} /\ sent = [c \in Clients |-> 0]
  /\ told = {} /\ has = [c \in Clients |-> 0] /\ up = [c \in Clients |-> <<>>]
  /\ countdown = FALSE /\ forced = FALSE /\ loading = FALSE

-----------------------------------------------------------------------------
(* Slots, and the players whose PID they carry.                            *)
SeatsOf(p) == {s \in Seats : slots[s].pid = p}

\* GetSIDFromPID: the first slot with a player's PID, if there is one
Sid(c) == {s \in SeatsOf(pid[c]) : \A t \in SeatsOf(pid[c]) : s =< t}

Shown(c, n) ==
  [s \in Seats |-> IF s \in Sid(c) THEN [slots[s] EXCEPT !.status = n] ELSE slots[s]]

\* OpenSlot(GetSIDFromPID(...)) for a player; another who was given its PID is ousted
Namesakes(c) == {d \in players \ (left \union {c}) : pid[d] = pid[c]}

Opens(c) ==
  /\ slots' = [s \in Seats |-> IF s \in Sid(c) THEN Open ELSE slots[s]]
  /\ ousted' = (ousted \union Namesakes(c)) \ {c}

\* GetPlayerFromSID: the player with a slot's PID, if there is one
Holders(s) == {c \in players \ left : pid[c] = slots[s].pid}

OpenSeats == SeatsOf(Nobody)

(* A reserved player takes the place of the one who has the least of the   *)
(* map, or else of the last, but the first slot, who is not reserved.      *)
Displaceable == {s \in Seats : Holders(s) \ Reserved # {}}
Downloading  == {s \in Displaceable : slots[s].status < MapParts}
Least        == {s \in Downloading : \A t \in Downloading : slots[s].status =< slots[t].status}

SeatFor(c) ==
  IF OpenSeats # {} THEN {Min(OpenSeats)}
  ELSE IF c \notin Reserved THEN {}
  ELSE IF Least # {} THEN {Min(Least)}
  ELSE IF Displaceable \ {0} # {} THEN {Max(Displaceable \ {0})}
  ELSE {}

\* whoever was on the slot is told to go, and the others that it has gone
Displaces(s) == doomed' = doomed \union Holders(s) /\ left' = left \union Holders(s)

\* GetNewPID: which of the unused PIDs depends on those of the virtual host
\* and the fake player, and is left open
NewPids == Pids \ {pid[c] : c \in players \ left'}

Seated_Slip(s, p) == [slots EXCEPT ![s].pid = p]

(* A newcomer's slot says that nothing is known.                           *)
Seated(s, p) == [slots EXCEPT ![s] = [pid |-> p, status |-> Unknown]]

(* A client, which has the map or not, reports it as soon as it has joined. *)
Join(c) ==
  /\ c \notin players /\ ~countdown /\ ~loading
  /\ \E s \in SeatFor(c) :
       /\ Displaces(s)
       /\ \E p \in NewPids : slots' = Seated(s, p) /\ pid' = [pid EXCEPT ![c] = p]
  /\ players' = players \union {c}
  /\ \E n \in {0, MapParts} :
       /\ has' = [has EXCEPT ![c] = n]
       /\ up' = [up EXCEPT ![c] = <<[flag |-> 1, size |-> n]>>]
  /\ UNCHANGED <<allow, local, ousted, loads, told, start>>

(* One who is banned displaces another and is refused: the slot stays.     *)
JoinBanned(c) ==
  /\ c \notin players /\ ~countdown /\ ~loading
  /\ \E s \in SeatFor(c) : Displaces(s)
  /\ UNCHANGED <<allow, local, slots, players, pid, ousted, loads, clients, start>>

Swap(s, t) ==
  /\ ~loading
  /\ slots' = [slots EXCEPT ![s] = slots[t], ![t] = slots[s]]
  /\ UNCHANGED <<allow, local, players, pid, marks, ousted, loads, clients, start>>

\* EventPlayerDeleted aborts the countdown, unless it has been called before
\* or the countdown is the client's own
Aborts(c) == countdown' = (countdown /\ (NormalCountdown \/ c \in left))

(* The player's object goes, and the connection with what was on its way.  *)
Deleted(c) ==
  /\ players' = players \ {c} /\ doomed' = doomed \ {c} /\ left' = left \ {c}
  /\ pid' = [pid EXCEPT ![c] = Nobody]
  /\ permitted' = permitted \ {c} /\ started' = started \ {c} /\ finished' = finished \ {c}
  /\ sent' = [sent EXCEPT ![c] = 0] /\ told' = told \ {c}
  /\ has' = [has EXCEPT ![c] = 0] /\ up' = [up EXCEPT ![c] = <<>>]
  /\ Aborts(c) /\ forced' = (forced /\ countdown') /\ UNCHANGED <<allow, local, loading>>

(* A player leaves: its slot is opened and its object deleted in one pass. *)
Leave(c) ==
  /\ c \in players \ doomed /\ ~loading
  /\ Opens(c) /\ Deleted(c)

(* The pass that deletes an object marked earlier.  Its socket is still    *)
(* looked at: an error opens the slot of its PID once more.                *)
Reap(c) ==
  /\ c \in players \cap doomed /\ ~loading
  /\ \/ UNCHANGED slots /\ ousted' = ousted \ {c}
     \/ LateErrors /\ Opens(c)
  /\ Deleted(c)

Marked(c) ==
  /\ doomed' = doomed \union {c} /\ Opens(c)
  /\ UNCHANGED <<allow, local, players, pid, left, loads, clients, start>>

(* !kick and the vote: marked, and the slot is open at once.               *)
Kick(c) == c \in players \ left /\ ~loading /\ Marked(c)

(* Update kicks those who did not spoof check in time.  It goes over all   *)
(* the objects, those of players who have left included.                   *)
KickUnspoofed(c) == UnspoofedKick /\ c \in players /\ ~countdown /\ ~loading /\ Marked(c)

(* !open, which kicks the player on the slot.                              *)
OpenSlot(s) ==
  /\ ~loading /\ doomed' = doomed \union Holders(s)
  /\ slots' = [slots EXCEPT ![s] = Open]
  /\ UNCHANGED <<allow, local, players, pid, left, ousted, loads, clients, start>>

-----------------------------------------------------------------------------
(* The client, as the bot's code takes it to be: it answers the start of a *)
(* download and every part with what it has.                               *)
Answer(n) == [flag |-> IF n = MapParts THEN 1 ELSE 3, size |-> n]

ClientStarts(c) ==
  /\ c \in told /\ ~loading /\ told' = told \ {c}
  /\ up' = [up EXCEPT ![c] = Append(@, Answer(has[c]))]
  /\ UNCHANGED <<allow, local, lobby, loads, has, start>>

ClientTakes(c) ==
  /\ c \notin told /\ has[c] < sent[c] /\ ~loading
  /\ has' = [has EXCEPT ![c] = @ + 1]
  /\ up' = [up EXCEPT ![c] = Append(@, Answer(has[c] + 1))]
  /\ UNCHANGED <<allow, local, lobby, loads, told, start>>

-----------------------------------------------------------------------------
(* EventPlayerMapSize.  One who is marked is not read any more.            *)
Reported(c) ==
  IF c \in players \ doomed /\ ~loading /\ up[c] # <<>> THEN {Head(up[c])} ELSE {}

Read(c) == up' = [up EXCEPT ![c] = Tail(@)]

Lacking(r)     == r.flag # 1 \/ r.size # MapParts
Offered(c)     == local /\ (allow # 0 \/ c \in Trusted)
MayDownload(c) == c \in Trusted \/ allow = 1 \/ (allow = 2 /\ c \in permitted)

(* Whoever lacks the map and cannot have it is thrown out, in the pass     *)
(* that reads the report.                                                  *)
Refuse(c) ==
  /\ \E r \in Reported(c) : Lacking(r) /\ ~Offered(c)
  /\ Opens(c) /\ Deleted(c)

(* It waits for an admin's !download.                                      *)
Wait(c) ==
  \E r \in Reported(c) :
    /\ Read(c) /\ Lacking(r) /\ Offered(c) /\ ~MayDownload(c)
    /\ slots' = Shown(c, r.size)
    /\ UNCHANGED <<allow, local, players, pid, marks, ousted, loads, told, has, start>>

Begin(c) ==
  \E r \in Reported(c) :
    /\ Read(c) /\ Lacking(r) /\ Offered(c) /\ MayDownload(c)
    /\ c \notin started /\ r.flag = 1
    /\ started' = started \union {c} /\ told' = told \union {c}
    /\ slots' = Shown(c, r.size)
    /\ UNCHANGED <<allow, local, players, pid, marks, ousted, permitted, finished, sent, has, start>>

Ahead_Slip(c) == IF sent[c] = 0 THEN {Burst} ELSE {0, Burst}

(* The parts sent ahead: many at first and while the rate is below the     *)
(* player's share, one when it is above or when the player is queued.      *)
Ahead(c) == IF sent[c] = 0 THEN {Burst} ELSE {1, Burst}

SendParts(c) ==
  \E r \in Reported(c), ahead \in Ahead(c) :
    /\ Read(c) /\ Lacking(r) /\ Offered(c) /\ MayDownload(c)
    /\ c \in started \/ r.flag # 1
    /\ sent' = [sent EXCEPT ![c] = Min({MapParts, Max({@, r.size + ahead})})]
    /\ slots' = Shown(c, r.size)
    /\ UNCHANGED <<allow, local, players, pid, marks, ousted, permitted, started, finished,
                   told, has, start>>

(* It has the map.                                                         *)
Complete(c) ==
  \E r \in Reported(c) :
    /\ Read(c) /\ ~Lacking(r)
    /\ finished' = finished \union ({c} \cap started)
    /\ slots' = Shown(c, r.size)
    /\ UNCHANGED <<allow, local, players, pid, marks, ousted, permitted, started, sent,
                   told, has, start>>

-----------------------------------------------------------------------------
(* Commands: !download for a player, !downloads for all.                   *)
AllowDownload(c) ==
  /\ c \in players \ left /\ ~loading
  /\ c \notin started /\ \E s \in Sid(c) : slots[s].status # MapParts
  /\ permitted' = permitted \union {c} /\ started' = started \union {c}
  /\ told' = told \union {c}
  /\ UNCHANGED <<allow, local, lobby, finished, sent, has, up, start>>

SetDownloads(v) ==
  /\ allow # v /\ allow' = v
  /\ UNCHANGED <<local, lobby, loads, clients, start>>

(* !start and the automatic start: no slot's player is downloading.        *)
StartCountDown ==
  /\ ~countdown /\ ~loading
  /\ \A s \in Seats : Holders(s) # {} => slots[s].status = MapParts
  /\ countdown' = TRUE /\ forced' = FALSE
  /\ UNCHANGED <<allow, local, lobby, loads, clients, loading>>

(* !start force.                                                           *)
ForceStart ==
  /\ ~countdown /\ ~loading
  /\ countdown' = TRUE /\ forced' = TRUE
  /\ UNCHANGED <<allow, local, lobby, loads, clients, loading>>

CountdownOver ==
  /\ countdown /\ ~loading /\ loading' = TRUE
  /\ UNCHANGED <<allow, local, lobby, loads, clients, countdown, forced>>

MapSize(c) == Refuse(c) \/ Wait(c) \/ Begin(c) \/ SendParts(c) \/ Complete(c)

Next ==
  \/ \E c \in Clients :
       \/ Join(c) \/ JoinBanned(c) \/ Leave(c) \/ Reap(c)
       \/ Kick(c) \/ KickUnspoofed(c) \/ AllowDownload(c)
       \/ ClientStarts(c) \/ ClientTakes(c) \/ MapSize(c)
  \/ \E s, t \in Seats : s < t /\ Swap(s, t)
  \/ \E s \in Seats : OpenSlot(s)
  \/ \E v \in 0 .. 2 : SetDownloads(v)
  \/ StartCountDown \/ ForceStart \/ CountdownOver

Spec == Init /\ [][Next]_vars

(* A client that downloads answers, and the bot's loop looks at every       *)
(* player: it reads what is there, or deletes the object.                  *)
FairSpec ==
  /\ Spec
  /\ \A c \in Clients :
       WF_vars(ClientStarts(c) \/ ClientTakes(c)) /\ WF_vars(MapSize(c) \/ Reap(c))

-----------------------------------------------------------------------------
(* A game that was not forced to start starts with players who have the    *)
(* map, whoever joined, left, was displaced, kicked or moved meanwhile,    *)
(* and whatever slots were left behind with a PID that is given again      *)
(* (game_base.cpp 7713: check if everyone has the map).  The start         *)
(* overlooks those only whose slot was opened for the sake of a namesake:  *)
(* one who was displaced, and whose socket failed, or who was kicked for   *)
(* not spoof checking, before its object was deleted.                      *)
StartsComplete ==
  loading /\ ~forced => \A c \in players \ (doomed \union ousted) : has[c] = MapParts

(* A download ends, at whatever rate the parts are sent, unless the player *)
(* goes or the game starts first, as long as downloads are not made        *)
(* conditional over it: the player's answers would then be ignored, and    *)
(* !download refused because the download has started (game.cpp 3172).     *)
DownloadsEnd ==
  \A c \in Clients :
    [](c \in started => MayDownload(c) \/ allow = 0)
      => (c \in started ~> c \in finished \/ c \notin players \/ loading)
=============================================================================
