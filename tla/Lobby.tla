------------------------------- MODULE Lobby --------------------------------
(***************************************************************************)
(* The lobby of one hosted game: CBaseGame of src/ghost/game_base.cpp from *)
(* the first join to the moment the map starts to load.                    *)
(*                                                                         *)
(* A game owns a table of slots (m_Slots) and a list of player objects     *)
(* (m_Players).  They are tied together by a one byte player id only: a    *)
(* slot names its player by PID, and every event about a player looks its  *)
(* slot up by PID.  A player object outlives its place in the game: it is  *)
(* marked for deletion (m_DeleteMe) by whatever throws it out and removed  *)
(* by the next pass of CBaseGame::Update over the players.  An object      *)
(* whose PLAYERLEAVE message went out early (m_LeftMessageSent) is still   *)
(* in m_Players but is invisible to the lookups and to the choice of a new *)
(* PID.                                                                    *)
(*                                                                         *)
(* One action is one event handler, one command or one step of the player  *)
(* loop.  The order in which the loop visits the players is not fixed: an  *)
(* object marked for deletion may be removed before or after any other     *)
(* event.                                                                  *)
(*                                                                         *)
(* A definition whose name ends in _Slip is not part of the model: it is   *)
(* the definition below it with a likely mistake in it, which shows that a *)
(* property notices that mistake.                                          *)
(***************************************************************************)
EXTENDS Naturals, FiniteSets, FiniteSetsExt, Functions

CONSTANTS
  NumSlots,        \* m_Slots.size()
  PlayerLimit,     \* 12, or m_Slots.size() with m_ShowRealSlotCount
  Conns,           \* identities of CGamePlayer objects
  Names,           \* player names
  NoName,          \* the name of an object that does not exist
  Owner,           \* m_OwnerName
  Admins,          \* names that are admins on the realm they join from
  Safe,            \* safelisted names
  SafeImmune,      \* m_SafeLobbyImmunity
  Banned,          \* names the ban checks turn away: a banned address, or a
                   \* banned name that is not an admin's
  HeldAtStart,     \* m_Reserved when the game is created (friends, clan, ...)
  Holdable,        \* names the hold commands are used on
  HoldSeats,       \* seats the hold commands name
  ScoreCheck,      \* m_ScoreCheck, on a map with a matchmaking category
  NormalCountdown, \* m_NormalCountdown
  LateErrors,      \* can a socket fail between a kick and the deletion?
  UnspoofedKick,   \* are players who did not spoof check kicked?
  LadderScores,    \* does brtServer send scores outside the game's limits?
  Commands,        \* bound: the commands that are used
  CountFrom        \* bound: where the countdown starts (5 or 10 in the code)

NoPid  == 255
NoSeat == 255
MaxPid == 254
Seats  == 0 .. NumSlots - 1
Pids   == 1 .. MaxPid

ASSUME SeatsAssumption == NumSlots \in 1 .. 254
ASSUME LimitAssumption == PlayerLimit \in Nat \ {0}
ASSUME NamesAssumption == Owner \in Names /\ NoName \notin Names
ASSUME ListsAssumption == /\ Admins \subseteq Names /\ Safe \subseteq Names
                          /\ Banned \subseteq Names /\ HeldAtStart \subseteq Names
                          /\ Holdable \subseteq Names
                          /\ HoldSeats \subseteq Seats \cup {NoSeat}
ASSUME FlagsAssumption == /\ SafeImmune \in BOOLEAN /\ ScoreCheck \in BOOLEAN
                          /\ NormalCountdown \in BOOLEAN /\ LateErrors \in BOOLEAN
                          /\ UnspoofedKick \in BOOLEAN /\ LadderScores \in BOOLEAN
                          /\ CountFrom \in Nat
(* The PIDs can not run out: GetNewPID's "this should never happen".       *)
ASSUME ConnsAssumption == IsFiniteSet(Conns) /\ Cardinality(Conns) < MaxPid - 2

VARIABLES
  slots,     \* m_Slots: a PID and what the slot is
  members,   \* the objects in m_Players
  name,      \* their m_Name
  pid,       \* their m_PID
  sid,       \* their m_SID, a cached slot index
  doomed,    \* those with m_DeleteMe
  left,      \* those with m_LeftMessageSent
  reserved,  \* those with CGamePlayer::m_Reserved
  held,      \* m_Reserved, the names on the hold list
  heldSeat,  \* m_ReservedS, the slot held for each of them
  vh,        \* m_VirtualHostPID
  fake,      \* m_FakePlayerPID
  pending,   \* names whose join waits for the answer to a score check
  countdown, \* m_CountDownStarted
  counter,   \* m_CountDownCounter
  loading    \* m_GameLoading

seatVars  == <<slots, sid>>
objVars   == <<members, name, pid, doomed, left>>
listVars  == <<reserved, held, heldSeat>>
hostVars  == <<vh, fake>>
startVars == <<countdown, counter, loading>>
vars == <<slots, members, name, pid, sid, doomed, left, reserved, held,
          heldSeat, vh, fake, pending, countdown, counter, loading>>

OpenSlotRec     == [pid |-> 0, kind |-> "open"]
ClosedSlotRec   == [pid |-> 0, kind |-> "closed"]
ComputerSlotRec == [pid |-> 0, kind |-> "computer"]
PlayerSlot(p)   == [pid |-> p, kind |-> "player"]

\* the contents of a slot: only a player's slot carries a PID
Slot == {OpenSlotRec, ClosedSlotRec, ComputerSlotRec} \cup {PlayerSlot(p) : p \in Pids}

-----------------------------------------------------------------------------
(* Lookups.                                                                *)

\* the players the lookups see: the others have left as far as anyone knows
Present == members \ left

\* GetSIDFromPID, as a set: the slots that carry a PID
SeatsOfPid(sl, p) == {s \in Seats : sl[s].pid = p}

\* GetSIDFromPID
SeatOfPid(sl, p) == IF SeatsOfPid(sl, p) = {} THEN NoSeat ELSE Min(SeatsOfPid(sl, p))

\* GetPlayerFromSID, as a set, among the players in P
OccupantsIn(sl, P, s) == {c \in P : pid[c] = sl[s].pid}
Occupants(s) == OccupantsIn(slots, Present, s)

SeatsOfKind(k) == {s \in Seats : slots[s].kind = k}
HumanSeats(sl) == {s \in Seats : sl[s].kind # "computer"}

\* GetNumPlayers, when P are the players
CountPlayers(P) == Cardinality(P) + (IF fake # NoPid THEN 1 ELSE 0)
NumPlayers == CountPlayers(Present)

UsedPids_Slip(v, f, P) == {v, f} \cup {pid[c] : c \in P \ doomed}

\* GetNewPID: the lowest one that no visible player, nor a host player, uses
UsedPids(v, f, P) == {v, f} \cup {pid[c] : c \in P}
NewPid(v, f, P) ==
  LET free == Pids \ UsedPids(v, f, P)
  IN  IF free = {} THEN NoPid ELSE Min(free)

Privileged == held \cup Admins \cup Safe \cup {Owner}

-----------------------------------------------------------------------------
(* Changes to the slot table.                                              *)

\* OpenSlot(GetSIDFromPID(p), false): no effect when no slot carries p
OpenSeatOfPid(sl, p) ==
  IF SeatOfPid(sl, p) = NoSeat THEN sl
                               ELSE [sl EXCEPT ![SeatOfPid(sl, p)] = OpenSlotRec]

\* SwapSlots: exchanges two slots and the cached index of the players in them
Exchange(st, P, a, b) ==
  [slots |-> [st.slots EXCEPT ![a] = st.slots[b], ![b] = st.slots[a]],
   sid   |-> [c \in Conns |-> IF c \in OccupantsIn(st.slots, P, a) THEN b
                              ELSE IF c \in OccupantsIn(st.slots, P, b) THEN a
                              ELSE st.sid[c]]]

\* the loop that brings the owner to the first human slot: the slot hi moves
\* to lo and the human slots between them move one human slot up
Rotate(sl, lo, hi) ==
  [s \in Seats |->
     IF s \notin HumanSeats(sl) \cap (lo .. hi) THEN sl[s]
     ELSE IF s = lo THEN sl[hi]
     ELSE sl[Max(HumanSeats(sl) \cap (lo .. s - 1))]]

-----------------------------------------------------------------------------
(* Joining.                                                                *)

NameTaken(n) == \E c \in Present : name[c] = n

Displaceable_Slip == {s \in Seats : Occupants(s) # {}}

\* players another reserved player may displace
Displaceable == {s \in Seats : \E c \in Occupants(s) : c \notin reserved}

\* players an admin may displace when nobody displaceable is downloading
NonAdminSeats ==
  {s \in Seats : \E c \in Occupants(s) :
     /\ name[c] \notin Admins \cup {Owner}
     /\ SafeImmune => name[c] \notin Safe}

Highest(S) == IF S \ {0} = {} THEN NoSeat ELSE Max(S \ {0})

\* GetEmptySlot(true) and GetEmptySlotAdmin(true) once no slot is open or
\* closed.  The player with the least downloaded goes first, and the progress
\* of the downloads is not modelled: it can be any displaceable player, or
\* nobody is downloading and the highest slot is taken
OccupiedChoice(n) ==
  Displaceable \cup {Highest(IF n \in Admins THEN NonAdminSeats ELSE Displaceable)}

FoundSeats(n) ==
  IF SeatsOfKind("open") # {} THEN {Min(SeatsOfKind("open"))}
  ELSE IF n \notin Privileged THEN {NoSeat}
  ELSE IF SeatsOfKind("closed") # {} THEN {Min(SeatsOfKind("closed"))}
  ELSE OccupiedChoice(n)

\* the owner takes the lowest human slot when all else fails
OwnerSeat == IF SeatsOfKind("player") # {} THEN Min(SeatsOfKind("player")) ELSE 0

TargetSeats(n) ==
  {IF s = NoSeat /\ n = Owner THEN OwnerSeat ELSE s : s \in FoundSeats(n)} \ {NoSeat}

\* the player thrown out of the target slot, if any
Displaced(s) == IF SeatsOfKind("open") # {} THEN {} ELSE Occupants(s)

\* where an admin or held player is moved to: the first slot of a player who
\* is neither, if it is below the slot found
OrdinarySeats(sl, P) ==
  {s \in Seats : sl[s].kind = "player" /\
     \E c \in OccupantsIn(sl, P, s) : name[c] \notin Admins \cup {Owner} \cup held}

PlaceOwner_Slip(st, n) ==                \* exchanges the two ends instead
  LET human == HumanSeats(st.slots)
      first == Min(human)
  IN  IF n = Owner /\ human # {} /\ first # st.seat
      THEN [slots |-> [st.slots EXCEPT ![first] = st.slots[st.seat],
                                       ![st.seat] = st.slots[first]],
            sid |-> st.sid, seat |-> first]
      ELSE st

\* the three placements, each from a record of table, cache and slot found
PlaceOwner(st, n) ==
  LET human == HumanSeats(st.slots)
      first == Min(human)
  IN  IF n = Owner /\ human # {} /\ first # st.seat
      THEN [slots |-> Rotate(st.slots, first, st.seat), sid |-> st.sid, seat |-> first]
      ELSE st

MoveTo(st, P, t) ==
  LET ex == Exchange(st, P, st.seat, t)
  IN  [slots |-> ex.slots, sid |-> ex.sid, seat |-> t]

PlaceAdmin(st, P, n) ==
  LET ordinary == OrdinarySeats(st.slots, P)
  IN  IF n \in Admins \cup held /\ ordinary # {} /\ Min(ordinary) < st.seat
      THEN MoveTo(st, P, Min(ordinary))
      ELSE st

\* the slot held for this very player
SeatHeldFor(n, s) == n \in held /\ heldSeat[n] \in Seats \ {s}

PlaceHeld(st, P, n) ==
  IF SeatHeldFor(n, st.seat) /\ heldSeat[n] \in HumanSeats(st.slots)
  THEN MoveTo(st, P, heldSeat[n])
  ELSE st

\* the table, the cache and the slot after all the moves
Placement(n, s) ==
  LET P  == Present \ Displaced(s)
      s0 == [slots |-> slots, sid |-> sid, seat |-> s]
      s1 == PlaceOwner(s0, n)
      s2 == PlaceAdmin(s1, P, n)
  IN  [found |-> s2.seat, end |-> PlaceHeld(s2, P, n)]

\* a banned player is refused after the slot was looked for, that is after
\* the player in it was thrown out
RefuseBanned(n, s) ==
  /\ n \in Banned
  /\ doomed' = doomed \cup Displaced(s)
  /\ left' = left \cup Displaced(s)
  /\ UNCHANGED <<slots, members, name, pid, sid, listVars, hostVars, startVars>>

HostAfter_Slip(n) == IF n >= PlayerLimit THEN NoPid ELSE vh

\* the virtual host's PID once room is made for one more player than n
HostAfter(n) == IF n >= PlayerLimit - 1 THEN NoPid ELSE vh

\* everything from the placement to the new slot contents
TakeSeat(n, c, s) ==
  LET P  == Present \ Displaced(s)
      pl == Placement(n, s)
      v  == HostAfter(CountPlayers(P))
      p  == NewPid(v, fake, P)
  IN  /\ c \notin members
      /\ members' = members \cup {c}
      /\ doomed' = doomed \cup Displaced(s)
      /\ left' = left \cup Displaced(s)
      /\ name' = [name EXCEPT ![c] = n]
      /\ pid' = [pid EXCEPT ![c] = p]
      /\ sid' = [pl.end.sid EXCEPT ![c] = pl.end.seat]
      /\ slots' = [pl.end.slots EXCEPT ![pl.end.seat] = PlayerSlot(p)]
      /\ reserved' = IF n \in Privileged THEN reserved \cup {c} ELSE reserved
      /\ heldSeat' = IF SeatHeldFor(n, pl.found)
                     THEN [heldSeat EXCEPT ![n] = NoSeat] ELSE heldSeat
      /\ vh' = v
      /\ UNCHANGED <<held, fake, startVars>>

\* EventPlayerJoined from the slot search on; the bans are looked at in the
\* first pass only (m_ScoreCheckChecked is true in the second)
Admit(n, c, secondPass) ==
  \E s \in TargetSeats(n) :
     \/ ~secondPass /\ RefuseBanned(n, s)
     \/ (secondPass \/ n \notin Banned) /\ TakeSeat(n, c, s)

\* EventPlayerJoined on a join request
Join(n, c) ==
  /\ ~countdown /\ ~loading
  /\ ~NameTaken(n)
  /\ \/ /\ ScoreCheck /\ n \notin Privileged
        /\ pending' = pending \cup {n}
        /\ UNCHANGED <<seatVars, objVars, listVars, hostVars, startVars>>
     \/ /\ ~ScoreCheck \/ n \in Privileged
        /\ Admit(n, c, FALSE)
        /\ UNCHANGED pending

ScoreAccepted_Slip(n, c) ==              \* does not look at the name again
  /\ n \in pending
  /\ ~countdown /\ ~loading
  /\ Admit(n, c, TRUE)
  /\ pending' = pending \ {n}

ScoreAccepted_Slip2(n, c) ==             \* does not look at the countdown again
  /\ n \in pending
  /\ ~NameTaken(n)
  /\ Admit(n, c, TRUE)
  /\ pending' = pending \ {n}

\* the score arrives and is high enough: EventPlayerJoined a second time
ScoreAccepted(n, c) ==
  /\ n \in pending
  /\ ~countdown /\ ~loading
  /\ ~NameTaken(n)
  /\ Admit(n, c, TRUE)
  /\ pending' = pending \ {n}

\* the score is too low, the game is full or starting, or the client is gone
ScoreRefused(n) ==
  /\ n \in pending
  /\ pending' = pending \ {n}
  /\ UNCHANGED <<seatVars, objVars, listVars, hostVars, startVars>>

-----------------------------------------------------------------------------
(* Leaving.                                                                *)

\* EventPlayerDeleted aborts the countdown, unless its message went out early
\* or the countdown is the client's own
AbortedBy(c) == countdown /\ ~NormalCountdown /\ c \notin left

Remove_Slip(c) ==                        \* forgets to clear the flags
  /\ members' = members \ {c}
  /\ UNCHANGED <<doomed, left, reserved, name, pid, sid, countdown>>
  /\ UNCHANGED <<held, heldSeat, hostVars, pending, counter, loading>>

\* the object goes away; what it held goes back to the initial values
Remove(c) ==
  /\ members' = members \ {c}
  /\ doomed' = doomed \ {c}
  /\ left' = left \ {c}
  /\ reserved' = reserved \ {c}
  /\ name' = [name EXCEPT ![c] = NoName]
  /\ pid' = [pid EXCEPT ![c] = NoPid]
  /\ sid' = [sid EXCEPT ![c] = NoSeat]
  /\ countdown' = (countdown /\ ~AbortedBy(c))
  /\ UNCHANGED <<held, heldSeat, hostVars, pending, counter, loading>>

Depart_Slip(c) ==                        \* does not open the slot
  /\ c \in members \ doomed
  /\ UNCHANGED slots
  /\ Remove(c)

\* a leave message, a socket error or timeout, an excessive ping: the player's
\* own pass opens the slot and deletes the object
Depart(c) ==
  /\ c \in members \ doomed
  /\ slots' = OpenSeatOfPid(slots, pid[c])
  /\ Remove(c)

\* the pass that deletes an object marked earlier.  Its socket is still looked
\* at: an error or a timeout opens the slot of its PID once more
Reap(c) ==
  /\ c \in doomed
  /\ \/ UNCHANGED slots
     \/ LateErrors /\ slots' = OpenSeatOfPid(slots, pid[c])
  /\ Remove(c)

\* !kick, a vote and the remote server: marked, and the slot is open at once
Kick(c) ==
  /\ c \in Present
  /\ doomed' = doomed \cup {c}
  /\ slots' = OpenSeatOfPid(slots, pid[c])
  /\ UNCHANGED <<members, name, pid, sid, left, listVars, hostVars, pending, startVars>>

\* Update kicks the players who did not spoof check within 20 seconds.  It goes
\* over all the objects, those whose leave message is out included
KickUnspoofed(c) ==
  /\ UnspoofedKick /\ ~countdown
  /\ c \in members
  /\ doomed' = doomed \cup {c}
  /\ slots' = OpenSeatOfPid(slots, pid[c])
  /\ UNCHANGED <<members, name, pid, sid, left, listVars, hostVars, pending, startVars>>

\* brtServer answers with a score outside the limits: EventPlayerDeleted is
\* called by hand, and nothing opens the slot
RefuseScore(c) ==
  /\ LadderScores
  /\ c \in Present
  /\ doomed' = doomed \cup {c}
  /\ left' = left \cup {c}
  /\ countdown' = (countdown /\ ~AbortedBy(c))
  /\ UNCHANGED <<seatVars, members, name, pid, listVars, hostVars, pending,
                 counter, loading>>

-----------------------------------------------------------------------------
(* Commands on the slots.                                                  *)

SetSeat_Slip(s, rec) ==                  \* without the kick
  /\ slots' = [slots EXCEPT ![s] = rec]
  /\ UNCHANGED <<sid, objVars, listVars, hostVars, pending, startVars>>

\* OpenSlot, CloseSlot and ComputerSlot with kick
SetSeat(s, rec) ==
  /\ slots' = [slots EXCEPT ![s] = rec]
  /\ doomed' = doomed \cup Occupants(s)
  /\ UNCHANGED <<members, name, pid, sid, left, listVars, hostVars, pending, startVars>>

OpenSeat(s)     == SetSeat(s, OpenSlotRec)
CloseSeat(s)    == SetSeat(s, ClosedSlotRec)
ComputerSeat(s) == SetSeat(s, ComputerSlotRec)

\* OpenAllSlots and CloseAllSlots
SetAll(from, rec) ==
  /\ slots' = [s \in Seats |-> IF slots[s].kind = from THEN rec ELSE slots[s]]
  /\ UNCHANGED <<sid, objVars, listVars, hostVars, pending, startVars>>

OpenAll  == SetAll("closed", OpenSlotRec)
CloseAll == SetAll("open", ClosedSlotRec)

SwapSeats(a, b) ==
  LET ex == Exchange([slots |-> slots, sid |-> sid], Present, a, b)
  IN  /\ a # b
      /\ slots' = ex.slots
      /\ sid' = ex.sid
      /\ UNCHANGED <<objVars, listVars, hostVars, pending, startVars>>

\* !swap of an admin
Swap(a, b) == a < b /\ SwapSeats(a, b)

\* !swap of a player: the seat the player believes to be in is exchanged for an
\* open one, or for that of a player who asked for the same exchange
PublicSwap(c, t) ==
  /\ c \in Present \ doomed
  /\ sid[c] # t
  /\ \/ /\ Occupants(t) = {}
        /\ slots[t].kind = "open"
     \/ \E d \in Occupants(t) : sid[d] = t
  /\ SwapSeats(sid[c], t)

\* a change of team from the lobby screen (fixed player settings)
ChangeTeam(c, t) ==
  /\ ~countdown
  /\ c \in Present \ doomed
  /\ slots[t].kind = "open"
  /\ SeatsOfPid(slots, pid[c]) # {}
  /\ SwapSeats(SeatOfPid(slots, pid[c]), t)

\* the cached slots after ShuffleSlots went over the table
Refreshed(sl) ==
  [c \in Conns |-> IF c \in Present /\ SeatsOfPid(sl, pid[c]) # {}
                   THEN Max(SeatsOfPid(sl, pid[c])) ELSE sid[c]]

\* the slots in H are permuted
Permuted(H) ==
  {[s \in Seats |-> IF s \in H THEN slots[f[s]] ELSE slots[s]] : f \in Bijection(H, H)}

ShuffleSlots ==
  /\ slots' \in Permuted(SeatsOfKind("player"))
  /\ sid' = Refreshed(slots')
  /\ UNCHANGED <<objVars, listVars, hostVars, pending, startVars>>

\* !sp
Shuffle == ~countdown /\ ShuffleSlots

\* BalanceSlots brings each player to the next slot of a team, whatever is in
\* that slot, and leaves the cached slots alone unless it gives up and shuffles
BalanceSlots ==
  /\ slots' \in Permuted(Seats)
  /\ sid' \in {sid, Refreshed(slots')}
  /\ UNCHANGED <<objVars, listVars, hostVars, pending, startVars>>

-----------------------------------------------------------------------------
(* The hold list and the host's own players.                               *)

\* AddToReserved: a second hold changes the slot only
Hold(n, s) ==
  /\ heldSeat' = [heldSeat EXCEPT ![n] = s]
  /\ held' = held \cup {n}
  /\ reserved' = IF n \in held THEN reserved
                 ELSE reserved \cup {c \in members : name[c] = n}
  /\ UNCHANGED <<seatVars, objVars, hostVars, pending, startVars>>

\* DelFromReserved: downgrades the player of a name that is NOT on the list
Unhold(n) ==
  /\ IF n \in held
     THEN /\ held' = held \ {n}
          /\ heldSeat' = [heldSeat EXCEPT ![n] = NoSeat]
          /\ UNCHANGED reserved
     ELSE /\ reserved' = {c \in reserved : name[c] # n}
          /\ UNCHANGED <<held, heldSeat>>
  /\ UNCHANGED <<seatVars, objVars, hostVars, pending, startVars>>

CreateFakePlayer ==
  /\ ~countdown
  /\ fake = NoPid
  /\ SeatsOfKind("open") # {}
  /\ LET v == HostAfter(NumPlayers)
         p == NewPid(v, NoPid, Present)
     IN  /\ vh' = v
         /\ fake' = p
         /\ slots' = [slots EXCEPT ![Min(SeatsOfKind("open"))] = PlayerSlot(p)]
  /\ UNCHANGED <<sid, objVars, listVars, pending, startVars>>

DeleteFakePlayer ==
  /\ ~countdown
  /\ fake # NoPid
  /\ slots' = [s \in Seats |-> IF slots[s].pid = fake THEN OpenSlotRec ELSE slots[s]]
  /\ fake' = NoPid
  /\ UNCHANGED <<sid, vh, objVars, listVars, pending, startVars>>

CreateVirtualHost ==
  /\ vh = NoPid
  /\ NumPlayers < PlayerLimit
  /\ vh' = NewPid(NoPid, fake, Present)
  /\ UNCHANGED <<seatVars, objVars, listVars, fake, pending, startVars>>

-----------------------------------------------------------------------------
(* The countdown.                                                          *)

\* StartCountDown, StartCountDownAuto and !startn, which starts at 0
StartCountDown ==
  /\ ~countdown
  /\ countdown' = TRUE
  /\ counter' \in {0, CountFrom}
  /\ UNCHANGED <<seatVars, objVars, listVars, hostVars, pending, loading>>

\* !abort
Abort ==
  /\ countdown /\ ~NormalCountdown
  /\ countdown' = FALSE
  /\ UNCHANGED <<seatVars, objVars, listVars, hostVars, pending, counter, loading>>

\* every 500 ms, or 1200 with the client's own countdown
Tick ==
  /\ countdown
  /\ \/ /\ counter > 0
        /\ counter' = counter - 1
        /\ UNCHANGED <<seatVars, objVars, listVars, hostVars, pending, countdown, loading>>
     \/ /\ counter = 0                                    \* EventGameStarted
        /\ loading' = TRUE
        /\ vh' = NoPid
        /\ pending' = {}
        /\ \/ UNCHANGED seatVars
           \/ /\ slots' \in Permuted(SeatsOfKind("player"))    \* ShuffleSlots
              /\ sid' = Refreshed(slots')
        /\ UNCHANGED <<objVars, listVars, fake, countdown, counter>>

-----------------------------------------------------------------------------
Init ==
  /\ slots \in [Seats -> {OpenSlotRec, ClosedSlotRec, ComputerSlotRec}]
  /\ members = {} /\ doomed = {} /\ left = {} /\ reserved = {}
  /\ name = [c \in Conns |-> NoName]
  /\ pid = [c \in Conns |-> NoPid]
  /\ sid = [c \in Conns |-> NoSeat]
  /\ held = HeldAtStart
  /\ heldSeat = [n \in Names |-> NoSeat]
  /\ vh = NoPid /\ fake = NoPid
  /\ pending = {}
  /\ countdown = FALSE /\ counter = 0 /\ loading = FALSE

\* a command of an admin, the owner, a vote or a player, before the map loads
Issued(command) == command \in Commands /\ ~loading

\* what clients, the network and the score database do
ClientStep ==
  \/ \E n \in Names, c \in Conns : Join(n, c)
  \/ \E n \in Names, c \in Conns : ScoreAccepted(n, c)
  \/ \E n \in Names : ScoreRefused(n)
  \/ ~loading /\ \E c \in Conns : Depart(c)
  \/ ~loading /\ \E c \in Conns : RefuseScore(c)
  \/ Issued("swap") /\ \E c \in Conns, t \in Seats : PublicSwap(c, t)
  \/ Issued("team") /\ \E c \in Conns, t \in Seats : ChangeTeam(c, t)

CommandStep ==
  \/ Issued("kick") /\ \E c \in Conns : Kick(c)
  \/ Issued("open") /\ \E s \in Seats : OpenSeat(s)
  \/ Issued("open") /\ OpenAll
  \/ Issued("close") /\ \E s \in Seats : CloseSeat(s)
  \/ Issued("close") /\ CloseAll
  \/ Issued("comp") /\ \E s \in Seats : ComputerSeat(s)
  \/ Issued("swap") /\ \E a, b \in Seats : Swap(a, b)
  \/ Issued("sp") /\ Shuffle
  \/ Issued("abc") /\ BalanceSlots
  \/ Issued("hold") /\ \E n \in Holdable, s \in HoldSeats : Hold(n, s)
  \/ Issued("unhold") /\ \E n \in Holdable : Unhold(n)
  \/ Issued("fakeplayer") /\ CreateFakePlayer
  \/ Issued("fakeplayer") /\ DeleteFakePlayer
  \/ Issued("start") /\ StartCountDown
  \/ Issued("start") /\ Abort

\* what CBaseGame::Update does by itself
UpdateStep ==
  \/ ~loading /\ \E c \in Conns : Reap(c)
  \/ ~loading /\ \E c \in Conns : KickUnspoofed(c)
  \/ ~loading /\ CreateVirtualHost
  \/ ~loading /\ Tick

\* the lobby ends when the map starts to load
Next == ClientStep \/ CommandStep \/ UpdateStep

Spec == Init /\ [][Next]_vars

-----------------------------------------------------------------------------
(* The types of the state of a lobby; a slot without a player carries no   *)
(* PID, and the slot index a player caches is one of the table.            *)
TypeOK ==
  /\ slots \in [Seats -> Slot]
  /\ members \subseteq Conns
  /\ doomed \subseteq members
  /\ left \subseteq doomed
  /\ reserved \subseteq members
  /\ name \in [Conns -> Names \cup {NoName}]
  /\ pid \in [Conns -> Pids \cup {NoPid}]
  /\ sid \in [Conns -> Seats \cup {NoSeat}]
  /\ \A c \in members : sid[c] \in Seats
  /\ held \subseteq Names
  /\ heldSeat \in [Names -> Seats \cup {NoSeat}]
  /\ vh \in Pids \cup {NoPid}
  /\ fake \in Pids \cup {NoPid}
  /\ pending \subseteq Names
  /\ countdown \in BOOLEAN
  /\ counter \in 0 .. CountFrom
  /\ loading \in BOOLEAN

(* Two players, the virtual host and the fake player never answer to the   *)
(* same PID (GetNewPID: "find an unused PID").                             *)
PidsDistinct ==
  /\ \A c, d \in Present : c # d => pid[c] # pid[d]
  /\ \A c \in Present : pid[c] \notin {vh, fake, NoPid}
  /\ vh = fake => vh = NoPid

(* No two players in the game have the same name, however long the answer  *)
(* to a score check takes (EventPlayerJoined, "already taken").            *)
NamesDistinct == \A c, d \in Present : name[c] = name[d] => c = d

(* With the virtual host the game never has more players than the client   *)
(* supports: it is removed in time and created in time.                    *)
HostHasRoom == vh # NoPid => NumPlayers < PlayerLimit

(* A name on the hold list that is in the game has a reserved player.      *)
HeldAreReserved == \A c \in members : name[c] \in held => c \in reserved

(* Every slot that shows a player shows one that is in the game, and no    *)
(* two slots show the same.                                                *)
SeatsAccounted ==
  /\ \A s \in SeatsOfKind("player") : slots[s].pid = fake \/ Occupants(s) # {}
  /\ \A s, t \in SeatsOfKind("player") : slots[s].pid = slots[t].pid => s = t

(* Every player who was not thrown out has a slot, and those who were have  *)
(* none: nobody loses a slot to an event about somebody else.              *)
MembersSeated == \A c \in Present : SeatsOfPid(slots, pid[c]) # {} <=> c \notin doomed

(* A joining player throws another one out only from a game without an     *)
(* open or closed slot; only the owner or an admin throws out a reserved   *)
(* player, and only the owner an admin.                                    *)
DisplacementRule ==
  [][\A c \in members, d \in Conns :
       c \in left' \ left /\ d \in members' \ members =>
         /\ SeatsOfKind("open") = {} /\ SeatsOfKind("closed") = {}
         /\ c \in reserved => name'[d] \in Admins \cup {Owner}
         /\ name[c] \in Admins \cup {Owner} => name'[d] = Owner]_vars

(* An owner who joins gets the first slot that is not a computer's, unless *)
(* a slot is held for him, and nobody else changes places with a third.    *)
OwnerComesFirst ==
  [][\A d \in members' \ members :
       name'[d] = Owner /\ Owner \notin held =>
         /\ slots'[Min(HumanSeats(slots'))].pid = pid'[d]
         /\ \A b, c \in Present \cap Present' :
              SeatOfPid(slots, pid[b]) < SeatOfPid(slots, pid[c]) =>
                SeatOfPid(slots', pid[b]) <= SeatOfPid(slots', pid[c])]_vars

(* While a countdown runs nobody enters or leaves the game: a join is        *)
(* refused however early it was asked for, and a loss aborts the countdown.  *)
RosterFrozen ==
  [][countdown /\ countdown' /\ ~NormalCountdown => Present' = Present]_vars

=============================================================================
