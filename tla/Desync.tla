------------------------------- MODULE Desync --------------------------------
(***************************************************************************)
(* The desync check of a running game: CBaseGame::EventPlayerKeepAlive of  *)
(* src/ghost/game_base.cpp.                                                *)
(*                                                                         *)
(* After every time slot each player's game sends a checksum of its state. *)
(* The bot keeps the checksums of each player in a queue, and when it has  *)
(* one of everybody it compares the fronts and takes them off.  It does    *)
(* not know what the right state is, so the players vote: with             *)
(* bot_dropifdesync those outside of the largest group are dropped, all of *)
(* them if there is none; without it the desync is only announced.  The    *)
(* setting can be changed while the game runs.                             *)
(*                                                                         *)
(* A checksum is a pair: the time slot it is for, and the state it is of.  *)
(* Time slots are counted in a circle that is longer than any queue.       *)
(* A definition whose name ends in _Slip is not part of the model: it is   *)
(* the definition below it with a likely mistake.                          *)
(***************************************************************************)
EXTENDS Naturals, Sequences, FiniteSets

CONSTANTS
  Players,   \* the players when the game has loaded
  States,    \* what a game's state may be after a time slot
  Window,    \* bound: checksums of a player that wait
  Cycle      \* bound: time slots told apart

ASSUME DesyncAssumption == /\ IsFiniteSet(Players)
                           /\ Window \in Nat /\ Cycle \in Nat /\ Cycle >= Window

VARIABLES
  players,       \* m_Players
  marked,        \* those with m_DeleteMe
  sums,          \* m_CheckSums of each player
  slot,          \* the time slot of a player's next checksum
  dropIfDesync,  \* m_GHost->m_dropifdesync
  desynced       \* m_Desynced

vars == <<players, marked, sums, slot, dropIfDesync, desynced>>

Slots == 0 .. Cycle
After(t) == IF t = Cycle THEN 0 ELSE t + 1

-----------------------------------------------------------------------------
(* The check, for queues q.                                                *)

\* those who are compared
Jury == IF dropIfDesync THEN players \ marked ELSE players

\* is there a checksum of everybody?
Complete(q) == \A p \in Jury : q[p] # <<>>

\* Bins: those with the same checksum as p
Bin(q, p) == {r \in Jury : Head(q[r]) = Head(q[p])}

\* LargestBin, and those of its size
InLargestBins(q) == {p \in Jury : \A r \in Jury : Cardinality(Bin(q, r)) <= Cardinality(Bin(q, p))}

Differing(q) == \E p, r \in Jury : Head(q[p]) # Head(q[r])

Tied(q) == \E p, r \in InLargestBins(q) : Head(q[p]) # Head(q[r])

Condemned_Slip(q) ==                     \* can not decide, so nobody is dropped
  IF Tied(q) THEN {} ELSE Jury \ InLargestBins(q)

\* a tie is the end of the game: StopPlayers
Condemned(q) == IF Tied(q) THEN players ELSE Jury \ InLargestBins(q)

\* the fronts are taken off the queues of those who stay
Popped(q, stay) == [p \in Players |-> IF p \in stay THEN Tail(q[p]) ELSE q[p]]

Judge(q) ==
  IF dropIfDesync
  THEN /\ marked' = IF Differing(q) THEN marked \union Condemned(q) ELSE marked
       /\ sums' = Popped(q, players \ marked')
       /\ UNCHANGED desynced
  ELSE /\ desynced' = (desynced \/ Differing(q))
       /\ sums' = Popped(q, players)
       /\ UNCHANGED marked

-----------------------------------------------------------------------------
(* The actions.                                                            *)

\* EventPlayerKeepAlive: a marked player is still listened to
KeepAlive(p, s) ==
  /\ p \in players
  /\ LET q == [sums EXCEPT ![p] = Append(@, <<slot[p], s>>)] IN
       IF Complete(q) THEN Judge(q) ELSE sums' = q /\ UNCHANGED <<marked, desynced>>
  /\ Len(sums'[p]) <= Window
  /\ slot' = [slot EXCEPT ![p] = After(@)]
  /\ UNCHANGED <<players, dropIfDesync>>

\* a player quits, is kicked, loses its connection or is dropped from a lag screen
Mark(p) ==
  /\ p \in players \ marked
  /\ marked' = marked \union {p}
  /\ UNCHANGED <<players, sums, slot, dropIfDesync, desynced>>

Reap_Slip(p) ==                          \* its mark is left behind
  /\ p \in marked
  /\ players' = players \ {p}
  /\ sums' = [sums EXCEPT ![p] = <<>>]
  /\ slot' = [slot EXCEPT ![p] = 0]
  /\ UNCHANGED <<marked, dropIfDesync, desynced>>

\* the player is deleted, and its queue with it
Reap(p) ==
  /\ p \in marked
  /\ players' = players \ {p}
  /\ marked' = marked \ {p}
  /\ sums' = [sums EXCEPT ![p] = <<>>]
  /\ slot' = [slot EXCEPT ![p] = 0]
  /\ UNCHANGED <<dropIfDesync, desynced>>

\* !rcfg reads the configuration again
Reload ==
  /\ dropIfDesync' = ~dropIfDesync
  /\ UNCHANGED <<players, marked, sums, slot, desynced>>

Init ==
  /\ players = Players
  /\ marked = {}
  /\ sums = [p \in Players |-> <<>>]
  /\ slot = [p \in Players |-> 0]
  /\ dropIfDesync \in BOOLEAN
  /\ desynced = FALSE

Answer(p) == \E s \in States : KeepAlive(p, s)

Next ==
  \/ \E p \in Players : Answer(p) \/ Mark(p) \/ Reap(p)
  \/ Reload

Spec == Init /\ [][Next]_vars

\* A game answers, or its player is dropped from the lag screen at last, and
\* the bot deletes the players who are marked.
Fairness == \A p \in Players : WF_vars(Answer(p) \/ Mark(p)) /\ WF_vars(Reap(p))

FairSpec == Spec /\ Fairness

-----------------------------------------------------------------------------
(* The properties.                                                         *)

TypeOK ==
  /\ players \subseteq Players
  /\ marked \subseteq players
  /\ sums \in [Players -> Seq(Slots \X States)]
  /\ slot \in [Players -> Slots]
  /\ dropIfDesync \in BOOLEAN
  /\ desynced \in BOOLEAN

\* The queues of the players who stay are never out of step with one another:
\* checksums at the same place are for the same time slot, whoever was dropped,
\* whoever left with a full queue, and whatever the setting was.
SameSlot ==
  \A p, q \in players \ marked : \A i \in DOMAIN sums[p] \cap DOMAIN sums[q] :
    sums[p][i][1] = sums[q][i][1]

\* The front of r's queue when p's checksum s has been put into p's queue.
Shown(r, p, s) == IF sums[r] = <<>> THEN <<slot[r], s>> ELSE Head(sums[r])

\* Nobody is dropped by the check who has more players on its side than any
\* other side has; and after a check those who stay were more than any other side.
FairVerdict ==
  [][\A p \in Players : slot'[p] # slot[p] /\ dropIfDesync => \A s \in States : KeepAlive(p, s) =>
       LET voters == players \ marked
           shown(r) == Shown(r, p, s)
           side(r) == {t \in voters : shown(t) = shown(r)}
       IN  /\ \A r \in marked' \ marked : \E t \in voters :
                 shown(t) # shown(r) /\ Cardinality(side(t)) >= Cardinality(side(r))
           /\ (\A r \in voters \ {p} : sums[r] # <<>>) =>
                 \A r \in players \ marked', t \in voters :
                   shown(t) # shown(r) => Cardinality(side(r)) > Cardinality(side(t))]_vars

\* Two players of the game have sent different checksums for one time slot.
Differ(p, q) ==
  /\ {p, q} \subseteq players \ marked
  /\ \E i \in DOMAIN sums[p] \cap DOMAIN sums[q] : sums[p][i] # sums[q][i]

\* If two players' games differ then in the end it has been announced or one of
\* the two is dropped, although the check waits for players who may be silent.
DesyncNoticed ==
  \A two \in {s \in SUBSET Players : Cardinality(s) = 2} :
    (\E p, q \in two : Differ(p, q)) ~> (desynced \/ ~(two \subseteq players \ marked))
=============================================================================
