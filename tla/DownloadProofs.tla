--------------------------- MODULE DownloadProofs ---------------------------
(***************************************************************************)
(* A game that was not forced to start starts with players who have the    *)
(* map: proved for any number of clients, slots and parts of the map.      *)
(***************************************************************************)
EXTENDS Download, FiniteSetTheorems, SequenceTheorems, TLAPS

-----------------------------------------------------------------------------
(* The invariant.                                                          *)

Active == players \ doomed
Placed == Active \ ousted
Guests == Pids \cup {Nobody, Computer}
Slot   == [pid : Guests, status : Nat]

Types ==
  /\ slots \in [Seats -> Slot] /\ pid \in [Clients -> Guests]
  /\ players \subseteq Clients /\ doomed \subseteq players /\ left \subseteq doomed
  /\ \A c \in players : pid[c] \in Pids
  /\ sent \in [Clients -> 0 .. MapParts] /\ has \in [Clients -> 0 .. MapParts]
  /\ up \in [Clients -> Seq(Reports)]
  /\ countdown \in BOOLEAN /\ forced \in BOOLEAN /\ loading \in BOOLEAN

\* no two players have one PID, as long as the others know of both
PidsDistinct == \A c, d \in players \ left : pid[c] = pid[d] => c = d

\* whoever was not thrown out, nor ousted, has a slot that shows the whole map
\* only if it has it; other slots may carry any PID, and say anything
Vouches(s, c) ==
  slots[s].pid = pid[c] /\ (slots[s].status = MapParts => has[c] = MapParts)
Accounted == \A c \in Placed : \E s \in Seats : Vouches(s, c)

\* no report promises more than the client has
ReportsHonest == \A c \in Clients : \A i \in 1 .. Len(up[c]) : up[c][i].size <= has[c]

\* what the start of the countdown made sure of stays true
CountdownComplete ==
  /\ loading => countdown
  /\ countdown /\ ~forced => \A c \in Placed : has[c] = MapParts

IInv == Types /\ PidsDistinct /\ Accounted /\ ReportsHonest /\ CountdownComplete

-----------------------------------------------------------------------------
(* The least and the last of some slots are among them.                    *)
LEMMA Extremes ==
  ASSUME NEW S \in SUBSET Seats, S # {}
  PROVE  Min(S) \in S /\ Max(S) \in S
<1>1. ASSUME NEW T \in SUBSET Nat, T # {} PROVE \E m \in T : \A x \in T : m <= x
  <2> DEFINE R == OpToRel(<, Nat)
  <2>1. PICK m \in T : \A x \in T : ~(<<x, m>> \in R)
    BY <1>1, NatLessThanWellFounded, WFMin
  <2>2. \A x \in T : ~(x < m)
    BY <2>1, <1>1 DEF OpToRel
  <2>3. \A x \in T : m <= x
    BY <1>1, <2>2
  <2> QED BY <2>3
<1>2. S \in SUBSET Nat /\ NumSlots \in Nat /\ \A x \in S : x < NumSlots
  BY DownloadAssumption DEF Seats
<1>3. Min(S) \in S
  <2>1. PICK m \in S : \A x \in S : m <= x
    BY <1>1, <1>2
  <2> QED BY <2>1 DEF Min
<1>4. Max(S) \in S
  <2> DEFINE T == {NumSlots - x : x \in S}
  <2>0. \A x \in S : NumSlots - x \in Nat
    BY <1>2
  <2>1. T \in SUBSET Nat /\ T # {}
    BY <2>0
  <2>2. PICK m \in T : \A t \in T : m <= t
    BY <1>1, <2>1
  <2>3. PICK g \in S : m = NumSlots - g
    BY <2>2
  <2>4. \A x \in S : g >= x
    <3>1. \A x \in S : NumSlots - g <= NumSlots - x
      BY <2>2, <2>3
    <3> QED BY <1>2, <3>1
  <2> QED BY <2>4 DEF Max
<1> QED BY <1>3, <1>4

\* the slot of a newcomer is a slot of the map
LEMMA SeatForFacts ==
  ASSUME NEW c \in Clients, NEW s \in SeatFor(c)
  PROVE  s \in Seats
<1>1. /\ OpenSeats \in SUBSET Seats /\ Least \in SUBSET Seats
      /\ Displaceable \ {0} \in SUBSET Seats
  BY DEF OpenSeats, SeatsOf, Displaceable, Downloading, Least
<1>2. CASE OpenSeats # {}
  BY <1>1, <1>2, Extremes DEF SeatFor
<1>3. CASE OpenSeats = {} /\ Least # {}
  BY <1>1, <1>3, Extremes DEF SeatFor
<1>4. CASE OpenSeats = {} /\ Least = {}
  <2>1. Displaceable \ {0} # {} /\ s = Max(Displaceable \ {0})
    BY <1>4 DEF SeatFor
  <2> QED BY <1>1, <2>1, Extremes
<1> QED BY <1>2, <1>3, <1>4

-----------------------------------------------------------------------------
(* What clearing a slot, showing a status and reading a report keep.       *)

\* opening a player's slot ousts whoever has its PID, and nobody else loses a slot
LEMMA OpensKeeps ==
  ASSUME Types, Accounted, NEW c \in players, Opens(c), Active' \subseteq Active \ {c},
         \A d \in Clients \ {c} : has'[d] = has[d] /\ pid'[d] = pid[d]
  PROVE  slots' \in [Seats -> Slot] /\ Accounted' /\ Placed' \subseteq Placed \ {c}
<1>1. Open \in Slot
  BY DownloadAssumption DEF Open, Slot, Guests, Unknown
<1>2. /\ slots' \in [Seats -> Slot]
      /\ \A s \in Seats : s \notin Sid(c) => slots'[s] = slots[s]
  BY <1>1 DEF Opens, Types
<1>3. Placed' \subseteq Placed \ ({c} \cup Namesakes(c))
  BY DEF Opens, Placed
<1>4. ASSUME NEW d \in Placed' PROVE \E s \in Seats : Vouches(s, d)'
  <2>1. d \in Placed \ {c} /\ d \notin Namesakes(c)
    BY <1>3, <1>4
  <2>2. PICK s \in Seats : Vouches(s, d)
    BY <2>1 DEF Accounted
  <2>3. d \in players \ left /\ d # c /\ d \in Clients \ {c}
    BY <2>1 DEF Placed, Active, Types
  <2>4. pid[d] # pid[c]
    BY <2>1, <2>3 DEF Namesakes
  <2>5. slots'[s] = slots[s]
    BY <1>2, <2>2, <2>4 DEF Vouches, Sid, SeatsOf
  <2> QED BY <2>2, <2>3, <2>5 DEF Vouches
<1> QED BY <1>2, <1>3, <1>4 DEF Accounted

LEMMA ShowKeeps ==
  ASSUME Types, PidsDistinct, Accounted, NEW c \in Active, NEW n \in 0 .. MapParts,
         n = MapParts => has[c] = MapParts,
         slots' = Shown(c, n), UNCHANGED <<players, pid, doomed, ousted, has>>
  PROVE  slots' \in [Seats -> Slot] /\ Accounted'
<1>1. /\ slots' \in [Seats -> Slot]
      /\ \A s \in Seats : slots'[s].pid = slots[s].pid
      /\ \A s \in Seats : s \in Sid(c) => slots'[s].status = n
      /\ \A s \in Seats : s \notin Sid(c) => slots'[s] = slots[s]
  <2>1. n \in Nat
    BY DownloadAssumption
  <2>2. \A s \in Seats : slots[s] \in Slot
    BY DEF Types
  <2>3. \A x \in Slot :
          LET y == [x EXCEPT !.status = n]
          IN  y \in Slot /\ y.pid = x.pid /\ y.status = n
    BY <2>1 DEF Slot
  <2> QED BY <2>2, <2>3 DEF Shown
<1>2. ASSUME NEW d \in Placed PROVE \E s \in Seats : Vouches(s, d)'
  <2>1. PICK s \in Seats : Vouches(s, d)
    BY DEF Accounted
  <2>2. slots'[s].pid = pid'[d]
    BY <1>1, <2>1 DEF Vouches
  <2>3. slots'[s].status = MapParts => has'[d] = MapParts
    <3>1. CASE s \in Sid(c)
      <4>1. c \in players \ left /\ d \in players \ left
        BY DEF Placed, Active, Types
      <4>2. pid[c] = pid[d]
        BY <2>1, <3>1 DEF Vouches, Sid, SeatsOf
      <4>3. c = d
        BY <4>1, <4>2 DEF PidsDistinct
      <4> QED BY <1>1, <3>1, <4>3
    <3>2. CASE s \notin Sid(c)
      BY <1>1, <2>1, <3>2 DEF Vouches
    <3> QED BY <3>1, <3>2
  <2> QED BY <2>2, <2>3 DEF Vouches
<1>3. Placed' = Placed
  BY DEF Placed, Active
<1> QED BY <1>1, <1>2, <1>3 DEF Accounted

LEMMA ReadKeeps ==
  ASSUME Types, ReportsHonest, NEW c \in Clients, NEW r \in Reported(c), Read(c), has' = has
  PROVE  /\ c \in Active /\ r \in Reports /\ r.size \in 0 .. MapParts
         /\ r.size = MapParts => has[c] = MapParts
         /\ up' \in [Clients -> Seq(Reports)] /\ ReportsHonest'
<1>1. /\ up[c] \in Seq(Reports) /\ up[c] # <<>> /\ r = Head(up[c]) /\ c \in Active
      /\ up' = [up EXCEPT ![c] = Tail(up[c])]
  BY DEF Reported, Read, Types, Active
<1>2. /\ Len(up[c]) \in Nat /\ Len(up[c]) >= 1 /\ r = up[c][1]
      /\ Tail(up[c]) \in Seq(Reports) /\ Len(Tail(up[c])) = Len(up[c]) - 1
      /\ \A i \in 1 .. Len(Tail(up[c])) : Tail(up[c])[i] = up[c][i + 1]
  <2>1. Len(up[c]) >= 1
    BY <1>1, EmptySeq, LenProperties
  <2> QED BY <1>1, <2>1, HeadTailProperties, LenProperties
<1>3. r \in Reports /\ r.size \in 0 .. MapParts
  <2>1. up[c][1] \in Reports
    BY <1>1, <1>2, ElementOfSeq
  <2> QED BY <1>2, <2>1 DEF Reports
<1>4. r.size <= has[c] /\ has[c] \in 0 .. MapParts
  BY <1>2 DEF ReportsHonest, Types
<1>5. up'[c] = Tail(up[c]) /\ \A d \in Clients \ {c} : up'[d] = up[d]
  BY <1>1 DEF Types
<1>6. ReportsHonest'
  <2>1. ASSUME NEW i \in 1 .. Len(Tail(up[c])) PROVE Tail(up[c])[i].size <= has[c]
    BY <1>2, <2>1 DEF ReportsHonest
  <2> QED BY <1>5, <2>1 DEF ReportsHonest
<1>7. up' \in [Clients -> Seq(Reports)]
  BY <1>1, <1>2 DEF Types
<1> QED BY <1>1, <1>3, <1>4, <1>6, <1>7, DownloadAssumption

\* a client reports what it has, which does not become less
LEMMA SayKeeps ==
  ASSUME Types, ReportsHonest, NEW c \in Clients, NEW r \in Reports,
         NEW n \in 0 .. MapParts, has[c] <= n, r.size <= n,
         has' = [has EXCEPT ![c] = n], up' = [up EXCEPT ![c] = Append(up[c], r)]
  PROVE  up' \in [Clients -> Seq(Reports)] /\ ReportsHonest'
<1>1. up[c] \in Seq(Reports) /\ has[c] \in Nat /\ n \in Nat /\ r.size \in Nat
  <2>1. MapParts \in Nat /\ r.size \in 0 .. MapParts /\ has[c] \in 0 .. MapParts
    BY DownloadAssumption DEF Types, Reports
  <2> QED BY <2>1 DEF Types
<1>2. /\ Append(up[c], r) \in Seq(Reports) /\ Len(Append(up[c], r)) = Len(up[c]) + 1
      /\ \A i \in 1 .. Len(up[c]) : Append(up[c], r)[i] = up[c][i]
      /\ Append(up[c], r)[Len(up[c]) + 1] = r /\ Len(up[c]) \in Nat
  BY <1>1, AppendProperties, LenProperties
<1>3. /\ up'[c] = Append(up[c], r) /\ has'[c] = n
      /\ \A d \in Clients \ {c} : up'[d] = up[d] /\ has'[d] = has[d]
  BY DEF Types
<1>4. ASSUME NEW i \in 1 .. Len(up'[c]) PROVE up'[c][i].size <= n
  <2>1. CASE i = Len(up[c]) + 1
    BY <1>2, <1>3, <2>1
  <2>2. CASE i # Len(up[c]) + 1
    <3>1. i \in 1 .. Len(up[c]) /\ up'[c][i] = up[c][i]
      BY <1>2, <1>3, <1>4, <2>2
    <3>2. up[c][i].size <= has[c] /\ up[c][i].size \in Nat
      <4>1. up[c][i] \in Reports /\ MapParts \in Nat
        BY <1>1, <3>1, ElementOfSeq, DownloadAssumption
      <4>2. up[c][i].size \in 0 .. MapParts
        BY <4>1 DEF Reports
      <4> QED BY <3>1, <4>1, <4>2 DEF ReportsHonest
    <3> QED BY <1>1, <3>1, <3>2
  <2> QED BY <2>1, <2>2
<1> QED BY <1>2, <1>3, <1>4 DEF ReportsHonest, Types

-----------------------------------------------------------------------------
(* Each step preserves the invariant.                                      *)

LEMMA InitInv == Init => IInv
<1> SUFFICES ASSUME Init PROVE IInv
  OBVIOUS
<1>1. MapParts \in Nat /\ Unknown \in Nat
  BY DownloadAssumption DEF Unknown
<1>2. slots \in [Seats -> Slot]
  <2>1. Played \in Slot /\ Open \in Slot
    BY <1>1 DEF Played, Open, Slot, Guests
  <2> QED BY <2>1 DEF Init
<1>3. /\ sent \in [Clients -> 0 .. MapParts] /\ has \in [Clients -> 0 .. MapParts]
      /\ up \in [Clients -> Seq(Reports)] /\ pid \in [Clients -> Guests]
  BY <1>1, EmptySeq DEF Init, Guests
<1>4. ReportsHonest
  BY EmptySeq DEF Init, ReportsHonest
<1>5. Types /\ PidsDistinct /\ Accounted /\ CountdownComplete
  BY <1>2, <1>3 DEF Init, Types, PidsDistinct, Accounted, CountdownComplete, Active, Placed
<1> QED BY <1>4, <1>5 DEF IInv

\* whoever is on a slot that is given away or opened is told to go: the
\* others are on other slots
LEMMA EvictKeeps ==
  ASSUME Types, Accounted, NEW s \in Seats, NEW d \in Placed \ Holders(s),
         has'[d] = has[d], pid'[d] = pid[d],
         \A t \in Seats \ {s} : slots'[t] = slots[t]
  PROVE  \E t \in Seats : Vouches(t, d)'
<1>1. PICK t \in Seats : Vouches(t, d)
  BY DEF Accounted
<1>2. d \in players \ left
  BY DEF Placed, Active, Types
<1>3. t # s
  BY <1>1, <1>2 DEF Holders, Vouches
<1> QED BY <1>1, <1>3 DEF Vouches

LEMMA JoinInv == ASSUME IInv, NEW c \in Clients, Join(c) PROVE IInv'
<1>1. PICK s \in SeatFor(c), p \in NewPids :
        /\ doomed' = doomed \cup Holders(s) /\ left' = left \cup Holders(s)
        /\ slots' = Seated(s, p) /\ pid' = [pid EXCEPT ![c] = p]
  BY DEF Join, Displaces
<1>2. PICK n \in {0, MapParts} :
        /\ has' = [has EXCEPT ![c] = n]
        /\ up' = [up EXCEPT ![c] = <<[flag |-> 1, size |-> n]>>]
  BY DEF Join
<1>3. /\ c \notin players /\ players' = players \cup {c} /\ ~countdown /\ ~loading
      /\ UNCHANGED <<ousted, sent, countdown, forced, loading>>
  BY DEF Join, loads, start
<1>4. s \in Seats /\ Holders(s) \subseteq players \ left
  BY <1>1, SeatForFacts DEF Holders
<1>5. n \in 0 .. MapParts /\ [flag |-> 1, size |-> n] \in Reports /\ p \in Pids
  BY DownloadAssumption DEF Reports, NewPids
<1>6. /\ slots' \in [Seats -> Slot]
      /\ slots'[s].pid = p /\ slots'[s].status # MapParts
      /\ \A t \in Seats \ {s} : slots'[t] = slots[t]
  <2>1. [pid |-> p, status |-> Unknown] \in Slot /\ Unknown # MapParts
    BY <1>5, DownloadAssumption DEF Slot, Guests, Unknown
  <2> QED BY <1>1, <1>4, <2>1 DEF IInv, Types, Seated
<1>7. /\ pid'[c] = p /\ has'[c] = n /\ pid' \in [Clients -> Guests]
      /\ \A d \in Clients \ {c} : pid'[d] = pid[d] /\ has'[d] = has[d] /\ up'[d] = up[d]
  BY <1>1, <1>2, <1>5 DEF IInv, Types, Guests
<1>8. Types'
  <2>1. <<[flag |-> 1, size |-> n]>> \in Seq(Reports)
    BY <1>5
  <2>2. up' \in [Clients -> Seq(Reports)] /\ has' \in [Clients -> 0 .. MapParts]
    BY <1>2, <1>5, <2>1 DEF IInv, Types
  <2>3. \A d \in players' : pid'[d] \in Pids
    BY <1>3, <1>5, <1>7 DEF IInv, Types
  <2> QED BY <1>1, <1>3, <1>4, <1>6, <1>7, <2>2, <2>3 DEF IInv, Types
<1>9. PidsDistinct'
  <2>1. \A d \in players \ left' : d \in Clients \ {c} /\ d \in players \ left /\ pid[d] # p
    BY <1>1, <1>3 DEF NewPids, IInv, Types
  <2>2. players' \ left' \subseteq (players \ left') \cup {c}
    BY <1>3
  <2>3. \A d, e \in players \ left : pid[d] = pid[e] => d = e
    BY DEF IInv, PidsDistinct
  <2> QED BY <1>7, <2>1, <2>2, <2>3 DEF PidsDistinct
<1>10. Accounted'
  <2>1. ASSUME NEW d \in Placed' PROVE \E t \in Seats : Vouches(t, d)'
    <3>1. CASE d = c
      BY <1>4, <1>6, <1>7, <3>1 DEF Vouches
    <3>2. CASE d # c
      <4>1. d \in Placed \ Holders(s) /\ d \in Clients \ {c}
        BY <1>1, <1>3, <2>1, <3>2 DEF Placed, Active, IInv, Types
      <4> QED BY <1>4, <1>6, <1>7, <4>1, EvictKeeps DEF IInv
    <3> QED BY <3>1, <3>2
  <2> QED BY <2>1 DEF Accounted
<1>11. ReportsHonest'
  <2>1. up'[c] = <<[flag |-> 1, size |-> n]>>
    BY <1>2 DEF IInv, Types
  <2>2. \A i \in 1 .. Len(up'[c]) : up'[c][i].size <= has'[c]
    BY <1>5, <1>7, <2>1, DownloadAssumption
  <2> QED BY <1>7, <2>2 DEF IInv, ReportsHonest
<1>12. CountdownComplete'
  BY <1>3 DEF CountdownComplete
<1> QED BY <1>8, <1>9, <1>10, <1>11, <1>12 DEF IInv

LEMMA JoinBannedInv == ASSUME IInv, NEW c \in Clients, JoinBanned(c) PROVE IInv'
<1>1. PICK s \in SeatFor(c) :
        doomed' = doomed \cup Holders(s) /\ left' = left \cup Holders(s)
  BY DEF JoinBanned, Displaces
<1>2. /\ ~countdown /\ ~loading
      /\ UNCHANGED <<slots, players, pid, ousted, sent, has, up, countdown, forced, loading>>
  BY DEF JoinBanned, loads, clients, start
<1>3. Types' /\ Placed' \subseteq Placed
  BY <1>1, <1>2 DEF IInv, Types, Placed, Active, Holders
<1>4. PidsDistinct'
  BY <1>1, <1>2 DEF IInv, PidsDistinct
<1>5. Accounted'
  BY <1>2, <1>3 DEF IInv, Accounted, Vouches
<1> QED BY <1>2, <1>3, <1>4, <1>5 DEF IInv, ReportsHonest, CountdownComplete

LEMMA SwapInv == ASSUME IInv, NEW s \in Seats, NEW t \in Seats, Swap(s, t) PROVE IInv'
<1>1. /\ slots' = [slots EXCEPT ![s] = slots[t], ![t] = slots[s]]
      /\ UNCHANGED <<players, pid, doomed, left, ousted, sent, has, up, countdown, forced, loading>>
  BY DEF Swap, marks, loads, clients, start
<1>2. /\ slots' \in [Seats -> Slot]
      /\ slots'[s] = slots[t] /\ slots'[t] = slots[s]
      /\ \A u \in Seats \ {s, t} : slots'[u] = slots[u]
  BY <1>1 DEF IInv, Types
<1>3. Accounted'
  <2>1. ASSUME NEW c \in Placed PROVE \E u \in Seats : Vouches(u, c)'
    <3>1. PICK u \in Seats : Vouches(u, c)
      BY DEF IInv, Accounted
    <3>2. PICK v \in Seats : slots'[v] = slots[u]
      BY <1>2
    <3> QED BY <1>1, <3>1, <3>2 DEF Vouches
  <2> QED BY <1>1, <2>1 DEF Accounted, Placed, Active
<1> QED BY <1>1, <1>2, <1>3 DEF IInv, Types, PidsDistinct, ReportsHonest, CountdownComplete, Placed,
                                Active

LEMMA OpenSlotInv == ASSUME IInv, NEW s \in Seats, OpenSlot(s) PROVE IInv'
<1>1. /\ doomed' = doomed \cup Holders(s) /\ slots' = [slots EXCEPT ![s] = Open] /\ ~loading
      /\ UNCHANGED <<players, pid, left, ousted, sent, has, up, countdown, forced, loading>>
  BY DEF OpenSlot, loads, clients, start
<1>2. /\ slots' \in [Seats -> Slot]
      /\ \A t \in Seats \ {s} : slots'[t] = slots[t]
  <2>1. Open \in Slot
    BY DownloadAssumption DEF Open, Slot, Guests, Unknown
  <2> QED BY <1>1, <2>1 DEF IInv, Types
<1>3. Types' /\ Placed' = Placed \ Holders(s)
  BY <1>1, <1>2 DEF IInv, Types, Holders, Placed, Active
<1>4. Accounted'
  <2>1. ASSUME NEW d \in Placed' PROVE \E t \in Seats : Vouches(t, d)'
    BY <1>1, <1>2, <1>3, <2>1, EvictKeeps DEF IInv
  <2> QED BY <2>1 DEF Accounted
<1>5. PidsDistinct' /\ ReportsHonest'
  BY <1>1 DEF IInv, PidsDistinct, ReportsHonest
<1>6. CountdownComplete'
  BY <1>1, <1>3 DEF IInv, CountdownComplete
<1> QED BY <1>3, <1>4, <1>5, <1>6 DEF IInv

LEMMA MarkedInv == ASSUME IInv, NEW c \in players, Marked(c), ~loading PROVE IInv'
<1>1. /\ doomed' = doomed \cup {c} /\ Opens(c)
      /\ UNCHANGED <<players, pid, left, sent, has, up, countdown, forced, loading>>
  BY DEF Marked, loads, clients, start
<1>2. Active' = Active \ {c}
  BY <1>1 DEF Active
<1>3. slots' \in [Seats -> Slot] /\ Accounted' /\ Placed' \subseteq Placed
  BY <1>1, <1>2, OpensKeeps DEF IInv
<1>4. Types' /\ PidsDistinct' /\ ReportsHonest'
  BY <1>1, <1>3 DEF IInv, Types, PidsDistinct, ReportsHonest
<1>5. CountdownComplete'
  BY <1>1, <1>3 DEF IInv, CountdownComplete
<1> QED BY <1>3, <1>4, <1>5 DEF IInv

\* when the object of a player goes
LEMMA DeletedKeeps ==
  ASSUME IInv, NEW c \in Clients, Deleted(c), ~loading, ousted \subseteq ousted' \cup {c}
  PROVE  /\ players' = players \ {c} /\ doomed' = doomed \ {c} /\ left' = left \ {c}
         /\ Active' = Active \ {c}
         /\ \A d \in Clients \ {c} : has'[d] = has[d] /\ pid'[d] = pid[d]
         /\ slots' \in [Seats -> Slot] => Types'
         /\ PidsDistinct' /\ ReportsHonest' /\ CountdownComplete'
         /\ Placed' \subseteq Placed \ {c}
<1>1. /\ players' = players \ {c} /\ doomed' = doomed \ {c} /\ left' = left \ {c}
      /\ pid' = [pid EXCEPT ![c] = Nobody]
      /\ sent' = [sent EXCEPT ![c] = 0] /\ has' = [has EXCEPT ![c] = 0]
      /\ up' = [up EXCEPT ![c] = <<>>] /\ loading' = loading
      /\ countdown' = (countdown /\ (NormalCountdown \/ c \in left))
      /\ forced' = (forced /\ countdown')
  BY DEF Deleted, Aborts
<1>2. 0 \in 0 .. MapParts /\ <<>> \in Seq(Reports) /\ Len(<<>>) = 0 /\ Nobody \in Guests
  BY DownloadAssumption, EmptySeq DEF Guests
<1>3. /\ up'[c] = <<>> /\ has'[c] = 0
      /\ \A d \in Clients \ {c} : up'[d] = up[d] /\ has'[d] = has[d] /\ pid'[d] = pid[d]
  BY <1>1 DEF IInv, Types
<1>4. Active' = Active \ {c}
  BY <1>1 DEF Active
<1>5. players \subseteq Clients /\ Placed \subseteq Clients /\ Placed' \subseteq Placed \ {c}
  BY <1>4 DEF IInv, Types, Active, Placed
<1>6. ASSUME slots' \in [Seats -> Slot] PROVE Types'
  <2>1. \A d \in players' : pid'[d] \in Pids
    BY <1>1, <1>3, <1>5 DEF IInv, Types
  <2>2. /\ sent' \in [Clients -> 0 .. MapParts] /\ has' \in [Clients -> 0 .. MapParts]
        /\ up' \in [Clients -> Seq(Reports)] /\ pid' \in [Clients -> Guests]
    BY <1>1, <1>2 DEF IInv, Types
  <2>3. countdown' \in BOOLEAN /\ forced' \in BOOLEAN /\ loading' \in BOOLEAN
    BY <1>1 DEF IInv, Types
  <2>4. players' \subseteq Clients /\ doomed' \subseteq players' /\ left' \subseteq doomed'
    BY <1>1 DEF IInv, Types
  <2> QED BY <1>6, <2>1, <2>2, <2>3, <2>4 DEF Types
<1>7. PidsDistinct'
  BY <1>1, <1>3, <1>5 DEF IInv, PidsDistinct
<1>8. ReportsHonest'
  BY <1>2, <1>3 DEF IInv, ReportsHonest
<1>9. CountdownComplete'
  <2>1. ASSUME countdown', ~forced' PROVE \A d \in Placed' : has'[d] = MapParts
    <3>1. countdown /\ ~forced
      BY <1>1, <2>1
    <3>2. \A d \in Placed : has[d] = MapParts
      BY <3>1 DEF IInv, CountdownComplete
    <3> QED BY <1>3, <1>5, <3>2
  <2> QED BY <1>1, <2>1 DEF CountdownComplete
<1> QED BY <1>1, <1>3, <1>4, <1>5, <1>6, <1>7, <1>8, <1>9

\* who leaves, or is thrown out for lacking the map, or whose socket fails late
LEMMA OpensDeletedInv ==
  ASSUME IInv, NEW c \in players, Opens(c), Deleted(c), ~loading
  PROVE  IInv'
<1>1. c \in Clients /\ ousted \subseteq ousted' \cup {c}
  BY DEF IInv, Types, Opens
<1>2. slots' \in [Seats -> Slot] /\ Accounted'
  BY <1>1, DeletedKeeps, OpensKeeps DEF IInv
<1> QED BY <1>1, <1>2, DeletedKeeps DEF IInv

LEMMA ReapInv == ASSUME IInv, NEW c \in Clients, Reap(c) PROVE IInv'
<1>1. c \in players \cap doomed /\ ~loading /\ Deleted(c)
  BY DEF Reap
<1>2. CASE Opens(c)
  BY <1>1, <1>2, OpensDeletedInv
<1>3. CASE slots' = slots /\ ousted' = ousted \ {c}
  <2>1. Placed' \subseteq Placed \ {c} /\ Placed \subseteq Clients
    BY <1>1, <1>3, DeletedKeeps DEF Placed, Active, IInv, Types
  <2>2. \A d \in Clients \ {c} : has'[d] = has[d] /\ pid'[d] = pid[d]
    BY <1>1, <1>3, DeletedKeeps
  <2>3. Accounted'
    BY <1>3, <2>1, <2>2 DEF IInv, Accounted, Vouches
  <2> QED BY <1>1, <1>3, <2>3, DeletedKeeps DEF IInv, Types
<1> QED BY <1>2, <1>3 DEF Reap

\* a client that says what it has, which is more or the same, changes nothing else
LEMMA AnswerInv ==
  ASSUME IInv, NEW c \in Clients, NEW n \in 0 .. MapParts, has[c] <= n,
         has' = [has EXCEPT ![c] = n], up' = [up EXCEPT ![c] = Append(up[c], Answer(n))],
         UNCHANGED <<slots, players, pid, doomed, left, ousted, sent, countdown, forced, loading>>
  PROVE  IInv'
<1>1. Answer(n) \in Reports /\ Answer(n).size <= n
  BY DownloadAssumption DEF Answer, Reports
<1>2. up' \in [Clients -> Seq(Reports)] /\ ReportsHonest'
  BY <1>1, SayKeeps DEF IInv
<1>3. has' \in [Clients -> 0 .. MapParts]
  BY DEF IInv, Types
<1>4. \A d \in Clients : has[d] = MapParts => has'[d] = MapParts
  BY DownloadAssumption DEF IInv, Types
<1>5. Placed' = Placed /\ Placed \subseteq Clients
  BY DEF Placed, Active, IInv, Types
<1>6. Types' /\ PidsDistinct'
  BY <1>2, <1>3 DEF IInv, Types, PidsDistinct
<1>7. Accounted'
  BY <1>4, <1>5 DEF IInv, Accounted, Vouches
<1>8. CountdownComplete'
  BY <1>4, <1>5 DEF IInv, CountdownComplete
<1> QED BY <1>2, <1>6, <1>7, <1>8 DEF IInv

LEMMA ClientStartsInv == ASSUME IInv, NEW c \in Clients, ClientStarts(c) PROVE IInv'
<1> DEFINE n == has[c]
<1>1. /\ up' = [up EXCEPT ![c] = Append(up[c], Answer(n))]
      /\ UNCHANGED <<slots, players, pid, doomed, left, ousted, sent, has, countdown, forced, loading>>
  BY DEF ClientStarts, lobby, marks, loads, start
<1>2. n \in 0 .. MapParts /\ has[c] <= n /\ has' = [has EXCEPT ![c] = n]
  BY <1>1, DownloadAssumption DEF IInv, Types
<1> HIDE DEF n
<1> QED BY <1>1, <1>2, AnswerInv

LEMMA ClientTakesInv == ASSUME IInv, NEW c \in Clients, ClientTakes(c) PROVE IInv'
<1> DEFINE n == has[c] + 1
<1>1. /\ has[c] < sent[c] /\ has' = [has EXCEPT ![c] = n]
      /\ up' = [up EXCEPT ![c] = Append(up[c], Answer(n))]
      /\ UNCHANGED <<slots, players, pid, doomed, left, ousted, sent, countdown, forced, loading>>
  BY DEF ClientTakes, lobby, marks, loads, start
<1>2. n \in 0 .. MapParts /\ has[c] <= n
  BY <1>1, DownloadAssumption DEF IInv, Types
<1> HIDE DEF n
<1> QED BY <1>1, <1>2, AnswerInv

LEMMA RefuseInv == ASSUME IInv, NEW c \in Clients, Refuse(c) PROVE IInv'
<1>1. c \in players /\ ~loading
  BY DEF Refuse, Reported
<1>2. Opens(c) /\ Deleted(c)
  BY DEF Refuse
<1> QED BY <1>1, <1>2, OpensDeletedInv

\* the other answers to a report show it on the slot, whatever else they send
LEMMA ShownInv ==
  ASSUME IInv, NEW c \in Clients, NEW r \in Reported(c), Read(c),
         slots' = Shown(c, r.size), sent' \in [Clients -> 0 .. MapParts],
         UNCHANGED <<players, pid, doomed, left, ousted, has, countdown, forced, loading>>
  PROVE  IInv'
<1>1. /\ c \in Active /\ r.size \in 0 .. MapParts
      /\ r.size = MapParts => has[c] = MapParts
      /\ up' \in [Clients -> Seq(Reports)] /\ ReportsHonest'
  BY ReadKeeps DEF IInv
<1>2. slots' \in [Seats -> Slot] /\ Accounted'
  BY <1>1, ShowKeeps DEF IInv
<1> QED BY <1>1, <1>2 DEF IInv, Types, PidsDistinct, CountdownComplete, Placed, Active

LEMMA MapSizeInv == ASSUME IInv, NEW c \in Clients, MapSize(c) PROVE IInv'
<1>1. CASE Refuse(c)
  BY <1>1, RefuseInv
<1>2. CASE Wait(c) \/ Begin(c) \/ Complete(c)
  <2>1. PICK r \in Reported(c) : Read(c) /\ slots' = Shown(c, r.size)
    BY <1>2 DEF Wait, Begin, Complete
  <2>2. UNCHANGED <<players, pid, doomed, left, ousted, has, countdown, forced, loading, sent>>
    BY <1>2 DEF Wait, Begin, Complete, marks, loads, start
  <2> QED BY <2>1, <2>2, ShownInv DEF IInv, Types
<1>3. CASE SendParts(c)
  <2>1. PICK r \in Reported(c), ahead \in Ahead(c) :
          /\ Read(c) /\ slots' = Shown(c, r.size)
          /\ sent' = [sent EXCEPT ![c] = Min({MapParts, Max({sent[c], r.size + ahead})})]
    BY <1>3 DEF SendParts
  <2>2. UNCHANGED <<players, pid, doomed, left, ousted, has, countdown, forced, loading>>
    BY <1>3 DEF SendParts, marks, start
  <2>0. r.size \in 0 .. MapParts
    <3>1. has' = has
      BY <2>2
    <3> QED BY <2>1, <3>1, ReadKeeps DEF IInv
  <2>3. Min({MapParts, Max({sent[c], r.size + ahead})}) \in 0 .. MapParts
    <3>1. MapParts \in Nat /\ sent[c] \in Nat /\ r.size + ahead \in Nat
      BY <2>0, DownloadAssumption DEF IInv, Types, Ahead
    <3>2. ASSUME NEW a \in Nat, NEW b \in Nat PROVE Max({a, b}) \in Nat
      <4>1. \E x \in {a, b} : \A y \in {a, b} : x >= y
        OBVIOUS
      <4> QED BY <4>1 DEF Max
    <3>3. ASSUME NEW a \in Nat, NEW b \in Nat PROVE Min({a, b}) \in 0 .. a
      <4>1. \E x \in {a, b} : \A y \in {a, b} : x =< y
        OBVIOUS
      <4>2. Min({a, b}) \in {a, b} /\ Min({a, b}) =< a
        BY <4>1 DEF Min
      <4> QED BY <4>2
    <3> QED BY <3>1, <3>2, <3>3
  <2>4. sent' \in [Clients -> 0 .. MapParts]
    BY <2>1, <2>3 DEF IInv, Types
  <2> QED BY <2>1, <2>2, <2>4, ShownInv
<1> QED BY <1>1, <1>2, <1>3 DEF MapSize

LEMMA StartInv == ASSUME IInv, StartCountDown \/ ForceStart \/ CountdownOver PROVE IInv'
<1>1. /\ UNCHANGED <<slots, players, pid, doomed, left, ousted, sent, has, up>>
      /\ countdown' \in BOOLEAN /\ forced' \in BOOLEAN /\ loading' \in BOOLEAN
  BY DEF StartCountDown, ForceStart, CountdownOver, lobby, marks, loads, clients, IInv, Types
<1>2. CountdownComplete'
  <2>1. CASE StartCountDown
    <3>1. ~loading' /\ Placed' = Placed
      BY <1>1, <2>1 DEF StartCountDown, Placed, Active
    <3>2. ASSUME NEW c \in Placed PROVE has[c] = MapParts
      <4>1. PICK s \in Seats : Vouches(s, c)
        BY DEF IInv, Accounted
      <4>2. c \in Holders(s)
        BY <4>1 DEF Holders, Vouches, Placed, Active, IInv, Types
      <4>3. slots[s].status = MapParts
        BY <2>1, <4>2 DEF StartCountDown
      <4> QED BY <4>1, <4>3 DEF Vouches
    <3> QED BY <1>1, <3>1, <3>2 DEF CountdownComplete
  <2>2. CASE ForceStart
    BY <1>1, <2>2 DEF ForceStart, CountdownComplete
  <2>3. CASE CountdownOver
    BY <1>1, <2>3 DEF CountdownOver, CountdownComplete, IInv, Placed, Active
  <2> QED BY <2>1, <2>2, <2>3
<1>3. Types' /\ PidsDistinct'
  BY <1>1 DEF IInv, Types, PidsDistinct
<1>4. Accounted' /\ ReportsHonest'
  BY <1>1 DEF IInv, Accounted, Vouches, ReportsHonest, Placed, Active
<1> QED BY <1>2, <1>3, <1>4 DEF IInv

LEMMA NextInv == IInv /\ [Next]_vars => IInv'
<1> SUFFICES ASSUME IInv, [Next]_vars PROVE IInv'
  OBVIOUS
<1>1. ASSUME UNCHANGED <<lobby, sent, has, up, start>> PROVE IInv'
  <2>1. UNCHANGED <<slots, players, pid, doomed, left, ousted, sent, has, up,
                    countdown, forced, loading>>
    BY <1>1 DEF lobby, marks, start
  <2>2. Types' /\ PidsDistinct'
    BY <2>1 DEF IInv, Types, PidsDistinct
  <2>3. Accounted' /\ ReportsHonest' /\ CountdownComplete'
    BY <2>1 DEF IInv, Accounted, Vouches, ReportsHonest, CountdownComplete, Placed, Active
  <2> QED BY <2>2, <2>3 DEF IInv
<1>2. ASSUME NEW c \in Clients, AllowDownload(c) PROVE IInv'
  BY <1>1, <1>2 DEF AllowDownload
<1>3. ASSUME NEW v, SetDownloads(v) PROVE IInv'
  BY <1>1, <1>3 DEF SetDownloads, loads, clients
<1>4. CASE UNCHANGED vars
  BY <1>1, <1>4 DEF vars, loads, clients
<1>5. ASSUME NEW c \in Clients, Leave(c) PROVE IInv'
  BY <1>5, OpensDeletedInv DEF Leave
<1>6. ASSUME NEW c \in Clients, Kick(c) \/ KickUnspoofed(c) PROVE IInv'
  BY <1>6, MarkedInv DEF Kick, KickUnspoofed
<1> QED BY <1>2, <1>3, <1>4, <1>5, <1>6, JoinInv, JoinBannedInv, ReapInv, ClientStartsInv,
           ClientTakesInv, MapSizeInv, SwapInv, OpenSlotInv, StartInv DEF Next

(* No game that was not forced to start starts while a player of it lacks  *)
(* a part of the map, but for those whose slot was opened for a namesake's *)
(* sake: every other player who was not thrown out has a slot, a slot says *)
(* no more than its player has, and nobody comes during the countdown.     *)
THEOREM GamesStartComplete == Spec => []StartsComplete
<1>1. IInv => StartsComplete
  BY DEF IInv, CountdownComplete, StartsComplete, Placed, Active
<1> QED BY <1>1, InitInv, NextInv, PTL DEF Spec

(* Nobody's slot is opened for a namesake's sake, as long as no socket     *)
(* fails between a player's removal and its deletion and nobody is kicked  *)
(* for not spoof checking.  All the players then have the map when a game  *)
(* starts that was not forced to (game_base.cpp 5710, 7713).               *)
EverybodyHasTheMap == loading /\ ~forced => \A c \in players \ doomed : has[c] = MapParts

THEOREM NobodyIsOverlooked ==
  ASSUME ~LateErrors, ~UnspoofedKick
  PROVE  Spec => []EverybodyHasTheMap
<1> DEFINE NoneOusted == ousted = {}
<1>1. Init => NoneOusted
  BY DEF Init
<1>2. IInv /\ NoneOusted /\ [Next]_vars => NoneOusted'
  <2> SUFFICES ASSUME IInv, NoneOusted, [Next]_vars PROVE NoneOusted'
    OBVIOUS
  <2>1. ASSUME NEW c \in players \ left, Opens(c) PROVE NoneOusted'
    <3>1. Namesakes(c) = {}
      BY <2>1 DEF Namesakes, IInv, PidsDistinct
    <3> QED BY <2>1, <3>1 DEF Opens
  <2>2. CASE UNCHANGED ousted
    BY <2>2
  <2>3. ASSUME NEW c \in Clients, Leave(c) \/ Refuse(c) PROVE NoneOusted'
    <3>1. c \in players \ left /\ Opens(c)
      BY <2>3 DEF Leave, Refuse, Reported, IInv, Types
    <3> QED BY <2>1, <3>1
  <2>4. ASSUME NEW c \in Clients, Kick(c) PROVE NoneOusted'
    BY <2>1, <2>4 DEF Kick, Marked
  <2>5. ASSUME NEW c \in Clients, KickUnspoofed(c) PROVE NoneOusted'
    BY <2>5 DEF KickUnspoofed
  <2>6. ASSUME NEW c \in Clients, Reap(c) PROVE NoneOusted'
    BY <2>6 DEF Reap
  <2>7. ASSUME NEW c \in Clients,
               \/ Join(c) \/ JoinBanned(c) \/ AllowDownload(c) \/ ClientStarts(c)
               \/ ClientTakes(c) \/ Wait(c) \/ Begin(c) \/ SendParts(c) \/ Complete(c)
        PROVE  UNCHANGED ousted
    BY <2>7 DEF Join, JoinBanned, AllowDownload, ClientStarts, ClientTakes, Wait, Begin,
                SendParts, Complete, lobby
  <2>8. ASSUME NEW s, NEW t, Swap(s, t) \/ OpenSlot(s) \/ SetDownloads(s) PROVE UNCHANGED ousted
    BY <2>8 DEF Swap, OpenSlot, SetDownloads, lobby
  <2>9. CASE StartCountDown \/ ForceStart \/ CountdownOver \/ UNCHANGED vars
    BY <2>9 DEF StartCountDown, ForceStart, CountdownOver, vars, lobby
  <2> QED BY <2>2, <2>3, <2>4, <2>5, <2>6, <2>7, <2>8, <2>9 DEF Next, MapSize
<1>3. StartsComplete /\ NoneOusted => EverybodyHasTheMap
  BY DEF StartsComplete, EverybodyHasTheMap
<1> HIDE DEF NoneOusted
<1> QED BY <1>1, <1>2, <1>3, InitInv, NextInv, GamesStartComplete, PTL DEF Spec

=============================================================================
