---------------------------- MODULE LobbyProofs -----------------------------
(***************************************************************************)
(* Proofs about Lobby, for every number of slots, players and names and    *)
(* every choice of the lists and flags: first the operators and the types, *)
(* then that PIDs and names identify the players, that the table of slots  *)
(* and the list of players agree, that nobody comes or goes while a        *)
(* countdown runs, and who gets which slot.                                *)
(***************************************************************************)
EXTENDS Lobby, FiniteSetTheorems, TLAPS

-----------------------------------------------------------------------------
(* The least and greatest elements of sets of slots and PIDs.              *)

(* A non-empty set of naturals has a least element, and Min is it.         *)
LEMMA MinIsLeast ==
  ASSUME NEW S \in SUBSET Nat, S # {}
  PROVE  Min(S) \in S /\ \A x \in S : Min(S) <= x
<1> DEFINE R == OpToRel(<, Nat)
<1>1. IsWellFoundedOn(R, Nat)
  BY NatLessThanWellFounded
<1>2. PICK m \in S : \A y \in S : ~(<<y, m>> \in R)
  BY <1>1, WFMin
<1>3. \A y \in S : m <= y
  <2>1. \A y \in S : ~(y < m)
    BY <1>2 DEF OpToRel
  <2> QED  BY <2>1
<1> QED  BY <1>2, <1>3 DEF Min

(* A non-empty set of naturals with a bound has a greatest element.        *)
LEMMA MaxIsGreatest ==
  ASSUME NEW S \in SUBSET Nat, S # {}, NEW b \in Nat, \A x \in S : x <= b
  PROVE  Max(S) \in S /\ \A x \in S : x <= Max(S)
<1> DEFINE T == {b - x : x \in S}
<1>1. T \in SUBSET Nat /\ T # {}
  OBVIOUS
<1>2. Min(T) \in T /\ \A t \in T : Min(T) <= t
  BY <1>1, MinIsLeast
<1>3. PICK g \in S : Min(T) = b - g
  BY <1>2
<1>4. \A x \in S : x <= g
  <2>1. \A x \in S : b - g <= b - x
    BY <1>2, <1>3
  <2> QED  BY <2>1
<1> QED  BY <1>4 DEF Max

(* The seats are naturals below NumSlots, and few enough for a PID table.  *)
LEMMA SeatFacts ==
  /\ Seats \subseteq 0 .. 253
  /\ Seats \in SUBSET Nat
  /\ 0 \in Seats
  /\ NoSeat \notin Seats
  /\ \A S \in SUBSET Seats : S # {} =>
       /\ Min(S) \in S /\ \A x \in S : Min(S) <= x
       /\ Max(S) \in S /\ \A x \in S : x <= Max(S)
<1>1. /\ Seats \subseteq 0 .. 253
      /\ Seats \in SUBSET Nat
      /\ 0 \in Seats
      /\ NoSeat \notin Seats
  BY SeatsAssumption DEF Seats, NoSeat
<1>2. ASSUME NEW S \in SUBSET Seats, S # {}
      PROVE  /\ Min(S) \in S /\ \A x \in S : Min(S) <= x
             /\ Max(S) \in S /\ \A x \in S : x <= Max(S)
  <2>1. S \in SUBSET Nat /\ \A x \in S : x <= 253
    BY <1>1
  <2>2. Min(S) \in S /\ \A x \in S : Min(S) <= x
    BY <2>1, <1>2, MinIsLeast
  <2>3. Max(S) \in S /\ \A x \in S : x <= Max(S)
    <3> DEFINE b == 253
    <3>1. b \in Nat
      OBVIOUS
    <3>2. \A x \in S : x <= b
      BY <2>1
    <3>3. S \in SUBSET Nat /\ S # {}
      BY <2>1, <1>2
    <3> HIDE DEF b
    <3> QED  BY <3>1, <3>2, <3>3, MaxIsGreatest, ZenonT(30)
  <2> QED  BY <2>2, <2>3
<1> QED  BY <1>1, <1>2

-----------------------------------------------------------------------------
(* PIDs.                                                                   *)

(* GetNewPID finds a PID, whatever the virtual host and the fake player    *)
(* have, and nobody among the players it looks at has it.                  *)
LEMMA NewPidIsFresh ==
  ASSUME TypeOK, NEW P \in SUBSET members, NEW v, NEW f
  PROVE  /\ NewPid(v, f, P) \in Pids
         /\ NewPid(v, f, P) \notin {v, f}
         /\ \A c \in P : pid[c] # NewPid(v, f, P)
<1> DEFINE used == UsedPids(v, f, P)
           free == Pids \ used
           image == {pid[c] : c \in P}
<1>1. IsFiniteSet(P) /\ Cardinality(P) <= Cardinality(Conns)
  BY FS_Subset, ConnsAssumption DEF TypeOK
<1>2. IsFiniteSet(image) /\ Cardinality(image) <= Cardinality(P)
  <2> DEFINE g == [c \in P |-> pid[c]]
  <2>1. g \in Surjection(P, image)
    BY DEF Surjection
  <2> QED  BY <1>1, <2>1, FS_Surjection
<1>3. IsFiniteSet({v, f}) /\ Cardinality({v, f}) <= 2
  <2>1. IsFiniteSet({v}) /\ Cardinality({v}) = 1
    BY FS_Singleton
  <2>2. IsFiniteSet({v} \cup {f}) /\ Cardinality({v} \cup {f}) <= 2
    BY <2>1, FS_AddElement
  <2>3. {v} \cup {f} = {v, f}
    OBVIOUS
  <2> QED  BY <2>2, <2>3
<1>4. IsFiniteSet(used) /\ Cardinality(used) < MaxPid
  <2>1. /\ IsFiniteSet({v, f} \cup image)
        /\ Cardinality({v, f} \cup image)
             = Cardinality({v, f}) + Cardinality(image) - Cardinality({v, f} \cap image)
    BY <1>2, <1>3, FS_Union
  <2>2. /\ Cardinality({v, f} \cap image) \in Nat /\ Cardinality(image) \in Nat
        /\ Cardinality({v, f}) \in Nat /\ Cardinality(P) \in Nat
        /\ Cardinality(Conns) \in Nat
    BY <1>1, <1>2, <1>3, FS_Intersection, FS_CardinalityType, ConnsAssumption
  <2>3. Cardinality({v, f} \cup image) < MaxPid
    BY <2>1, <2>2, <1>1, <1>2, <1>3, ConnsAssumption DEF MaxPid
  <2> QED  BY <2>1, <2>3 DEF UsedPids
<1>5. IsFiniteSet(Pids) /\ Cardinality(Pids) = MaxPid
  <2>1. 1 \in Int /\ MaxPid \in Int /\ MaxPid - 1 + 1 = MaxPid /\ ~(1 > MaxPid)
    BY DEF MaxPid
  <2> QED  BY <2>1, FS_Interval DEF Pids
<1>6. free # {}
  <2>1. SUFFICES ASSUME Pids \subseteq used PROVE FALSE
    OBVIOUS
  <2>2. Cardinality(Pids) <= Cardinality(used)
    BY <2>1, <1>4, FS_Subset
  <2>3. Cardinality(used) \in Nat
    BY <1>4, FS_CardinalityType
  <2> QED  BY <2>2, <2>3, <1>4, <1>5 DEF MaxPid
<1>7. free \in SUBSET Nat
  BY DEF Pids
<1>8. Min(free) \in free
  BY <1>6, <1>7, MinIsLeast
<1>9. NewPid(v, f, P) = Min(free)
  BY <1>6 DEF NewPid
<1> QED  BY <1>8, <1>9 DEF UsedPids

-----------------------------------------------------------------------------
(* Moving players between slots permutes the table.                        *)

CachedSid == [Conns -> Seats \cup {NoSeat}]
Table == [slots : [Seats -> Slot], sid : CachedSid, seat : Seats]

IsPermutation(f) ==
  /\ f \in [Seats -> Seats]
  /\ \A a, b \in Seats : f[a] = f[b] => a = b
  /\ \A b \in Seats : \E a \in Seats : f[a] = b

\* the table sl with the slot f[s] at s
Reordered(sl, f) == [s \in Seats |-> sl[f[s]]]

\* a permutation of the slots made the table new of old and took the slot from to to
Rearranged(old, new, from, to) ==
  \E f : IsPermutation(f) /\ new = Reordered(old, f) /\ f[to] = from

\* the slot x.seat was taken to y.seat, and the cached slots stay in the table
Moved(x, y) ==
  /\ Rearranged(x.slots, y.slots, x.seat, y.seat)
  /\ \A c \in Conns : x.sid[c] \in Seats => y.sid[c] \in Seats

LEMMA MovedReflexive ==
  ASSUME NEW x \in Table
  PROVE  Moved(x, x)
<1> DEFINE f == [s \in Seats |-> s]
<1>1. IsPermutation(f)
  BY DEF IsPermutation
<1>2. x.slots = Reordered(x.slots, f) /\ f[x.seat] = x.seat
  BY DEF Table, Reordered
<1> QED  BY <1>1, <1>2 DEF Moved, Rearranged

LEMMA MovedTransitive ==
  ASSUME NEW x \in Table, NEW y \in Table, NEW z \in Table, Moved(x, y), Moved(y, z)
  PROVE  Moved(x, z)
<1>1. PICK f : /\ IsPermutation(f)
               /\ y.slots = Reordered(x.slots, f)
               /\ f[y.seat] = x.seat
  BY DEF Moved, Rearranged
<1>2. PICK g : /\ IsPermutation(g)
               /\ z.slots = Reordered(y.slots, g)
               /\ g[z.seat] = y.seat
  BY DEF Moved, Rearranged
<1> DEFINE h == [s \in Seats |-> f[g[s]]]
<1>3. IsPermutation(h)
  <2>1. h \in [Seats -> Seats]
    BY <1>1, <1>2 DEF IsPermutation
  <2>2. ASSUME NEW a \in Seats, NEW b \in Seats, h[a] = h[b]
        PROVE  a = b
    BY <2>2, <1>1, <1>2 DEF IsPermutation
  <2>3. ASSUME NEW b \in Seats
        PROVE  \E a \in Seats : h[a] = b
    <3>1. PICK m \in Seats : f[m] = b
      BY <1>1 DEF IsPermutation
    <3>2. PICK a \in Seats : g[a] = m
      BY <1>2 DEF IsPermutation
    <3> QED  BY <3>1, <3>2
  <2> QED  BY <2>1, <2>2, <2>3 DEF IsPermutation
<1>4. z.slots = Reordered(x.slots, h) /\ h[z.seat] = x.seat
  BY <1>1, <1>2 DEF Table, IsPermutation, Reordered
<1>5. \A c \in Conns : x.sid[c] \in Seats => z.sid[c] \in Seats
  BY DEF Moved
<1> QED  BY <1>3, <1>4, <1>5 DEF Moved, Rearranged

(* SwapSlots permutes the table and keeps the cached indexes in range.     *)
LEMMA ExchangePermutes ==
  ASSUME NEW st, st.slots \in [Seats -> Slot], st.sid \in CachedSid,
         NEW P, NEW a \in Seats, NEW b \in Seats
  PROVE  /\ Rearranged(st.slots, Exchange(st, P, a, b).slots, a, b)
         /\ Exchange(st, P, a, b).slots \in [Seats -> Slot]
         /\ Exchange(st, P, a, b).sid \in CachedSid
         /\ \A c \in Conns : st.sid[c] \in Seats => Exchange(st, P, a, b).sid[c] \in Seats
<1> DEFINE ex == Exchange(st, P, a, b)
           f == [s \in Seats |-> IF s = a THEN b ELSE IF s = b THEN a ELSE s]
<1>1. ex.slots = Reordered(st.slots, f)
  BY DEF Exchange, Reordered
<1>2. ex.slots \in [Seats -> Slot]
  BY <1>1 DEF Reordered
<1>3. ex.sid = [c \in Conns |-> IF c \in OccupantsIn(st.slots, P, a) THEN b
                                ELSE IF c \in OccupantsIn(st.slots, P, b) THEN a
                                ELSE st.sid[c]]
  BY DEF Exchange
<1>4. ex.sid \in CachedSid /\ \A c \in Conns : st.sid[c] \in Seats => ex.sid[c] \in Seats
  BY <1>3 DEF CachedSid
<1>5. IsPermutation(f) /\ f[b] = a
  BY DEF IsPermutation
<1> QED  BY <1>1, <1>2, <1>4, <1>5 DEF Rearranged

LEMMA MoveToMoves ==
  ASSUME NEW st \in Table, NEW P, NEW t \in Seats
  PROVE  MoveTo(st, P, t) \in Table /\ Moved(st, MoveTo(st, P, t))
<1> DEFINE ex == Exchange(st, P, st.seat, t)
           after == MoveTo(st, P, t)
<1>1. st.seat \in Seats /\ st.slots \in [Seats -> Slot] /\ st.sid \in CachedSid
  BY DEF Table
<1>2. after.slots = ex.slots /\ after.sid = ex.sid /\ after.seat = t
  BY DEF MoveTo
<1>3. after \in Table
  <2>1. ex.slots \in [Seats -> Slot] /\ ex.sid \in CachedSid
    BY <1>1, ExchangePermutes
  <2>2. after = [slots |-> ex.slots, sid |-> ex.sid, seat |-> t]
    BY DEF MoveTo
  <2> HIDE DEF ex, after
  <2> QED  BY <2>1, <2>2 DEF Table
<1>4. Moved(st, after)
  <2>1. Rearranged(st.slots, ex.slots, st.seat, t)
    BY <1>1, ExchangePermutes
  <2>2. \A c \in Conns : st.sid[c] \in Seats => ex.sid[c] \in Seats
    BY <1>1, ExchangePermutes
  <2> HIDE DEF ex, after
  <2> QED  BY <1>2, <2>1, <2>2 DEF Moved
<1> QED  BY <1>3, <1>4

(* The loop that brings the owner to the first human slot is a rotation of *)
(* the human slots from there to the owner's: nothing is lost or doubled.  *)
LEMMA RotateMoves ==
  ASSUME NEW sl \in [Seats -> Slot], NEW hi \in HumanSeats(sl),
         NEW lo, lo = Min(HumanSeats(sl)), lo # hi
  PROVE  Rearranged(sl, Rotate(sl, lo, hi), hi, lo)
<1> DEFINE H == HumanSeats(sl)
           R == H \cap (lo .. hi)
           below(s) == H \cap (lo .. s - 1)
           f == [s \in Seats |-> IF s \notin R THEN s
                                 ELSE IF s = lo THEN hi ELSE Max(below(s))]
<1>1. /\ H \in SUBSET Seats /\ lo \in H /\ hi \in H
      /\ \A x \in H : lo <= x
      /\ \A x \in Seats : x \in Nat
      /\ lo < hi
  <2>1. H \in SUBSET Seats /\ hi \in H
    BY DEF HumanSeats
  <2>2. lo \in H /\ \A x \in H : lo <= x
    BY <2>1, SeatFacts
  <2>3. \A x \in Seats : x \in Nat
    BY SeatFacts
  <2> QED  BY <2>1, <2>2, <2>3
<1>2. ASSUME NEW s \in R, s # lo
      PROVE  /\ Max(below(s)) \in below(s)
             /\ \A x \in below(s) : x <= Max(below(s))
             /\ Max(below(s)) \in R /\ Max(below(s)) < s /\ Max(below(s)) # hi
  <2>1. lo \in below(s)
    BY <1>1, <1>2
  <2>2. below(s) \in SUBSET Seats
    BY <1>1
  <2>3. Max(below(s)) \in below(s) /\ \A x \in below(s) : x <= Max(below(s))
    <3> HIDE DEF below
    <3> QED  BY <2>1, <2>2, SeatFacts
  <2>4. \A x \in below(s) : x \in R /\ x < s /\ x # hi
    BY <1>1
  <2> QED  BY <2>3, <2>4
<1>3. f \in [Seats -> Seats]
  BY <1>1, <1>2
<1>4. ASSUME NEW s \in Seats, NEW t \in Seats, f[s] = f[t], s < t
      PROVE  FALSE
  <2>1. CASE t \notin R
    <3>1. f[t] = t
      BY <2>1
    <3>2. s \notin R => f[s] = s
      OBVIOUS
    <3>3. s \in R => f[s] \in R
      <4>1. hi \in R
        BY <1>1
      <4>2. s \in R /\ s # lo => Max(below(s)) \in R
        BY <1>2
      <4> HIDE DEF below, R
      <4> QED  BY <4>1, <4>2
    <3> QED  BY <3>1, <3>2, <3>3, <2>1, <1>4, <1>1
  <2>2. CASE t \in R /\ s \notin R
    <3>1. f[t] \in R
      BY <2>2, <1>1, <1>2
    <3> QED  BY <3>1, <2>2, <1>4
  <2>3. CASE t \in R /\ s \in R
    <3>1. t # lo /\ f[t] = Max(below(t))
      BY <2>3, <1>1, <1>4
    <3>2. s \in below(t)
      BY <2>3, <1>1, <1>4
    <3>3. s <= f[t] /\ f[t] # hi /\ f[t] \in Seats
      BY <3>1, <3>2, <2>3, <1>1, <1>2
    <3>4. s = lo => f[s] = hi
      BY <2>3
    <3>5. s # lo => f[s] < s
      BY <2>3, <1>2
    <3> QED  BY <3>3, <3>4, <3>5, <1>4, <1>1
  <2> QED  BY <2>1, <2>2, <2>3
<1>5. \A s, t \in Seats : f[s] = f[t] => s = t
  <2> HIDE DEF f
  <2>1. \A s, t \in Seats : s < t \/ t < s \/ s = t
    BY <1>1
  <2> QED  BY <1>4, <2>1
<1>6. f[lo] = hi
  BY <1>1
<1>7. ASSUME NEW b \in Seats
      PROVE  \E a \in Seats : f[a] = b
  <2>1. CASE b \notin R
    BY <2>1
  <2>2. CASE b = hi
    BY <2>2, <1>6, <1>1
  <2>3. CASE b \in R /\ b # hi
    <3> DEFINE above == H \cap (b + 1 .. hi)
               a == Min(above)
    <3>1. hi \in above /\ above \in SUBSET Seats
      BY <2>3, <1>1
    <3>2. a \in above /\ \A x \in above : a <= x
      <4> HIDE DEF above
      <4> QED  BY <3>1, SeatFacts
    <3>3. a \in R /\ a # lo /\ b < a
      BY <3>2, <2>3, <1>1
    <3>4. b \in below(a)
      BY <3>3, <2>3, <1>1
    <3>5. ~(Max(below(a)) > b)
      <4> DEFINE m == Max(below(a))
      <4>1. m \in below(a) /\ m < a /\ m \in R
        BY <3>3, <1>2
      <4>2. m > b => m \in above
        BY <4>1, <2>3, <1>1
      <4>3. m \in above => a <= m
        BY <3>2
      <4> QED  BY <4>1, <4>2, <4>3, <3>3, <1>1
    <3>6. b <= Max(below(a)) /\ Max(below(a)) \in Seats
      BY <3>3, <3>4, <1>1, <1>2
    <3>7. Max(below(a)) = b
      BY <3>5, <3>6, <1>1
    <3> QED  BY <3>3, <3>7, <1>1
  <2> QED  BY <2>1, <2>2, <2>3
<1>8. Rotate(sl, lo, hi) = Reordered(sl, f)
  BY DEF Rotate, Reordered
<1>9. IsPermutation(f)
  <2> HIDE DEF f
  <2> QED  BY <1>3, <1>5, <1>7 DEF IsPermutation
<1> QED  BY <1>6, <1>8, <1>9 DEF Rearranged

LEMMA PlaceOwnerMoves ==
  ASSUME NEW st \in Table, NEW n,
         st.seat \in HumanSeats(st.slots) \/ HumanSeats(st.slots) = {}
  PROVE  PlaceOwner(st, n) \in Table /\ Moved(st, PlaceOwner(st, n))
<1> DEFINE human == HumanSeats(st.slots)
           first == Min(human)
           after == [slots |-> Rotate(st.slots, first, st.seat), sid |-> st.sid,
                     seat |-> first]
<1>1. CASE n = Owner /\ human # {} /\ first # st.seat
  <2>1. /\ st.slots \in [Seats -> Slot] /\ st.sid \in CachedSid
        /\ st.seat \in human
        /\ first \in Seats
    <3>1. human \in SUBSET Seats
      BY DEF HumanSeats
    <3>2. first \in human
      BY <3>1, <1>1, SeatFacts
    <3> QED  BY <3>1, <3>2, <1>1 DEF Table
  <2>2. Rearranged(st.slots, Rotate(st.slots, first, st.seat), st.seat, first)
    BY <2>1, <1>1, RotateMoves
  <2>3. /\ after.slots = Rotate(st.slots, first, st.seat)
        /\ after.seat = first
        /\ after.sid = st.sid
    OBVIOUS
  <2>4. after.slots \in [Seats -> Slot]
    BY <2>1, <2>2, <2>3 DEF Rearranged, IsPermutation, Reordered
  <2>5. after \in Table
    BY <2>1, <2>3, <2>4 DEF Table
  <2>6. Moved(st, after)
    BY <2>2, <2>3 DEF Moved
  <2>7. PlaceOwner(st, n) = after
    BY <1>1 DEF PlaceOwner
  <2> QED  BY <2>5, <2>6, <2>7
<1>2. CASE ~(n = Owner /\ human # {} /\ first # st.seat)
  <2>1. PlaceOwner(st, n) = st
    BY <1>2 DEF PlaceOwner
  <2> QED  BY <2>1, MovedReflexive
<1> QED  BY <1>1, <1>2

LEMMA PlaceAdminMoves ==
  ASSUME NEW st \in Table, NEW P, NEW n
  PROVE  PlaceAdmin(st, P, n) \in Table /\ Moved(st, PlaceAdmin(st, P, n))
<1> DEFINE ordinary == OrdinarySeats(st.slots, P)
<1>1. CASE n \in Admins \cup held /\ ordinary # {} /\ Min(ordinary) < st.seat
  <2>1. ordinary \in SUBSET Seats
    BY DEF OrdinarySeats
  <2>2. Min(ordinary) \in Seats
    BY <2>1, <1>1, SeatFacts
  <2>3. PlaceAdmin(st, P, n) = MoveTo(st, P, Min(ordinary))
    BY <1>1 DEF PlaceAdmin
  <2> QED  BY <2>2, <2>3, MoveToMoves
<1>2. CASE ~(n \in Admins \cup held /\ ordinary # {} /\ Min(ordinary) < st.seat)
  <2>1. PlaceAdmin(st, P, n) = st
    BY <1>2 DEF PlaceAdmin
  <2> QED  BY <2>1, MovedReflexive
<1> QED  BY <1>1, <1>2

LEMMA PlaceHeldMoves ==
  ASSUME NEW st \in Table, NEW P, NEW n
  PROVE  PlaceHeld(st, P, n) \in Table /\ Moved(st, PlaceHeld(st, P, n))
<1> DEFINE moves == SeatHeldFor(n, st.seat) /\ heldSeat[n] \in HumanSeats(st.slots)
<1>1. CASE moves
  <2>1. heldSeat[n] \in Seats
    BY <1>1 DEF SeatHeldFor
  <2>2. PlaceHeld(st, P, n) = MoveTo(st, P, heldSeat[n])
    BY <1>1 DEF PlaceHeld
  <2> QED  BY <2>1, <2>2, MoveToMoves
<1>2. CASE ~moves
  <2>1. PlaceHeld(st, P, n) = st
    BY <1>2 DEF PlaceHeld
  <2> QED  BY <2>1, MovedReflexive
<1> QED  BY <1>1, <1>2

\* the table before the moves, with the slot found
TableAt(s) == [slots |-> slots, sid |-> sid, seat |-> s]

(* All the moves a join makes, one after the other, permute the table.     *)
LEMMA PlacementMoves ==
  ASSUME TypeOK, NEW n, NEW s \in Seats,
         s \in HumanSeats(slots) \/ HumanSeats(slots) = {}
  PROVE  /\ Placement(n, s).end \in Table
         /\ Moved(TableAt(s), Placement(n, s).end)
<1> DEFINE P  == Present \ Displaced(s)
           s0 == TableAt(s)
           s1 == PlaceOwner(s0, n)
           s2 == PlaceAdmin(s1, P, n)
           s3 == PlaceHeld(s2, P, n)
<1>1. s0 \in Table /\ s0.slots = slots /\ s0.seat = s
  BY DEF TypeOK, Table, TableAt, CachedSid
<1>2. s1 \in Table /\ Moved(s0, s1)
  <2> HIDE DEF s0
  <2> QED  BY <1>1, PlaceOwnerMoves
<1>3. s2 \in Table /\ Moved(s1, s2)
  <2> HIDE DEF s1
  <2> QED  BY <1>2, PlaceAdminMoves
<1>4. s3 \in Table /\ Moved(s2, s3)
  <2> HIDE DEF s2
  <2> QED  BY <1>3, PlaceHeldMoves
<1>5. Moved(s0, s3)
  <2> HIDE DEF s0, s1, s2, s3
  <2> QED  BY <1>1, <1>2, <1>3, <1>4, MovedTransitive
<1>6. Placement(n, s).end = s3
  BY DEF Placement, TableAt
<1> QED  BY <1>4, <1>5, <1>6

(* The slot found for a joining player is one of the table, and no         *)
(* computer's unless the table has nothing else.                           *)
LEMMA TargetIsSeat ==
  ASSUME TypeOK, NEW n, NEW s \in TargetSeats(n)
  PROVE  /\ s \in Seats
         /\ s \in HumanSeats(slots) \/ HumanSeats(slots) = {}
<1> USE DEF HumanSeats
<1>1. ASSUME NEW k \in Seats, Occupants(k) # {}
      PROVE  slots[k].kind = "player"
  <2>1. PICK c \in Present : pid[c] = slots[k].pid
    BY <1>1 DEF Occupants, OccupantsIn
  <2>2. slots[k] \in Slot /\ c \in Conns /\ pid[c] \in Pids \cup {NoPid}
    BY DEF TypeOK, Present
  <2> QED  BY <2>1, <2>2 DEF Slot, OpenSlotRec, ClosedSlotRec, ComputerSlotRec,
                             PlayerSlot, Pids, NoPid, MaxPid
<1>2. ASSUME NEW k \in {"open", "closed", "player"}, SeatsOfKind(k) # {}
      PROVE  /\ Min(SeatsOfKind(k)) \in Seats
             /\ Min(SeatsOfKind(k)) \in HumanSeats(slots)
  <2>1. SeatsOfKind(k) \in SUBSET Seats
    BY DEF SeatsOfKind
  <2>2. Min(SeatsOfKind(k)) \in SeatsOfKind(k)
    BY <2>1, <1>2, SeatFacts
  <2> QED  BY <2>1, <2>2 DEF SeatsOfKind
<1>3. ASSUME NEW S \in SUBSET Seats, Highest(S) # NoSeat
      PROVE  Highest(S) \in S
  <2>1. S \ {0} \in SUBSET Seats /\ S \ {0} # {}
    BY <1>3 DEF Highest
  <2>2. Max(S \ {0}) \in S \ {0}
    BY <2>1, SeatFacts
  <2> QED  BY <2>1, <2>2 DEF Highest
<1>4. ASSUME NEW k \in OccupiedChoice(n), k # NoSeat
      PROVE  k \in Seats /\ slots[k].kind = "player"
  <2>1. Displaceable \in SUBSET Seats /\ NonAdminSeats \in SUBSET Seats
    BY DEF Displaceable, NonAdminSeats
  <2>2. k \in Displaceable \/ k \in NonAdminSeats
    BY <2>1, <1>3, <1>4 DEF OccupiedChoice
  <2>3. k \in Seats /\ Occupants(k) # {}
    BY <2>2 DEF Displaceable, NonAdminSeats
  <2> QED  BY <2>3, <1>1
<1>5. PICK found \in FoundSeats(n) : s = IF found = NoSeat /\ n = Owner THEN OwnerSeat ELSE found
  BY DEF TargetSeats
<1>6. s # NoSeat
  BY DEF TargetSeats
<1>7. CASE SeatsOfKind("open") # {}
  <2>1. found = Min(SeatsOfKind("open"))
    BY <1>5, <1>7 DEF FoundSeats
  <2>2. found \in Seats /\ found \in HumanSeats(slots)
    BY <2>1, <1>7, <1>2
  <2> QED  BY <2>2, <1>5, SeatFacts
<1>8. CASE SeatsOfKind("open") = {} /\ n \notin Privileged
  <2>1. found = NoSeat /\ n # Owner
    BY <1>8, <1>5 DEF FoundSeats, Privileged
  <2> QED  BY <2>1, <1>5, <1>6
<1>9. CASE SeatsOfKind("open") = {} /\ n \in Privileged /\ SeatsOfKind("closed") # {}
  <2>1. found = Min(SeatsOfKind("closed"))
    BY <1>5, <1>9 DEF FoundSeats
  <2>2. found \in Seats /\ found \in HumanSeats(slots)
    BY <2>1, <1>9, <1>2
  <2> QED  BY <2>2, <1>5, SeatFacts
<1>10. CASE SeatsOfKind("open") = {} /\ n \in Privileged /\ SeatsOfKind("closed") = {}
  <2>1. found \in OccupiedChoice(n)
    BY <1>5, <1>10 DEF FoundSeats
  <2>2. CASE found # NoSeat
    BY <2>1, <2>2, <1>4, <1>5
  <2>3. CASE found = NoSeat
    <3>1. s = OwnerSeat
      BY <2>3, <1>5, <1>6
    <3>2. CASE SeatsOfKind("player") # {}
      <4>1. OwnerSeat = Min(SeatsOfKind("player"))
        BY <3>2 DEF OwnerSeat
      <4> QED  BY <4>1, <3>1, <3>2, <1>2
    <3>3. CASE SeatsOfKind("player") = {}
      <4>1. s = 0 /\ s \in Seats
        BY <3>1, <3>3, SeatFacts DEF OwnerSeat
      <4>2. \A k \in Seats : slots[k].kind \in {"open", "closed", "player", "computer"}
        BY DEF TypeOK, Slot, OpenSlotRec, ClosedSlotRec, ComputerSlotRec, PlayerSlot
      <4>3. \A k \in Seats : slots[k].kind = "computer"
        BY <4>2, <3>3, <1>10 DEF SeatsOfKind
      <4> QED  BY <4>1, <4>3
    <3> QED  BY <3>2, <3>3
  <2> QED  BY <2>2, <2>3
<1> QED  BY <1>7, <1>8, <1>9, <1>10

-----------------------------------------------------------------------------
(* The types.                                                              *)

LEMMA SlotKinds ==
  /\ OpenSlotRec \in Slot /\ ClosedSlotRec \in Slot /\ ComputerSlotRec \in Slot
  /\ \A p \in Pids : PlayerSlot(p) \in Slot
BY DEF Slot

(* GetSIDFromPID and OpenSlot: the slot found is one of the table, and the *)
(* table stays a table.                                                    *)
LEMMA OpenSeatTypes ==
  ASSUME TypeOK, NEW p
  PROVE  /\ OpenSeatOfPid(slots, p) \in [Seats -> Slot]
         /\ SeatsOfPid(slots, p) # {} => SeatOfPid(slots, p) \in SeatsOfPid(slots, p)
         /\ SeatsOfPid(slots, p) = {} => OpenSeatOfPid(slots, p) = slots
<1>1. SeatsOfPid(slots, p) \in SUBSET Seats
  BY DEF SeatsOfPid
<1>2. SeatsOfPid(slots, p) # {} => SeatOfPid(slots, p) \in SeatsOfPid(slots, p)
  BY <1>1, SeatFacts DEF SeatOfPid
<1>3. SeatsOfPid(slots, p) = {} => OpenSeatOfPid(slots, p) = slots
  BY DEF OpenSeatOfPid, SeatOfPid
<1>4. OpenSeatOfPid(slots, p) \in [Seats -> Slot]
  BY SlotKinds DEF OpenSeatOfPid, TypeOK
<1> QED  BY <1>2, <1>3, <1>4

LEMMA TakeSeatTypes ==
  ASSUME TypeOK, NEW n \in Names, NEW c \in Conns, NEW s \in TargetSeats(n),
         TakeSeat(n, c, s), pending' \in SUBSET Names
  PROVE  TypeOK'
<1> DEFINE P == Present \ Displaced(s)
           end == Placement(n, s).end
           v == HostAfter(CountPlayers(P))
           p == NewPid(v, fake, P)
<1>1. s \in Seats /\ (s \in HumanSeats(slots) \/ HumanSeats(slots) = {})
  BY TargetIsSeat
<1>2. end \in Table /\ Moved(TableAt(s), end)
  BY <1>1, PlacementMoves
<1>3. p \in Pids
  <2>1. P \in SUBSET members
    BY DEF Present
  <2> QED  BY <2>1, NewPidIsFresh
<1>4. Displaced(s) \in SUBSET members
  BY DEF Displaced, Occupants, OccupantsIn, Present
<1>5. \A d \in members : end.sid[d] \in Seats
  BY <1>2 DEF Moved, TableAt, TypeOK
<1>6. end.slots \in [Seats -> Slot] /\ end.sid \in CachedSid /\ end.seat \in Seats
  BY <1>2 DEF Table
<1>7. /\ members' = members \cup {c}
      /\ doomed' = doomed \cup Displaced(s)
      /\ left' = left \cup Displaced(s)
      /\ name' = [name EXCEPT ![c] = n]
      /\ pid' = [pid EXCEPT ![c] = p]
      /\ sid' = [end.sid EXCEPT ![c] = end.seat]
      /\ slots' = [end.slots EXCEPT ![end.seat] = PlayerSlot(p)]
      /\ reserved' \in {reserved, reserved \cup {c}}
      /\ vh' = v
      /\ UNCHANGED <<held, fake, countdown, counter, loading>>
  BY DEF TakeSeat, startVars
<1>8. heldSeat' \in [Names -> Seats \cup {NoSeat}]
  BY DEF TakeSeat, TypeOK
<1>9. v \in Pids \cup {NoPid}
  BY DEF HostAfter, TypeOK
<1>10. slots' \in [Seats -> Slot]
  <2> HIDE DEF end, p
  <2> QED  BY <1>3, <1>6, <1>7, SlotKinds
<1>11. sid' \in [Conns -> Seats \cup {NoSeat}] /\ \A d \in members' : sid'[d] \in Seats
  <2> HIDE DEF end
  <2> QED  BY <1>5, <1>6, <1>7 DEF CachedSid, TypeOK
<1> HIDE DEF end, p, v
<1>12. pid' \in [Conns -> Pids \cup {NoPid}]
  BY <1>3, <1>7 DEF TypeOK
<1>13. name' \in [Conns -> Names \cup {NoName}]
  BY <1>7 DEF TypeOK
<1>14. /\ members' \subseteq Conns /\ doomed' \subseteq members'
       /\ left' \subseteq doomed' /\ reserved' \subseteq members'
  BY <1>4, <1>7 DEF TypeOK
<1> QED
  BY <1>7, <1>8, <1>9, <1>10, <1>11, <1>12, <1>13, <1>14 DEF TypeOK

LEMMA AdmitTypes ==
  ASSUME TypeOK, NEW n \in Names, NEW c \in Conns, NEW second \in BOOLEAN,
         Admit(n, c, second), pending' \in SUBSET Names
  PROVE  TypeOK'
<1>1. PICK s \in TargetSeats(n) : RefuseBanned(n, s) \/ TakeSeat(n, c, s)
  BY DEF Admit
<1>2. CASE TakeSeat(n, c, s)
  BY <1>2, TakeSeatTypes
<1>3. CASE RefuseBanned(n, s)
  <2>1. Displaced(s) \in SUBSET members
    BY DEF Displaced, Occupants, OccupantsIn, Present
  <2> QED  BY <1>3, <2>1 DEF RefuseBanned, TypeOK, listVars, hostVars, startVars
<1> QED  BY <1>1, <1>2, <1>3

LEMMA RemoveTypes ==
  ASSUME TypeOK, NEW c \in Conns, Remove(c), slots' \in [Seats -> Slot]
  PROVE  TypeOK'
BY DEF Remove, TypeOK, hostVars, AbortedBy

LEMMA SetSeatTypes ==
  ASSUME TypeOK, NEW s \in Seats, NEW rec \in Slot, SetSeat(s, rec)
  PROVE  TypeOK'
<1>1. Occupants(s) \in SUBSET members
  BY DEF Occupants, OccupantsIn, Present
<1> QED  BY <1>1 DEF SetSeat, TypeOK, listVars, hostVars, startVars

LEMMA SetAllTypes ==
  ASSUME TypeOK, NEW from, NEW rec \in Slot, SetAll(from, rec)
  PROVE  TypeOK'
BY DEF SetAll, TypeOK, objVars, listVars, hostVars, startVars

(* The seats and the cached seats stay in range when slots are exchanged.  *)
LEMMA SwapSeatsTypes ==
  ASSUME TypeOK, NEW a \in Seats, NEW b \in Seats, SwapSeats(a, b)
  PROVE  TypeOK' /\ Rearranged(slots, slots', a, b)
<1> DEFINE st == [slots |-> slots, sid |-> sid]
           ex == Exchange(st, Present, a, b)
<1>1. st.slots = slots /\ st.sid = sid /\ slots \in [Seats -> Slot] /\ sid \in CachedSid
  BY DEF TypeOK, CachedSid
<1>2. slots' = ex.slots /\ sid' = ex.sid
  BY DEF SwapSeats
<1> HIDE DEF st
<1>3. Rearranged(slots, ex.slots, a, b) /\ ex.slots \in [Seats -> Slot] /\ ex.sid \in CachedSid
  BY <1>1, ExchangePermutes
<1>4. \A c \in Conns : sid[c] \in Seats => ex.sid[c] \in Seats
  BY <1>1, ExchangePermutes
<1> HIDE DEF ex
<1>5. UNCHANGED <<objVars, listVars, hostVars, pending, startVars>>
  BY DEF SwapSeats
<1> QED
  BY <1>2, <1>3, <1>4, <1>5 DEF TypeOK, CachedSid, objVars, listVars, hostVars, startVars

(* What the shuffles make of the table is a permutation of it.             *)
LEMMA PermutedRearranges ==
  ASSUME TypeOK, NEW H \in SUBSET Seats, NEW sl \in Permuted(H)
  PROVE  /\ sl \in [Seats -> Slot]
         /\ \E f : IsPermutation(f) /\ sl = Reordered(slots, f)
<1>1. PICK f \in Bijection(H, H) : sl = [s \in Seats |-> IF s \in H THEN slots[f[s]] ELSE slots[s]]
  BY DEF Permuted
<1>2. /\ f \in [H -> H]
      /\ \A a, b \in H : f[a] = f[b] => a = b
      /\ \A b \in H : \E a \in H : f[a] = b
  BY DEF Bijection, Injection, Surjection, IsInjective
<1> DEFINE g == [s \in Seats |-> IF s \in H THEN f[s] ELSE s]
<1>3. IsPermutation(g)
  <2>1. g \in [Seats -> Seats]
    BY <1>2
  <2>2. \A a, b \in Seats : g[a] = g[b] => a = b
    BY <1>2
  <2>3. ASSUME NEW b \in Seats PROVE \E a \in Seats : g[a] = b
    BY <1>2
  <2> HIDE DEF g
  <2> QED  BY <2>1, <2>2, <2>3 DEF IsPermutation
<1>4. sl = Reordered(slots, g)
  BY <1>1, <1>2 DEF Reordered
<1>5. sl \in [Seats -> Slot]
  BY <1>1, <1>2 DEF TypeOK
<1> QED  BY <1>3, <1>4, <1>5

LEMMA RefreshedTypes ==
  ASSUME TypeOK, NEW sl
  PROVE  Refreshed(sl) \in CachedSid /\ \A c \in members : Refreshed(sl)[c] \in Seats
<1>1. \A p : SeatsOfPid(sl, p) \in SUBSET Seats
  BY DEF SeatsOfPid
<1>2. \A p : SeatsOfPid(sl, p) # {} => Max(SeatsOfPid(sl, p)) \in Seats
  BY <1>1, SeatFacts
<1> QED  BY <1>2 DEF Refreshed, TypeOK, CachedSid

LEMMA InitTypes == Init => TypeOK
<1> SUFFICES ASSUME Init PROVE TypeOK
  OBVIOUS
<1>1. slots \in [Seats -> Slot]
  <2>1. {OpenSlotRec, ClosedSlotRec, ComputerSlotRec} \subseteq Slot
    BY SlotKinds
  <2> QED  BY <2>1 DEF Init
<1>2. /\ name \in [Conns -> Names \cup {NoName}]
      /\ pid \in [Conns -> Pids \cup {NoPid}]
      /\ sid \in [Conns -> Seats \cup {NoSeat}]
      /\ heldSeat \in [Names -> Seats \cup {NoSeat}]
  BY DEF Init
<1>3. counter \in 0 .. CountFrom
  BY FlagsAssumption DEF Init
<1> QED  BY <1>1, <1>2, <1>3, ListsAssumption DEF Init, TypeOK

LEMMA ClientTypes ==
  ASSUME TypeOK, ClientStep
  PROVE  TypeOK'
<1> USE DEF Issued
<1>1. ASSUME NEW n \in Names, NEW c \in Conns, Join(n, c) PROVE TypeOK'
  <2>1. CASE /\ pending' = pending \cup {n}
             /\ UNCHANGED <<seatVars, objVars, listVars, hostVars, startVars>>
    BY <2>1 DEF TypeOK, seatVars, objVars, listVars, hostVars, startVars
  <2>2. CASE Admit(n, c, FALSE) /\ UNCHANGED pending
    BY <2>2, AdmitTypes DEF TypeOK
  <2> QED  BY <1>1, <2>1, <2>2 DEF Join
<1>2. ASSUME NEW n \in Names, NEW c \in Conns, ScoreAccepted(n, c) PROVE TypeOK'
  <2>1. Admit(n, c, TRUE) /\ pending' \in SUBSET Names
    BY <1>2 DEF ScoreAccepted, TypeOK
  <2> QED  BY <2>1, AdmitTypes
<1>3. ASSUME NEW n \in Names, ScoreRefused(n) PROVE TypeOK'
  BY <1>3 DEF ScoreRefused, TypeOK, seatVars, objVars, listVars, hostVars, startVars
<1>4. ASSUME NEW c \in Conns, Depart(c) PROVE TypeOK'
  <2>1. Remove(c) /\ slots' \in [Seats -> Slot]
    BY <1>4, OpenSeatTypes DEF Depart
  <2> QED  BY <2>1, RemoveTypes
<1>5. ASSUME NEW c \in Conns, RefuseScore(c) PROVE TypeOK'
  BY <1>5 DEF RefuseScore, Present, AbortedBy, TypeOK, seatVars, listVars, hostVars
<1>6. ASSUME NEW c \in Conns, NEW t \in Seats, PublicSwap(c, t) PROVE TypeOK'
  <2>1. sid[c] \in Seats /\ SwapSeats(sid[c], t)
    BY <1>6 DEF PublicSwap, TypeOK, Present
  <2> QED  BY <2>1, SwapSeatsTypes
<1>7. ASSUME NEW c \in Conns, NEW t \in Seats, ChangeTeam(c, t) PROVE TypeOK'
  <2>1. SeatOfPid(slots, pid[c]) \in Seats /\ SwapSeats(SeatOfPid(slots, pid[c]), t)
    BY <1>7, OpenSeatTypes DEF ChangeTeam, SeatsOfPid
  <2> QED  BY <2>1, SwapSeatsTypes
<1> QED  BY <1>1, <1>2, <1>3, <1>4, <1>5, <1>6, <1>7 DEF ClientStep

LEMMA CommandTypes ==
  ASSUME TypeOK, CommandStep
  PROVE  TypeOK'
<1> USE SlotKinds DEF Issued
<1>1. ASSUME NEW c \in Conns, Kick(c) PROVE TypeOK'
  BY <1>1, OpenSeatTypes DEF Kick, Present, TypeOK, listVars, hostVars, startVars
<1>2. ASSUME NEW s \in Seats, OpenSeat(s) \/ CloseSeat(s) \/ ComputerSeat(s) PROVE TypeOK'
  BY <1>2, SetSeatTypes DEF OpenSeat, CloseSeat, ComputerSeat
<1>3. ASSUME OpenAll \/ CloseAll PROVE TypeOK'
  BY <1>3, SetAllTypes DEF OpenAll, CloseAll
<1>4. ASSUME NEW a \in Seats, NEW b \in Seats, Swap(a, b) PROVE TypeOK'
  BY <1>4, SwapSeatsTypes DEF Swap
<1>5. ASSUME Shuffle \/ BalanceSlots PROVE TypeOK'
  <2>1. PICK H \in SUBSET Seats : slots' \in Permuted(H)
    BY <1>5 DEF Shuffle, ShuffleSlots, BalanceSlots, SeatsOfKind
  <2>2. slots' \in [Seats -> Slot]
    BY <2>1, PermutedRearranges
  <2>3. sid' \in CachedSid /\ \A c \in members : sid'[c] \in Seats
    BY <1>5, RefreshedTypes DEF Shuffle, ShuffleSlots, BalanceSlots, TypeOK, CachedSid
  <2>4. UNCHANGED <<objVars, listVars, hostVars, pending, startVars>>
    BY <1>5 DEF Shuffle, ShuffleSlots, BalanceSlots
  <2> QED
    BY <2>2, <2>3, <2>4 DEF TypeOK, CachedSid, objVars, listVars, hostVars, startVars
<1>6. ASSUME NEW n \in Holdable, NEW s \in HoldSeats, Hold(n, s) PROVE TypeOK'
  BY <1>6, ListsAssumption DEF Hold, TypeOK, seatVars, objVars, hostVars, startVars
<1>7. ASSUME NEW n \in Holdable, Unhold(n) PROVE TypeOK'
  BY <1>7, ListsAssumption DEF Unhold, TypeOK, seatVars, objVars, hostVars, startVars
<1>8. ASSUME CreateFakePlayer PROVE TypeOK'
  <2> DEFINE v == HostAfter(NumPlayers)
             p == NewPid(v, NoPid, Present)
             open == SeatsOfKind("open")
  <2>1. p \in Pids
    BY NewPidIsFresh DEF Present
  <2>2. v \in Pids \cup {NoPid}
    BY DEF HostAfter, TypeOK
  <2>3. /\ vh' = v /\ fake' = p
        /\ slots' = [slots EXCEPT ![Min(open)] = PlayerSlot(p)]
        /\ UNCHANGED <<sid, objVars, listVars, pending, startVars>>
    BY <1>8 DEF CreateFakePlayer
  <2> HIDE DEF v, p
  <2> QED  BY <2>1, <2>2, <2>3 DEF TypeOK, objVars, listVars, startVars
<1>9. ASSUME DeleteFakePlayer PROVE TypeOK'
  BY <1>9 DEF DeleteFakePlayer, TypeOK, objVars, listVars, startVars
<1>10. ASSUME StartCountDown \/ Abort PROVE TypeOK'
  <2>1. countdown' \in BOOLEAN
    BY <1>10 DEF StartCountDown, Abort
  <2>2. counter' \in 0 .. CountFrom
    <3>1. counter' \in {0, CountFrom, counter}
      BY <1>10 DEF StartCountDown, Abort
    <3> QED  BY <3>1, FlagsAssumption DEF TypeOK
  <2>3. UNCHANGED <<seatVars, objVars, listVars, hostVars, pending, loading>>
    BY <1>10 DEF StartCountDown, Abort
  <2> QED  BY <2>1, <2>2, <2>3 DEF TypeOK, seatVars, objVars, listVars, hostVars
<1> QED
  BY <1>1, <1>2, <1>3, <1>4, <1>5, <1>6, <1>7, <1>8, <1>9, <1>10 DEF CommandStep

LEMMA UpdateTypes ==
  ASSUME TypeOK, UpdateStep
  PROVE  TypeOK'
<1>1. ASSUME NEW c \in Conns, Reap(c) PROVE TypeOK'
  <2>1. Remove(c) /\ slots' \in [Seats -> Slot]
    BY <1>1, OpenSeatTypes DEF Reap, TypeOK
  <2> QED  BY <2>1, RemoveTypes
<1>2. ASSUME NEW c \in Conns, KickUnspoofed(c) PROVE TypeOK'
  BY <1>2, OpenSeatTypes DEF KickUnspoofed, TypeOK, listVars, hostVars, startVars
<1>3. ASSUME CreateVirtualHost PROVE TypeOK'
  <2>1. NewPid(NoPid, fake, Present) \in Pids
    BY NewPidIsFresh DEF Present
  <2> QED
    BY <1>3, <2>1 DEF CreateVirtualHost, TypeOK, seatVars, objVars, listVars, startVars
<1>4. ASSUME Tick PROVE TypeOK'
  <2>1. CASE counter > 0
    <3>1. counter \in 0 .. CountFrom /\ counter # 0
      BY <2>1, FlagsAssumption DEF TypeOK
    <3>2. /\ counter' = counter - 1
          /\ UNCHANGED <<seatVars, objVars, listVars, hostVars, pending, countdown, loading>>
      BY <1>4, <2>1, <3>1 DEF Tick
    <3>3. counter' \in 0 .. CountFrom
      BY <3>1, <3>2, <2>1, FlagsAssumption
    <3> QED  BY <3>2, <3>3 DEF TypeOK, seatVars, objVars, listVars, hostVars
  <2>2. CASE counter = 0 /\ UNCHANGED seatVars
    BY <1>4, <2>2 DEF Tick, TypeOK, seatVars, objVars, listVars, hostVars
  <2>3. CASE /\ counter = 0
             /\ slots' \in Permuted(SeatsOfKind("player")) /\ sid' = Refreshed(slots')
    <3>1. SeatsOfKind("player") \in SUBSET Seats
      BY DEF SeatsOfKind
    <3>2. slots' \in [Seats -> Slot]
      BY <3>1, <2>3, PermutedRearranges
    <3>3. sid' \in CachedSid /\ \A c \in members : sid'[c] \in Seats
      BY <2>3, RefreshedTypes
    <3>4. /\ vh' = NoPid /\ pending' = {} /\ loading' = TRUE
          /\ UNCHANGED <<objVars, listVars, fake, countdown, counter>>
      BY <1>4, <2>3 DEF Tick
    <3> QED  BY <3>2, <3>3, <3>4 DEF TypeOK, CachedSid, objVars, listVars
  <2> QED  BY <1>4, <2>1, <2>2, <2>3 DEF Tick
<1> QED  BY <1>1, <1>2, <1>3, <1>4 DEF UpdateStep

(* Every state of a lobby has the types of TypeOK: no slot index runs out  *)
(* of the table (m_Slots is indexed by m_SID and by what the lookups       *)
(* return), and no slot without a player keeps a PID.                      *)
THEOREM TypeCorrect == Spec => []TypeOK
<1>1. TypeOK /\ [Next]_vars => TypeOK'
  <2>1. CASE Next
    BY <2>1, ClientTypes, CommandTypes, UpdateTypes DEF Next
  <2>2. CASE UNCHANGED vars
    BY <2>2 DEF vars, TypeOK
  <2> QED  BY <2>1, <2>2
<1> QED  BY <1>1, InitTypes, PTL DEF Spec

-----------------------------------------------------------------------------
(* The steps that add a player or a PID, and all the others.               *)

\* a join that takes the slot s
Arrival ==
  \E n \in Names, c \in Conns : \E s \in TargetSeats(n) :
    /\ TakeSeat(n, c, s)
    /\ ~NameTaken(n) /\ ~countdown /\ ~loading

\* nobody arrives, and nobody who stays changes name or PID
NobodyNew ==
  /\ Present' \subseteq Present /\ members' \subseteq members
  /\ \A c \in Present' : pid'[c] = pid[c] /\ name'[c] = name[c]
  /\ vh' \in {vh, NoPid}
  /\ fake' \in {fake, NoPid}

LEMMA AdmitKinds ==
  ASSUME TypeOK, NEW n \in Names, NEW c \in Conns, NEW second \in BOOLEAN,
         Admit(n, c, second), ~NameTaken(n), ~countdown, ~loading
  PROVE  Arrival \/ NobodyNew
<1>1. PICK s \in TargetSeats(n) : RefuseBanned(n, s) \/ TakeSeat(n, c, s)
  BY DEF Admit
<1>2. CASE TakeSeat(n, c, s)
  BY <1>2 DEF Arrival
<1>3. CASE RefuseBanned(n, s)
  BY <1>3 DEF RefuseBanned, NobodyNew, Present, hostVars
<1> QED  BY <1>1, <1>2, <1>3

LEMMA StepKinds ==
  ASSUME TypeOK, Next
  PROVE  Arrival \/ NobodyNew \/ CreateFakePlayer \/ CreateVirtualHost
<1>1. ASSUME NEW n \in Names, NEW c \in Conns, Join(n, c) PROVE Arrival \/ NobodyNew
  <2>1. CASE UNCHANGED <<seatVars, objVars, listVars, hostVars, startVars>>
    BY <2>1 DEF NobodyNew, Present, objVars, hostVars
  <2>2. CASE Admit(n, c, FALSE)
    BY <1>1, <2>2, AdmitKinds DEF Join
  <2> QED  BY <1>1, <2>1, <2>2 DEF Join
<1>2. ASSUME NEW n \in Names, NEW c \in Conns, ScoreAccepted(n, c) PROVE Arrival \/ NobodyNew
  BY <1>2, AdmitKinds DEF ScoreAccepted
<1>3. ASSUME NEW c \in Conns, Remove(c) PROVE NobodyNew
  BY <1>3 DEF Remove, NobodyNew, Present, TypeOK, hostVars
<1>4. ASSUME UNCHANGED <<members, name, pid, left, hostVars>> PROVE NobodyNew
  BY <1>4 DEF NobodyNew, Present, hostVars
<1>5. ASSUME ClientStep PROVE Arrival \/ NobodyNew
  <2>1. ASSUME NEW n \in Names, ScoreRefused(n) PROVE NobodyNew
    BY <2>1, <1>4 DEF ScoreRefused, objVars
  <2>2. ASSUME NEW c \in Conns, Depart(c) PROVE NobodyNew
    BY <2>2, <1>3 DEF Depart
  <2>3. ASSUME NEW c \in Conns, RefuseScore(c) PROVE NobodyNew
    BY <2>3 DEF RefuseScore, NobodyNew, Present, hostVars
  <2>4. ASSUME NEW a, NEW b, SwapSeats(a, b) PROVE NobodyNew
    BY <2>4, <1>4 DEF SwapSeats, objVars
  <2> QED
    BY <1>1, <1>2, <1>5, <2>1, <2>2, <2>3, <2>4 DEF ClientStep, PublicSwap, ChangeTeam
<1>6. ASSUME CommandStep PROVE NobodyNew \/ CreateFakePlayer
  <2>1. ASSUME NEW c \in Conns, Kick(c) PROVE NobodyNew
    BY <2>1, <1>4 DEF Kick
  <2>2. ASSUME NEW s, NEW rec, SetSeat(s, rec) PROVE NobodyNew
    BY <2>2, <1>4 DEF SetSeat
  <2>3. ASSUME NEW from, NEW rec, SetAll(from, rec) PROVE NobodyNew
    BY <2>3, <1>4 DEF SetAll, objVars
  <2>4. ASSUME NEW a, NEW b, Swap(a, b) PROVE NobodyNew
    BY <2>4, <1>4 DEF Swap, SwapSeats, objVars
  <2>5. ASSUME Shuffle \/ BalanceSlots PROVE NobodyNew
    BY <2>5, <1>4 DEF Shuffle, ShuffleSlots, BalanceSlots, objVars
  <2>6. ASSUME NEW n, NEW s, Hold(n, s) \/ Unhold(n) PROVE NobodyNew
    BY <2>6, <1>4 DEF Hold, Unhold, objVars
  <2>7. ASSUME DeleteFakePlayer PROVE NobodyNew
    BY <2>7 DEF DeleteFakePlayer, NobodyNew, Present, objVars
  <2>8. ASSUME StartCountDown \/ Abort PROVE NobodyNew
    BY <2>8, <1>4 DEF StartCountDown, Abort, objVars
  <2> QED
    BY <1>6, <2>1, <2>2, <2>3, <2>4, <2>5, <2>6, <2>7, <2>8
       DEF CommandStep, OpenSeat, CloseSeat, ComputerSeat, OpenAll, CloseAll
<1>7. ASSUME UpdateStep PROVE NobodyNew \/ CreateVirtualHost
  <2>1. ASSUME NEW c \in Conns, Reap(c) PROVE NobodyNew
    BY <2>1, <1>3 DEF Reap
  <2>2. ASSUME NEW c \in Conns, KickUnspoofed(c) PROVE NobodyNew
    BY <2>2, <1>4 DEF KickUnspoofed
  <2>3. ASSUME Tick PROVE NobodyNew
    <3>1. UNCHANGED objVars /\ fake' = fake /\ vh' \in {vh, NoPid}
      BY <2>3 DEF Tick, hostVars
    <3> QED  BY <3>1 DEF NobodyNew, Present, objVars
  <2> QED  BY <1>7, <2>1, <2>2, <2>3 DEF UpdateStep
<1> QED  BY <1>5, <1>6, <1>7 DEF Next

\* what a join does to the players, the ids and the slots
LEMMA ArrivalFacts ==
  ASSUME TypeOK, NEW n \in Names, NEW c \in Conns, NEW s \in TargetSeats(n),
         TakeSeat(n, c, s)
  PROVE  LET gone == Displaced(s)
         IN  \E p \in Pids :
               /\ c \notin members
               /\ gone \subseteq Present
               /\ Present' = (Present \ gone) \cup {c}
               /\ members' = members \cup {c}
               /\ doomed' = doomed \cup gone
               /\ name' = [name EXCEPT ![c] = n]
               /\ pid' = [pid EXCEPT ![c] = p]
               /\ fake' = fake /\ vh' \in {vh, NoPid}
               /\ p \notin {fake, vh'}
               /\ \A d \in Present \ gone : pid[d] # p
<1> DEFINE gone == Displaced(s)
           P == Present \ gone
           v == HostAfter(CountPlayers(P))
           p == NewPid(v, fake, P)
<1>1. P \in SUBSET members /\ gone \subseteq Present
  BY DEF Present, Displaced, Occupants, OccupantsIn
<1>2. p \in Pids /\ p \notin {v, fake} /\ \A d \in P : pid[d] # p
  BY <1>1, NewPidIsFresh
<1>3. /\ c \notin members
      /\ members' = members \cup {c}
      /\ doomed' = doomed \cup gone
      /\ left' = left \cup gone
      /\ name' = [name EXCEPT ![c] = n]
      /\ pid' = [pid EXCEPT ![c] = p]
      /\ vh' = v
      /\ fake' = fake
  BY DEF TakeSeat
<1>4. v \in {vh, NoPid}
  BY DEF HostAfter
<1>5. Present' = P \cup {c}
  BY <1>1, <1>3 DEF Present, TypeOK
<1> HIDE DEF gone, v, p
<1> QED  BY <1>1, <1>2, <1>3, <1>4, <1>5 DEF gone

-----------------------------------------------------------------------------
(* PIDs and names identify the players.                                    *)

(* No two players, nor a player and a host player, ever share a PID: every *)
(* event about a player is looked up by PID (GetNewPID).                   *)
THEOREM PidsAreDistinct == Spec => []PidsDistinct
<1>1. Init => PidsDistinct
  BY DEF Init, PidsDistinct, Present
<1>2. TypeOK /\ PidsDistinct /\ [Next]_vars => PidsDistinct'
  <2> SUFFICES ASSUME TypeOK, PidsDistinct, [Next]_vars PROVE PidsDistinct'
    OBVIOUS
  <2>1. CASE NobodyNew
    BY <2>1 DEF NobodyNew, PidsDistinct
  <2>2. CASE Arrival
    <3>1. PICK n \in Names, c \in Conns : \E s \in TargetSeats(n) : TakeSeat(n, c, s)
      BY <2>2 DEF Arrival
    <3>2. PICK s \in TargetSeats(n) : TakeSeat(n, c, s)
      BY <3>1
    <3>3. PICK p \in Pids :
            /\ c \notin members
            /\ Present' = (Present \ Displaced(s)) \cup {c}
            /\ pid' = [pid EXCEPT ![c] = p]
            /\ fake' = fake /\ vh' \in {vh, NoPid}
            /\ p \notin {fake, vh'}
            /\ \A d \in Present \ Displaced(s) : pid[d] # p
      BY <3>2, ArrivalFacts
    <3>4. /\ pid'[c] = p
          /\ \A d \in Present \ Displaced(s) : d # c /\ pid'[d] = pid[d]
      BY <3>3 DEF TypeOK, Present
    <3>5. NoPid \notin Pids
      BY DEF NoPid, Pids, MaxPid
    <3> QED  BY <3>3, <3>4, <3>5 DEF PidsDistinct
  <2>3. CASE CreateFakePlayer
    <3> DEFINE v == HostAfter(NumPlayers)
               p == NewPid(v, NoPid, Present)
    <3>1. p \in Pids /\ p # v /\ \A d \in Present : pid[d] # p
      BY NewPidIsFresh DEF Present
    <3>2. vh' = v /\ fake' = p /\ v \in {vh, NoPid} /\ UNCHANGED <<members, left, pid>>
      BY <2>3 DEF CreateFakePlayer, HostAfter, objVars
    <3> HIDE DEF v, p
    <3> QED  BY <3>1, <3>2 DEF PidsDistinct, Present
  <2>4. CASE CreateVirtualHost
    <3> DEFINE p == NewPid(NoPid, fake, Present)
    <3>1. p \in Pids /\ p # fake /\ \A d \in Present : pid[d] # p
      BY NewPidIsFresh DEF Present
    <3>2. vh' = p /\ UNCHANGED <<members, left, pid, fake>>
      BY <2>4 DEF CreateVirtualHost, objVars
    <3> HIDE DEF p
    <3> QED  BY <3>1, <3>2 DEF PidsDistinct, Present
  <2>5. CASE UNCHANGED vars
    BY <2>5 DEF vars, PidsDistinct, Present
  <2> QED  BY <2>1, <2>2, <2>3, <2>4, <2>5, StepKinds
<1> QED  BY <1>1, <1>2, TypeCorrect, PTL DEF Spec

\* players who stay are no more than there were, one who comes is one more
LEMMA Headcounts ==
  ASSUME NEW P \in SUBSET Conns
  PROVE  /\ Cardinality(P) \in Nat
         /\ \A Q \in SUBSET P : Cardinality(Q) \in Nat /\ Cardinality(Q) <= Cardinality(P)
         /\ \A c \in Conns : /\ Cardinality(P \cup {c}) \in Nat
                             /\ Cardinality(P \cup {c}) <= Cardinality(P) + 1
<1>1. IsFiniteSet(P)
  BY ConnsAssumption, FS_Subset
<1>2. \A Q \in SUBSET P : IsFiniteSet(Q) /\ Cardinality(Q) <= Cardinality(P)
  BY <1>1, FS_Subset
<1>3. \A c \in Conns : /\ IsFiniteSet(P \cup {c})
                      /\ Cardinality(P \cup {c})
                           = IF c \in P THEN Cardinality(P) ELSE Cardinality(P) + 1
  BY <1>1, FS_AddElement
<1>4. \A Q : IsFiniteSet(Q) => Cardinality(Q) \in Nat
  BY FS_CardinalityType
<1> QED  BY <1>1, <1>2, <1>3, <1>4

(* While the virtual host is in the game there is a place for it among the *)
(* players a client supports: every join and the fake player remove it in  *)
(* time, and it only comes back when there is room (CreateVirtualHost).    *)
THEOREM VirtualHostHasRoom == Spec => []HostHasRoom
<1>1. Init => HostHasRoom
  BY DEF Init, HostHasRoom
<1>2. TypeOK /\ HostHasRoom /\ [Next]_vars => HostHasRoom'
  <2> SUFFICES ASSUME TypeOK, HostHasRoom, [Next]_vars, vh' # NoPid
               PROVE  Cardinality(Present') + (IF fake' # NoPid THEN 1 ELSE 0) < PlayerLimit
    BY DEF HostHasRoom, NumPlayers, CountPlayers
  <2>1. Present \in SUBSET Conns /\ Cardinality(Present) \in Nat
    BY Headcounts DEF TypeOK, Present
  <2>2. vh # NoPid => Cardinality(Present) + (IF fake # NoPid THEN 1 ELSE 0) < PlayerLimit
    BY DEF HostHasRoom, NumPlayers, CountPlayers
  <2>3. CASE NobodyNew
    <3>1. /\ Cardinality(Present') \in Nat
          /\ Cardinality(Present') <= Cardinality(Present)
      BY <2>1, <2>3, Headcounts DEF NobodyNew
    <3>2. vh # NoPid /\ fake' \in {fake, NoPid}
      BY <2>3 DEF NobodyNew
    <3> QED  BY <2>1, <2>2, <3>1, <3>2, LimitAssumption
  <2>4. CASE Arrival
    <3>1. PICK n \in Names, c \in Conns : \E s \in TargetSeats(n) : TakeSeat(n, c, s)
      BY <2>4 DEF Arrival
    <3>2. PICK s \in TargetSeats(n) : TakeSeat(n, c, s)
      BY <3>1
    <3> DEFINE P == Present \ Displaced(s)
    <3>3. Present' = P \cup {c} /\ fake' = fake
      BY <3>2, ArrivalFacts
    <3>4. vh' = HostAfter(CountPlayers(P))
      BY <3>2 DEF TakeSeat
    <3>5. P \in SUBSET Conns
      BY <2>1
    <3> HIDE DEF P
    <3>6. /\ Cardinality(P) \in Nat
          /\ Cardinality(P \cup {c}) \in Nat
          /\ Cardinality(P \cup {c}) <= Cardinality(P) + 1
      BY <3>5, Headcounts
    <3>7. ~(Cardinality(P) + (IF fake # NoPid THEN 1 ELSE 0) >= PlayerLimit - 1)
      BY <3>4 DEF HostAfter, CountPlayers
    <3> QED  BY <3>3, <3>6, <3>7, LimitAssumption
  <2>5. CASE CreateFakePlayer
    <3>1. /\ fake = NoPid
          /\ vh' = HostAfter(NumPlayers)
          /\ Present' = Present
      BY <2>5 DEF CreateFakePlayer, objVars, Present
    <3>2. ~(Cardinality(Present) >= PlayerLimit - 1)
      BY <2>1, <3>1 DEF HostAfter, NumPlayers, CountPlayers
    <3> QED  BY <2>1, <3>1, <3>2, LimitAssumption
  <2>6. CASE CreateVirtualHost
    BY <2>6 DEF CreateVirtualHost, objVars, Present, NumPlayers, CountPlayers
  <2>7. CASE UNCHANGED vars
    BY <2>2, <2>7 DEF vars, Present
  <2> QED  BY <2>3, <2>4, <2>5, <2>6, <2>7, StepKinds
<1> QED  BY <1>1, <1>2, TypeCorrect, PTL DEF Spec

(* No two players in the game have the same name, also when the answer to  *)
(* a score check comes after somebody else joined (EventPlayerJoined).     *)
THEOREM NamesAreDistinct == Spec => []NamesDistinct
<1>1. Init => NamesDistinct
  BY DEF Init, NamesDistinct, Present
<1>2. TypeOK /\ NamesDistinct /\ [Next]_vars => NamesDistinct'
  <2> SUFFICES ASSUME TypeOK, NamesDistinct, [Next]_vars PROVE NamesDistinct'
    OBVIOUS
  <2>1. CASE NobodyNew
    BY <2>1 DEF NobodyNew, NamesDistinct
  <2>2. CASE Arrival
    <3>1. PICK n \in Names, c \in Conns : \E s \in TargetSeats(n) :
             TakeSeat(n, c, s) /\ ~NameTaken(n)
      BY <2>2 DEF Arrival
    <3>2. PICK s \in TargetSeats(n) : TakeSeat(n, c, s)
      BY <3>1
    <3>3. /\ c \notin members
          /\ Present' = (Present \ Displaced(s)) \cup {c}
          /\ name' = [name EXCEPT ![c] = n]
      BY <3>2, ArrivalFacts
    <3>4. name'[c] = n /\ \A d \in Present : d # c /\ name'[d] = name[d] /\ name[d] # n
      BY <3>1, <3>3 DEF TypeOK, Present, NameTaken
    <3> QED  BY <3>3, <3>4 DEF NamesDistinct
  <2>3. CASE CreateFakePlayer \/ CreateVirtualHost
    BY <2>3 DEF CreateFakePlayer, CreateVirtualHost, objVars, NamesDistinct, Present
  <2>4. CASE UNCHANGED vars
    BY <2>4 DEF vars, NamesDistinct, Present
  <2> QED  BY <2>1, <2>2, <2>3, <2>4, StepKinds
<1> QED  BY <1>1, <1>2, TypeCorrect, PTL DEF Spec

-----------------------------------------------------------------------------
(* The table of slots and the list of players agree.                       *)

\* the cases in which they do not are set aside: a socket error of a player
\* thrown out earlier in the same pass, the spoof check kick, the refused
\* score, and a name that is both banned and privileged
MayBeHeld == HeldAtStart \cup Holdable
Undisturbed ==
  /\ ~LateErrors /\ ~UnspoofedKick /\ ~LadderScores
  /\ Banned \cap (MayBeHeld \cup Admins \cup Safe \cup {Owner}) = {}

\* the players who were not thrown out
Live == members \ doomed

\* in the table sl every PID belongs to one slot and to the fake player fk or
\* a player of the set live, whose PIDs are ids, and each of them has a slot
Seated(sl, live, ids, fk) ==
  /\ \A s, t \in Seats : sl[s].pid # 0 /\ sl[s].pid = sl[t].pid => s = t
  /\ \A s \in Seats : sl[s].pid # 0 => sl[s].pid = fk \/ \E c \in live : ids[c] = sl[s].pid
  /\ \A c \in live : \E s \in Seats : sl[s].pid = ids[c]

\* the inductive invariant, with the types and the distinct PIDs
SeatInv == held \subseteq MayBeHeld /\ Seated(slots, Live, pid, fake)

LEMMA SlotPids ==
  /\ \A x \in Slot : x.kind = "player" <=> x.pid # 0
  /\ OpenSlotRec.pid = 0 /\ ClosedSlotRec.pid = 0 /\ ComputerSlotRec.pid = 0
  /\ \A p \in Pids : PlayerSlot(p).pid = p /\ p # 0
  /\ NoPid \notin Pids /\ NoPid # 0
<1>1. \A p \in Pids : p # 0
  BY DEF Pids
<1>2. NoPid \notin Pids /\ NoPid # 0
  BY DEF Pids, NoPid, MaxPid
<1> QED  BY <1>1, <1>2 DEF Slot, OpenSlotRec, ClosedSlotRec, ComputerSlotRec, PlayerSlot

\* a permutation of the slots does not disturb the agreement
LEMMA SeatedReordered ==
  ASSUME NEW sl, NEW live, NEW ids, NEW fk, Seated(sl, live, ids, fk),
         NEW f, IsPermutation(f)
  PROVE  Seated(Reordered(sl, f), live, ids, fk)
<1> DEFINE new == Reordered(sl, f)
<1>1. \A s \in Seats : f[s] \in Seats /\ new[s] = sl[f[s]]
  BY DEF Reordered, IsPermutation
<1>2. ASSUME NEW s \in Seats, NEW t \in Seats, new[s].pid # 0, new[s].pid = new[t].pid
      PROVE  s = t
  <2>1. f[s] = f[t]
    BY <1>1, <1>2 DEF Seated
  <2> QED  BY <2>1 DEF IsPermutation
<1>3. \A s \in Seats : new[s].pid # 0 => new[s].pid = fk \/ \E c \in live : ids[c] = new[s].pid
  BY <1>1 DEF Seated
<1>4. ASSUME NEW c \in live
      PROVE  \E s \in Seats : new[s].pid = ids[c]
  <2>1. PICK t \in Seats : sl[t].pid = ids[c]
    BY DEF Seated
  <2>2. PICK s \in Seats : f[s] = t
    BY DEF IsPermutation
  <2> QED  BY <2>1, <2>2, <1>1
<1> HIDE DEF new
<1> QED  BY <1>2, <1>3, <1>4 DEF Seated, new

\* opening the slot of a player takes that player, and nobody else, off the table
LEMMA SeatedWithout ==
  ASSUME TypeOK, PidsDistinct, SeatInv, NEW c \in Present
  PROVE  Seated(OpenSeatOfPid(slots, pid[c]), Live \ {c}, pid, fake)
<1> DEFINE new == OpenSeatOfPid(slots, pid[c])
           S == SeatsOfPid(slots, pid[c])
<1>1. /\ Live \subseteq Present
      /\ \A d \in Live \ {c} : pid[d] # pid[c]
      /\ pid[c] # fake /\ pid[c] # NoPid /\ pid[c] \in Pids
  BY DEF TypeOK, PidsDistinct, Present, Live
<1>2. pid[c] # 0
  BY <1>1, SlotPids
<1>3. CASE S = {}
  <2>1. new = slots
    BY <1>3, OpenSeatTypes
  <2> HIDE DEF new
  <2> QED  BY <2>1, <1>1, <1>3 DEF SeatInv, Seated, SeatsOfPid, new
<1>4. CASE S # {}
  <2> DEFINE k == SeatOfPid(slots, pid[c])
  <2>1. k \in Seats /\ slots[k].pid = pid[c]
    BY <1>4, OpenSeatTypes DEF SeatsOfPid
  <2>2. k # NoSeat
    BY <2>1, SeatFacts
  <2>3. new = [slots EXCEPT ![k] = OpenSlotRec]
    BY <2>2 DEF OpenSeatOfPid
  <2>4. /\ new[k].pid = 0
        /\ \A s \in Seats \ {k} : new[s] = slots[s] /\ slots[s].pid # pid[c]
    <3>1. new[k] = OpenSlotRec /\ \A s \in Seats \ {k} : new[s] = slots[s]
      BY <2>1, <2>3 DEF TypeOK
    <3>2. \A s \in Seats \ {k} : slots[s].pid # pid[c]
      BY <2>1, <1>2 DEF SeatInv, Seated
    <3> QED  BY <3>1, <3>2, SlotPids
  <2> HIDE DEF new, k
  <2>5. \A s, t \in Seats : new[s].pid # 0 /\ new[s].pid = new[t].pid => s = t
    BY <2>4 DEF SeatInv, Seated
  <2>6. \A s \in Seats : new[s].pid # 0 =>
          new[s].pid = fake \/ \E d \in Live \ {c} : pid[d] = new[s].pid
    BY <2>4 DEF SeatInv, Seated
  <2>7. ASSUME NEW d \in Live \ {c}
        PROVE  \E s \in Seats : new[s].pid = pid[d]
    <3>1. PICK s \in Seats : slots[s].pid = pid[d]
      BY DEF SeatInv, Seated
    <3>2. s # k
      BY <3>1, <2>1, <1>1
    <3> QED  BY <3>1, <3>2, <2>4
  <2> QED  BY <2>5, <2>6, <2>7 DEF Seated, new
<1> QED  BY <1>3, <1>4

\* a slot without a PID, whatever it holds next, takes its occupants off the table
LEMMA SeatedAfterSet ==
  ASSUME TypeOK, PidsDistinct, SeatInv, NEW s \in Seats, NEW rec \in Slot, rec.pid = 0
  PROVE  Seated([slots EXCEPT ![s] = rec], Live \ Occupants(s), pid, fake)
<1> DEFINE new == [slots EXCEPT ![s] = rec]
<1>1. new[s] = rec /\ \A t \in Seats \ {s} : new[t] = slots[t]
  BY DEF TypeOK
<1>2. Live \subseteq Present
  BY DEF TypeOK, Present, Live
<1> HIDE DEF new
<1>3. \A a, b \in Seats : new[a].pid # 0 /\ new[a].pid = new[b].pid => a = b
  BY <1>1 DEF SeatInv, Seated
<1>4. ASSUME NEW a \in Seats, new[a].pid # 0
      PROVE  new[a].pid = fake \/ \E c \in Live \ Occupants(s) : pid[c] = new[a].pid
  <2>1. a # s /\ new[a] = slots[a]
    BY <1>1, <1>4
  <2>2. slots[a].pid # slots[s].pid
    BY <2>1, <1>4 DEF SeatInv, Seated
  <2>3. slots[a].pid = fake \/ \E c \in Live : pid[c] = slots[a].pid
    BY <2>1, <1>4 DEF SeatInv, Seated
  <2> QED  BY <2>1, <2>2, <2>3 DEF Occupants, OccupantsIn
<1>5. ASSUME NEW c \in Live \ Occupants(s)
      PROVE  \E a \in Seats : new[a].pid = pid[c]
  <2>1. PICK a \in Seats : slots[a].pid = pid[c]
    BY DEF SeatInv, Seated
  <2>2. a # s
    BY <2>1, <1>2 DEF Occupants, OccupantsIn
  <2> QED  BY <2>1, <2>2, <1>1
<1> QED  BY <1>3, <1>4, <1>5 DEF Seated, new

\* while a slot is open a join takes an open one; without privileges only then
LEMMA TargetWhenOpen ==
  ASSUME TypeOK, NEW n, NEW s \in TargetSeats(n)
  PROVE  /\ SeatsOfKind("open") # {} => slots[s].kind = "open"
         /\ n \notin Privileged => SeatsOfKind("open") # {}
<1>1. PICK found \in FoundSeats(n) : s = IF found = NoSeat /\ n = Owner THEN OwnerSeat ELSE found
  BY DEF TargetSeats
<1>2. ASSUME SeatsOfKind("open") # {} PROVE slots[s].kind = "open"
  <2>1. SeatsOfKind("open") \in SUBSET Seats
    BY DEF SeatsOfKind
  <2>2. Min(SeatsOfKind("open")) \in SeatsOfKind("open")
    BY <1>2, <2>1, SeatFacts
  <2>3. found = Min(SeatsOfKind("open"))
    BY <1>1, <1>2 DEF FoundSeats
  <2>4. found # NoSeat /\ s = found
    BY <2>1, <2>2, <2>3, <1>1, SeatFacts
  <2> QED  BY <2>2, <2>3, <2>4 DEF SeatsOfKind
<1>3. ASSUME n \notin Privileged, SeatsOfKind("open") = {} PROVE FALSE
  <2>1. found = NoSeat /\ n # Owner
    BY <1>1, <1>3 DEF FoundSeats, Privileged
  <2> QED  BY <1>1, <2>1 DEF TargetSeats
<1> QED  BY <1>2, <1>3

\* a join disturbs nothing: the slots are permuted, one slot is taken from its
\* occupants, who are marked, and given to the newcomer under a PID of its own
LEMMA SeatedAfterJoin ==
  ASSUME TypeOK, PidsDistinct, SeatInv,
         NEW n \in Names, NEW c \in Conns, NEW s \in TargetSeats(n), TakeSeat(n, c, s)
  PROVE  SeatInv'
<1> DEFINE gone == Displaced(s)
           end == Placement(n, s).end
           p == NewPid(HostAfter(CountPlayers(Present \ gone)), fake, Present \ gone)
<1>1. s \in Seats /\ (s \in HumanSeats(slots) \/ HumanSeats(slots) = {})
  BY TargetIsSeat
<1>2. end \in Table /\ Rearranged(slots, end.slots, s, end.seat)
  BY <1>1, PlacementMoves DEF Moved, TableAt
<1>3. PICK f : /\ IsPermutation(f)
               /\ end.slots = Reordered(slots, f)
               /\ f[end.seat] = s
  <2> HIDE DEF end
  <2> QED  BY <1>2 DEF Rearranged
<1>4. end.seat \in Seats
  BY <1>2 DEF Table
<1>5. /\ p \in Pids /\ p # fake
      /\ \A d \in Present \ gone : pid[d] # p
  BY NewPidIsFresh DEF Present
<1>6. /\ c \notin members
      /\ members' = members \cup {c}
      /\ doomed' = doomed \cup gone
      /\ pid' = [pid EXCEPT ![c] = p]
      /\ fake' = fake /\ held' = held
      /\ slots' = [end.slots EXCEPT ![end.seat] = PlayerSlot(p)]
  BY DEF TakeSeat
<1>7. \A d \in gone : d \in Present /\ pid[d] = slots[s].pid
  BY DEF Displaced, Occupants, OccupantsIn
<1>8. ASSUME NEW d \in Live, pid[d] = slots[s].pid
      PROVE  d \in gone
  <2>1. d \in Present /\ pid[d] # NoPid /\ pid[d] \in Pids
    BY DEF Live, TypeOK, Present, PidsDistinct
  <2>2. slots[s].pid # 0 /\ slots[s] \in Slot
    BY <2>1, <1>8, <1>1, SlotPids DEF TypeOK
  <2>3. slots[s].kind # "open"
    BY <2>2, SlotPids DEF Slot, OpenSlotRec, ClosedSlotRec, ComputerSlotRec, PlayerSlot
  <2>4. SeatsOfKind("open") = {}
    BY <2>3, TargetWhenOpen
  <2> QED  BY <2>1, <2>4, <1>8 DEF Displaced, Occupants, OccupantsIn
<1> HIDE DEF gone, end, p
<1>9. Live' = (Live \ gone) \cup {c} /\ c \notin Live
  BY <1>6, <1>7 DEF Live, TypeOK, Present
<1>10. /\ \A a \in Seats \ {end.seat} : slots'[a] = slots[f[a]] /\ f[a] # s
       /\ slots'[end.seat].pid = p
       /\ \A a \in Seats : f[a] \in Seats
       /\ p # 0
  <2>1. \A a \in Seats : f[a] \in Seats
    BY <1>3 DEF IsPermutation
  <2>2. \A a \in Seats \ {end.seat} : f[a] # s
    BY <1>3, <1>4 DEF IsPermutation
  <2>3. slots'[end.seat] = PlayerSlot(p)
    BY <1>3, <1>4, <1>6 DEF Reordered
  <2>4. \A a \in Seats \ {end.seat} : slots'[a] = slots[f[a]]
    BY <1>3, <1>4, <1>6 DEF Reordered
  <2> QED  BY <2>1, <2>2, <2>3, <2>4, <1>5, SlotPids
<1>11. ASSUME NEW t \in Seats \ {s}, slots[t].pid # 0
       PROVE  /\ slots[t].pid # p
              /\ slots[t].pid = fake \/ \E d \in Live \ gone : pid[d] = slots[t].pid
  <2>1. slots[t].pid # slots[s].pid
    BY <1>1, <1>11 DEF SeatInv, Seated
  <2>2. CASE slots[t].pid = fake
    BY <2>2, <1>5
  <2>3. CASE \E d \in Live : pid[d] = slots[t].pid
    <3>1. PICK d \in Live : pid[d] = slots[t].pid
      BY <2>3
    <3>2. d \notin gone /\ d \in Present
      BY <3>1, <2>1, <1>7 DEF Live, Present, TypeOK
    <3> QED  BY <3>1, <3>2, <1>5
  <2> QED  BY <1>11, <2>2, <2>3 DEF SeatInv, Seated
<1>12. ASSUME NEW a \in Seats, NEW b \in Seats, slots'[a].pid # 0, slots'[a].pid = slots'[b].pid
       PROVE  a = b
  <2>1. CASE a = end.seat \/ b = end.seat
    BY <2>1, <1>12, <1>10, <1>11
  <2>2. CASE a # end.seat /\ b # end.seat
    <3>1. f[a] = f[b]
      BY <2>2, <1>12, <1>10 DEF SeatInv, Seated
    <3> QED  BY <3>1, <1>3 DEF IsPermutation
  <2> QED  BY <2>1, <2>2
<1>13. pid'[c] = p /\ \A d \in Live : pid'[d] = pid[d]
  BY <1>6, <1>9 DEF TypeOK, Live
<1>14. ASSUME NEW a \in Seats, slots'[a].pid # 0
       PROVE  slots'[a].pid = fake' \/ \E d \in Live' : pid'[d] = slots'[a].pid
  <2>1. CASE a = end.seat
    BY <2>1, <1>9, <1>10, <1>13
  <2>2. CASE a # end.seat
    <3>1. slots'[a].pid = fake \/ \E d \in Live \ gone : pid[d] = slots'[a].pid
      BY <2>2, <1>14, <1>10, <1>11
    <3> QED  BY <3>1, <1>6, <1>9, <1>13
  <2> QED  BY <2>1, <2>2
<1>15. ASSUME NEW d \in Live'
       PROVE  \E a \in Seats : slots'[a].pid = pid'[d]
  <2>1. CASE d = c
    BY <2>1, <1>4, <1>10, <1>13
  <2>2. CASE d \in Live \ gone
    <3>1. PICK t \in Seats : slots[t].pid = pid[d]
      BY <2>2 DEF SeatInv, Seated
    <3>2. t # s
      BY <3>1, <2>2, <1>8
    <3>3. PICK a \in Seats : f[a] = t
      BY <1>3 DEF IsPermutation
    <3>4. a # end.seat
      BY <3>2, <3>3, <1>3
    <3> QED  BY <3>1, <3>3, <3>4, <2>2, <1>10, <1>13
  <2> QED  BY <2>1, <2>2, <1>9
<1> QED  BY <1>6, <1>12, <1>14, <1>15 DEF SeatInv, Seated

\* what is left to show of a step that leaves the agreement as it was
LEMMA SeatInvKept ==
  ASSUME SeatInv, held' \subseteq MayBeHeld, fake' = fake,
         Seated(slots', Live', pid, fake), \A d \in Live' : pid'[d] = pid[d]
  PROVE  SeatInv'
BY DEF SeatInv, Seated

\* a step that permutes the table
LEMMA SeatInvPermuted ==
  ASSUME SeatInv, UNCHANGED <<objVars, listVars, hostVars>>,
         \E f : IsPermutation(f) /\ slots' = Reordered(slots, f)
  PROVE  SeatInv'
<1>1. PICK f : IsPermutation(f) /\ slots' = Reordered(slots, f)
  OBVIOUS
<1>2. Seated(slots', Live, pid, fake)
  BY <1>1, SeatedReordered DEF SeatInv
<1>3. Live' = Live /\ pid' = pid /\ fake' = fake /\ held' = held
  BY DEF Live, objVars, listVars, hostVars
<1> QED  BY <1>2, <1>3, SeatInvKept DEF SeatInv

\* a step that leaves slots and players alone
LEMMA SeatInvStill ==
  ASSUME SeatInv, UNCHANGED <<slots, pid, fake>>, Live' = Live, held' \subseteq MayBeHeld
  PROVE  SeatInv'
BY SeatInvKept DEF SeatInv

LEMMA SeatInvClient ==
  ASSUME Undisturbed, TypeOK, PidsDistinct, SeatInv, ClientStep
  PROVE  SeatInv'
<1>1. ASSUME NEW n \in Names, NEW c \in Conns, NEW second \in BOOLEAN, Admit(n, c, second)
      PROVE  SeatInv'
  <2>1. PICK s \in TargetSeats(n) : RefuseBanned(n, s) \/ TakeSeat(n, c, s)
    BY <1>1 DEF Admit
  <2>2. CASE TakeSeat(n, c, s)
    BY <2>2, SeatedAfterJoin
  <2>3. CASE RefuseBanned(n, s)
    <3>1. n \notin Privileged
      BY <2>3 DEF RefuseBanned, Undisturbed, Privileged, SeatInv
    <3>2. Displaced(s) = {}
      BY <3>1, TargetWhenOpen DEF Displaced
    <3>3. UNCHANGED <<slots, pid, fake, held>> /\ Live' = Live
      BY <2>3, <3>2 DEF RefuseBanned, Live, listVars, hostVars
    <3> QED  BY <3>3, SeatInvStill DEF SeatInv
  <2> QED  BY <2>1, <2>2, <2>3
<1>2. ASSUME UNCHANGED <<seatVars, objVars, listVars, hostVars>> PROVE SeatInv'
  BY <1>2, SeatInvStill DEF SeatInv, seatVars, objVars, listVars, hostVars, Live
<1>3. ASSUME NEW n \in Names, NEW c \in Conns, Join(n, c) PROVE SeatInv'
  BY <1>1, <1>2, <1>3 DEF Join
<1>4. ASSUME NEW n \in Names, NEW c \in Conns, ScoreAccepted(n, c) PROVE SeatInv'
  BY <1>1, <1>4 DEF ScoreAccepted
<1>5. ASSUME NEW n \in Names, ScoreRefused(n) PROVE SeatInv'
  BY <1>2, <1>5 DEF ScoreRefused
<1>6. ASSUME NEW c \in Conns, Depart(c) PROVE SeatInv'
  <2>1. c \in Present
    BY <1>6 DEF Depart, Present, TypeOK
  <2>2. /\ slots' = OpenSeatOfPid(slots, pid[c]) /\ Live' = Live \ {c}
        /\ fake' = fake /\ held' = held /\ pid' = [pid EXCEPT ![c] = NoPid]
    BY <1>6 DEF Depart, Remove, Live, hostVars
  <2>3. Seated(slots', Live', pid, fake)
    BY <2>1, <2>2, SeatedWithout
  <2>4. \A d \in Live' : pid'[d] = pid[d]
    BY <2>2 DEF TypeOK, Live
  <2> QED  BY <2>2, <2>3, <2>4, SeatInvKept DEF SeatInv
<1>7. ASSUME NEW c \in Conns, RefuseScore(c) PROVE FALSE
  BY <1>7 DEF RefuseScore, Undisturbed
<1>8. ASSUME NEW a \in Seats, NEW b \in Seats, SwapSeats(a, b) PROVE SeatInv'
  <2>1. \E f : IsPermutation(f) /\ slots' = Reordered(slots, f)
    BY <1>8, SwapSeatsTypes DEF Rearranged
  <2> QED  BY <1>8, <2>1, SeatInvPermuted DEF SwapSeats
<1>9. ASSUME NEW c \in Conns, NEW t \in Seats, PublicSwap(c, t) \/ ChangeTeam(c, t)
      PROVE  SeatInv'
  <2>1. PublicSwap(c, t) => sid[c] \in Seats /\ SwapSeats(sid[c], t)
    BY DEF PublicSwap, TypeOK, Present
  <2>2. ChangeTeam(c, t) =>
          SeatOfPid(slots, pid[c]) \in Seats /\ SwapSeats(SeatOfPid(slots, pid[c]), t)
    BY OpenSeatTypes DEF ChangeTeam, SeatsOfPid
  <2> QED  BY <1>8, <1>9, <2>1, <2>2
<1> QED  BY <1>3, <1>4, <1>5, <1>6, <1>7, <1>9 DEF ClientStep

LEMMA SeatInvFakePlayer ==
  ASSUME TypeOK, PidsDistinct, SeatInv, CreateFakePlayer \/ DeleteFakePlayer
  PROVE  SeatInv'
<1>1. /\ Live \subseteq Present /\ Live' = Live /\ pid' = pid /\ held' = held
      /\ \A c \in Live : pid[c] \in Pids /\ pid[c] # fake
  BY DEF CreateFakePlayer, DeleteFakePlayer, objVars, listVars, Live, Present, TypeOK, PidsDistinct
<1>2. CASE CreateFakePlayer
  <2> DEFINE p == NewPid(HostAfter(NumPlayers), NoPid, Present)
             open == SeatsOfKind("open")
             k == Min(open)
  <2>1. p \in Pids /\ \A c \in Live : pid[c] # p
    BY <1>1, NewPidIsFresh DEF Present
  <2>2. k \in Seats /\ slots[k].kind = "open"
    <3>1. open \in SUBSET Seats /\ open # {}
      BY <1>2 DEF SeatsOfKind, CreateFakePlayer
    <3> QED  BY <3>1, SeatFacts DEF SeatsOfKind
  <2>3. slots[k].pid = 0
    BY <2>2, SlotPids DEF TypeOK
  <2>4. fake' = p /\ fake = NoPid /\ slots' = [slots EXCEPT ![k] = PlayerSlot(p)]
    BY <1>2 DEF CreateFakePlayer
  <2> HIDE DEF p, k
  <2>5. slots'[k].pid = p /\ \A s \in Seats \ {k} : slots'[s] = slots[s]
    BY <2>1, <2>2, <2>4, SlotPids DEF TypeOK
  <2>6. \A s \in Seats : slots[s].pid # 0 => \E c \in Live : pid[c] = slots[s].pid
    <3>1. \A s \in Seats : slots[s].pid # NoPid
      BY SlotPids DEF TypeOK, Slot, OpenSlotRec, ClosedSlotRec, ComputerSlotRec, PlayerSlot
    <3> QED  BY <3>1, <2>4 DEF SeatInv, Seated
  <2>7. \A s, t \in Seats : slots'[s].pid # 0 /\ slots'[s].pid = slots'[t].pid => s = t
    BY <2>1, <2>5, <2>6 DEF SeatInv, Seated
  <2>8. \A s \in Seats : slots'[s].pid # 0 =>
          slots'[s].pid = fake' \/ \E c \in Live' : pid'[c] = slots'[s].pid
    BY <1>1, <2>4, <2>5, <2>6
  <2>9. ASSUME NEW c \in Live' PROVE \E s \in Seats : slots'[s].pid = pid'[c]
    <3>1. PICK s \in Seats : slots[s].pid = pid[c]
      BY <1>1 DEF SeatInv, Seated
    <3>2. s # k
      BY <3>1, <1>1, <2>3, SlotPids
    <3> QED  BY <1>1, <3>1, <3>2, <2>5
  <2> QED  BY <1>1, <2>7, <2>8, <2>9 DEF SeatInv, Seated
<1>3. CASE DeleteFakePlayer
  <2>1. /\ fake' = NoPid
        /\ slots' = [s \in Seats |-> IF slots[s].pid = fake THEN OpenSlotRec ELSE slots[s]]
    BY <1>3 DEF DeleteFakePlayer
  <2>2. \A s \in Seats : \/ slots[s].pid = fake /\ slots'[s].pid = 0
                         \/ slots[s].pid # fake /\ slots'[s].pid = slots[s].pid
    BY <2>1, SlotPids
  <2>3. \A s, t \in Seats : slots'[s].pid # 0 /\ slots'[s].pid = slots'[t].pid => s = t
    BY <2>2 DEF SeatInv, Seated
  <2>4. \A s \in Seats : slots'[s].pid # 0 =>
          slots'[s].pid = fake' \/ \E c \in Live' : pid'[c] = slots'[s].pid
    BY <1>1, <2>2 DEF SeatInv, Seated
  <2>5. \A c \in Live' : \E s \in Seats : slots'[s].pid = pid'[c]
    BY <1>1, <2>2 DEF SeatInv, Seated
  <2> QED  BY <1>1, <2>3, <2>4, <2>5 DEF SeatInv, Seated
<1> QED  BY <1>2, <1>3

LEMMA SeatInvCommand ==
  ASSUME TypeOK, PidsDistinct, SeatInv, CommandStep
  PROVE  SeatInv'
<1>1. ASSUME NEW c \in Conns, Kick(c) PROVE SeatInv'
  <2>1. /\ slots' = OpenSeatOfPid(slots, pid[c]) /\ Live' = Live \ {c} /\ c \in Present
        /\ UNCHANGED <<pid, fake, held>>
    BY <1>1 DEF Kick, Live, listVars, hostVars
  <2>2. Seated(slots', Live', pid, fake)
    BY <2>1, SeatedWithout
  <2> QED  BY <2>1, <2>2, SeatInvKept DEF SeatInv
<1>2. ASSUME NEW s \in Seats, OpenSeat(s) \/ CloseSeat(s) \/ ComputerSeat(s)
      PROVE  SeatInv'
  <2>1. PICK rec \in Slot : rec.pid = 0 /\ SetSeat(s, rec)
    BY <1>2, SlotKinds, SlotPids DEF OpenSeat, CloseSeat, ComputerSeat
  <2>2. /\ slots' = [slots EXCEPT ![s] = rec] /\ Live' = Live \ Occupants(s)
        /\ UNCHANGED <<pid, fake, held>>
    BY <2>1 DEF SetSeat, Live, listVars, hostVars
  <2>3. Seated(slots', Live', pid, fake)
    BY <2>1, <2>2, SeatedAfterSet
  <2> QED  BY <2>2, <2>3, SeatInvKept DEF SeatInv
<1>3. ASSUME NEW from \in {"open", "closed"}, NEW rec, rec.pid = 0, SetAll(from, rec)
      PROVE  SeatInv'
  <2>1. \A s \in Seats : slots'[s].pid = slots[s].pid
    <3>1. \A s \in Seats : slots[s].kind = from => slots[s].pid = 0
      BY SlotPids DEF TypeOK
    <3> QED  BY <1>3, <3>1 DEF SetAll
  <2>2. Live' = Live /\ UNCHANGED <<pid, fake, held>>
    BY <1>3 DEF SetAll, Live, objVars, listVars, hostVars
  <2> QED  BY <2>1, <2>2 DEF SeatInv, Seated
<1>4. ASSUME OpenAll \/ CloseAll PROVE SeatInv'
  BY <1>3, <1>4, SlotPids DEF OpenAll, CloseAll
<1>5. ASSUME NEW a \in Seats, NEW b \in Seats, Swap(a, b) PROVE SeatInv'
  <2>1. \E f : IsPermutation(f) /\ slots' = Reordered(slots, f)
    BY <1>5, SwapSeatsTypes DEF Swap, Rearranged
  <2> QED  BY <1>5, <2>1, SeatInvPermuted DEF Swap, SwapSeats
<1>6. ASSUME Shuffle \/ BalanceSlots PROVE SeatInv'
  <2>1. PICK H \in SUBSET Seats : slots' \in Permuted(H)
    BY <1>6 DEF Shuffle, ShuffleSlots, BalanceSlots, SeatsOfKind
  <2>2. \E f : IsPermutation(f) /\ slots' = Reordered(slots, f)
    BY <2>1, PermutedRearranges
  <2> QED
    BY <1>6, <2>2, SeatInvPermuted DEF Shuffle, ShuffleSlots, BalanceSlots
<1>7. ASSUME NEW n \in Holdable, NEW s, Hold(n, s) \/ Unhold(n) PROVE SeatInv'
  <2>1. held' \subseteq MayBeHeld
    BY <1>7 DEF Hold, Unhold, SeatInv, MayBeHeld
  <2>2. UNCHANGED <<slots, pid, fake>> /\ Live' = Live
    BY <1>7 DEF Hold, Unhold, seatVars, objVars, hostVars, Live
  <2> QED  BY <2>1, <2>2, SeatInvStill
<1>8. ASSUME StartCountDown \/ Abort PROVE SeatInv'
  <2>1. UNCHANGED <<slots, pid, fake, held>> /\ Live' = Live
    BY <1>8 DEF StartCountDown, Abort, seatVars, objVars, listVars, hostVars, Live
  <2> QED  BY <2>1, SeatInvStill DEF SeatInv
<1> QED
  BY <1>1, <1>2, <1>4, <1>5, <1>6, <1>7, <1>8, SeatInvFakePlayer DEF CommandStep

LEMMA SeatInvUpdate ==
  ASSUME Undisturbed, TypeOK, PidsDistinct, SeatInv, UpdateStep
  PROVE  SeatInv'
<1>1. ASSUME NEW c \in Conns, Reap(c) PROVE SeatInv'
  <2>1. /\ c \in doomed /\ slots' = slots /\ members' = members \ {c}
        /\ doomed' = doomed \ {c} /\ pid' = [pid EXCEPT ![c] = NoPid]
        /\ fake' = fake /\ held' = held
    BY <1>1 DEF Reap, Remove, Undisturbed, hostVars
  <2>2. Live' = Live /\ \A d \in Live : pid'[d] = pid[d]
    BY <2>1 DEF Live, TypeOK
  <2> QED  BY <2>1, <2>2, SeatInvKept DEF SeatInv
<1>2. ASSUME NEW c \in Conns, KickUnspoofed(c) PROVE FALSE
  BY <1>2 DEF KickUnspoofed, Undisturbed
<1>3. ASSUME CreateVirtualHost PROVE SeatInv'
  <2>1. UNCHANGED <<slots, pid, fake, held>> /\ Live' = Live
    BY <1>3 DEF CreateVirtualHost, seatVars, objVars, listVars, Live
  <2> QED  BY <2>1, SeatInvStill DEF SeatInv
<1>4. ASSUME Tick PROVE SeatInv'
  <2>1. /\ UNCHANGED <<objVars, listVars, fake>>
        /\ slots' = slots \/ slots' \in Permuted(SeatsOfKind("player"))
    BY <1>4 DEF Tick, seatVars, hostVars
  <2>2. Live' = Live /\ UNCHANGED <<pid, fake, held>>
    BY <2>1 DEF Live, objVars, listVars
  <2>3. CASE slots' = slots
    BY <2>2, <2>3, SeatInvStill DEF SeatInv
  <2>4. CASE slots' \in Permuted(SeatsOfKind("player"))
    <3>1. SeatsOfKind("player") \in SUBSET Seats
      BY DEF SeatsOfKind
    <3>2. PICK f : IsPermutation(f) /\ slots' = Reordered(slots, f)
      BY <3>1, <2>4, PermutedRearranges
    <3>3. Seated(slots', Live, pid, fake)
      BY <3>2, SeatedReordered DEF SeatInv
    <3> QED  BY <2>2, <3>3, SeatInvKept DEF SeatInv
  <2> QED  BY <2>1, <2>3, <2>4
<1> QED  BY <1>1, <1>2, <1>3, <1>4 DEF UpdateStep

LEMMA SeatInvHolds ==
  ASSUME Undisturbed
  PROVE  Spec => []SeatInv
<1>1. Init => SeatInv
  <2>1. Init => \A s \in Seats : slots[s].pid = 0
    BY SlotPids DEF Init
  <2> QED  BY <2>1 DEF Init, SeatInv, Seated, Live, MayBeHeld
<1>2. TypeOK /\ PidsDistinct /\ SeatInv /\ [Next]_vars => SeatInv'
  <2> SUFFICES ASSUME TypeOK, PidsDistinct, SeatInv, [Next]_vars PROVE SeatInv'
    OBVIOUS
  <2>1. CASE Next
    BY <2>1, SeatInvClient, SeatInvCommand, SeatInvUpdate DEF Next
  <2>2. CASE UNCHANGED vars
    <3>1. UNCHANGED <<slots, pid, fake, held>> /\ Live' = Live
      BY <2>2 DEF vars, Live
    <3> QED  BY <3>1, SeatInvStill DEF SeatInv
  <2> QED  BY <2>1, <2>2
<1> QED  BY <1>1, <1>2, TypeCorrect, PidsAreDistinct, PTL DEF Spec

(* In an undisturbed lobby no slot shows a player who is not there, and no *)
(* two slots show the same: every path that removes a player (leave, kick, *)
(* !open, !close, !comp, displacement by a joiner) keeps the table in step. *)
THEOREM SlotsShowPlayers ==
  ASSUME Undisturbed
  PROVE  Spec => []SeatsAccounted
<1>1. TypeOK /\ SeatInv => SeatsAccounted
  <2> SUFFICES ASSUME TypeOK, SeatInv PROVE SeatsAccounted
    OBVIOUS
  <2>1. \A s \in SeatsOfKind("player") : s \in Seats /\ slots[s].pid # 0
    BY SlotPids DEF SeatsOfKind, TypeOK
  <2>2. Live \subseteq Present
    BY DEF Live, Present, TypeOK
  <2> QED  BY <2>1, <2>2 DEF SeatInv, Seated, SeatsAccounted, Occupants, OccupantsIn
<1> QED  BY <1>1, TypeCorrect, SeatInvHolds, PTL

(* In an undisturbed lobby every player has a slot exactly until something *)
(* throws that player out: no event about one player, found by PID, takes  *)
(* the slot of another.                                                    *)
THEOREM PlayersHaveSlots ==
  ASSUME Undisturbed
  PROVE  Spec => []MembersSeated
<1>1. TypeOK /\ PidsDistinct /\ SeatInv => MembersSeated
  <2> SUFFICES ASSUME TypeOK, PidsDistinct, SeatInv, NEW c \in Present
               PROVE  SeatsOfPid(slots, pid[c]) # {} <=> c \notin doomed
    BY DEF MembersSeated
  <2>1. pid[c] \in Pids /\ pid[c] # fake /\ pid[c] # 0
    BY SlotPids DEF TypeOK, Present, PidsDistinct
  <2>2. ASSUME c \notin doomed PROVE SeatsOfPid(slots, pid[c]) # {}
    BY <2>2 DEF SeatInv, Seated, Live, Present, SeatsOfPid
  <2>3. ASSUME c \in doomed, NEW s \in SeatsOfPid(slots, pid[c]) PROVE FALSE
    <3>1. s \in Seats /\ slots[s].pid = pid[c]
      BY DEF SeatsOfPid
    <3>2. PICK d \in Live : pid[d] = pid[c]
      BY <3>1, <2>1 DEF SeatInv, Seated
    <3>3. d \in Present /\ d # c
      BY <2>3, <3>2 DEF Live, Present, TypeOK
    <3> QED  BY <3>2, <3>3 DEF PidsDistinct
  <2> QED  BY <2>2, <2>3
<1> QED  BY <1>1, TypeCorrect, PidsAreDistinct, SeatInvHolds, PTL

-----------------------------------------------------------------------------
(* The countdown and the hold list.                                        *)

LEMMA RosterStep ==
  ASSUME TypeOK, Next, countdown, countdown', ~NormalCountdown
  PROVE  Present' = Present
<1>1. ASSUME UNCHANGED <<members, left>> PROVE Present' = Present
  BY <1>1 DEF Present
<1>2. ASSUME NEW c \in Conns, Remove(c) PROVE Present' = Present
  <2>1. c \in left
    BY <1>2 DEF Remove, AbortedBy
  <2> QED  BY <1>2, <2>1 DEF Remove, Present
<1>3. CASE ClientStep
  <2>1. ASSUME NEW n \in Names, NEW c \in Conns, Join(n, c) \/ ScoreAccepted(n, c) PROVE FALSE
    BY <2>1 DEF Join, ScoreAccepted
  <2>2. ASSUME NEW n \in Names, ScoreRefused(n) PROVE Present' = Present
    BY <2>2, <1>1 DEF ScoreRefused, objVars
  <2>3. ASSUME NEW c \in Conns, Depart(c) PROVE Present' = Present
    BY <2>3, <1>2 DEF Depart
  <2>4. ASSUME NEW c \in Conns, RefuseScore(c) PROVE FALSE
    BY <2>4 DEF RefuseScore, AbortedBy, Present
  <2>5. ASSUME NEW c, NEW t, PublicSwap(c, t) \/ ChangeTeam(c, t) PROVE Present' = Present
    BY <2>5, <1>1 DEF PublicSwap, ChangeTeam, SwapSeats, objVars
  <2> QED  BY <1>3, <2>1, <2>2, <2>3, <2>4, <2>5 DEF ClientStep
<1>4. CASE CommandStep
  <2>1. ASSUME NEW c, Kick(c) PROVE Present' = Present
    BY <2>1, <1>1 DEF Kick
  <2>2. ASSUME NEW s, NEW rec, SetSeat(s, rec) PROVE Present' = Present
    BY <2>2, <1>1 DEF SetSeat
  <2>3. ASSUME NEW from, NEW rec, SetAll(from, rec) PROVE Present' = Present
    BY <2>3, <1>1 DEF SetAll, objVars
  <2>4. ASSUME NEW a, NEW b, Swap(a, b) PROVE Present' = Present
    BY <2>4, <1>1 DEF Swap, SwapSeats, objVars
  <2>5. ASSUME Shuffle \/ BalanceSlots PROVE Present' = Present
    BY <2>5, <1>1 DEF Shuffle, ShuffleSlots, BalanceSlots, objVars
  <2>6. ASSUME NEW n, NEW s, Hold(n, s) \/ Unhold(n) PROVE Present' = Present
    BY <2>6, <1>1 DEF Hold, Unhold, objVars
  <2>7. ASSUME CreateFakePlayer \/ DeleteFakePlayer PROVE FALSE
    BY <2>7 DEF CreateFakePlayer, DeleteFakePlayer
  <2>8. ASSUME StartCountDown \/ Abort PROVE FALSE
    BY <2>8 DEF StartCountDown, Abort
  <2> QED
    BY <1>4, <2>1, <2>2, <2>3, <2>4, <2>5, <2>6, <2>7, <2>8
       DEF CommandStep, OpenSeat, CloseSeat, ComputerSeat, OpenAll, CloseAll
<1>5. CASE UpdateStep
  <2>1. ASSUME NEW c \in Conns, Reap(c) PROVE Present' = Present
    BY <2>1, <1>2 DEF Reap
  <2>2. ASSUME NEW c, KickUnspoofed(c) PROVE Present' = Present
    BY <2>2, <1>1 DEF KickUnspoofed
  <2>3. ASSUME CreateVirtualHost \/ Tick PROVE Present' = Present
    BY <2>3, <1>1 DEF CreateVirtualHost, Tick, objVars
  <2> QED  BY <1>5, <2>1, <2>2, <2>3 DEF UpdateStep
<1> QED  BY <1>3, <1>4, <1>5 DEF Next

(* The players a countdown ends with are those it began with: a join is    *)
(* refused, also one that was asked for before (score check), and every    *)
(* way to lose a player aborts it (EventPlayerDeleted).                    *)
THEOREM RosterStaysFrozen == Spec => RosterFrozen
<1>1. TypeOK /\ [Next]_vars =>
        [countdown /\ countdown' /\ ~NormalCountdown => Present' = Present]_vars
  BY RosterStep
<1> QED  BY <1>1, TypeCorrect, PTL DEF Spec, RosterFrozen

(* While a name is on the hold list the player of that name is reserved,   *)
(* whether it was held before or after the player joined (AddToReserved).  *)
THEOREM HeldStayReserved == Spec => []HeldAreReserved
<1>1. Init => HeldAreReserved
  BY DEF Init, HeldAreReserved
<1>2. TypeOK /\ HeldAreReserved /\ [Next]_vars => HeldAreReserved'
  <2> SUFFICES ASSUME TypeOK, HeldAreReserved, [Next]_vars PROVE HeldAreReserved'
    OBVIOUS
  <2>1. ASSUME UNCHANGED <<members, name, reserved, held>> PROVE HeldAreReserved'
    BY <2>1 DEF HeldAreReserved
  <2>2. ASSUME NEW c \in Conns, Remove(c) PROVE HeldAreReserved'
    BY <2>2, NamesAssumption DEF Remove, HeldAreReserved, TypeOK
  <2>3. ASSUME NEW n \in Names, NEW c \in Conns, NEW second \in BOOLEAN, Admit(n, c, second)
        PROVE  HeldAreReserved'
    <3>1. PICK s \in TargetSeats(n) : RefuseBanned(n, s) \/ TakeSeat(n, c, s)
      BY <2>3 DEF Admit
    <3>2. CASE RefuseBanned(n, s)
      BY <3>2, <2>1 DEF RefuseBanned, listVars
    <3>3. CASE TakeSeat(n, c, s)
      <4>1. /\ members' = members \cup {c} /\ c \notin members /\ held' = held
            /\ name' = [name EXCEPT ![c] = n]
            /\ reserved' = IF n \in Privileged THEN reserved \cup {c} ELSE reserved
        BY <3>3 DEF TakeSeat
      <4>2. name'[c] = n /\ \A d \in members : name'[d] = name[d]
        BY <4>1 DEF TypeOK
      <4> QED  BY <4>1, <4>2 DEF HeldAreReserved, Privileged
    <3> QED  BY <3>1, <3>2, <3>3
  <2>4. CASE ClientStep
    <3>1. ASSUME NEW n \in Names, NEW c \in Conns, Join(n, c) \/ ScoreAccepted(n, c)
          PROVE  HeldAreReserved'
      BY <3>1, <2>1, <2>3 DEF Join, ScoreAccepted, objVars, listVars
    <3>2. ASSUME NEW n \in Names, ScoreRefused(n) PROVE HeldAreReserved'
      BY <3>2, <2>1 DEF ScoreRefused, objVars, listVars
    <3>3. ASSUME NEW c \in Conns, Depart(c) \/ RefuseScore(c) PROVE HeldAreReserved'
      BY <3>3, <2>1, <2>2 DEF Depart, RefuseScore, listVars
    <3>4. ASSUME NEW c, NEW t, PublicSwap(c, t) \/ ChangeTeam(c, t) PROVE HeldAreReserved'
      BY <3>4, <2>1 DEF PublicSwap, ChangeTeam, SwapSeats, objVars, listVars
    <3> QED  BY <2>4, <3>1, <3>2, <3>3, <3>4 DEF ClientStep
  <2>5. CASE CommandStep
    <3>1. ASSUME NEW c, Kick(c) PROVE HeldAreReserved'
      BY <3>1, <2>1 DEF Kick, listVars
    <3>2. ASSUME NEW s, NEW rec, SetSeat(s, rec) PROVE HeldAreReserved'
      BY <3>2, <2>1 DEF SetSeat, listVars
    <3>3. ASSUME NEW from, NEW rec, SetAll(from, rec) PROVE HeldAreReserved'
      BY <3>3, <2>1 DEF SetAll, objVars, listVars
    <3>4. ASSUME NEW a, NEW b, Swap(a, b) PROVE HeldAreReserved'
      BY <3>4, <2>1 DEF Swap, SwapSeats, objVars, listVars
    <3>5. ASSUME Shuffle \/ BalanceSlots PROVE HeldAreReserved'
      BY <3>5, <2>1 DEF Shuffle, ShuffleSlots, BalanceSlots, objVars, listVars
    <3>6. ASSUME NEW n, NEW s, Hold(n, s) PROVE HeldAreReserved'
      BY <3>6 DEF Hold, HeldAreReserved, objVars
    <3>7. ASSUME NEW n, Unhold(n) PROVE HeldAreReserved'
      BY <3>7 DEF Unhold, HeldAreReserved, objVars
    <3>8. ASSUME CreateFakePlayer \/ DeleteFakePlayer PROVE HeldAreReserved'
      BY <3>8, <2>1 DEF CreateFakePlayer, DeleteFakePlayer, objVars, listVars
    <3>9. ASSUME StartCountDown \/ Abort PROVE HeldAreReserved'
      BY <3>9, <2>1 DEF StartCountDown, Abort, objVars, listVars
    <3> QED
      BY <2>5, <3>1, <3>2, <3>3, <3>4, <3>5, <3>6, <3>7, <3>8, <3>9
         DEF CommandStep, OpenSeat, CloseSeat, ComputerSeat, OpenAll, CloseAll
  <2>6. CASE UpdateStep
    <3>1. ASSUME NEW c \in Conns, Reap(c) PROVE HeldAreReserved'
      BY <3>1, <2>2 DEF Reap
    <3>2. ASSUME NEW c, KickUnspoofed(c) PROVE HeldAreReserved'
      BY <3>2, <2>1 DEF KickUnspoofed, listVars
    <3>3. ASSUME CreateVirtualHost \/ Tick PROVE HeldAreReserved'
      BY <3>3, <2>1 DEF CreateVirtualHost, Tick, objVars, listVars
    <3> QED  BY <2>6, <3>1, <3>2, <3>3 DEF UpdateStep
  <2>7. CASE UNCHANGED vars
    BY <2>7, <2>1 DEF vars
  <2> QED  BY <2>4, <2>5, <2>6, <2>7 DEF Next
<1> QED  BY <1>1, <1>2, TypeCorrect, PTL DEF Spec


-----------------------------------------------------------------------------
(* Who may be thrown out of a full lobby.                                  *)

\* the hold list is not used against the owner and the admins: !unhold of a
\* name that is not on it takes the player's protection away
NoAdminUnheld == Holdable \cap (Admins \cup {Owner}) = {}

AdminsReserved == \A c \in members : name[c] \in Admins \cup {Owner} => c \in reserved

LEMMA AdminsStayReserved ==
  ASSUME NoAdminUnheld
  PROVE  Spec => []AdminsReserved
<1>1. Init => AdminsReserved
  BY DEF Init, AdminsReserved
<1>2. TypeOK /\ AdminsReserved /\ [Next]_vars => AdminsReserved'
  <2> SUFFICES ASSUME TypeOK, AdminsReserved, [Next]_vars PROVE AdminsReserved'
    OBVIOUS
  <2>1. ASSUME UNCHANGED <<members, name, reserved>> PROVE AdminsReserved'
    BY <2>1 DEF AdminsReserved
  <2>2. ASSUME NEW c \in Conns, Remove(c) PROVE AdminsReserved'
    BY <2>2 DEF Remove, AdminsReserved, TypeOK
  <2>3. ASSUME NEW n \in Names, NEW c \in Conns, NEW second \in BOOLEAN, Admit(n, c, second)
        PROVE  AdminsReserved'
    <3>1. PICK s \in TargetSeats(n) : RefuseBanned(n, s) \/ TakeSeat(n, c, s)
      BY <2>3 DEF Admit
    <3>2. CASE RefuseBanned(n, s)
      BY <3>2, <2>1 DEF RefuseBanned, listVars
    <3>3. CASE TakeSeat(n, c, s)
      <4>1. /\ members' = members \cup {c} /\ c \notin members
            /\ name' = [name EXCEPT ![c] = n]
            /\ reserved' = IF n \in Privileged THEN reserved \cup {c} ELSE reserved
        BY <3>3 DEF TakeSeat
      <4>2. name'[c] = n /\ \A d \in members : name'[d] = name[d]
        BY <4>1 DEF TypeOK
      <4> QED  BY <4>1, <4>2 DEF AdminsReserved, Privileged
    <3> QED  BY <3>1, <3>2, <3>3
  <2>4. CASE ClientStep
    <3>1. ASSUME NEW n \in Names, NEW c \in Conns, Join(n, c) \/ ScoreAccepted(n, c)
          PROVE  AdminsReserved'
      BY <3>1, <2>1, <2>3 DEF Join, ScoreAccepted, objVars, listVars
    <3>2. ASSUME NEW n \in Names, ScoreRefused(n) PROVE AdminsReserved'
      BY <3>2, <2>1 DEF ScoreRefused, objVars, listVars
    <3>3. ASSUME NEW c \in Conns, Depart(c) \/ RefuseScore(c) PROVE AdminsReserved'
      BY <3>3, <2>1, <2>2 DEF Depart, RefuseScore, listVars
    <3>4. ASSUME NEW c, NEW t, PublicSwap(c, t) \/ ChangeTeam(c, t) PROVE AdminsReserved'
      BY <3>4, <2>1 DEF PublicSwap, ChangeTeam, SwapSeats, objVars, listVars
    <3> QED  BY <2>4, <3>1, <3>2, <3>3, <3>4 DEF ClientStep
  <2>5. CASE CommandStep
    <3>1. ASSUME NEW c, Kick(c) PROVE AdminsReserved'
      BY <3>1, <2>1 DEF Kick, listVars
    <3>2. ASSUME NEW s, NEW rec, SetSeat(s, rec) PROVE AdminsReserved'
      BY <3>2, <2>1 DEF SetSeat, listVars
    <3>3. ASSUME NEW from, NEW rec, SetAll(from, rec) PROVE AdminsReserved'
      BY <3>3, <2>1 DEF SetAll, objVars, listVars
    <3>4. ASSUME NEW a, NEW b, Swap(a, b) PROVE AdminsReserved'
      BY <3>4, <2>1 DEF Swap, SwapSeats, objVars, listVars
    <3>5. ASSUME Shuffle \/ BalanceSlots PROVE AdminsReserved'
      BY <3>5, <2>1 DEF Shuffle, ShuffleSlots, BalanceSlots, objVars, listVars
    <3>6. ASSUME NEW n, NEW s, Hold(n, s) PROVE AdminsReserved'
      BY <3>6 DEF Hold, AdminsReserved, objVars
    <3>7. ASSUME NEW n \in Holdable, Unhold(n) PROVE AdminsReserved'
      BY <3>7, NoAdminUnheld DEF Unhold, AdminsReserved, NoAdminUnheld, objVars
    <3>8. ASSUME CreateFakePlayer \/ DeleteFakePlayer PROVE AdminsReserved'
      BY <3>8, <2>1 DEF CreateFakePlayer, DeleteFakePlayer, objVars, listVars
    <3>9. ASSUME StartCountDown \/ Abort PROVE AdminsReserved'
      BY <3>9, <2>1 DEF StartCountDown, Abort, objVars, listVars
    <3> QED
      BY <2>5, <3>1, <3>2, <3>3, <3>4, <3>5, <3>6, <3>7, <3>8, <3>9
         DEF CommandStep, OpenSeat, CloseSeat, ComputerSeat, OpenAll, CloseAll
  <2>6. CASE UpdateStep
    <3>1. ASSUME NEW c \in Conns, Reap(c) PROVE AdminsReserved'
      BY <3>1, <2>2 DEF Reap
    <3>2. ASSUME NEW c, KickUnspoofed(c) PROVE AdminsReserved'
      BY <3>2, <2>1 DEF KickUnspoofed, listVars
    <3>3. ASSUME CreateVirtualHost \/ Tick PROVE AdminsReserved'
      BY <3>3, <2>1 DEF CreateVirtualHost, Tick, objVars, listVars
    <3> QED  BY <2>6, <3>1, <3>2, <3>3 DEF UpdateStep
  <2>7. CASE UNCHANGED vars
    BY <2>7, <2>1 DEF vars
  <2> QED  BY <2>4, <2>5, <2>6, <2>7 DEF Next
<1> QED  BY <1>1, <1>2, TypeCorrect, PTL DEF Spec

\* the rules on who may be displaced, spread over the three slot searches
LEMMA DisplacedByRight ==
  ASSUME TypeOK, PidsDistinct, AdminsReserved,
         NEW n \in Names, NEW s \in TargetSeats(n), NEW c \in Displaced(s)
  PROVE  /\ SeatsOfKind("open") = {} /\ SeatsOfKind("closed") = {}
         /\ c \in reserved => n \in Admins \cup {Owner}
         /\ name[c] \in Admins \cup {Owner} => n = Owner
<1>1. SeatsOfKind("open") = {} /\ c \in Occupants(s)
  BY DEF Displaced
<1>2. n \in Privileged
  BY <1>1, TargetWhenOpen
<1>3. /\ c \in Present /\ c \in members
      /\ \A d \in Occupants(s) : d = c
  BY <1>1 DEF Occupants, OccupantsIn, PidsDistinct, Present
<1>4. s \in Seats /\ slots[s].kind # "closed"
  <2>1. s \in Seats /\ slots[s] \in Slot
    BY TargetIsSeat DEF TypeOK
  <2>2. pid[c] \in Pids \cup {NoPid} /\ pid[c] = slots[s].pid
    BY <1>1, <1>3 DEF TypeOK, Occupants, OccupantsIn
  <2>3. slots[s].kind = "player"
    BY <2>1, <2>2, SlotPids
  <2> QED  BY <2>1, <2>3
<1>5. PICK found \in FoundSeats(n) : s = IF found = NoSeat /\ n = Owner THEN OwnerSeat ELSE found
  BY DEF TargetSeats
<1>6. SeatsOfKind("closed") = {}
  <2>1. SUFFICES ASSUME SeatsOfKind("closed") # {} PROVE FALSE
    OBVIOUS
  <2>2. SeatsOfKind("closed") \in SUBSET Seats
    BY DEF SeatsOfKind
  <2>3. Min(SeatsOfKind("closed")) \in SeatsOfKind("closed")
    BY <2>1, <2>2, SeatFacts
  <2>4. found = Min(SeatsOfKind("closed"))
    BY <1>1, <1>2, <1>5, <2>1 DEF FoundSeats
  <2>5. s = found
    BY <1>5, <2>2, <2>3, <2>4, SeatFacts
  <2> QED  BY <1>4, <2>3, <2>4, <2>5 DEF SeatsOfKind
<1>7. found \in OccupiedChoice(n)
  BY <1>1, <1>2, <1>5, <1>6 DEF FoundSeats
<1>8. CASE found = NoSeat
  <2>1. s # NoSeat
    BY <1>4, SeatFacts
  <2>2. n = Owner
    BY <1>5, <1>8, <2>1
  <2> QED  BY <1>1, <1>6, <2>2
<1>9. CASE found # NoSeat
  <2>1. s = found
    BY <1>5, <1>9
  <2>2. ASSUME NEW S \in SUBSET Seats, Highest(S) = found PROVE found \in S
    <3>1. S \ {0} # {} /\ found = Max(S \ {0})
      BY <1>9, <2>2 DEF Highest
    <3> QED  BY <3>1, SeatFacts
  <2>3. Displaceable \in SUBSET Seats /\ NonAdminSeats \in SUBSET Seats
    BY DEF Displaceable, NonAdminSeats
  <2>4. s \in Displaceable \/ (n \in Admins /\ s \in NonAdminSeats)
    BY <1>7, <2>1, <2>2, <2>3 DEF OccupiedChoice
  <2>5. CASE s \in Displaceable
    <3>1. c \notin reserved
      BY <1>3, <2>5 DEF Displaceable
    <3> QED  BY <1>1, <1>3, <1>6, <3>1 DEF AdminsReserved
  <2>6. CASE n \in Admins /\ s \in NonAdminSeats
    <3>1. name[c] \notin Admins \cup {Owner}
      BY <1>3, <2>6 DEF NonAdminSeats
    <3> QED  BY <1>1, <1>6, <2>6, <3>1
  <2> QED  BY <2>4, <2>5, <2>6
<1> QED  BY <1>8, <1>9, <1>1, <1>6

(* When no admin was taken off the hold list a player is thrown out for a  *)
(* joiner from a full lobby only, a reserved one only for the owner or an  *)
(* admin, and an admin only for the owner (EventPlayerJoined).             *)
THEOREM DisplacementIsFair ==
  ASSUME NoAdminUnheld
  PROVE  Spec => DisplacementRule
<1> DEFINE Fair ==
      \A c \in members, d \in Conns :
        c \in left' \ left /\ d \in members' \ members =>
          /\ SeatsOfKind("open") = {} /\ SeatsOfKind("closed") = {}
          /\ c \in reserved => name'[d] \in Admins \cup {Owner}
          /\ name[c] \in Admins \cup {Owner} => name'[d] = Owner
<1>1. TypeOK /\ PidsDistinct /\ AdminsReserved /\ [Next]_vars => [Fair]_vars
  <2> SUFFICES ASSUME TypeOK, PidsDistinct, AdminsReserved, Next,
                      NEW b \in members, NEW d \in members' \ members, b \in left' \ left
               PROVE  /\ SeatsOfKind("open") = {} /\ SeatsOfKind("closed") = {}
                      /\ b \in reserved => name'[d] \in Admins \cup {Owner}
                      /\ name[b] \in Admins \cup {Owner} => name'[d] = Owner
    OBVIOUS
  <2>1. Arrival
    BY StepKinds DEF NobodyNew, CreateFakePlayer, CreateVirtualHost, objVars
  <2>2. PICK n \in Names, c \in Conns : \E s \in TargetSeats(n) : TakeSeat(n, c, s)
    BY <2>1 DEF Arrival
  <2>3. PICK s \in TargetSeats(n) : TakeSeat(n, c, s)
    BY <2>2
  <2>4. /\ members' = members \cup {c}
        /\ left' = left \cup Displaced(s)
        /\ name' = [name EXCEPT ![c] = n]
    BY <2>3 DEF TakeSeat
  <2>5. d = c /\ b \in Displaced(s) /\ name'[d] = n
    BY <2>4 DEF TypeOK
  <2> QED  BY <2>5, DisplacedByRight
<1> QED  BY <1>1, TypeCorrect, PidsAreDistinct, AdminsStayReserved, PTL DEF Spec, DisplacementRule

-----------------------------------------------------------------------------
(* The owner's slot.                                                       *)

\* the table new has the slot hi of old at lo; the other slots that are not
\* computers' keep their order
Advanced(old, new, lo, hi) ==
  /\ new \in [Seats -> Slot] /\ HumanSeats(new) = HumanSeats(old)
  /\ \A x \in HumanSeats(old) \ {hi} :
       \E y \in Seats \ {lo} :
         new[y] = old[x] /\ \A z \in HumanSeats(old) : x < z => y <= z
  /\ \A y \in Seats \ {lo} : \E x \in Seats : x <= y /\ new[y] = old[x]

LEMMA AdvancedNot ==
  ASSUME NEW sl \in [Seats -> Slot], NEW s
  PROVE  Advanced(sl, sl, s, s)
<1>1. HumanSeats(sl) \in SUBSET Seats /\ Seats \in SUBSET Nat
  BY SeatFacts DEF HumanSeats
<1>2. \A x, z \in Seats : x < z => x <= z
  BY <1>1
<1>3. \A x \in Seats : x <= x
  BY <1>1
<1>4. ASSUME NEW x \in HumanSeats(sl) \ {s}
      PROVE  \E y \in Seats \ {s} : sl[y] = sl[x] /\ \A z \in HumanSeats(sl) : x < z => y <= z
  <2>1. x \in Seats \ {s} /\ \A z \in HumanSeats(sl) : x < z => x <= z
    BY <1>1, <1>2
  <2> QED  BY <2>1
<1> QED  BY <1>3, <1>4 DEF Advanced

(* The rotation moves each of the others to the next slot that is not a    *)
(* computer's, which is no further than the one that was next.             *)
LEMMA RotateAdvances ==
  ASSUME NEW sl \in [Seats -> Slot], NEW hi \in HumanSeats(sl),
         NEW lo, lo = Min(HumanSeats(sl)), lo # hi
  PROVE  Advanced(sl, Rotate(sl, lo, hi), lo, hi)
<1> DEFINE H == HumanSeats(sl)
           R == H \cap (lo .. hi)
           below(s) == H \cap (lo .. s - 1)
           above(s) == H \cap (s + 1 .. hi)
           new == Rotate(sl, lo, hi)
<1>1. /\ H \in SUBSET Seats /\ lo \in H /\ hi \in H
      /\ \A x \in H : lo <= x
      /\ \A x \in Seats : x \in Nat
      /\ lo < hi
  <2>1. H \in SUBSET Seats /\ hi \in H
    BY DEF HumanSeats
  <2>2. lo \in H /\ \A x \in H : lo <= x
    BY <2>1, SeatFacts
  <2>3. \A x \in Seats : x \in Nat
    BY SeatFacts
  <2> QED  BY <2>1, <2>2, <2>3
<1>2. \A s \in Seats : new[s] = IF s \notin R THEN sl[s]
                               ELSE IF s = lo THEN sl[hi] ELSE sl[Max(below(s))]
  BY DEF Rotate
<1>3. ASSUME NEW s \in R, s # lo
      PROVE  /\ Max(below(s)) \in H /\ Max(below(s)) < s
             /\ \A x \in below(s) : x <= Max(below(s))
  <2>1. lo \in below(s)
    BY <1>1, <1>3
  <2>2. below(s) \in SUBSET Seats
    BY <1>1
  <2>3. Max(below(s)) \in below(s) /\ \A x \in below(s) : x <= Max(below(s))
    <3> HIDE DEF below
    <3> QED  BY <2>1, <2>2, SeatFacts
  <2>4. \A x \in below(s) : x \in H /\ x < s
    BY <1>1
  <2> QED  BY <2>3, <2>4
<1>4. ASSUME NEW s \in Seats \ {lo}
      PROVE  \E x \in Seats : x <= s /\ new[s] = sl[x] /\ (s \in H <=> x \in H)
  <2>1. CASE s \notin R
    <3>1. s \in Seats /\ s <= s
      BY <1>1
    <3>2. new[s] = sl[s]
      <4> HIDE DEF new, R
      <4> QED  BY <1>2, <2>1
    <3> QED  BY <3>1, <3>2
  <2>2. CASE s \in R
    <3>1. new[s] = sl[Max(below(s))]
      BY <1>2, <2>2
    <3>2. Max(below(s)) \in H /\ Max(below(s)) < s
      BY <1>3, <2>2
    <3>3. Max(below(s)) \in Seats /\ Max(below(s)) <= s
      BY <1>1, <3>2
    <3> HIDE DEF new, below
    <3> QED  BY <2>2, <3>1, <3>2, <3>3
  <2> QED  BY <2>1, <2>2
<1>5. new[lo] = sl[hi]
  <2>1. lo \in R /\ lo \in Seats
    BY <1>1
  <2> HIDE DEF new, R
  <2> QED  BY <1>2, <2>1
<1>6. ASSUME NEW x \in H \ {hi}
      PROVE  \E y \in Seats \ {lo} : new[y] = sl[x] /\ \A z \in H : x < z => y <= z
  <2>1. CASE x \notin R
    <3>1. x \in Seats \ {lo} /\ \A z \in H : x < z => x <= z
      BY <1>1, <2>1
    <3>2. new[x] = sl[x]
      <4> HIDE DEF new, R
      <4> QED  BY <1>2, <2>1, <3>1
    <3> HIDE DEF new
    <3> QED  BY <3>1, <3>2
  <2>2. CASE x \in R
    <3> DEFINE y == Min(above(x))
    <3>1. hi \in above(x) /\ above(x) \in SUBSET Seats
      BY <1>1, <2>2
    <3>2. y \in above(x) /\ \A z \in above(x) : y <= z
      <4> HIDE DEF above
      <4> QED  BY <3>1, SeatFacts
    <3>3. y \in R /\ y # lo /\ x < y /\ y <= hi /\ x \in below(y)
      BY <1>1, <2>2, <3>2
    <3>4. Max(below(y)) = x
      <4> DEFINE m == Max(below(y))
      <4>1. m \in H /\ m < y /\ x <= m
        BY <1>3, <3>3
      <4>2. x < m => m \in above(x)
        BY <1>1, <3>3, <4>1
      <4>3. m \in above(x) => y <= m
        BY <3>2
      <4> HIDE DEF m, y
      <4>4. m \in Nat /\ x \in Nat /\ y \in Nat
        BY <1>1, <3>3, <4>1
      <4> QED  BY <4>1, <4>2, <4>3, <4>4 DEF m
    <3>5. new[y] = sl[x]
      BY <1>1, <1>2, <3>3, <3>4
    <3>6. ASSUME NEW z \in H, x < z PROVE y <= z
      <4>1. z <= hi => z \in above(x)
        BY <1>1, <2>2, <3>6
      <4> HIDE DEF above
      <4> QED  BY <1>1, <3>2, <3>3, <4>1
    <3> HIDE DEF y
    <3> QED  BY <1>1, <3>3, <3>5, <3>6
  <2> QED  BY <2>1, <2>2
<1>7. new \in [Seats -> Slot]
  <2>1. \A s \in Seats : new[s] \in Slot
    BY <1>1, <1>4, <1>5
  <2>2. new = [s \in Seats |-> new[s]]
    BY DEF Rotate
  <2> HIDE DEF new
  <2> QED  BY <2>1, <2>2
<1>8. HumanSeats(new) = H
  <2>1. \A s \in Seats : new[s].kind # "computer" <=> s \in H
    <3>1. \A x \in Seats : sl[x].kind # "computer" <=> x \in H
      BY DEF HumanSeats
    <3> HIDE DEF H, new
    <3> QED  BY <1>1, <1>4, <1>5, <3>1
  <2> HIDE DEF new
  <2> QED  BY <2>1 DEF HumanSeats
<1> HIDE DEF new
<1>9. Advanced(sl, new, lo, hi)
  BY <1>4, <1>6, <1>7, <1>8 DEF Advanced
<1> QED  BY <1>9 DEF new

(* An owner without a held slot gets the first slot that is not a          *)
(* computer's, or the slot found when there are computers only.            *)
LEMMA OwnerPlaced ==
  ASSUME TypeOK, Owner \notin held, NEW s \in TargetSeats(Owner)
  PROVE  LET end == Placement(Owner, s).end
         IN  /\ Advanced(slots, end.slots, end.seat, s) /\ end.seat \in Seats
             /\ \A x \in HumanSeats(slots) : end.seat <= x
             /\ end.seat \in HumanSeats(slots) \/ HumanSeats(slots) = {}
<1> DEFINE H == HumanSeats(slots)
           P == Present \ Displaced(s)
           s1 == PlaceOwner(TableAt(s), Owner)
<1>1. s \in Seats /\ (s \in H \/ H = {}) /\ H \in SUBSET Seats /\ slots \in [Seats -> Slot]
  BY TargetIsSeat DEF HumanSeats, TypeOK
<1>2. /\ Advanced(slots, s1.slots, s1.seat, s) /\ s1.seat \in Seats
      /\ \A x \in H : s1.seat <= x
      /\ s1.seat \in H \/ H = {}
  <2>1. CASE H = {} \/ Min(H) = s
    <3>1. s1.slots = slots /\ s1.seat = s
      BY <2>1 DEF PlaceOwner, TableAt
    <3>2. Advanced(slots, slots, s, s)
      BY <1>1, AdvancedNot
    <3>3. \A x \in H : s <= x
      <4> HIDE DEF H
      <4> QED  BY <1>1, <2>1, SeatFacts
    <3> HIDE DEF s1, H
    <3> QED  BY <1>1, <3>1, <3>2, <3>3
  <2>2. CASE H # {} /\ Min(H) # s
    <3>1. s1.slots = Rotate(slots, Min(H), s) /\ s1.seat = Min(H)
      BY <2>2 DEF PlaceOwner, TableAt
    <3>2. Min(H) \in H /\ \A x \in H : Min(H) <= x
      <4> HIDE DEF H
      <4> QED  BY <1>1, <2>2, SeatFacts
    <3>3. Advanced(slots, Rotate(slots, Min(H), s), Min(H), s)
      BY <1>1, <2>2, RotateAdvances
    <3> HIDE DEF s1, H
    <3> QED  BY <1>1, <3>1, <3>2, <3>3
  <2> QED  BY <2>1, <2>2
<1> HIDE DEF s1
<1>3. PlaceAdmin(s1, P, Owner) = s1
  <2> DEFINE ordinary == OrdinarySeats(s1.slots, P)
  <2>1. ordinary \subseteq HumanSeats(s1.slots) /\ HumanSeats(s1.slots) = H
    BY <1>2 DEF OrdinarySeats, HumanSeats, Advanced
  <2>2. ordinary # {} => Min(ordinary) \in H /\ ~(Min(ordinary) < s1.seat)
    <3> HIDE DEF ordinary, H
    <3>1. ordinary # {} => Min(ordinary) \in ordinary
      BY <1>1, <2>1, SeatFacts
    <3>2. Seats \in SUBSET Nat
      BY SeatFacts
    <3>3. ASSUME ordinary # {} PROVE Min(ordinary) \in H /\ ~(Min(ordinary) < s1.seat)
      <4> DEFINE m == Min(ordinary)
      <4>1. m \in H
        BY <2>1, <3>1, <3>3
      <4> HIDE DEF m
      <4>2. m \in Nat /\ s1.seat \in Nat /\ s1.seat <= m
        BY <1>1, <1>2, <3>2, <4>1
      <4>3. m \in H /\ ~(m < s1.seat)
        BY <4>1, <4>2
      <4> QED  BY <4>3 DEF m
    <3> QED  BY <3>3
  <2> QED  BY <2>2 DEF PlaceAdmin
<1>4. PlaceHeld(s1, P, Owner) = s1
  BY DEF PlaceHeld, SeatHeldFor
<1>5. Placement(Owner, s).end = s1
  BY <1>3, <1>4 DEF Placement, s1, TableAt
<1> HIDE DEF H
<1> QED  BY <1>2, <1>5 DEF H

(* No player who stays is in the slot that is found.                       *)
LEMMA FoundIsVacated ==
  ASSUME TypeOK, NEW n, NEW s \in TargetSeats(n), NEW c \in Present \ Displaced(s),
         pid[c] \in Pids
  PROVE  slots[s].pid # pid[c]
<1>1. CASE SeatsOfKind("open") # {}
  <2>1. slots[s].kind = "open" /\ slots[s] \in Slot
    BY <1>1, TargetWhenOpen, TargetIsSeat DEF TypeOK
  <2> QED  BY <2>1, SlotPids
<1>2. CASE SeatsOfKind("open") = {}
  BY <1>2 DEF Displaced, Occupants, OccupantsIn
<1> QED  BY <1>1, <1>2

(* The order of two players' slots outlives the owner's arrival.           *)
LEMMA OrderKept ==
  ASSUME NEW old \in [Seats -> Slot], NEW new \in [Seats -> Slot], NEW lo \in Seats,
         NEW hi \in Seats, Advanced(old, new, lo, hi),
         NEW p \in Pids, NEW q \in Pids, NEW r \in Pids, p # r, q # r,
         old[hi].pid # p, old[hi].pid # q,
         SeatOfPid(old, p) < SeatOfPid(old, q)
  PROVE  SeatOfPid([new EXCEPT ![lo] = PlayerSlot(r)], p)
           <= SeatOfPid([new EXCEPT ![lo] = PlayerSlot(r)], q)
<1> DEFINE after == [new EXCEPT ![lo] = PlayerSlot(r)]
<1>1. \A s \in Seats \ {lo} : after[s] = new[s]
  OBVIOUS
<1>2. after[lo].pid = r
  BY SlotPids
<1>3. ASSUME NEW sl, NEW k
      PROVE  /\ SeatsOfPid(sl, k) = {} => SeatOfPid(sl, k) = NoSeat
             /\ SeatsOfPid(sl, k) # {} =>
                  /\ SeatOfPid(sl, k) \in Seats /\ sl[SeatOfPid(sl, k)].pid = k
             /\ \A s \in Seats : sl[s].pid = k => SeatOfPid(sl, k) <= s
  <2>1. SeatsOfPid(sl, k) \in SUBSET Seats
    BY DEF SeatsOfPid
  <2>2. SeatsOfPid(sl, k) # {} => /\ Min(SeatsOfPid(sl, k)) \in SeatsOfPid(sl, k)
                                  /\ \A s \in SeatsOfPid(sl, k) : Min(SeatsOfPid(sl, k)) <= s
    BY <2>1, SeatFacts
  <2> QED  BY <2>2 DEF SeatOfPid, SeatsOfPid
<1> HIDE DEF after
<1>4. \A s \in Seats : s \in Nat /\ s < NoSeat /\ NoSeat \in Nat
  BY SeatFacts DEF NoSeat
<1>5. \A s \in Seats, k \in Pids : old[s].pid = k => s \in HumanSeats(old)
  <2>1. \A x \in Slot : x.pid # 0 => x.kind # "computer"
    BY SlotPids
  <2> QED  BY <2>1, SlotPids DEF HumanSeats
<1> DEFINE x == SeatOfPid(old, p)
           y == SeatOfPid(after, q)
<1>6. SeatsOfPid(old, p) # {}
  <2>1. SeatsOfPid(old, p) = {} => x = NoSeat
    BY <1>3
  <2>2. SeatOfPid(old, q) = NoSeat \/ SeatOfPid(old, q) \in Seats
    BY <1>3
  <2> QED  BY <1>4, <2>1, <2>2
<1>7. x \in Seats /\ old[x].pid = p
  BY <1>3, <1>6
<1>8. x \in HumanSeats(old) \ {hi}
  BY <1>5, <1>7
<1> HIDE DEF x
<1>9. PICK v \in Seats \ {lo} :
        new[v] = old[x] /\ \A z \in HumanSeats(old) : x < z => v <= z
  BY <1>8 DEF Advanced
<1>10. SeatOfPid(after, p) <= v /\ v \in Seats
  <2>1. after[v].pid = p
    BY <1>1, <1>7, <1>9
  <2> QED  BY <1>3, <2>1
<1>11. SeatOfPid(after, p) \in Seats
  <2>1. SeatsOfPid(after, p) # {}
    BY <1>1, <1>7, <1>9 DEF SeatsOfPid
  <2> QED  BY <1>3, <2>1
<1>12. CASE SeatsOfPid(after, q) = {}
  <2>1. y = NoSeat
    BY <1>3, <1>12
  <2> QED  BY <1>4, <1>11, <2>1 DEF after
<1>13. CASE SeatsOfPid(after, q) # {}
  <2>1. y \in Seats /\ after[y].pid = q
    BY <1>3, <1>13
  <2>2. y # lo
    BY <1>2, <2>1
  <2> HIDE DEF y
  <2>3. PICK u \in Seats : u <= y /\ new[y] = old[u]
    BY <2>1, <2>2 DEF Advanced
  <2>4. old[u].pid = q
    BY <1>1, <2>1, <2>2, <2>3
  <2>5. u \in HumanSeats(old) /\ SeatOfPid(old, q) <= u
    BY <1>3, <1>5, <2>4
  <2>6. SeatOfPid(old, q) \in Seats
    <3>1. SeatsOfPid(old, q) # {}
      BY <2>4 DEF SeatsOfPid
    <3> QED  BY <1>3, <3>1
  <2>7. x < u
    BY <1>4, <1>7, <2>5, <2>6 DEF x
  <2>8. v <= u
    BY <1>9, <2>5, <2>7
  <2>9. SeatOfPid(after, p) <= y
    BY <1>4, <1>10, <1>11, <2>1, <2>3, <2>8
  <2> QED  BY <2>9 DEF after, y
<1> QED  BY <1>12, <1>13

(* An owner who joins gets the first slot that is not a computer's, unless *)
(* a slot is held for him, and nobody is overtaken by somebody else: the   *)
(* exchanges for admins and held players do not apply (EventPlayerJoined,  *)
(* the loop that moves the owner up).                                      *)
THEOREM OwnerIsFirst == Spec => OwnerComesFirst
<1> DEFINE First ==
      \A d \in members' \ members :
        name'[d] = Owner /\ Owner \notin held =>
          /\ slots'[Min(HumanSeats(slots'))].pid = pid'[d]
          /\ \A b, c \in Present \cap Present' :
               SeatOfPid(slots, pid[b]) < SeatOfPid(slots, pid[c]) =>
                 SeatOfPid(slots', pid[b]) <= SeatOfPid(slots', pid[c])
<1>1. TypeOK /\ PidsDistinct /\ [Next]_vars => [First]_vars
  <2> SUFFICES ASSUME TypeOK, PidsDistinct, Next, NEW d \in members' \ members,
                      name'[d] = Owner, Owner \notin held
               PROVE  /\ slots'[Min(HumanSeats(slots'))].pid = pid'[d]
                      /\ \A b, c \in Present \cap Present' :
                           SeatOfPid(slots, pid[b]) < SeatOfPid(slots, pid[c]) =>
                             SeatOfPid(slots', pid[b]) <= SeatOfPid(slots', pid[c])
    OBVIOUS
  <2>1. Arrival
    BY StepKinds DEF NobodyNew, CreateFakePlayer, CreateVirtualHost, objVars
  <2>2. PICK n \in Names, c0 \in Conns : \E s \in TargetSeats(n) : TakeSeat(n, c0, s)
    BY <2>1 DEF Arrival
  <2>3. PICK s0 \in TargetSeats(n) : TakeSeat(n, c0, s0)
    BY <2>2
  <2>4. /\ members' = members \cup {c0}
        /\ name' = [name EXCEPT ![c0] = n]
    BY <2>3 DEF TakeSeat
  <2>5. d = c0 /\ n = Owner
    BY <2>4 DEF TypeOK
  <2>6. PICK s \in TargetSeats(Owner) : TakeSeat(Owner, d, s)
    BY <2>3, <2>5
  <2> DEFINE P == Present \ Displaced(s)
             end == Placement(Owner, s).end
             r == NewPid(HostAfter(CountPlayers(P)), fake, P)
  <2>7. r \in Pids /\ \A b \in P : pid[b] # r
    <3>1. P \in SUBSET members
      BY DEF Present
    <3> QED  BY <3>1, NewPidIsFresh
  <2>8. /\ pid' = [pid EXCEPT ![d] = r] /\ d \in Conns
        /\ slots' = [end.slots EXCEPT ![end.seat] = PlayerSlot(r)]
        /\ d \notin members /\ left' = left \cup Displaced(s)
    BY <2>5, <2>6 DEF TakeSeat
  <2>9. /\ Advanced(slots, end.slots, end.seat, s) /\ end.seat \in Seats
        /\ \A x \in HumanSeats(slots) : end.seat <= x
        /\ end.seat \in HumanSeats(slots) \/ HumanSeats(slots) = {}
    BY <2>6, OwnerPlaced
  <2> HIDE DEF end, r
  <2>10. end.slots \in [Seats -> Slot] /\ HumanSeats(end.slots) = HumanSeats(slots)
    BY <2>9 DEF Advanced
  <2>11. slots'[Min(HumanSeats(slots'))].pid = pid'[d]
    <3>1. HumanSeats(slots') = HumanSeats(slots) \cup {end.seat}
      <4>1. PlayerSlot(r).kind # "computer"
        BY DEF PlayerSlot
      <4>2. HumanSeats(slots') = HumanSeats(end.slots) \cup {end.seat}
        BY <2>8, <2>9, <2>10, <4>1 DEF HumanSeats
      <4> QED  BY <2>10, <4>2
    <3>2. Min(HumanSeats(slots')) = end.seat
      <4> DEFINE H == HumanSeats(slots')
      <4>1. H \in SUBSET Seats /\ H # {} /\ end.seat \in H
        BY <3>1 DEF HumanSeats
      <4>2. \A x \in Seats : x \in Nat
        BY SeatFacts
      <4>3. \A x \in H : end.seat <= x
        BY <2>9, <3>1, <4>2
      <4> HIDE DEF H
      <4>4. Min(H) \in H /\ Min(H) <= end.seat
        BY <4>1, SeatFacts
      <4>5. Min(H) = end.seat
        BY <4>1, <4>2, <4>3, <4>4
      <4> QED  BY <4>5 DEF H
    <3>3. slots'[end.seat].pid = r
      BY <2>7, <2>8, <2>9, <2>10, SlotPids
    <3> QED  BY <2>8, <3>2, <3>3 DEF TypeOK
  <2>12. ASSUME NEW b \in Present \cap Present'
         PROVE  b \in P /\ pid[b] \in Pids /\ pid[b] # r /\ slots[s].pid # pid[b]
    <3>1. b \in P
      BY <2>8 DEF Present
    <3>2. pid[b] \in Pids
      BY DEF TypeOK, PidsDistinct, Present
    <3> QED  BY <2>6, <2>7, <3>1, <3>2, FoundIsVacated
  <2>13. ASSUME NEW b \in Present \cap Present', NEW c \in Present \cap Present',
                SeatOfPid(slots, pid[b]) < SeatOfPid(slots, pid[c])
         PROVE  SeatOfPid(slots', pid[b]) <= SeatOfPid(slots', pid[c])
    <3>1. slots \in [Seats -> Slot] /\ s \in Seats
      BY <2>6, TargetIsSeat DEF TypeOK
    <3>2. /\ pid[b] \in Pids /\ pid[b] # r /\ slots[s].pid # pid[b]
          /\ pid[c] \in Pids /\ pid[c] # r /\ slots[s].pid # pid[c]
      BY <2>12
    <3>3. SeatOfPid([end.slots EXCEPT ![end.seat] = PlayerSlot(r)], pid[b])
            <= SeatOfPid([end.slots EXCEPT ![end.seat] = PlayerSlot(r)], pid[c])
      BY <2>7, <2>9, <2>10, <2>13, <3>1, <3>2, OrderKept
    <3> QED  BY <2>8, <3>3
  <2> QED  BY <2>11, <2>13
<1> QED  BY <1>1, TypeCorrect, PidsAreDistinct, PTL DEF Spec, OwnerComesFirst

=============================================================================
