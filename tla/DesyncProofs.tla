---------------------------- MODULE DesyncProofs -----------------------------
(***************************************************************************)
(* What is proved about Desync, for any number of players and time slots   *)
(* and any length of the queues: its types, that the queues of those who   *)
(* stay are in step, and that the check drops nobody of a larger side.     *)
(***************************************************************************)
EXTENDS Desync, FiniteSetTheorems, SequenceTheorems, TLAPS

-----------------------------------------------------------------------------
(* The types.                                                              *)

LEMMA AfterType == ASSUME NEW t \in Slots PROVE After(t) \in Slots
  BY DesyncAssumption DEF Slots, After

LEMMA Appended ==
  ASSUME TypeOK, NEW p \in players, NEW s \in States
  PROVE  /\ [sums EXCEPT ![p] = Append(@, <<slot[p], s>>)] \in [Players -> Seq(Slots \X States)]
         /\ [slot EXCEPT ![p] = After(@)] \in [Players -> Slots]
  BY AfterType DEF TypeOK

LEMMA PoppedType ==
  ASSUME NEW q \in [Players -> Seq(Slots \X States)], NEW stay \in SUBSET Players,
         \A p \in stay : q[p] # <<>>
  PROVE  Popped(q, stay) \in [Players -> Seq(Slots \X States)]
  BY DEF Popped

LEMMA JudgeType ==
  ASSUME TypeOK, NEW q \in [Players -> Seq(Slots \X States)], Complete(q), Judge(q)
  PROVE  /\ marked \subseteq marked' /\ marked' \subseteq players
         /\ desynced' \in BOOLEAN
         /\ sums' \in [Players -> Seq(Slots \X States)]
         /\ \A r \in players \ marked' : q[r] # <<>> /\ sums'[r] = Tail(q[r])
<1>1. CASE dropIfDesync
  <2>1. Condemned(q) \subseteq players
    BY DEF Condemned, Jury, InLargestBins
  <2>2. marked \subseteq marked' /\ marked' \subseteq players
    BY <1>1, <2>1 DEF Judge, TypeOK
  <2>3. \A r \in players \ marked' : q[r] # <<>>
    BY <1>1, <2>2 DEF Complete, Jury
  <2>4. sums' = Popped(q, players \ marked')
    BY <1>1 DEF Judge
  <2>5. sums' \in [Players -> Seq(Slots \X States)]
    BY <2>3, <2>4, PoppedType DEF TypeOK
  <2>6. \A r \in players \ marked' : sums'[r] = Tail(q[r])
    BY <2>4 DEF Popped, TypeOK
  <2> QED BY <1>1, <2>2, <2>3, <2>5, <2>6 DEF Judge, TypeOK
<1>2. CASE ~dropIfDesync
  <2>1. \A r \in players : q[r] # <<>>
    BY <1>2 DEF Complete, Jury
  <2>2. sums' = Popped(q, players) /\ marked' = marked
    BY <1>2 DEF Judge
  <2>3. sums' \in [Players -> Seq(Slots \X States)]
    BY <2>1, <2>2, PoppedType DEF TypeOK
  <2>4. \A r \in players : sums'[r] = Tail(q[r])
    BY <2>2 DEF Popped, TypeOK
  <2>5. desynced' \in BOOLEAN
    BY <1>2 DEF Judge, TypeOK
  <2> QED BY <2>1, <2>2, <2>3, <2>4, <2>5 DEF TypeOK
<1> QED BY <1>1, <1>2

LEMMA InitType == Init => TypeOK
<1> SUFFICES ASSUME Init PROVE TypeOK
  OBVIOUS
<1>1. 0 \in Slots
  BY DesyncAssumption DEF Slots
<1>2. sums \in [Players -> Seq(Slots \X States)]
  BY DEF Init
<1>3. slot \in [Players -> Slots]
  BY <1>1 DEF Init
<1> QED BY <1>2, <1>3 DEF Init, TypeOK

LEMMA TypeStep == TypeOK /\ [Next]_vars => TypeOK'
<1> SUFFICES ASSUME TypeOK, [Next]_vars PROVE TypeOK'
  OBVIOUS
<1>1. ASSUME NEW p \in Players, NEW s \in States, KeepAlive(p, s) PROVE TypeOK'
  <2> DEFINE q == [sums EXCEPT ![p] = Append(@, <<slot[p], s>>)]
  <2>1. p \in players /\ slot' = [slot EXCEPT ![p] = After(@)] /\ UNCHANGED <<players, dropIfDesync>>
    BY <1>1 DEF KeepAlive
  <2>2. q \in [Players -> Seq(Slots \X States)] /\ slot' \in [Players -> Slots]
    BY <2>1, Appended
  <2>3. CASE Complete(q)
    <3>1. Judge(q)
      BY <1>1, <2>3 DEF KeepAlive
    <3> HIDE DEF q
    <3>2. /\ marked' \subseteq players /\ desynced' \in BOOLEAN
          /\ sums' \in [Players -> Seq(Slots \X States)]
      BY <2>2, <2>3, <3>1, JudgeType
    <3> QED BY <2>1, <2>2, <3>2 DEF TypeOK
  <2>4. CASE ~Complete(q)
    <3>1. sums' = q /\ UNCHANGED <<marked, desynced>>
      BY <1>1, <2>4 DEF KeepAlive
    <3> QED BY <2>1, <2>2, <3>1 DEF TypeOK
  <2> QED BY <2>3, <2>4
<1>2. ASSUME NEW p \in Players, Mark(p) PROVE TypeOK'
  BY <1>2 DEF Mark, TypeOK
<1>3. ASSUME NEW p \in Players, Reap(p) PROVE TypeOK'
  BY <1>3, DesyncAssumption DEF Reap, TypeOK, Slots
<1>4. CASE Reload
  BY <1>4 DEF Reload, TypeOK
<1>5. CASE UNCHANGED vars
  BY <1>5 DEF vars, TypeOK
<1> QED BY <1>1, <1>2, <1>3, <1>4, <1>5 DEF Next, Answer

\* Every variable keeps to its type: the marked are players of the game, and
\* the queues hold checksums.
THEOREM TypeCorrect == Spec => []TypeOK
<1> QED BY InitType, TypeStep, PTL DEF Spec

-----------------------------------------------------------------------------
(* The queues are in step.  For that each queue must be for time slots     *)
(* that follow one another, and a shorter one must go on where a longer    *)
(* one already is.                                                         *)

Consecutive(q, t, v) ==
  \A p \in v :
    /\ \A i \in 1 .. Len(q[p]) - 1 : q[p][i + 1][1] = After(q[p][i][1])
    /\ q[p] # <<>> => t[p] = After(q[p][Len(q[p])][1])

Together(q, v) ==
  \A p, r \in v : \A i \in DOMAIN q[p] \cap DOMAIN q[r] : q[p][i][1] = q[r][i][1]

GoesOn(q, t, v) ==
  \A p, r \in v :
    /\ Len(q[p]) = Len(q[r]) => t[p] = t[r]
    /\ Len(q[p]) < Len(q[r]) => t[p] = q[r][Len(q[p]) + 1][1]

InStep(q, t, v) == Consecutive(q, t, v) /\ Together(q, v) /\ GoesOn(q, t, v)

LEMMA FewerInStep ==
  ASSUME NEW q, NEW t, NEW v, NEW w \in SUBSET v, InStep(q, t, v)
  PROVE  InStep(q, t, w)
  BY DEF InStep, Consecutive, Together, GoesOn

LEMMA SameInStep ==
  ASSUME NEW q, NEW t, NEW v, NEW q2, NEW t2, InStep(q, t, v),
         \A p \in v : q2[p] = q[p] /\ t2[p] = t[p]
  PROVE  InStep(q2, t2, v)
<1>1. Consecutive(q2, t2, v)
  BY DEF InStep, Consecutive
<1>2. Together(q2, v)
  BY DEF InStep, Together
<1>3. GoesOn(q2, t2, v)
  BY DEF InStep, GoesOn
<1> QED BY <1>1, <1>2, <1>3 DEF InStep

LEMMA AppendNotEmpty ==
  ASSUME NEW S, NEW q \in Seq(S), NEW e \in S
  PROVE  Append(q, e) # <<>> /\ Head(Append(q, e)) = IF q = <<>> THEN e ELSE Head(q)
<1>1. Append(q, e) # <<>> /\ Head(Append(q, e)) = Append(q, e)[1]
  BY AppendProperties, HeadTailProperties
<1>2. CASE q = <<>>
  BY <1>1, <1>2
<1>3. CASE q # <<>>
  <2>1. Head(q) = q[1] /\ 1 \in 1 .. Len(q)
    BY <1>3, HeadTailProperties
  <2> QED BY <1>1, <1>3, <2>1, AppendProperties
<1> QED BY <1>2, <1>3

LEMMA AppendInStep ==
  ASSUME NEW q \in [Players -> Seq(Slots \X States)], NEW t \in [Players -> Slots],
         NEW v \in SUBSET Players, InStep(q, t, v), NEW a \in Players, NEW s \in States
  PROVE  InStep([q EXCEPT ![a] = Append(@, <<t[a], s>>)], [t EXCEPT ![a] = After(@)], v)
<1> DEFINE q2 == [q EXCEPT ![a] = Append(@, <<t[a], s>>)]
           t2 == [t EXCEPT ![a] = After(@)]
           n == Len(q[a])
<1>1. /\ Len(q2[a]) = n + 1 /\ n \in Nat
      /\ \A i \in 1 .. n : q2[a][i] = q[a][i]
      /\ q2[a][n + 1] = <<t[a], s>> /\ t2[a] = After(t[a])
  OBVIOUS
<1>2. \A p \in Players : Len(q[p]) \in Nat /\ DOMAIN q[p] = 1 .. Len(q[p])
  OBVIOUS
<1>3. \A p \in Players : p # a => q2[p] = q[p] /\ t2[p] = t[p]
  OBVIOUS
<1>4. DOMAIN q2[a] = 1 .. n + 1
  BY <1>1
<1>6. q2[a] # <<>>
  <2>1. q2[a] = Append(q[a], <<t[a], s>>)
    OBVIOUS
  <2>2. q[a] \in Seq(Slots \X States) /\ <<t[a], s>> \in Slots \X States
    OBVIOUS
  <2> QED BY <2>1, <2>2, AppendNotEmpty
<1> HIDE DEF q2, t2
<1>5. Consecutive(q2, t2, v)
  <2> SUFFICES ASSUME NEW p \in v
               PROVE  /\ \A i \in 1 .. Len(q2[p]) - 1 : q2[p][i + 1][1] = After(q2[p][i][1])
                      /\ q2[p] # <<>> => t2[p] = After(q2[p][Len(q2[p])][1])
    BY DEF Consecutive
  <2>1. CASE p # a
    BY <2>1, <1>3 DEF InStep, Consecutive
  <2>2. CASE p = a
    <3>1. t2[a] = After(q2[a][n + 1][1])
      BY <1>1
    <3>2. ASSUME NEW i \in 1 .. n PROVE q2[a][i + 1][1] = After(q2[a][i][1])
      <4>1. CASE i = n
        <5>1. q[a] # <<>>
          BY <4>1, <1>2
        <5>2. t[a] = After(q[a][n][1])
          BY <5>1, <2>2 DEF InStep, Consecutive
        <5> QED BY <5>2, <4>1, <1>1
      <4>2. CASE i # n
        <5>1. i \in 1 .. n - 1 /\ i + 1 \in 1 .. n
          BY <4>2, <1>1
        <5>2. q[a][i + 1][1] = After(q[a][i][1])
          BY <5>1, <2>2 DEF InStep, Consecutive
        <5> QED BY <5>1, <5>2, <1>1
      <4> QED BY <4>1, <4>2
    <3> QED BY <3>1, <3>2, <2>2, <1>1
  <2> QED BY <2>1, <2>2
<1>7. ASSUME NEW r \in v, r # a, a \in v, NEW i \in 1 .. n + 1, i \in DOMAIN q[r]
      PROVE  q2[a][i][1] = q[r][i][1]
  <2>1. CASE i \in 1 .. n
    BY <2>1, <1>1, <1>2, <1>7 DEF InStep, Together
  <2>2. CASE i = n + 1
    <3>1. n < Len(q[r])
      BY <2>2, <1>1, <1>2, <1>7
    <3>2. t[a] = q[r][n + 1][1]
      BY <3>1, <1>7 DEF InStep, GoesOn
    <3> QED BY <3>2, <2>2, <1>1
  <2> QED BY <2>1, <2>2, <1>1
<1>8. Together(q2, v)
  <2> SUFFICES ASSUME NEW p \in v, NEW r \in v, NEW i \in DOMAIN q2[p] \cap DOMAIN q2[r]
               PROVE  q2[p][i][1] = q2[r][i][1]
    BY DEF Together
  <2>1. CASE p # a /\ r # a
    BY <2>1, <1>3 DEF InStep, Together
  <2>2. CASE p = a /\ r # a
    BY <2>2, <1>3, <1>4, <1>7
  <2>3. CASE p # a /\ r = a
    BY <2>3, <1>3, <1>4, <1>7
  <2> QED BY <2>1, <2>2, <2>3
<1>9. ASSUME NEW r \in v, r # a, a \in v
      PROVE  /\ n + 1 = Len(q[r]) => t2[a] = t[r]
             /\ n + 1 < Len(q[r]) => t2[a] = q[r][n + 2][1]
             /\ Len(q[r]) < n + 1 => t[r] = q2[a][Len(q[r]) + 1][1]
  <2>0. Len(q[r]) \in Nat
    BY <1>2
  <2>1. n < Len(q[r]) => t[a] = q[r][n + 1][1]
    BY <1>9 DEF InStep, GoesOn
  <2>2. CASE n + 1 = Len(q[r])
    <3>1. q[r] # <<>>
      BY <2>2, <1>1
    <3>2. t[r] = After(q[r][n + 1][1])
      BY <3>1, <2>2 DEF InStep, Consecutive
    <3> QED BY <3>2, <2>2, <2>1, <1>1
  <2>3. CASE n + 1 < Len(q[r])
    <3>1. n + 1 \in 1 .. Len(q[r]) - 1
      BY <2>0, <2>3, <1>1
    <3>2. q[r][(n + 1) + 1][1] = After(q[r][n + 1][1])
      BY <3>1 DEF InStep, Consecutive
    <3> QED BY <3>2, <2>3, <2>1, <2>0, <1>1
  <2>4. CASE Len(q[r]) < n + 1
    <3>1. CASE Len(q[r]) = n
      BY <3>1, <1>9, <1>1 DEF InStep, GoesOn
    <3>2. CASE Len(q[r]) # n
      <4>1. Len(q[r]) < n /\ Len(q[r]) + 1 \in 1 .. n
        BY <2>0, <2>4, <3>2, <1>1
      <4>2. t[r] = q[a][Len(q[r]) + 1][1]
        BY <4>1, <1>9 DEF InStep, GoesOn
      <4> QED BY <4>1, <4>2, <1>1
    <3> QED BY <3>1, <3>2, <2>4, <2>0, <1>1
  <2> QED BY <2>2, <2>3, <2>4, <2>0, <1>1
<1>10. GoesOn(q2, t2, v)
  <2> SUFFICES ASSUME NEW p \in v, NEW r \in v
               PROVE  /\ Len(q2[p]) = Len(q2[r]) => t2[p] = t2[r]
                      /\ Len(q2[p]) < Len(q2[r]) => t2[p] = q2[r][Len(q2[p]) + 1][1]
    BY DEF GoesOn
  <2>1. CASE p # a /\ r # a
    BY <2>1, <1>3 DEF InStep, GoesOn
  <2>2. CASE p = a /\ r # a
    BY <2>2, <1>1, <1>3, <1>9
  <2>3. CASE p # a /\ r = a
    BY <2>3, <1>1, <1>2, <1>3, <1>9
  <2>4. CASE p = a /\ r = a
    BY <2>4, <1>1
  <2> QED BY <2>1, <2>2, <2>3, <2>4
<1> QED BY <1>5, <1>8, <1>10 DEF InStep, q2, t2

LEMMA PopInStep ==
  ASSUME NEW q \in [Players -> Seq(Slots \X States)], NEW t, NEW v \in SUBSET Players,
         InStep(q, t, v), NEW q2,
         \A p \in v : q[p] # <<>> /\ q2[p] = Tail(q[p])
  PROVE  InStep(q2, t, v)
<1>1. ASSUME NEW p \in v
      PROVE  /\ Len(q[p]) \in Nat \ {0} /\ Len(q2[p]) = Len(q[p]) - 1
             /\ DOMAIN q2[p] = 1 .. Len(q[p]) - 1 /\ DOMAIN q[p] = 1 .. Len(q[p])
             /\ \A i \in 1 .. Len(q[p]) - 1 : q2[p][i] = q[p][i + 1]
  <2>1. q[p] \in Seq(Slots \X States) /\ q[p] # <<>> /\ q2[p] = Tail(q[p])
    OBVIOUS
  <2> QED BY <2>1
<1>2. Consecutive(q2, t, v)
  <2> SUFFICES ASSUME NEW p \in v
               PROVE  /\ \A i \in 1 .. Len(q2[p]) - 1 : q2[p][i + 1][1] = After(q2[p][i][1])
                      /\ q2[p] # <<>> => t[p] = After(q2[p][Len(q2[p])][1])
    BY DEF Consecutive
  <2>1. ASSUME NEW i \in 1 .. Len(q2[p]) - 1 PROVE q2[p][i + 1][1] = After(q2[p][i][1])
    <3>1. /\ i \in 1 .. Len(q[p]) - 1 /\ i + 1 \in 1 .. Len(q[p]) - 1
      BY <1>1
    <3>2. q[p][(i + 1) + 1][1] = After(q[p][i + 1][1])
      BY <3>1 DEF InStep, Consecutive
    <3> QED BY <3>1, <3>2, <1>1
  <2>2. ASSUME q2[p] # <<>> PROVE t[p] = After(q2[p][Len(q2[p])][1])
    <3>1. Len(q[p]) - 1 \in 1 .. Len(q[p]) - 1
      <4>1. q2[p] = Tail(q[p]) /\ q[p] \in Seq(Slots \X States) /\ q[p] # <<>>
        OBVIOUS
      <4> QED BY <4>1, <2>2, <1>1
    <3>2. t[p] = After(q[p][Len(q[p])][1])
      BY DEF InStep, Consecutive
    <3>3. Len(q2[p]) = Len(q[p]) - 1 /\ q2[p][Len(q[p]) - 1] = q[p][(Len(q[p]) - 1) + 1]
      BY <3>1, <1>1
    <3>4. (Len(q[p]) - 1) + 1 = Len(q[p])
      BY <1>1
    <3>5. q2[p][Len(q2[p])] = q[p][Len(q[p])]
      BY <3>3, <3>4
    <3> QED BY <3>2, <3>5
  <2> QED BY <2>1, <2>2
<1>3. Together(q2, v)
  <2> SUFFICES ASSUME NEW p \in v, NEW r \in v, NEW i \in DOMAIN q2[p] \cap DOMAIN q2[r]
               PROVE  q2[p][i][1] = q2[r][i][1]
    BY DEF Together
  <2>1. i + 1 \in DOMAIN q[p] \cap DOMAIN q[r]
    BY <1>1
  <2>2. q[p][i + 1][1] = q[r][i + 1][1]
    BY <2>1 DEF InStep, Together
  <2> QED BY <2>2, <1>1
<1>4. GoesOn(q2, t, v)
  <2> SUFFICES ASSUME NEW p \in v, NEW r \in v
               PROVE  /\ Len(q2[p]) = Len(q2[r]) => t[p] = t[r]
                      /\ Len(q2[p]) < Len(q2[r]) => t[p] = q2[r][Len(q2[p]) + 1][1]
    BY DEF GoesOn
  <2>1. /\ Len(q[p]) = Len(q[r]) => t[p] = t[r]
        /\ Len(q[p]) < Len(q[r]) => t[p] = q[r][Len(q[p]) + 1][1]
    BY DEF InStep, GoesOn
  <2>2. Len(q[p]) < Len(q[r]) => Len(q[p]) \in 1 .. Len(q[r]) - 1
    BY <1>1
  <2> QED BY <2>1, <2>2, <1>1
<1> QED BY <1>2, <1>3, <1>4 DEF InStep

LEMMA StepInStep ==
  TypeOK /\ InStep(sums, slot, players \ marked) /\ [Next]_vars
    => InStep(sums, slot, players \ marked)'
<1> DEFINE v == players \ marked
           w == players' \ marked'
<1> SUFFICES ASSUME TypeOK, InStep(sums, slot, v), [Next]_vars PROVE InStep(sums', slot', w)
  OBVIOUS
<1>1. ASSUME NEW p \in Players, NEW s \in States, KeepAlive(p, s) PROVE InStep(sums', slot', w)
  <2> DEFINE q == [sums EXCEPT ![p] = Append(@, <<slot[p], s>>)]
  <2>1. p \in players /\ slot' = [slot EXCEPT ![p] = After(@)] /\ players' = players
    BY <1>1 DEF KeepAlive
  <2>2. q \in [Players -> Seq(Slots \X States)]
    BY <2>1, Appended
  <2>3. InStep(q, slot', v)
    BY <2>1, AppendInStep DEF TypeOK
  <2>4. CASE Complete(q)
    <3>1. Judge(q)
      BY <1>1, <2>4 DEF KeepAlive
    <3> HIDE DEF q
    <3>2. marked \subseteq marked' /\ \A r \in w : q[r] # <<>> /\ sums'[r] = Tail(q[r])
      BY <2>1, <2>2, <2>4, <3>1, JudgeType
    <3>3. w \in SUBSET v
      BY <2>1, <3>2
    <3>4. InStep(q, slot', w)
      BY <2>3, <3>3, FewerInStep
    <3>5. w \in SUBSET Players
      BY <2>1 DEF TypeOK
    <3> HIDE DEF w
    <3> QED BY <2>2, <3>2, <3>4, <3>5, PopInStep
  <2>5. CASE ~Complete(q)
    <3>1. sums' = q /\ marked' = marked
      BY <1>1, <2>5 DEF KeepAlive
    <3> QED BY <2>1, <2>3, <3>1
  <2> QED BY <2>4, <2>5
<1>2. ASSUME NEW p \in Players, Mark(p) PROVE InStep(sums', slot', w)
  <2>1. w \in SUBSET v /\ sums' = sums /\ slot' = slot
    BY <1>2 DEF Mark
  <2> QED BY <2>1, FewerInStep
<1>3. ASSUME NEW p \in Players, Reap(p) PROVE InStep(sums', slot', w)
  <2>1. w = v /\ \A r \in v : sums'[r] = sums[r] /\ slot'[r] = slot[r]
    BY <1>3 DEF Reap, TypeOK
  <2> QED BY <2>1, SameInStep
<1>4. CASE Reload
  BY <1>4 DEF Reload
<1>5. CASE UNCHANGED vars
  BY <1>5 DEF vars
<1> QED BY <1>1, <1>2, <1>3, <1>4, <1>5 DEF Next, Answer

\* Checksums at the same place of two queues are for the same time slot, in any
\* game: whoever is dropped or leaves, and however often the setting changes.
THEOREM QueuesInStep == Spec => []SameSlot
<1>1. Init => InStep(sums, slot, players \ marked)
  <2> SUFFICES ASSUME Init PROVE InStep(sums, slot, Players)
    BY DEF Init
  <2>1. \A p \in Players : sums[p] = <<>> /\ slot[p] = 0
    BY DEF Init
  <2> QED BY <2>1 DEF InStep, Consecutive, Together, GoesOn
<1>2. InStep(sums, slot, players \ marked) => SameSlot
  BY DEF InStep, Together, SameSlot
<1> QED BY <1>1, <1>2, InitType, TypeStep, StepInStep, PTL DEF Spec

-----------------------------------------------------------------------------
(* The verdict.                                                            *)

\* The queues with p's checksum in them.
With(p, s) == [sums EXCEPT ![p] = Append(@, <<slot[p], s>>)]

LEMMA ShownIsFront ==
  ASSUME TypeOK, NEW p \in Players, NEW s \in States, NEW r \in Players, With(p, s)[r] # <<>>
  PROVE  Shown(r, p, s) = Head(With(p, s)[r])
<1>1. sums[r] \in Seq(Slots \X States) /\ <<slot[p], s>> \in Slots \X States
  BY DEF TypeOK
<1>2. CASE r = p
  <2>1. With(p, s)[r] = Append(sums[r], <<slot[p], s>>)
    BY <1>2 DEF TypeOK, With
  <2> QED BY <1>1, <1>2, <2>1, AppendNotEmpty DEF Shown
<1>3. CASE r # p
  <2>1. With(p, s)[r] = sums[r]
    BY <1>3 DEF TypeOK, With
  <2> QED BY <2>1 DEF Shown
<1> QED BY <1>2, <1>3

LEMMA BinSize ==
  ASSUME TypeOK, NEW q, NEW p PROVE Cardinality(Bin(q, p)) \in Nat
<1>1. Bin(q, p) \subseteq Players
  BY DEF Bin, Jury, TypeOK
<1> QED BY <1>1, FS_Subset, FS_CardinalityType, DesyncAssumption

LEMMA SameBin ==
  ASSUME NEW q, NEW p, NEW r, Head(q[p]) = Head(q[r]) PROVE Bin(q, p) = Bin(q, r)
  BY DEF Bin

\* What the check does with complete queues, in terms of its bins.
LEMMA VerdictOnBins ==
  ASSUME TypeOK, NEW q, dropIfDesync, Judge(q)
  PROVE  /\ \A r \in marked' \ marked : \E t \in Jury :
              Head(q[t]) # Head(q[r]) /\ Cardinality(Bin(q, t)) >= Cardinality(Bin(q, r))
         /\ \A r \in players \ marked', t \in Jury :
              Head(q[t]) # Head(q[r]) => Cardinality(Bin(q, r)) > Cardinality(Bin(q, t))
<1>1. Jury = players \ marked
  BY DEF Jury
<1>2. marked' = IF Differing(q) THEN marked \union Condemned(q) ELSE marked
  BY DEF Judge
<1>3. \A r : Cardinality(Bin(q, r)) \in Nat
  BY BinSize
<1>4. ASSUME NEW r \in Jury, r \notin InLargestBins(q)
      PROVE  \E x \in Jury : Cardinality(Bin(q, x)) > Cardinality(Bin(q, r))
  BY <1>3, <1>4 DEF InLargestBins
<1>5. ASSUME NEW r \in InLargestBins(q), NEW x \in Jury
      PROVE  Cardinality(Bin(q, r)) >= Cardinality(Bin(q, x))
  BY <1>3, <1>5 DEF InLargestBins
<1>6. CASE ~Differing(q)
  BY <1>1, <1>2, <1>6 DEF Differing
<1>7. CASE Differing(q) /\ Tied(q)
  <2>1. players \ marked' = {}
    BY <1>2, <1>7 DEF Condemned
  <2>2. PICK a \in InLargestBins(q), b \in InLargestBins(q) : Head(q[a]) # Head(q[b])
    BY <1>7 DEF Tied
  <2>3. a \in Jury /\ b \in Jury
    BY DEF InLargestBins
  <2>4. ASSUME NEW r \in marked' \ marked
        PROVE  \E t \in Jury : Head(q[t]) # Head(q[r]) /\ Cardinality(Bin(q, t)) >= Cardinality(Bin(q, r))
    <3>1. r \in Jury
      BY <1>1, <1>2, <1>7 DEF Condemned
    <3>2. CASE Head(q[a]) # Head(q[r])
      BY <2>3, <3>1, <3>2, <1>5
    <3>3. CASE Head(q[b]) # Head(q[r])
      BY <2>3, <3>1, <3>3, <1>5
    <3> QED BY <2>2, <3>2, <3>3
  <2> QED BY <2>1, <2>4
<1>8. CASE Differing(q) /\ ~Tied(q)
  <2>1. marked' = marked \union (Jury \ InLargestBins(q))
    BY <1>2, <1>8 DEF Condemned
  <2>2. ASSUME NEW r \in marked' \ marked
        PROVE  \E t \in Jury : Head(q[t]) # Head(q[r]) /\ Cardinality(Bin(q, t)) >= Cardinality(Bin(q, r))
    <3>1. PICK x \in Jury : Cardinality(Bin(q, x)) > Cardinality(Bin(q, r))
      BY <2>1, <1>4
    <3>2. Head(q[x]) # Head(q[r])
      BY <3>1, <1>3, SameBin
    <3> QED BY <3>1, <3>2, <1>3
  <2>3. ASSUME NEW r \in players \ marked', NEW t \in Jury, Head(q[t]) # Head(q[r])
        PROVE  Cardinality(Bin(q, r)) > Cardinality(Bin(q, t))
    <3>1. r \in InLargestBins(q)
      BY <1>1, <2>1
    <3>2. t \notin InLargestBins(q)
      BY <1>8, <2>3, <3>1 DEF Tied
    <3>3. PICK x \in Jury : Cardinality(Bin(q, x)) > Cardinality(Bin(q, t))
      BY <3>2, <1>4
    <3>4. Cardinality(Bin(q, r)) >= Cardinality(Bin(q, x))
      BY <3>1, <1>5
    <3> QED BY <3>3, <3>4, <1>3
  <2> QED BY <2>2, <2>3
<1> QED BY <1>6, <1>7, <1>8

LEMMA VerdictStep ==
  ASSUME TypeOK, NEW p \in Players, NEW s \in States, dropIfDesync, KeepAlive(p, s)
  PROVE  LET voters == players \ marked
             shown(r) == Shown(r, p, s)
             side(r) == {t \in voters : shown(t) = shown(r)}
         IN  /\ \A r \in marked' \ marked : \E t \in voters :
                   shown(t) # shown(r) /\ Cardinality(side(t)) >= Cardinality(side(r))
             /\ (\A r \in voters \ {p} : sums[r] # <<>>) =>
                   \A r \in players \ marked', t \in voters :
                     shown(t) # shown(r) => Cardinality(side(r)) > Cardinality(side(t))
<1> DEFINE voters == players \ marked
           shown(r) == Shown(r, p, s)
           side(r) == {t \in voters : shown(t) = shown(r)}
           q == [sums EXCEPT ![p] = Append(@, <<slot[p], s>>)]
<1>1. voters = Jury /\ voters \subseteq Players
  BY DEF Jury, TypeOK
<1>2. q[p] # <<>> /\ \A r \in Players \ {p} : q[r] = sums[r]
  <2>1. sums[p] \in Seq(Slots \X States) /\ <<slot[p], s>> \in Slots \X States
    BY DEF TypeOK
  <2>2. q[p] = Append(sums[p], <<slot[p], s>>)
    BY DEF TypeOK
  <2> QED BY <2>1, <2>2, AppendNotEmpty DEF TypeOK
<1>3. CASE Complete(q)
  <2>1. Judge(q)
    BY <1>3 DEF KeepAlive
  <2>2. \A r \in voters : shown(r) = Head(q[r])
    <3> TAKE r \in voters
    <3>1. r \in Players /\ q[r] # <<>>
      BY <1>1, <1>3 DEF Complete
    <3>2. q = With(p, s)
      BY DEF With
    <3> HIDE DEF q, voters
    <3>3. Shown(r, p, s) = Head(q[r])
      BY <3>1, <3>2, ShownIsFront
    <3> QED BY <3>3
  <2> HIDE DEF q
  <2>3. \A r \in voters : side(r) = Bin(q, r)
    BY <1>1, <2>2 DEF Bin
  <2> HIDE DEF voters, shown, side
  <2>4. /\ \A r \in marked' \ marked : r \in voters
        /\ \A r \in players \ marked' : r \in voters
    BY <1>1, <2>1 DEF Judge, Condemned, InLargestBins, Jury, voters, TypeOK
  <2>5. \A r \in marked' \ marked : \E t \in voters :
          shown(t) # shown(r) /\ Cardinality(side(t)) >= Cardinality(side(r))
    <3> TAKE r \in marked' \ marked
    <3>1. PICK t \in Jury : Head(q[t]) # Head(q[r]) /\ Cardinality(Bin(q, t)) >= Cardinality(Bin(q, r))
      BY <2>1, VerdictOnBins
    <3> QED BY <3>1, <1>1, <2>2, <2>3, <2>4
  <2>6. \A r \in players \ marked', t \in voters :
          shown(t) # shown(r) => Cardinality(side(r)) > Cardinality(side(t))
    <3> TAKE r \in players \ marked', t \in voters
    <3>1. Head(q[t]) # Head(q[r]) => Cardinality(Bin(q, r)) > Cardinality(Bin(q, t))
      BY <1>1, <2>1, VerdictOnBins
    <3> QED BY <3>1, <2>2, <2>3, <2>4
  <2> QED BY <2>5, <2>6 DEF voters, shown, side
<1>4. CASE ~Complete(q)
  <2>1. marked' = marked
    BY <1>4 DEF KeepAlive
  <2>2. ~ \A r \in voters \ {p} : sums[r] # <<>>
    BY <1>1, <1>2, <1>4 DEF Complete
  <2> QED BY <2>1, <2>2
<1> QED BY <1>3, <1>4

\* In any game, with any number of players and of sides: the check drops nobody
\* of the side that has most players, and leaves nobody of another side.
THEOREM VerdictIsFair == Spec => FairVerdict
<1>1. TypeOK /\ [Next]_vars =>
        [\A p \in Players : slot'[p] # slot[p] /\ dropIfDesync => \A s \in States : KeepAlive(p, s) =>
           LET voters == players \ marked
               shown(r) == Shown(r, p, s)
               side(r) == {t \in voters : shown(t) = shown(r)}
           IN  /\ \A r \in marked' \ marked : \E t \in voters :
                     shown(t) # shown(r) /\ Cardinality(side(t)) >= Cardinality(side(r))
               /\ (\A r \in voters \ {p} : sums[r] # <<>>) =>
                     \A r \in players \ marked', t \in voters :
                       shown(t) # shown(r) => Cardinality(side(r)) > Cardinality(side(t))]_vars
  BY VerdictStep
<1> QED BY <1>1, TypeCorrect, PTL DEF Spec, FairVerdict
=============================================================================
