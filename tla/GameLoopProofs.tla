--------------------------- MODULE GameLoopProofs ---------------------------
(***************************************************************************)
(* What GameLoop promises, proved for any number of players, updates and   *)
(* resets of the lag screen.                                               *)
(***************************************************************************)
EXTENDS GameLoop, TLAPS, SequenceTheorems, WellFoundedInduction

-----------------------------------------------------------------------------
(* The items and what is put together from them.                           *)

LEMMA ItemTypes ==
  /\ EmptySlot \in Items
  /\ \A n \in 0 .. MaxUpdates : Update(n) \in Items /\ Part(n) \in Items
  /\ \A c \in Players : Leave(c) \in Items
BY DEF Items

LEMMA EmptiesType == Empties \in Seq(Items)
<1>1. NumEmpty \in Nat
  BY NumbersAssumption
<1>2. Empties \in [1 .. NumEmpty -> Items]
  BY ItemTypes DEF Empties
<1> QED  BY <1>1, <1>2, SeqDef

LEMMA ShownType ==
  ASSUME NEW c, NEW slot \in Seq(Items)
  PROVE  Shown(c, slot) \in Seq(Items) /\ Recorded(slot) \in Seq(Items)
<1>1. Inserted(c) \in Seq(Items) /\ Extra(c) \in Seq(Items)
  BY EmptiesType, EmptySeq DEF Inserted, Extra
<1>2. Inserted(c) \o Extra(c) \in Seq(Items)
  BY <1>1, ConcatProperties
<1>3. (IF UsingGProxy THEN Empties ELSE <<>>) \in Seq(Items)
  BY EmptiesType, EmptySeq
<1> QED  BY <1>2, <1>3, ConcatProperties DEF Shown, Recorded

LEMMA NetType ==
  ASSUME NEW items \in Seq(Items), NEW k \in Nat
  PROVE  Net(items, k) \in Seq(Items)
<1>1. CASE ~(k > 0 /\ \E i \in 1 .. Len(items) : FirstEmpty(items, i))
  BY <1>1 DEF Net
<1>2. CASE k > 0 /\ \E i \in 1 .. Len(items) : FirstEmpty(items, i)
  <2> DEFINE first == CHOOSE i \in 1 .. Len(items) : FirstEmpty(items, i)
  <2>1. first \in 1 .. Len(items)
    BY <1>2
  <2>2. Net(items, k) = SubSeq(items, 1, first - 1) \o SubSeq(items, first + k, Len(items))
    BY <1>2 DEF Net
  <2> HIDE DEF first
  <2>3. Len(items) \in Nat /\ \A i \in 1 .. Len(items) : items[i] \in Items
    BY ElementOfSeq, LenProperties
  <2>4. /\ first - 1 \in Int /\ first + k \in Int
        /\ \A i \in 1 .. first - 1 : i \in 1 .. Len(items)
        /\ \A i \in first + k .. Len(items) : i \in 1 .. Len(items)
    BY <2>1, <2>3
  <2>5. SubSeq(items, 1, first - 1) \in Seq(Items)
    BY <2>3, <2>4, SubSeqProperties
  <2>6. SubSeq(items, first + k, Len(items)) \in Seq(Items)
    BY <2>3, <2>4, SubSeqProperties
  <2> QED  BY <2>2, <2>5, <2>6, ConcatProperties
<1> QED  BY <1>1, <1>2

LEMMA NetZero == \A items : Net(items, 0) = items
BY DEF Net

-----------------------------------------------------------------------------
(* Types.                                                                  *)

\* the inductive form: nobody is behind by more updates than there were
Types == TypeOK /\ \A c \in Players : behind[c] <= turn

LEMMA SlotTypes ==
  ASSUME turn \in 0 .. MaxUpdates
  PROVE  NextSlot \in Seq(Items) /\ <<EmptySlot>> \in Seq(Items)
BY ItemTypes DEF NextSlot

LEMMA FarewellType ==
  ASSUME turn \in 0 .. MaxUpdates, NEW c \in Players, NEW saves \in BOOLEAN
  PROVE  Farewell(c, saves) \in [Players -> Seq(Items)]
<1> SUFFICES ASSUME NEW d \in Players
             PROVE  (IF saves THEN Shown(d, NextSlot) ELSE <<>>) \o <<Leave(c)>> \in Seq(Items)
  BY DEF Farewell
<1>1. (IF saves THEN Shown(d, NextSlot) ELSE <<>>) \in Seq(Items)
  BY SlotTypes, ShownType, EmptySeq
<1>2. <<Leave(c)>> \in Seq(Items)
  BY ItemTypes
<1> QED  BY <1>1, <1>2, ConcatProperties

LEMMA HandTypes ==
  ASSUME buffer \in [Players -> Seq(Items)], queue \in [Players -> Seq(Items)],
         view \in [Players -> Seq(Items)], used \in [Players -> 0 .. NumEmpty],
         NEW stay, NEW items \in [Players -> Seq(Items)], Hand(stay, items)
  PROVE  /\ buffer' \in [Players -> Seq(Items)]
         /\ queue' \in [Players -> Seq(Items)]
         /\ view' \in [Players -> Seq(Items)]
         /\ used' \in [Players -> 0 .. NumEmpty]
<1> DEFINE now == stay \ (Buffered \cup cut)
<1> HIDE DEF now
<1>1. ASSUME NEW c \in Players
      PROVE  /\ buffer[c] \o items[c] \in Seq(Items)
             /\ queue[c] \o items[c] \in Seq(Items)
             /\ view[c] \o Net(items[c], used[c]) \in Seq(Items)
  <2>1. used[c] \in Nat
    BY NumbersAssumption
  <2>2. Net(items[c], used[c]) \in Seq(Items)
    BY <2>1, NetType
  <2> QED  BY <2>2, ConcatProperties
<1>2. /\ buffer' = [c \in Players |-> IF c \in stay \cap Buffered THEN buffer[c] \o items[c]
                                      ELSE IF c \in stay THEN buffer[c] ELSE <<>>]
      /\ queue' = [c \in Players |-> IF c \in stay \cap cut THEN queue[c] \o items[c]
                                     ELSE IF c \in stay THEN queue[c] ELSE <<>>]
      /\ view' = [c \in Players |-> IF c \in now THEN view[c] \o Net(items[c], used[c])
                                    ELSE IF c \in stay THEN view[c] ELSE <<>>]
      /\ used' = [c \in Players |-> IF c \in stay /\ ~(c \in now /\ HasSlot(items[c]))
                                    THEN used[c] ELSE 0]
  BY DEF Hand, now
<1>3. <<>> \in Seq(Items)
  BY EmptySeq
<1>4. 0 \in 0 .. NumEmpty
  BY NumbersAssumption
<1>5. buffer' \in [Players -> Seq(Items)]
  BY <1>1, <1>2, <1>3
<1>6. queue' \in [Players -> Seq(Items)]
  BY <1>1, <1>2, <1>3
<1>7. view' \in [Players -> Seq(Items)]
  BY <1>1, <1>2, <1>3
<1>8. used' \in [Players -> 0 .. NumEmpty]
  BY <1>2, <1>4
<1> QED  BY <1>5, <1>6, <1>7, <1>8

LEMMA HandAllTypes ==
  ASSUME TypeOK, NEW slot \in Seq(Items), HandAll(slot)
  PROVE  /\ buffer' \in [Players -> Seq(Items)]
         /\ queue' \in [Players -> Seq(Items)]
         /\ view' \in [Players -> Seq(Items)]
         /\ used' \in [Players -> 0 .. NumEmpty]
         /\ log' \in Seq(Items)
<1>1. [c \in Players |-> Shown(c, slot)] \in [Players -> Seq(Items)]
  BY ShownType
<1>2. Hand(members, [c \in Players |-> Shown(c, slot)])
  BY DEF HandAll
<1>3. log' \in Seq(Items)
  BY ShownType, ConcatProperties DEF HandAll, TypeOK
<1> QED  BY <1>1, <1>2, <1>3, HandTypes DEF TypeOK

LEMMA InitTypes == Init => Types
<1> SUFFICES ASSUME Init PROVE Types
  OBVIOUS
<1>1. <<>> \in Seq(Items) /\ Nothing \in [Players -> Seq(Items)]
  BY EmptySeq DEF Nothing
<1>2. /\ buffer \in [Players -> Seq(Items)] /\ queue \in [Players -> Seq(Items)]
      /\ view \in [Players -> Seq(Items)] /\ log \in Seq(Items)
  BY <1>1 DEF Init
<1>3. /\ used = [c \in Players |-> 0] /\ behind = [c \in Players |-> 0]
      /\ turn = 0 /\ resets = 0
      /\ 0 \in 0 .. NumEmpty /\ 0 \in 0 .. MaxUpdates /\ 0 \in 0 .. MaxResets
  BY NumbersAssumption DEF Init
<1>4. /\ members = Players /\ doomed = {} /\ dropped = {} /\ finished = {} /\ cut = {}
      /\ loaded = FALSE /\ lagScreen = FALSE /\ waited = FALSE
      /\ lagging = {} /\ votes = {} /\ screen = [c \in Players |-> {}]
  BY DEF Init
<1>5. /\ screen \in [Players -> SUBSET members]
      /\ used \in [Players -> 0 .. NumEmpty]
      /\ behind \in [Players -> 0 .. MaxUpdates]
      /\ turn \in 0 .. MaxUpdates /\ resets \in 0 .. MaxResets
  BY <1>3, <1>4
<1>6. \A c \in Players : behind[c] <= turn
  BY <1>3
<1>7. TypeOK
  BY <1>2, <1>4, <1>5 DEF TypeOK
<1> QED  BY <1>6, <1>7 DEF Types

LEMMA LoadedTypes ==
  ASSUME Types, NEW c \in Players, PlayerLoaded(c)
  PROVE  Types'
<1>1. /\ view' \in [Players -> Seq(Items)]
      /\ buffer' \in [Players -> Seq(Items)]
      /\ screen' \in [Players -> SUBSET members]
  <2>1. CASE UNCHANGED <<view, buffer, screen>>
    BY <2>1 DEF Types, TypeOK
  <2>2. CASE /\ view' = [view EXCEPT ![c] = @ \o buffer[c]]
             /\ buffer' = [buffer EXCEPT ![c] = <<>>]
             /\ screen' = ShowLoaders(c)
    <3>1. view[c] \o buffer[c] \in Seq(Items) /\ <<>> \in Seq(Items)
      BY EmptySeq, ConcatProperties DEF Types, TypeOK
    <3>2. ShowLoaders(c) \in [Players -> SUBSET members]
      BY DEF ShowLoaders, Types, TypeOK
    <3> QED  BY <2>2, <3>1, <3>2 DEF Types, TypeOK
  <2> QED  BY <2>1, <2>2 DEF PlayerLoaded
<1>2. /\ finished' = finished \cup {c} /\ c \in members /\ ~loaded
      /\ UNCHANGED <<playerVars, loaded, cut, queue, used, log, countVars,
                     behind, lagging, lagScreen, waited, votes>>
  BY DEF PlayerLoaded
<1> QED  BY <1>1, <1>2 DEF Types, TypeOK, playerVars, countVars

LEMMA LoadResetTypes ==
  ASSUME Types, LoadReset
  PROVE  Types'
<1>1. HandAll(<<EmptySlot>>) /\ <<EmptySlot>> \in Seq(Items)
  BY SlotTypes DEF LoadReset, Types, TypeOK
<1>2. /\ buffer' \in [Players -> Seq(Items)] /\ queue' \in [Players -> Seq(Items)]
      /\ view' \in [Players -> Seq(Items)] /\ used' \in [Players -> 0 .. NumEmpty]
      /\ log' \in Seq(Items)
  BY <1>1, HandAllTypes DEF Types
<1>3. screen' \in [Players -> SUBSET members]
  BY DEF LoadReset, Types, TypeOK
<1>4. resets' \in 0 .. MaxResets
  BY NumbersAssumption DEF LoadReset, Types, TypeOK
<1>5. UNCHANGED <<playerVars, loadVars, cut, turn, behind, lagging, lagScreen, waited, votes>>
  BY DEF LoadReset
<1> QED  BY <1>2, <1>3, <1>4, <1>5 DEF Types, TypeOK, playerVars, loadVars

LEMMA SendTypes ==
  ASSUME Types, SendUpdate
  PROVE  Types'
<1>1. HandAll(NextSlot) /\ NextSlot \in Seq(Items)
  BY SlotTypes DEF SendUpdate, Types, TypeOK
<1>2. /\ buffer' \in [Players -> Seq(Items)] /\ queue' \in [Players -> Seq(Items)]
      /\ view' \in [Players -> Seq(Items)] /\ used' \in [Players -> 0 .. NumEmpty]
      /\ log' \in Seq(Items)
  BY <1>1, HandAllTypes DEF Types
<1>3. turn' \in 0 .. MaxUpdates /\ turn' = turn + 1 /\ turn \in Nat
  BY NumbersAssumption DEF SendUpdate, Types, TypeOK
<1>4. behind' \in [Players -> 0 .. MaxUpdates] /\ \A c \in Players : behind'[c] <= turn'
  <2>1. ASSUME NEW c \in Players
        PROVE  OneMoreBehind[c] \in 0 .. MaxUpdates /\ OneMoreBehind[c] <= turn'
    BY <1>3, NumbersAssumption DEF OneMoreBehind, Types, TypeOK
  <2>2. behind' = OneMoreBehind
    BY DEF SendUpdate
  <2> QED  BY <2>1, <2>2 DEF OneMoreBehind
<1>5. UNCHANGED <<playerVars, loadVars, cut, resets, lagging, lagScreen, waited, votes, screen>>
  BY DEF SendUpdate
<1> QED  BY <1>2, <1>3, <1>4, <1>5 DEF Types, TypeOK, playerVars, loadVars

LEMMA LagStartsTypes ==
  ASSUME Types, LagStarts
  PROVE  Types'
<1>1. lagging' \subseteq members
  BY DEF LagStarts, OutOfStep, Types, TypeOK
<1>2. screen' \in [Players -> SUBSET members]
  BY <1>1 DEF LagStarts, Types, TypeOK
<1>3. /\ loaded /\ lagScreen' = TRUE /\ waited' = FALSE /\ votes' = {}
      /\ UNCHANGED <<playerVars, loadVars, cut, dataVars, countVars, behind>>
  BY DEF LagStarts
<1> QED  BY <1>1, <1>2, <1>3 DEF Types, TypeOK, playerVars, loadVars, dataVars, countVars

LEMMA LagGoesOnTypes ==
  ASSUME Types, LagGoesOn
  PROVE  Types'
<1>1. dropped' \subseteq doomed' /\ doomed' \subseteq members
  <2>1. CASE StopLaggers
    BY <2>1 DEF StopLaggers, Types, TypeOK
  <2>2. CASE UNCHANGED <<doomed, dropped>>
    BY <2>2 DEF Types, TypeOK
  <2> QED  BY <2>1, <2>2 DEF LagGoesOn
<1>2. /\ buffer' \in [Players -> Seq(Items)] /\ queue' \in [Players -> Seq(Items)]
      /\ view' \in [Players -> Seq(Items)] /\ used' \in [Players -> 0 .. NumEmpty]
      /\ log' \in Seq(Items) /\ resets' \in 0 .. MaxResets
  <2>1. CASE resets < MaxResets /\ resets' = resets + 1 /\ HandAll(<<EmptySlot>>)
    <3>1. <<EmptySlot>> \in Seq(Items)
      BY SlotTypes DEF Types, TypeOK
    <3>2. resets' \in 0 .. MaxResets
      BY <2>1, NumbersAssumption DEF Types, TypeOK
    <3> QED  BY <2>1, <3>1, <3>2, HandAllTypes DEF Types
  <2>2. CASE UNCHANGED <<dataVars, resets>>
    BY <2>2 DEF dataVars, Types, TypeOK
  <2> QED  BY <2>1, <2>2 DEF LagGoesOn
<1>3. /\ lagging' \subseteq members
      /\ screen' \in [Players -> SUBSET members]
  BY DEF LagGoesOn, Types, TypeOK
<1>4. /\ lagScreen' = (lagging' # {}) /\ waited' = (waited /\ lagScreen') /\ loaded
      /\ UNCHANGED <<members, loadVars, cut, turn, behind, votes>>
  BY DEF LagGoesOn
<1>5. lagScreen' \in BOOLEAN /\ waited' \in BOOLEAN
  BY <1>4
<1> QED  BY <1>1, <1>2, <1>3, <1>4, <1>5 DEF Types, TypeOK, loadVars

LEMMA DropRequestTypes ==
  ASSUME Types, NEW c \in Players, DropRequest(c)
  PROVE  Types'
<1>1. dropped' \subseteq doomed' /\ doomed' \subseteq members
  <2>1. CASE StopLaggers
    BY <2>1 DEF StopLaggers, Types, TypeOK
  <2>2. CASE UNCHANGED <<doomed, dropped>>
    BY <2>2 DEF Types, TypeOK
  <2> QED  BY <2>1, <2>2 DEF DropRequest
<1>2. votes' \subseteq members
  BY DEF DropRequest, Types, TypeOK
<1>3. UNCHANGED <<members, loadVars, cut, dataVars, countVars,
                  behind, lagging, lagScreen, waited, screen>>
  BY DEF DropRequest
<1> QED  BY <1>1, <1>2, <1>3 DEF Types, TypeOK, loadVars, dataVars, countVars

LEMMA DeletedTypes ==
  ASSUME Types, NEW c \in members, NEW disc \in BOOLEAN, EventPlayerDeleted(c, disc)
  PROVE  Types'
<1> DEFINE stay == members \ {c}
           saves == loaded /\ AutoSave /\ disc
<1>1. c \in Players /\ saves \in BOOLEAN /\ turn \in 0 .. MaxUpdates
  BY SwitchesAssumption DEF Types, TypeOK
<1>2. /\ saves => turn < MaxUpdates
      /\ members' = stay
      /\ doomed' = doomed \ {c} /\ dropped' = dropped \ {c}
      /\ finished' = finished \ {c} /\ cut' = cut \ {c}
      /\ votes' = votes \ {c} /\ lagging' = lagging \ {c}
      /\ Hand(stay, Farewell(c, saves))
      /\ log' = log \o (IF saves THEN Recorded(NextSlot) ELSE <<>>) \o <<Leave(c)>>
      /\ turn' = IF saves THEN turn + 1 ELSE turn
      /\ behind' = [d \in Players |-> IF d = c THEN 0
                                      ELSE IF saves THEN OneMoreBehind[d] ELSE behind[d]]
      /\ screen' = ScreensWithout(c)
      /\ UNCHANGED <<loaded, resets, lagScreen, waited>>
  BY DEF EventPlayerDeleted
<1> HIDE DEF stay, saves
<1>3. /\ buffer' \in [Players -> Seq(Items)] /\ queue' \in [Players -> Seq(Items)]
      /\ view' \in [Players -> Seq(Items)] /\ used' \in [Players -> 0 .. NumEmpty]
  BY <1>1, <1>2, FarewellType, HandTypes DEF Types, TypeOK
<1>4. log' \in Seq(Items)
  <2>1. (IF saves THEN Recorded(NextSlot) ELSE <<>>) \in Seq(Items)
    BY <1>1, SlotTypes, ShownType, EmptySeq
  <2>2. <<Leave(c)>> \in Seq(Items)
    BY <1>1, ItemTypes
  <2>3. log \o (IF saves THEN Recorded(NextSlot) ELSE <<>>) \in Seq(Items)
    BY <2>1, ConcatProperties DEF Types, TypeOK
  <2> QED  BY <1>2, <2>2, <2>3, ConcatProperties
<1>5. turn' \in 0 .. MaxUpdates /\ turn \in Nat /\ turn <= turn'
  BY <1>1, <1>2, NumbersAssumption
<1>6. behind' \in [Players -> 0 .. MaxUpdates] /\ \A d \in Players : behind'[d] <= turn'
  <2> DEFINE b(d) == IF d = c THEN 0
                     ELSE IF saves THEN OneMoreBehind[d] ELSE behind[d]
  <2>1. ASSUME NEW d \in Players
        PROVE  b(d) \in 0 .. MaxUpdates /\ b(d) <= turn'
    <3>1. behind[d] \in 0 .. MaxUpdates /\ behind[d] <= turn
      BY DEF Types, TypeOK
    <3>2. CASE ~saves
      BY <1>1, <1>2, <1>5, <3>1, <3>2, NumbersAssumption
    <3>3. CASE saves
      <4>1. OneMoreBehind[d] \in 0 .. turn + 1
        BY <1>5, <3>1 DEF OneMoreBehind
      <4> QED  BY <1>1, <1>2, <1>5, <3>3, <4>1, NumbersAssumption
    <3> QED  BY <3>2, <3>3
  <2>2. behind' = [d \in Players |-> b(d)]
    BY <1>2
  <2> HIDE DEF b
  <2> QED  BY <2>1, <2>2
<1>7. screen' \in [Players -> SUBSET members']
  BY <1>2 DEF ScreensWithout, stay, Types, TypeOK
<1> QED  BY <1>2, <1>3, <1>4, <1>5, <1>6, <1>7 DEF stay, Types, TypeOK

LEMMA ReconnectTypes ==
  ASSUME Types, NEW c \in Players, Reconnect(c)
  PROVE  Types'
<1>1. used[c] \in Nat /\ 0 \in 0 .. NumEmpty
  BY NumbersAssumption DEF Types, TypeOK
<1>2. view[c] \o Net(queue[c], used[c]) \in Seq(Items) /\ <<>> \in Seq(Items)
  BY <1>1, NetType, EmptySeq, ConcatProperties DEF Types, TypeOK
<1>3. /\ view' \in [Players -> Seq(Items)] /\ queue' \in [Players -> Seq(Items)]
      /\ used' \in [Players -> 0 .. NumEmpty]
  BY <1>1, <1>2 DEF Reconnect, Types, TypeOK
<1>4. /\ cut' = cut \ {c}
      /\ UNCHANGED <<playerVars, loadVars, buffer, log, countVars, lagVars>>
  BY DEF Reconnect
<1> QED  BY <1>3, <1>4 DEF Types, TypeOK, playerVars, loadVars, countVars, lagVars

LEMMA PutInEmptyTypes ==
  ASSUME Types, NEW c \in Players, PutInEmpty(c)
  PROVE  Types'
<1>1. Append(view[c], EmptySlot) \in Seq(Items)
  BY ItemTypes, AppendProperties DEF Types, TypeOK
<1>2. used[c] + 1 \in 0 .. NumEmpty
  BY NumbersAssumption DEF PutInEmpty, Types, TypeOK
<1>3. view' \in [Players -> Seq(Items)] /\ used' \in [Players -> 0 .. NumEmpty]
  BY <1>1, <1>2 DEF PutInEmpty, Types, TypeOK
<1>4. UNCHANGED <<playerVars, loadVars, cut, buffer, queue, log, countVars, lagVars>>
  BY DEF PutInEmpty
<1> QED  BY <1>3, <1>4 DEF Types, TypeOK, playerVars, loadVars, countVars, lagVars

LEMMA Deletion ==
  ASSUME TypeOK, NEW c \in Players, Quit(c) \/ Drop(c) \/ Reap(c)
  PROVE  c \in members /\ \E disc \in BOOLEAN : EventPlayerDeleted(c, disc)
<1>1. CASE Quit(c)
  <2>1. EventPlayerDeleted(c, FALSE)
    BY <1>1 DEF Quit
  <2> QED  BY <1>1, <2>1 DEF Quit
<1>2. CASE Drop(c)
  <2>1. EventPlayerDeleted(c, TRUE)
    BY <1>2 DEF Drop
  <2> QED  BY <1>2, <2>1 DEF Drop
<1>3. CASE Reap(c)
  <2>1. EventPlayerDeleted(c, c \in dropped)
    BY <1>3 DEF Reap
  <2>2. (c \in dropped) \in BOOLEAN
    OBVIOUS
  <2> QED  BY <1>3, <2>1, <2>2 DEF Reap, TypeOK
<1> QED  BY <1>1, <1>2, <1>3

LEMMA OtherTypes ==
  ASSUME Types
  PROVE  /\ GameLoaded => Types'
         /\ WaitOver => Types'
         /\ \A c \in Players : KeepAlive(c) => Types'
         /\ \A c \in Players : Kick(c) => Types'
         /\ \A c \in Players : CutOff(c) => Types'
<1>1. GameLoaded => Types'
  BY DEF GameLoaded, Types, TypeOK, playerVars, dataVars, countVars, lagVars
<1>2. WaitOver => Types'
  BY DEF WaitOver, Types, TypeOK, playerVars, loadVars, dataVars, countVars
<1>3. ASSUME NEW c \in Players, KeepAlive(c) PROVE Types'
  <2>1. behind' \in [Players -> 0 .. MaxUpdates] /\ \A d \in Players : behind'[d] <= turn
    BY <1>3, NumbersAssumption DEF KeepAlive, Types, TypeOK
  <2>2. UNCHANGED <<playerVars, loadVars, cut, dataVars, countVars,
                    lagging, lagScreen, waited, votes, screen>>
    BY <1>3 DEF KeepAlive
  <2> QED  BY <2>1, <2>2 DEF Types, TypeOK, playerVars, loadVars, dataVars, countVars
<1>4. ASSUME NEW c \in Players, Kick(c) PROVE Types'
  BY <1>4 DEF Kick, Types, TypeOK, loadVars, dataVars, countVars, lagVars
<1>5. ASSUME NEW c \in Players, CutOff(c) PROVE Types'
  BY <1>5 DEF CutOff, Types, TypeOK, playerVars, loadVars, dataVars, countVars, lagVars
<1> QED  BY <1>1, <1>2, <1>3, <1>4, <1>5

(* The state keeps its types: the sets of players stay inside m_Players,   *)
(* nobody is cut off in a game that loads, and only a loaded game lags.    *)
THEOREM TypeCorrect == Spec => []TypeOK
<1>1. Types /\ [Next]_vars => Types'
  <2> SUFFICES ASSUME Types, [Next]_vars PROVE Types'
    OBVIOUS
  <2>1. ASSUME NEW c \in Players, Quit(c) \/ Drop(c) \/ Reap(c) PROVE Types'
    <3>1. c \in members /\ \E disc \in BOOLEAN : EventPlayerDeleted(c, disc)
      BY <2>1, Deletion DEF Types
    <3> QED  BY <3>1, DeletedTypes
  <2>2. CASE ClientStep
    BY <2>1, <2>2, LoadedTypes, OtherTypes, DropRequestTypes, ReconnectTypes, PutInEmptyTypes
       DEF ClientStep
  <2>3. CASE UpdateStep
    BY <2>1, <2>3, LoadResetTypes, OtherTypes, LagStartsTypes, LagGoesOnTypes, SendTypes
       DEF UpdateStep
  <2>4. CASE UNCHANGED vars
    BY <2>4 DEF vars, Types, TypeOK
  <2> QED  BY <2>2, <2>3, <2>4 DEF Next
<1> QED  BY <1>1, InitTypes, PTL DEF Spec, Types

-----------------------------------------------------------------------------
(* The lag screen: the screens of the players show what the bot's flags    *)
(* say, nobody is left behind, and the game stands still meanwhile.        *)

LEMMA ScreensStand ==
  ASSUME TypeOK, ScreenShows, UNCHANGED <<members, finished, loaded, lagging, screen>>
  PROVE  ScreenShows'
BY DEF ScreenShows

LEMMA LoadedScreens ==
  ASSUME TypeOK, ScreenShows, NEW c \in Players, PlayerLoaded(c)
  PROVE  ScreenShows'
<1>1. /\ ~loaded /\ c \in members \ finished /\ finished' = finished \cup {c}
      /\ UNCHANGED <<members, loaded, lagging>>
  BY DEF PlayerLoaded, playerVars
<1>2. CASE LoadInGame /\ screen' = ShowLoaders(c)
  <2> SUFFICES ASSUME NEW d \in members
               PROVE  screen'[d] = IF d \in finished' THEN members \ finished' ELSE {}
    BY <1>1, <1>2 DEF ScreenShows
  <2>1. screen[d] = IF d \in finished THEN members \ finished ELSE {}
    BY <1>1, <1>2 DEF ScreenShows
  <2>2. screen'[d] = IF d = c THEN members \ (finished \cup {c})
                     ELSE IF d \in finished THEN screen[d] \ {c} ELSE screen[d]
    BY <1>2 DEF ShowLoaders, TypeOK
  <2> QED  BY <1>1, <2>1, <2>2
<1>3. CASE ~LoadInGame /\ UNCHANGED screen
  BY <1>1, <1>3 DEF ScreenShows
<1> QED  BY <1>2, <1>3 DEF PlayerLoaded

LEMMA GameLoadedScreens ==
  ASSUME TypeOK, ScreenShows, GameLoaded
  PROVE  ScreenShows'
<1>1. /\ ~loaded /\ loaded' /\ members \subseteq finished
      /\ UNCHANGED <<members, finished, lagging, screen>>
  BY DEF GameLoaded, playerVars, lagVars
<1>2. lagging = {}
  BY <1>1 DEF TypeOK
<1> QED  BY <1>1, <1>2 DEF ScreenShows

LEMMA LoadResetScreens ==
  ASSUME TypeOK, ScreenShows, LoadReset
  PROVE  ScreenShows'
<1>1. /\ ~loaded /\ LoadInGame
      /\ UNCHANGED <<members, finished, loaded, lagging>>
      /\ screen' = [c \in Players |-> IF c \in members \cap finished
                                      THEN screen[c] \cup (members \ finished) ELSE screen[c]]
  BY DEF LoadReset, playerVars, loadVars
<1> QED  BY <1>1 DEF ScreenShows, TypeOK

LEMMA LagScreens ==
  ASSUME TypeOK, ScreenShows, LagStarts \/ LagGoesOn
  PROVE  ScreenShows'
<1>1. CASE LagStarts
  <2>1. /\ loaded /\ UNCHANGED <<members, loaded>>
        /\ lagging \subseteq lagging'
        /\ screen' = [c \in Players |-> IF c \in members THEN screen[c] \cup lagging'
                                                         ELSE screen[c]]
    BY <1>1 DEF LagStarts, playerVars, loadVars
  <2> QED  BY <2>1 DEF ScreenShows, TypeOK
<1>2. CASE LagGoesOn
  <2>1. /\ loaded /\ UNCHANGED <<members, loaded>>
        /\ lagging' = lagging \ CaughtUp
        /\ screen' = [c \in Players |-> IF c \in members THEN screen[c] \ CaughtUp
                                                         ELSE screen[c]]
    BY <1>2 DEF LagGoesOn, loadVars
  <2> QED  BY <2>1 DEF ScreenShows, TypeOK
<1> QED  BY <1>1, <1>2

LEMMA DeletedScreens ==
  ASSUME TypeOK, ScreenShows, NEW c \in members, NEW disc \in BOOLEAN,
         EventPlayerDeleted(c, disc)
  PROVE  ScreenShows'
<1>1. /\ members' = members \ {c} /\ finished' = finished \ {c} /\ lagging' = lagging \ {c}
      /\ loaded' = loaded
      /\ screen' = [d \in Players |-> IF d = c THEN {} ELSE screen[d] \ {c}]
  BY DEF EventPlayerDeleted, ScreensWithout
<1>2. ASSUME NEW d \in members'
      PROVE  screen'[d] = IF loaded' THEN lagging'
                          ELSE IF LoadInGame /\ d \in finished' THEN members' \ finished' ELSE {}
  <2>1. d \in members /\ d # c /\ d \in Players
    BY <1>1, <1>2 DEF TypeOK
  <2>2. screen'[d] = screen[d] \ {c}
    BY <1>1, <2>1
  <2>3. screen[d] = IF loaded THEN lagging
                    ELSE IF LoadInGame /\ d \in finished THEN members \ finished ELSE {}
    BY <2>1 DEF ScreenShows
  <2> QED  BY <1>1, <2>1, <2>2, <2>3
<1> QED  BY <1>2 DEF ScreenShows

(* The lag screen of every player shows those the game waits for, in the   *)
(* loading game and in the running one (EventPlayerLoaded, SEND_W3GS_-     *)
(* START_LAG and STOP_LAG): no name stays on it and none is missing.       *)
THEOREM ScreensAreRight == Spec => []ScreenShows
<1>1. Init => ScreenShows
  BY DEF Init, ScreenShows
<1>2. TypeOK /\ ScreenShows /\ [Next]_vars => ScreenShows'
  <2> SUFFICES ASSUME TypeOK, ScreenShows, [Next]_vars PROVE ScreenShows'
    OBVIOUS
  <2>1. ASSUME NEW c \in Players, Quit(c) \/ Drop(c) \/ Reap(c) PROVE ScreenShows'
    BY <2>1, Deletion, DeletedScreens
  <2>2. ASSUME NEW c \in Players,
               KeepAlive(c) \/ DropRequest(c) \/ Kick(c) \/ CutOff(c) \/ Reconnect(c)
                 \/ PutInEmpty(c)
        PROVE  ScreenShows'
    BY <2>2, ScreensStand DEF KeepAlive, DropRequest, Kick, CutOff, Reconnect, PutInEmpty,
                              playerVars, loadVars, lagVars
  <2>3. CASE WaitOver \/ SendUpdate \/ UNCHANGED vars
    BY <2>3, ScreensStand DEF WaitOver, SendUpdate, vars, playerVars, loadVars
  <2>4. CASE ClientStep
    BY <2>1, <2>2, <2>4, LoadedScreens DEF ClientStep
  <2>5. CASE UpdateStep
    BY <2>1, <2>3, <2>5, GameLoadedScreens, LoadResetScreens, LagScreens DEF UpdateStep
  <2> QED  BY <2>3, <2>4, <2>5 DEF Next
<1> QED  BY <1>1, <1>2, TypeCorrect, PTL DEF Spec

-----------------------------------------------------------------------------
\* whose step moves the update counter
LEMMA TurnStep ==
  ASSUME ~AutoSave, TypeOK, [Next]_vars
  PROVE  \/ SendUpdate
         \/ /\ turn' = turn
            /\ members' \subseteq members
            /\ \A c \in members' : behind'[c] <= behind[c]
<1> DEFINE Stands == /\ turn' = turn /\ members' \subseteq members
                     /\ \A c \in members' : behind'[c] <= behind[c]
<1>0. members \subseteq Players /\ \A c \in members : behind[c] \in Nat
  BY NumbersAssumption DEF TypeOK
<1>1. ASSUME UNCHANGED <<turn, members, behind>> PROVE Stands
  BY <1>0, <1>1
<1>2. ASSUME NEW c \in Players, Quit(c) \/ Drop(c) \/ Reap(c) PROVE Stands
  <2>1. PICK disc \in BOOLEAN : EventPlayerDeleted(c, disc)
    BY <1>2, Deletion
  <2>2. /\ turn' = turn /\ members' = members \ {c}
        /\ behind' = [d \in Players |-> IF d = c THEN 0 ELSE behind[d]]
    BY <2>1 DEF EventPlayerDeleted
  <2> QED  BY <1>0, <2>2
<1>3. ASSUME NEW c \in Players, KeepAlive(c) PROVE Stands
  <2>1. /\ UNCHANGED <<turn, members>> /\ behind' = [behind EXCEPT ![c] = @ - 1]
    BY <1>3 DEF KeepAlive, playerVars, countVars
  <2>2. ASSUME NEW d \in members PROVE behind'[d] <= behind[d]
    BY <1>0, <2>1 DEF TypeOK
  <2> QED  BY <2>1, <2>2
<1>4. ASSUME NEW c \in Players,
             \/ PlayerLoaded(c) \/ DropRequest(c) \/ Kick(c) \/ CutOff(c)
             \/ Reconnect(c) \/ PutInEmpty(c)
      PROVE  Stands
  <2>1. UNCHANGED <<turn, members, behind>>
    BY <1>4 DEF PlayerLoaded, DropRequest, Kick, CutOff, Reconnect, PutInEmpty,
                playerVars, countVars, lagVars
  <2> QED  BY <2>1, <1>1
<1>5. CASE LoadReset \/ GameLoaded \/ LagStarts \/ LagGoesOn \/ WaitOver \/ UNCHANGED vars
  <2>1. UNCHANGED <<turn, members, behind>>
    BY <1>5 DEF LoadReset, GameLoaded, LagStarts, LagGoesOn, WaitOver, vars,
                playerVars, countVars, lagVars
  <2> QED  BY <2>1, <1>1
<1> HIDE DEF Stands
<1>6. CASE ClientStep
  BY <1>2, <1>3, <1>4, <1>6 DEF ClientStep, Stands
<1>7. CASE UpdateStep
  BY <1>2, <1>5, <1>7 DEF UpdateStep, Stands
<1> QED  BY <1>5, <1>6, <1>7 DEF Next, Stands

(* Without autosave nobody falls behind by more than an update over        *)
(* m_SyncLimit, however long the connection is lost: the game waits.       *)
THEOREM NobodyFallsBehind ==
  ASSUME ~AutoSave
  PROVE  Spec => []NobodyLeftBehind
<1>1. Init => NobodyLeftBehind
  BY NumbersAssumption DEF Init, NobodyLeftBehind
<1>2. TypeOK /\ TypeOK' /\ NobodyLeftBehind /\ [Next]_vars => NobodyLeftBehind'
  <2> SUFFICES ASSUME TypeOK, TypeOK', NobodyLeftBehind, [Next]_vars,
                      NEW c \in members'
               PROVE  behind'[c] <= SyncLimit + 1
    BY DEF NobodyLeftBehind
  <2>1. /\ SyncLimit \in Nat /\ c \in members'
        /\ c \in Players /\ behind'[c] \in Nat
    BY NumbersAssumption DEF TypeOK
  <2>2. CASE SendUpdate
    <3>1. /\ c \in members /\ c \notin OutOfStep /\ behind'[c] = behind[c] + 1
      BY <2>1, <2>2 DEF SendUpdate, OneMoreBehind, playerVars
    <3>2. behind[c] \in Nat
      BY <2>1, NumbersAssumption DEF TypeOK
    <3> QED  BY <2>1, <3>1, <3>2 DEF OutOfStep
  <2>3. CASE c \in members /\ behind'[c] <= behind[c]
    <3>1. behind[c] \in Nat /\ behind[c] <= SyncLimit + 1
      BY <2>1, <2>3, NumbersAssumption DEF TypeOK, NobodyLeftBehind
    <3> QED  BY <2>1, <2>3, <3>1
  <2> QED  BY <2>2, <2>3, TurnStep
<1> QED  BY <1>1, <1>2, TypeCorrect, PTL DEF Spec

(* Without autosave no update is sent to a player whose lag screen shows   *)
(* somebody who stays ("we want the game to stop running while the lag     *)
(* screen is up").                                                         *)
THEOREM GameStandsStill ==
  ASSUME ~AutoSave
  PROVE  Spec => UpdatesOffScreen
<1>1. TypeOK /\ ScreenShows /\ [Next]_vars =>
        [turn' > turn => \A c \in members' : screen[c] \subseteq members \ members']_vars
  <2> SUFFICES ASSUME TypeOK, ScreenShows, [Next]_vars, turn' > turn, NEW c \in members'
               PROVE  screen[c] \subseteq members \ members'
    OBVIOUS
  <2>1. turn \in Nat
    BY NumbersAssumption DEF TypeOK
  <2>2. SendUpdate
    BY <2>1, TurnStep
  <2>3. loaded /\ lagging = {} /\ c \in members
    BY <2>2 DEF SendUpdate, TypeOK, playerVars
  <2> QED  BY <2>3 DEF ScreenShows
<1> QED  BY <1>1, TypeCorrect, ScreensAreRight, PTL DEF Spec, UpdatesOffScreen

-----------------------------------------------------------------------------
(* The history.  As long as no player is cut off for a minute, every       *)
(* player's game goes through what the replay records, with GProxy++ and   *)
(* without, however long the maps take to load and however often the       *)
(* connections are lost.                                                   *)

(* The inductive invariant.  It says where the data is that a player's game*)
(* has not gone through yet: in the buffer while the map loads, in the     *)
(* queue while the connection is lost, and never in both.                  *)
InStep ==
  /\ used = [c \in Players |-> 0]
  /\ ~loaded => cut = {}
  /\ \A c \in members :
       /\ c \notin cut => queue[c] = <<>>
       /\ c \notin Buffered => buffer[c] = <<>>
       /\ view[c] \o queue[c] \o buffer[c] = log

LEMMA PrefixOfConcat ==
  ASSUME NEW s \in Seq(Items), NEW t \in Seq(Items)
  PROVE  IsPrefix(s, s \o t)
<1>1. Len(s) \in Nat /\ Len(t) \in Nat /\ Len(s \o t) = Len(s) + Len(t)
  BY LenProperties, ConcatProperties
<1>2. CASE s = <<>>
  <2>1. Len(s) = 0 /\ 0 < 1
    BY <1>2, EmptySeq
  <2>2. SubSeq(s, 1, 0) = <<>> /\ SubSeq(s \o t, 1, 0) = <<>>
    BY SubSeqEmpty
  <2> QED  BY <1>1, <2>1, <2>2 DEF IsPrefix
<1>3. CASE s # <<>>
  <2>1. 1 \in 1 .. Len(s) /\ Len(s) \in 1 .. Len(s)
    BY <1>1, <1>3, EmptySeq
  <2>2. SubSeq(s \o t, 1, Len(s)) = SubSeq(s, 1, Len(s))
    BY <2>1, SubSeqOfConcat1
  <2> QED  BY <1>1, <2>2 DEF IsPrefix
<1> QED  BY <1>2, <1>3

(* A player's time slot comes to the replay's, with GProxy++ and without.  *)
LEMMA SameSlot ==
  ASSUME NEW c \in members, NEW slot \in Seq(Items)
  PROVE  Shown(c, slot) = Recorded(slot)
<1>1. CASE c \in GProxy
  <2>1. UsingGProxy /\ Inserted(c) = Empties /\ Extra(c) = <<>>
    BY <1>1 DEF UsingGProxy, Inserted, Extra
  <2>2. Empties \o <<>> = Empties
    BY EmptiesType, ConcatEmptySeq
  <2> QED  BY <2>1, <2>2 DEF Shown, Recorded
<1>2. CASE c \notin GProxy
  <2>1. Inserted(c) = <<>> /\ Extra(c) = IF UsingGProxy THEN Empties ELSE <<>>
    BY <1>2 DEF Inserted, Extra
  <2>2. <<>> \o Extra(c) = Extra(c)
    BY <2>1, EmptiesType, EmptySeq, ConcatEmptySeq
  <2> QED  BY <2>1, <2>2 DEF Shown, Recorded
<1> QED  BY <1>1, <1>2

LEMMA Assoc == \A s, t, u \in Seq(Items) : s \o (t \o u) = (s \o t) \o u
BY ConcatAssociative

(* One more piece at the end of the queue or the view.                     *)
LEMMA AtQueue ==
  ASSUME NEW v \in Seq(Items), NEW q \in Seq(Items), NEW s \in Seq(Items)
  PROVE  v \o (q \o s) \o <<>> = v \o q \o <<>> \o s
<1>1. v \o q \in Seq(Items) /\ v \o (q \o s) \in Seq(Items)
  BY ConcatProperties
<1>2. v \o (q \o s) = (v \o q) \o s
  BY ConcatAssociative
<1>3. v \o (q \o s) \o <<>> = v \o (q \o s) /\ v \o q \o <<>> = v \o q
  BY <1>1, ConcatEmptySeq
<1> QED  BY <1>2, <1>3

LEMMA AtView ==
  ASSUME NEW v \in Seq(Items), NEW s \in Seq(Items)
  PROVE  v \o s \o <<>> \o <<>> = v \o <<>> \o <<>> \o s
<1>1. v \o s \in Seq(Items)
  BY ConcatProperties
<1>2. v \o s \o <<>> = v \o s /\ v \o <<>> = v
  BY <1>1, ConcatEmptySeq
<1> QED  BY <1>2

(* Whatever is handed to the players who stay is where InStep wants it.    *)
LEMMA HandKeeps ==
  ASSUME TypeOK, InStep, NEW stay \in SUBSET members, NEW more \in Seq(Items),
         NEW items, \A c \in stay : items[c] = more, Hand(stay, items)
  PROVE  /\ used' = [c \in Players |-> 0]
         /\ \A c \in stay :
              /\ c \notin cut => queue'[c] = <<>>
              /\ c \notin Buffered => buffer'[c] = <<>>
              /\ view'[c] \o queue'[c] \o buffer'[c] = log \o more
              /\ view'[c] = view[c] \/ view'[c] = view[c] \o more
<1> DEFINE now == stay \ (Buffered \cup cut)
<1> HIDE DEF now
<1>1. /\ buffer' = [c \in Players |-> IF c \in stay \cap Buffered THEN buffer[c] \o items[c]
                                      ELSE IF c \in stay THEN buffer[c] ELSE <<>>]
      /\ queue' = [c \in Players |-> IF c \in stay \cap cut THEN queue[c] \o items[c]
                                     ELSE IF c \in stay THEN queue[c] ELSE <<>>]
      /\ view' = [c \in Players |-> IF c \in now THEN view[c] \o Net(items[c], used[c])
                                    ELSE IF c \in stay THEN view[c] ELSE <<>>]
      /\ used' = [c \in Players |-> IF c \in stay /\ ~(c \in now /\ HasSlot(items[c]))
                                    THEN used[c] ELSE 0]
  BY DEF Hand, now
<1>2. used' = [c \in Players |-> 0]
  BY <1>1 DEF InStep
<1>3. ASSUME NEW c \in stay
      PROVE  /\ c \notin cut => queue'[c] = <<>>
             /\ c \notin Buffered => buffer'[c] = <<>>
             /\ view'[c] \o queue'[c] \o buffer'[c] = log \o more
             /\ view'[c] = view[c] \/ view'[c] = view[c] \o more
  <2>1. /\ c \in members /\ c \in Players /\ items[c] = more /\ used[c] = 0
        /\ view[c] \in Seq(Items) /\ queue[c] \in Seq(Items) /\ buffer[c] \in Seq(Items)
    BY DEF TypeOK, InStep
  <2>2. Net(items[c], used[c]) = more
    BY <2>1, NetZero
  <2>3. view[c] \o queue[c] \o buffer[c] = log
    BY <2>1 DEF InStep
  <2>7. view[c] \in Seq(Items) /\ queue[c] \in Seq(Items) /\ buffer[c] \in Seq(Items)
    BY <2>1
  <2>4. CASE c \in Buffered
    <3>1. c \notin cut
      BY <2>1, <2>4 DEF InStep, Buffered
    <3>2. /\ buffer'[c] = buffer[c] \o more /\ queue'[c] = queue[c] /\ view'[c] = view[c]
          /\ queue[c] = <<>>
      BY <1>1, <2>1, <2>4, <3>1 DEF now, InStep
    <3>3. view[c] \o queue[c] \o (buffer[c] \o more)
            = view[c] \o queue[c] \o buffer[c] \o more
      <4> DEFINE w == view[c] \o queue[c]
      <4>1. w \in Seq(Items) /\ buffer[c] \in Seq(Items)
        BY <2>7, ConcatProperties
      <4> HIDE DEF w
      <4>2. w \o (buffer[c] \o more) = (w \o buffer[c]) \o more
        BY <4>1, Assoc
      <4> QED  BY <4>2 DEF w
    <3>4. view'[c] \o queue'[c] \o buffer'[c] = log \o more
      BY <2>3, <3>2, <3>3
    <3> QED  BY <2>4, <3>2, <3>4
  <2>5. CASE c \in cut
    <3>1. c \notin Buffered
      BY <2>1, <2>5 DEF InStep, Buffered
    <3>2. /\ buffer'[c] = buffer[c] /\ queue'[c] = queue[c] \o more /\ view'[c] = view[c]
          /\ buffer[c] = <<>>
      BY <1>1, <2>1, <2>5, <3>1 DEF now, InStep
    <3>3. view[c] \o (queue[c] \o more) \o <<>> = view[c] \o queue[c] \o <<>> \o more
      BY <2>7, AtQueue
    <3>4. view'[c] \o queue'[c] \o buffer'[c] = log \o more
      BY <2>3, <3>2, <3>3
    <3> QED  BY <2>5, <3>2, <3>4
  <2>6. CASE c \notin Buffered \cup cut
    <3>1. /\ buffer'[c] = buffer[c] /\ queue'[c] = queue[c] /\ view'[c] = view[c] \o more
          /\ buffer[c] = <<>> /\ queue[c] = <<>>
      BY <1>1, <2>1, <2>2, <2>6 DEF now, InStep
    <3>2. view[c] \o more \o <<>> \o <<>> = view[c] \o <<>> \o <<>> \o more
      BY <2>7, AtView
    <3>3. view'[c] \o queue'[c] \o buffer'[c] = log \o more
      BY <2>3, <3>1, <3>2
    <3> QED  BY <3>1, <3>3
  <2> QED  BY <2>4, <2>5, <2>6
<1> QED  BY <1>2, <1>3

-----------------------------------------------------------------------------
(* Every step keeps InStep, and adds to the history and to what the games  *)
(* of those who stay have gone through.                                    *)

Grows ==
  /\ members' \subseteq members
  /\ \E s \in Seq(Items) : log' = log \o s
  /\ \A c \in members' : \E s \in Seq(Items) : view'[c] = view[c] \o s

LEMMA NothingAdded ==
  ASSUME TypeOK
  PROVE  /\ \E s \in Seq(Items) : log = log \o s
         /\ \A c \in Players : \E s \in Seq(Items) : view[c] = view[c] \o s
<1>1. <<>> \in Seq(Items)
  BY EmptySeq
<1>2. log \o <<>> = log /\ \A c \in Players : view[c] \o <<>> = view[c]
  BY ConcatEmptySeq DEF TypeOK
<1> QED  BY <1>1, <1>2

LEMMA DataStands ==
  ASSUME TypeOK, InStep, UNCHANGED <<members, dataVars>>,
         Buffered' = Buffered, ~loaded' => cut' = {}, cut \cap members \subseteq cut'
  PROVE  InStep' /\ Grows
<1>1. UNCHANGED <<members, buffer, queue, view, used, log>>
  BY DEF dataVars
<1>2. InStep'
  BY <1>1 DEF InStep
<1>3. members \subseteq Players
  BY DEF TypeOK
<1> QED  BY <1>1, <1>2, <1>3, NothingAdded DEF Grows

LEMMA HandAllStep ==
  ASSUME TypeOK, InStep, NEW slot \in Seq(Items), HandAll(slot),
         UNCHANGED <<members, finished, loaded, cut>>
  PROVE  InStep' /\ Grows
<1> DEFINE items == [c \in Players |-> Shown(c, slot)]
           more  == Recorded(slot)
<1>1. /\ Hand(members, items)
      /\ log' = log \o more
      /\ more \in Seq(Items)
  BY ShownType DEF HandAll
<1>2. \A c \in members : items[c] = more
  BY SameSlot DEF TypeOK
<1> HIDE DEF items, more
<1>3. /\ used' = [c \in Players |-> 0]
      /\ \A c \in members :
           /\ c \notin cut => queue'[c] = <<>>
           /\ c \notin Buffered => buffer'[c] = <<>>
           /\ view'[c] \o queue'[c] \o buffer'[c] = log \o more
           /\ view'[c] = view[c] \/ view'[c] = view[c] \o more
  BY <1>1, <1>2, HandKeeps
<1>4. Buffered' = Buffered
  BY DEF Buffered
<1>5. InStep'
  BY <1>1, <1>3, <1>4 DEF InStep
<1>6. ASSUME NEW c \in members PROVE \E s \in Seq(Items) : view'[c] = view[c] \o s
  BY <1>1, <1>3, NothingAdded DEF TypeOK
<1> QED  BY <1>1, <1>5, <1>6 DEF Grows

LEMMA LoadedStep ==
  ASSUME TypeOK, InStep, NEW c \in Players, PlayerLoaded(c)
  PROVE  InStep' /\ Grows
<1>1. /\ ~loaded /\ c \in members \ finished /\ finished' = finished \cup {c}
      /\ UNCHANGED <<members, loaded, cut, queue, used, log>>
  BY DEF PlayerLoaded, playerVars
<1>2. cut = {} /\ c \in members /\ members \subseteq Players
  BY <1>1 DEF InStep, TypeOK
<1>3. Buffered' = Buffered \ {c}
  BY <1>1 DEF Buffered
<1>4. CASE LoadInGame
  <2>1. /\ view' = [view EXCEPT ![c] = @ \o buffer[c]]
        /\ buffer' = [buffer EXCEPT ![c] = <<>>]
    BY <1>4 DEF PlayerLoaded
  <2>2. /\ view[c] \in Seq(Items) /\ buffer[c] \in Seq(Items) /\ queue[c] = <<>>
        /\ view'[c] = view[c] \o buffer[c] /\ buffer'[c] = <<>> /\ queue'[c] = <<>>
    BY <1>1, <1>2, <2>1 DEF InStep, TypeOK
  <2>3. view'[c] \o queue'[c] \o buffer'[c] = log
    <3>1. view[c] \o <<>> \o buffer[c] = log
      BY <1>2, <2>2 DEF InStep
    <3>2. view[c] \o <<>> = view[c]
      BY <2>2, ConcatEmptySeq
    <3>3. view[c] \o buffer[c] = log
      BY <3>1, <3>2
    <3>4. log \o <<>> = log
      BY ConcatEmptySeq DEF TypeOK
    <3> QED  BY <2>2, <3>3, <3>4
  <2>4. ASSUME NEW d \in members, d # c
        PROVE  view'[d] = view[d] /\ buffer'[d] = buffer[d] /\ queue'[d] = queue[d]
    BY <1>1, <1>2, <2>1, <2>4 DEF TypeOK
  <2>5. InStep'
    <3>1. ASSUME NEW d \in members
          PROVE  /\ d \notin cut => queue'[d] = <<>>
                 /\ d \notin Buffered' => buffer'[d] = <<>>
                 /\ view'[d] \o queue'[d] \o buffer'[d] = log
      <4>1. CASE d = c
        BY <2>2, <2>3, <4>1
      <4>2. CASE d # c
        BY <1>3, <2>4, <4>2 DEF InStep
      <4> QED  BY <4>1, <4>2
    <3> QED  BY <1>1, <1>2, <3>1 DEF InStep
  <2>6. ASSUME NEW d \in members PROVE \E s \in Seq(Items) : view'[d] = view[d] \o s
    <3>1. CASE d = c
      BY <2>2, <3>1
    <3>2. CASE d # c
      BY <1>2, <2>4, <3>2, NothingAdded
    <3> QED  BY <3>1, <3>2
  <2> QED  BY <1>1, <1>2, <2>5, <2>6, NothingAdded DEF Grows
<1>5. CASE ~LoadInGame
  <2>1. UNCHANGED <<members, dataVars>>
    BY <1>1, <1>5 DEF PlayerLoaded, dataVars
  <2>2. Buffered' = Buffered
    BY <1>5 DEF Buffered
  <2> QED  BY <1>1, <1>2, <2>1, <2>2, DataStands
<1> QED  BY <1>4, <1>5, SwitchesAssumption

LEMMA GameLoadedStep ==
  ASSUME TypeOK, InStep, GameLoaded
  PROVE  InStep' /\ Grows
<1>1. /\ members \subseteq finished /\ loaded' = TRUE
      /\ UNCHANGED <<members, dataVars, cut>>
  BY DEF GameLoaded, playerVars
<1>2. Buffered' = {} /\ Buffered = {}
  BY <1>1 DEF Buffered
<1> QED  BY <1>1, <1>2, DataStands

LEMMA ReconnectStep ==
  ASSUME TypeOK, InStep, NEW c \in Players, Reconnect(c)
  PROVE  InStep' /\ Grows
<1>1. /\ c \in cut /\ c \in members /\ cut' = cut \ {c}
      /\ queue' = [queue EXCEPT ![c] = <<>>]
      /\ view' = [view EXCEPT ![c] = @ \o Net(queue[c], used[c])]
      /\ UNCHANGED <<members, finished, loaded, buffer, log>>
  BY DEF Reconnect, TypeOK, playerVars, loadVars
<1>2. used[c] = 0 /\ used' = [d \in Players |-> 0]
  BY DEF Reconnect, InStep
<1>3. Net(queue[c], used[c]) = queue[c]
  BY <1>2, NetZero
<1>4. Buffered' = Buffered /\ c \notin Buffered
  BY <1>1 DEF Buffered, InStep
<1>5. /\ view[c] \in Seq(Items) /\ queue[c] \in Seq(Items)
      /\ view'[c] = view[c] \o queue[c] /\ queue'[c] = <<>> /\ buffer'[c] = <<>>
      /\ buffer[c] = <<>>
  BY <1>1, <1>3, <1>4 DEF InStep, TypeOK
<1>6. view'[c] \o queue'[c] \o buffer'[c] = log
  <2>1. view[c] \o queue[c] \o <<>> = log
    BY <1>1, <1>5 DEF InStep
  <2>2. log \o <<>> = log
    BY ConcatEmptySeq DEF TypeOK
  <2>3. view[c] \o queue[c] \in Seq(Items)
    BY <1>5, ConcatProperties
  <2>4. view[c] \o queue[c] = log
    BY <2>1, <2>3, ConcatEmptySeq
  <2> QED  BY <1>5, <2>2, <2>4
<1>7. ASSUME NEW d \in members, d # c
      PROVE  view'[d] = view[d] /\ buffer'[d] = buffer[d] /\ queue'[d] = queue[d]
  BY <1>1, <1>7 DEF TypeOK
<1>8. InStep'
  <2>1. ASSUME NEW d \in members
        PROVE  /\ d \notin cut' => queue'[d] = <<>>
               /\ d \notin Buffered' => buffer'[d] = <<>>
               /\ view'[d] \o queue'[d] \o buffer'[d] = log
    <3>1. CASE d = c
      BY <1>5, <1>6, <3>1
    <3>2. CASE d # c
      BY <1>1, <1>4, <1>7, <3>2 DEF InStep
    <3> QED  BY <3>1, <3>2
  <2>2. ~loaded => cut' = {}
    BY <1>1 DEF InStep
  <2> QED  BY <1>1, <1>2, <2>1, <2>2 DEF InStep
<1>9. ASSUME NEW d \in members PROVE \E s \in Seq(Items) : view'[d] = view[d] \o s
  <2>1. CASE d = c
    BY <1>5, <2>1
  <2>2. CASE d # c
    BY <1>7, <2>2, NothingAdded DEF TypeOK
  <2> QED  BY <2>1, <2>2
<1> QED  BY <1>1, <1>8, <1>9, NothingAdded DEF Grows

LEMMA DeletedStep ==
  ASSUME TypeOK, InStep, NEW c \in members, NEW disc \in BOOLEAN,
         EventPlayerDeleted(c, disc)
  PROVE  InStep' /\ Grows
<1> DEFINE stay  == members \ {c}
           saves == loaded /\ AutoSave /\ disc
           slots == IF saves THEN Recorded(NextSlot) ELSE <<>>
           more  == slots \o <<Leave(c)>>
           items == Farewell(c, saves)
<1>1. /\ members' = stay /\ cut' = cut \ {c} /\ finished' = finished \ {c}
      /\ loaded' = loaded
      /\ Hand(stay, items)
      /\ log' = log \o slots \o <<Leave(c)>>
  BY DEF EventPlayerDeleted
<1>2. /\ c \in Players /\ members \subseteq Players
      /\ saves \in BOOLEAN /\ turn \in 0 .. MaxUpdates
  BY SwitchesAssumption DEF TypeOK
<1>3. slots \in Seq(Items) /\ <<Leave(c)>> \in Seq(Items)
  <2>1. Recorded(NextSlot) \in Seq(Items)
    BY <1>2, SlotTypes, ShownType
  <2>2. <<>> \in Seq(Items)
    BY EmptySeq
  <2>3. Leave(c) \in Items
    BY <1>2, ItemTypes
  <2> QED  BY <2>1, <2>2, <2>3
<1>4. ASSUME NEW d \in stay PROVE items[d] = more
  <2>1. items[d] = (IF saves THEN Shown(d, NextSlot) ELSE <<>>) \o <<Leave(c)>>
    BY <1>2 DEF Farewell
  <2>2. Shown(d, NextSlot) = Recorded(NextSlot)
    BY <1>2, SlotTypes, SameSlot
  <2> QED  BY <2>1, <2>2
<1> HIDE DEF stay, saves, slots, items
<1>5. more \in Seq(Items) /\ log' = log \o more
  <2> DEFINE last == <<Leave(c)>>
  <2>1. slots \in Seq(Items) /\ last \in Seq(Items) /\ log \in Seq(Items)
    BY <1>3 DEF TypeOK
  <2>2. log' = log \o slots \o last
    BY <1>1
  <2> HIDE DEF last
  <2>3. slots \o last \in Seq(Items)
    BY <2>1, ConcatProperties
  <2>4. log \o (slots \o last) = (log \o slots) \o last
    BY <2>1, Assoc
  <2> QED  BY <2>2, <2>3, <2>4 DEF last
<1> HIDE DEF more
<1>6. stay \in SUBSET members
  BY DEF stay
<1>7. /\ used' = [d \in Players |-> 0]
      /\ \A d \in stay :
           /\ d \notin cut => queue'[d] = <<>>
           /\ d \notin Buffered => buffer'[d] = <<>>
           /\ view'[d] \o queue'[d] \o buffer'[d] = log \o more
           /\ view'[d] = view[d] \/ view'[d] = view[d] \o more
  BY <1>1, <1>4, <1>5, <1>6, HandKeeps
<1>8. \A d \in stay : (d \in Buffered' <=> d \in Buffered) /\ (d \in cut' <=> d \in cut)
  BY <1>1 DEF Buffered, stay
<1>9. InStep'
  BY <1>1, <1>5, <1>7, <1>8 DEF InStep
<1>10. ASSUME NEW d \in stay PROVE \E s \in Seq(Items) : view'[d] = view[d] \o s
  BY <1>2, <1>5, <1>6, <1>7, NothingAdded
<1> QED  BY <1>1, <1>5, <1>6, <1>9, <1>10 DEF Grows

LEMMA InStepStep ==
  ASSUME ~LongOutages, TypeOK, InStep, [Next]_vars
  PROVE  InStep' /\ Grows
<1>1. ASSUME NEW c \in Players, Quit(c) \/ Drop(c) \/ Reap(c) PROVE InStep' /\ Grows
  BY <1>1, Deletion, DeletedStep
<1>2. ASSUME NEW c \in Players, KeepAlive(c) \/ DropRequest(c) \/ Kick(c)
      PROVE  InStep' /\ Grows
  <2>1. UNCHANGED <<members, dataVars, finished, loaded, cut>>
    BY <1>2 DEF KeepAlive, DropRequest, Kick, playerVars, loadVars
  <2> QED  BY <2>1, DataStands DEF Buffered, InStep
<1>3. ASSUME NEW c \in Players, CutOff(c) PROVE InStep' /\ Grows
  <2>1. loaded /\ cut' = cut \cup {c} /\ UNCHANGED <<members, dataVars, finished, loaded>>
    BY <1>3 DEF CutOff, playerVars, loadVars
  <2> QED  BY <2>1, DataStands DEF Buffered
<1>4. CASE LoadReset
  <2>1. <<EmptySlot>> \in Seq(Items)
    BY SlotTypes DEF TypeOK
  <2>2. HandAll(<<EmptySlot>>) /\ UNCHANGED <<members, finished, loaded, cut>>
    BY <1>4 DEF LoadReset, playerVars, loadVars
  <2> QED  BY <2>1, <2>2, HandAllStep
<1>5. CASE LagStarts \/ WaitOver
  <2>1. UNCHANGED <<members, dataVars, finished, loaded, cut>>
    BY <1>5 DEF LagStarts, WaitOver, playerVars, loadVars
  <2> QED  BY <2>1, DataStands DEF Buffered, InStep
<1>6. CASE LagGoesOn
  <2>1. UNCHANGED <<members, finished, loaded, cut>>
    BY <1>6 DEF LagGoesOn, loadVars
  <2>2. CASE HandAll(<<EmptySlot>>)
    <3>1. <<EmptySlot>> \in Seq(Items)
      BY SlotTypes DEF TypeOK
    <3> QED  BY <2>1, <2>2, <3>1, HandAllStep
  <2>3. CASE UNCHANGED <<dataVars, resets>>
    BY <2>1, <2>3, DataStands DEF Buffered, InStep
  <2> QED  BY <1>6, <2>2, <2>3 DEF LagGoesOn
<1>7. CASE SendUpdate
  <2>1. NextSlot \in Seq(Items)
    BY SlotTypes DEF TypeOK
  <2>2. HandAll(NextSlot) /\ UNCHANGED <<members, finished, loaded, cut>>
    BY <1>7 DEF SendUpdate, playerVars, loadVars
  <2> QED  BY <2>1, <2>2, HandAllStep
<1>8. CASE UNCHANGED vars
  BY <1>8, DataStands DEF vars, dataVars, Buffered, InStep
<1>9. ASSUME NEW c \in Players, PutInEmpty(c) PROVE FALSE
  BY <1>9 DEF PutInEmpty
<1>10. CASE ClientStep
  BY <1>1, <1>2, <1>3, <1>9, <1>10, LoadedStep, ReconnectStep DEF ClientStep
<1>11. CASE UpdateStep
  BY <1>1, <1>4, <1>5, <1>6, <1>7, <1>11, GameLoadedStep DEF UpdateStep
<1> QED  BY <1>8, <1>10, <1>11 DEF Next

LEMMA InStepInit == Init => InStep
<1> SUFFICES ASSUME Init PROVE InStep
  OBVIOUS
<1>1. <<>> \o <<>> \o <<>> = <<>>
  BY EmptySeq, ConcatEmptySeq
<1> QED  BY <1>1 DEF Init, InStep, Nothing

-----------------------------------------------------------------------------
(* Every player in the game gets the time slots and leaves of the replay   *)
(* in the replay's order (the comment on "desyncable game data").          *)
THEOREM EverybodyGetsTheSame ==
  ASSUME ~LongOutages
  PROVE  Spec => []SameData
<1>1. TypeOK /\ InStep => SameData
  BY NetZero DEF InStep, SameData, Course, TypeOK
<1>2. TypeOK /\ InStep /\ [Next]_vars => InStep'
  BY InStepStep
<1> QED  BY <1>1, <1>2, TypeCorrect, InStepInit, PTL DEF Spec

(* GameLoop implements Broadcast: there is one history, the replay's, and  *)
(* the game of every player who stays is somewhere in it.                  *)
THEOREM LoopImplementsBroadcast ==
  ASSUME ~LongOutages
  PROVE  Spec => OneHistory
<1>1. Init => Abstract!Init
  BY DEF Init, Nothing, Abstract!Init
<1>2. TypeOK /\ TypeOK' /\ InStep /\ [Next]_vars => [Abstract!Next]_Abstract!vars
  <2> SUFFICES ASSUME TypeOK, TypeOK', InStep, [Next]_vars PROVE Abstract!Next
    OBVIOUS
  <2>1. InStep' /\ Grows
    BY InStepStep
  <2>2. IsPrefix(log, log') /\ members' \subseteq members
    BY <2>1, PrefixOfConcat DEF Grows, TypeOK
  <2>3. ASSUME NEW c \in members'
        PROVE  IsPrefix(view[c], view'[c]) /\ IsPrefix(view'[c], log')
    <3>1. /\ c \in Players /\ view[c] \in Seq(Items)
          /\ view'[c] \in Seq(Items) /\ queue'[c] \in Seq(Items) /\ buffer'[c] \in Seq(Items)
      BY <2>2 DEF TypeOK
    <3>2. IsPrefix(view[c], view'[c])
      BY <2>1, <3>1, PrefixOfConcat DEF Grows
    <3>3. view'[c] \o queue'[c] \o buffer'[c] = log'
      BY <2>1 DEF InStep
    <3>4. view'[c] \o (queue'[c] \o buffer'[c]) = log' /\ queue'[c] \o buffer'[c] \in Seq(Items)
      <4>1. queue'[c] \o buffer'[c] \in Seq(Items)
        BY <3>1, ConcatProperties
      <4>2. view'[c] \o (queue'[c] \o buffer'[c]) = (view'[c] \o queue'[c]) \o buffer'[c]
        BY <3>1, Assoc
      <4> QED  BY <3>3, <4>1, <4>2
    <3> QED  BY <3>1, <3>2, <3>4, PrefixOfConcat
  <2> QED  BY <2>2, <2>3 DEF Abstract!Next, Abstract!Advance, IsPrefix, Abstract!IsPrefix
<1>3. TypeOK /\ InStep /\ [Next]_vars => InStep'
  BY InStepStep
<1> QED  BY <1>1, <1>2, <1>3, TypeCorrect, InStepInit, PTL DEF Spec, OneHistory, Abstract!Spec

-----------------------------------------------------------------------------
(* What is kept of a sequence.                                             *)

LEMMA Least ==
  ASSUME NEW S \in SUBSET Nat, S # {}
  PROVE  \E m \in S : \A x \in S : m <= x
<1> DEFINE R == OpToRel(<, Nat)
<1>1. PICK m \in S : \A x \in S : ~(<<x, m>> \in R)
  BY NatLessThanWellFounded, WFMin
<1>2. \A x \in S : ~(x < m)
  BY <1>1 DEF OpToRel
<1>3. \A x \in S : m <= x
  BY <1>2
<1> QED  BY <1>3

\* what the loop of Only makes of the i-th item, and of all up to the n-th
Kept(kind, items, f, i) ==
  IF i = 0 THEN <<>>
  ELSE IF items[i] \in kind THEN Append(f[i - 1], items[i]) ELSE f[i - 1]

Filters(kind, items, f, n) == f = [i \in 0 .. n |-> Kept(kind, items, f, i)]

LEMMA FilterExists ==
  ASSUME NEW kind, NEW items \in Seq(Items)
  PROVE  \E f : Filters(kind, items, f, Len(items))
<1>1. Len(items) \in Nat
  BY LenProperties
<1> DEFINE Bad == {n \in 0 .. Len(items) : ~ \E f : Filters(kind, items, f, n)}
<1>2. SUFFICES ASSUME Bad # {} PROVE FALSE
  BY <1>1
<1>3. PICK n \in Bad : \A x \in Bad : n <= x
  <2>1. Bad \in SUBSET Nat
    BY <1>1
  <2> HIDE DEF Bad
  <2> QED  BY <1>2, <2>1, Least
<1>4. n \in 0 .. Len(items) /\ ~ \E f : Filters(kind, items, f, n)
  BY <1>3
<1>5. CASE n = 0
  <2> DEFINE f == [i \in 0 .. 0 |-> <<>>]
  <2>1. Filters(kind, items, f, 0)
    BY DEF Filters, Kept
  <2> QED  BY <1>4, <1>5, <2>1
<1>6. CASE n # 0
  <2>1. n - 1 \in 0 .. Len(items) /\ n - 1 \notin Bad
    <3>1. n \in Nat /\ n - 1 \in 0 .. Len(items) /\ ~(n <= n - 1)
      BY <1>1, <1>4, <1>6
    <3> HIDE DEF Bad
    <3> QED  BY <1>3, <3>1
  <2>2. PICK g : Filters(kind, items, g, n - 1)
    BY <2>1
  <2> DEFINE f == [i \in 0 .. n |-> IF i = n THEN Kept(kind, items, g, n) ELSE g[i]]
  <2>3. \A i \in 0 .. n - 1 : g[i] = Kept(kind, items, g, i)
    BY <2>2 DEF Filters
  <2>4. ASSUME NEW i \in 0 .. n PROVE f[i] = Kept(kind, items, f, i)
    <3>1. i # 0 => i - 1 \in 0 .. n /\ i - 1 # n
      BY <1>1, <1>4, <2>4
    <3>2. i # 0 => f[i - 1] = g[i - 1]
      BY <3>1
    <3>3. i # n => i \in 0 .. n - 1
      BY <1>1, <1>4, <2>4
    <3>4. f[i] = Kept(kind, items, g, i)
      BY <2>3, <3>3
    <3> HIDE DEF f
    <3> QED  BY <3>2, <3>4 DEF Kept
  <2>5. Filters(kind, items, f, n)
    <3>1. f = [i \in 0 .. n |-> f[i]]
      OBVIOUS
    <3> HIDE DEF f
    <3> QED  BY <2>4, <3>1 DEF Filters
  <2> QED  BY <1>4, <2>5
<1> QED  BY <1>5, <1>6

LEMMA OnlyFilters ==
  ASSUME NEW kind, NEW items \in Seq(Items)
  PROVE  \E f : /\ Only(kind, items) = f[Len(items)]
                /\ \A i \in 0 .. Len(items) :
                     f[i] = Kept(kind, items, f, i) /\ f[i] \in Seq(Items)
<1> DEFINE f == CHOOSE f : Filters(kind, items, f, Len(items))
<1>1. Filters(kind, items, f, Len(items))
  BY FilterExists
<1>2. Only(kind, items) = f[Len(items)]
  BY DEF Only, Filters, Kept
<1> HIDE DEF f
<1>3. \A i \in 0 .. Len(items) : f[i] = Kept(kind, items, f, i)
  BY <1>1 DEF Filters
<1>4. Len(items) \in Nat /\ \A i \in 1 .. Len(items) : items[i] \in Items
  BY LenProperties, ElementOfSeq
<1>5. \A i \in 0 .. Len(items) : f[i] \in Seq(Items)
  <2> DEFINE Bad == {n \in 0 .. Len(items) : f[n] \notin Seq(Items)}
  <2>1. SUFFICES ASSUME Bad # {} PROVE FALSE
    OBVIOUS
  <2>2. PICK n \in Bad : \A x \in Bad : n <= x
    <3>1. Bad \in SUBSET Nat
      BY <1>4
    <3> HIDE DEF Bad
    <3> QED  BY <2>1, <3>1, Least
  <2>3. n \in 0 .. Len(items) /\ f[n] \notin Seq(Items)
    BY <2>2
  <2>4. n # 0
    BY <1>3, <2>3, EmptySeq DEF Kept
  <2>5. n - 1 \in 0 .. Len(items) /\ n \in 1 .. Len(items) /\ f[n - 1] \in Seq(Items)
    <3>1. n \in 1 .. Len(items) /\ n - 1 \in 0 .. Len(items) /\ ~(n <= n - 1)
      BY <1>4, <2>3, <2>4
    <3>2. n - 1 \notin Bad
      <4> HIDE DEF Bad
      <4> QED  BY <2>2, <3>1
    <3> QED  BY <3>1, <3>2
  <2>6. Append(f[n - 1], items[n]) \in Seq(Items)
    BY <1>4, <2>5, AppendProperties
  <2> QED  BY <1>3, <2>3, <2>4, <2>5, <2>6 DEF Kept
<1> QED  BY <1>2, <1>3, <1>5

(* The loop has one result.                                                *)
LEMMA OnlyIs ==
  ASSUME NEW kind, NEW items \in Seq(Items), NEW g,
         \A i \in 0 .. Len(items) : g[i] = Kept(kind, items, g, i)
  PROVE  Only(kind, items) = g[Len(items)]
<1>1. PICK f : /\ Only(kind, items) = f[Len(items)]
               /\ \A i \in 0 .. Len(items) : f[i] = Kept(kind, items, f, i)
  BY OnlyFilters
<1>2. Len(items) \in Nat
  BY LenProperties
<1>3. \A i \in 0 .. Len(items) : f[i] = g[i]
  <2> DEFINE Bad == {n \in 0 .. Len(items) : f[n] # g[n]}
  <2>1. SUFFICES ASSUME Bad # {} PROVE FALSE
    OBVIOUS
  <2>2. PICK n \in Bad : \A x \in Bad : n <= x
    <3>1. Bad \in SUBSET Nat
      BY <1>2
    <3> HIDE DEF Bad
    <3> QED  BY <2>1, <3>1, Least
  <2>3. n \in 0 .. Len(items) /\ f[n] # g[n]
    BY <2>2
  <2>4. n # 0
    BY <1>1, <2>3 DEF Kept
  <2>5. f[n - 1] = g[n - 1]
    <3>1. n - 1 \in 0 .. Len(items) /\ ~(n <= n - 1)
      BY <1>2, <2>3, <2>4
    <3>2. n - 1 \notin Bad
      <4> HIDE DEF Bad
      <4> QED  BY <2>2, <3>1
    <3> QED  BY <3>1, <3>2
  <2> QED  BY <1>1, <2>3, <2>4, <2>5 DEF Kept
<1> QED  BY <1>1, <1>2, <1>3

LEMMA OnlyType ==
  ASSUME NEW kind, NEW items \in Seq(Items)
  PROVE  Only(kind, items) \in Seq(Items)
BY OnlyFilters, LenProperties

LEMMA OnlyConcat ==
  ASSUME NEW kind, NEW s \in Seq(Items), NEW t \in Seq(Items)
  PROVE  Only(kind, s \o t) = Only(kind, s) \o Only(kind, t)
<1>1. PICK f : /\ Only(kind, s) = f[Len(s)]
               /\ \A i \in 0 .. Len(s) : f[i] = Kept(kind, s, f, i) /\ f[i] \in Seq(Items)
  BY OnlyFilters
<1>2. PICK h : /\ Only(kind, t) = h[Len(t)]
               /\ \A i \in 0 .. Len(t) : h[i] = Kept(kind, t, h, i) /\ h[i] \in Seq(Items)
  BY OnlyFilters
<1>3. /\ Len(s) \in Nat /\ Len(t) \in Nat /\ Len(s \o t) = Len(s) + Len(t)
      /\ s \o t \in Seq(Items)
      /\ \A i \in 1 .. Len(s) : (s \o t)[i] = s[i]
      /\ \A i \in Len(s) + 1 .. Len(s) + Len(t) : (s \o t)[i] = t[i - Len(s)]
  BY LenProperties, ConcatProperties
<1> DEFINE all == f[Len(s)]
<1>4. all \in Seq(Items) /\ h[0] = <<>> /\ all \o h[0] = all /\ Only(kind, s) = all
  <2>1. 0 \in 0 .. Len(t) /\ Len(s) \in 0 .. Len(s)
    BY <1>3
  <2>2. h[0] = <<>>
    BY <1>2, <2>1 DEF Kept
  <2>3. all \in Seq(Items)
    BY <1>1, <2>1
  <2> QED  BY <1>1, <2>2, <2>3, ConcatEmptySeq
<1>8. \A i \in 0 .. Len(s) : i = Len(s) => f[i] = all
  OBVIOUS
<1> HIDE DEF all
<1> DEFINE g == [i \in 0 .. Len(s) + Len(t) |->
                   IF i <= Len(s) THEN f[i] ELSE all \o h[i - Len(s)]]
<1>5. ASSUME NEW i \in 0 .. Len(s) + Len(t) PROVE g[i] = Kept(kind, s \o t, g, i)
  <2>1. CASE i <= Len(s)
    <3>1. i \in 0 .. Len(s) /\ g[i] = f[i]
      BY <1>3, <2>1
    <3>2. i # 0 => i \in 1 .. Len(s) /\ g[i - 1] = f[i - 1]
      BY <1>3, <3>1
    <3> HIDE DEF g
    <3> QED  BY <1>1, <1>3, <3>1, <3>2 DEF Kept
  <2>2. CASE i > Len(s)
    <3> DEFINE j == i - Len(s)
    <3>1. /\ i # 0 /\ j \in 1 .. Len(t) /\ j - 1 \in 0 .. Len(t)
          /\ j \in 0 .. Len(t) /\ j # 0 /\ i \in Len(s) + 1 .. Len(s) + Len(t)
      BY <1>3, <2>2
    <3>2. g[i] = all \o h[j]
      BY <1>3, <2>2
    <3>3. g[i - 1] = all \o h[j - 1]
      <4>1. CASE i - 1 <= Len(s)
        <5>1. i - 1 = Len(s) /\ j - 1 = 0 /\ i - 1 \in 0 .. Len(s) + Len(t)
          BY <1>3, <2>2, <4>1
        <5>2. g[i - 1] = f[i - 1] /\ f[i - 1] = all
          BY <1>3, <1>8, <4>1, <5>1
        <5> HIDE DEF g
        <5> QED  BY <1>4, <5>1, <5>2
      <4>2. CASE i - 1 > Len(s)
        <5>1. i - 1 \in 0 .. Len(s) + Len(t) /\ (i - 1) - Len(s) = j - 1 /\ ~(i - 1 <= Len(s))
          BY <1>3, <2>2, <4>2
        <5>2. g[i - 1] = all \o h[(i - 1) - Len(s)]
          BY <5>1
        <5> HIDE DEF g, j
        <5> QED  BY <5>1, <5>2
      <4>3. i - 1 <= Len(s) \/ i - 1 > Len(s)
        BY <1>3
      <4> HIDE DEF g, j
      <4> QED  BY <4>1, <4>2, <4>3
    <3>4. (s \o t)[i] = t[j] /\ t[j] \in Items
      BY <1>3, <3>1, ElementOfSeq
    <3>5. h[j] = Kept(kind, t, h, j) /\ h[j - 1] \in Seq(Items)
      BY <1>2, <3>1
    <3> HIDE DEF g, j
    <3>6. all \o Append(h[j - 1], t[j]) = Append(all \o h[j - 1], t[j])
      <4>1. /\ Append(h[j - 1], t[j]) = h[j - 1] \o <<t[j]>> /\ <<t[j]>> \in Seq(Items)
        BY <3>4, <3>5, AppendIsConcat
      <4>2. all \o h[j - 1] \in Seq(Items)
        BY <1>4, <3>5, ConcatProperties
      <4>3. Append(all \o h[j - 1], t[j]) = (all \o h[j - 1]) \o <<t[j]>>
        BY <3>4, <4>2, AppendIsConcat
      <4>4. all \o (h[j - 1] \o <<t[j]>>) = (all \o h[j - 1]) \o <<t[j]>>
        BY <1>4, <3>5, <4>1, Assoc
      <4> QED  BY <4>1, <4>3, <4>4
    <3> QED  BY <3>1, <3>2, <3>3, <3>4, <3>5, <3>6 DEF Kept
  <2> QED  BY <1>3, <2>1, <2>2
<1>6. Only(kind, s \o t) = g[Len(s \o t)]
  <2> HIDE DEF g
  <2> DEFINE w == s \o t
  <2>1. w \in Seq(Items) /\ \A i \in 0 .. Len(w) : g[i] = Kept(kind, w, g, i)
    BY <1>3, <1>5
  <2> HIDE DEF w
  <2>2. Only(kind, w) = g[Len(w)]
    BY <2>1, OnlyIs
  <2> QED  BY <2>2 DEF w
<1>7. g[Len(s) + Len(t)] = all \o h[Len(t)]
  <2>1. CASE Len(t) = 0
    <3>1. Len(s) + Len(t) = Len(s) /\ Len(s) \in 0 .. Len(s) + Len(t) /\ Len(s) \in 0 .. Len(s)
      BY <1>3, <2>1
    <3>2. g[Len(s)] = all
      BY <1>3, <1>8, <3>1
    <3> HIDE DEF g
    <3> QED  BY <1>4, <2>1, <3>1, <3>2
  <2>2. CASE Len(t) # 0
    <3>1. ~(Len(s) + Len(t) <= Len(s)) /\ Len(s) + Len(t) \in 0 .. Len(s) + Len(t)
          /\ (Len(s) + Len(t)) - Len(s) = Len(t)
      BY <1>3, <2>2
    <3> QED  BY <3>1
  <2> QED  BY <2>1, <2>2
<1> QED  BY <1>2, <1>3, <1>4, <1>6, <1>7

-----------------------------------------------------------------------------
(* What is kept of a sequence that is put together.                        *)

LEMMA FrontPart ==
  ASSUME NEW s \in Seq(Items), NEW t \in Seq(Items)
  PROVE  SubSeq(s \o t, 1, Len(s)) = s
<1>1. Len(s) \in Nat
  BY LenProperties
<1>2. CASE s = <<>>
  <2>1. Len(s) = 0 /\ 0 < 1
    BY <1>2, EmptySeq
  <2>2. SubSeq(s \o t, 1, 0) = <<>>
    BY SubSeqEmpty
  <2> QED  BY <1>2, <2>1, <2>2
<1>3. CASE s # <<>>
  <2>1. 1 \in 1 .. Len(s) /\ Len(s) \in 1 .. Len(s)
    BY <1>1, <1>3, EmptySeq
  <2>2. SubSeq(s \o t, 1, Len(s)) = SubSeq(s, 1, Len(s))
    BY <2>1, SubSeqOfConcat1
  <2> QED  BY <2>2, SubSeqFull
<1> QED  BY <1>2, <1>3

LEMMA BackPart ==
  ASSUME NEW s \in Seq(Items), NEW t \in Seq(Items)
  PROVE  SubSeq(s \o t, Len(s) + 1, Len(s \o t)) = t
<1>1. Len(s) \in Nat /\ Len(t) \in Nat /\ Len(s \o t) = Len(s) + Len(t)
  BY LenProperties, ConcatProperties
<1>2. CASE t = <<>>
  <2>1. Len(t) = 0 /\ Len(s) \in Int /\ Len(s) + 1 \in Int /\ Len(s) < Len(s) + 1
    BY <1>1, <1>2, EmptySeq
  <2>2. SubSeq(s \o t, Len(s) + 1, Len(s)) = <<>>
    BY <2>1, SubSeqEmpty
  <2> QED  BY <1>1, <1>2, <2>1, <2>2
<1>3. CASE t # <<>>
  <2>1. /\ Len(s) + 1 \in Len(s) + 1 .. Len(s) + Len(t)
        /\ Len(s) + Len(t) \in Len(s) + 1 .. Len(s) + Len(t)
        /\ (Len(s) + 1) - Len(s) = 1 /\ (Len(s) + Len(t)) - Len(s) = Len(t)
    BY <1>1, <1>3, EmptySeq
  <2>2. SubSeq(s \o t, Len(s) + 1, Len(s) + Len(t))
          = SubSeq(t, (Len(s) + 1) - Len(s), (Len(s) + Len(t)) - Len(s))
    BY <2>1, SubSeqOfConcat2
  <2> QED  BY <1>1, <2>1, <2>2, SubSeqFull
<1> QED  BY <1>2, <1>3

LEMMA OnlyNone ==
  ASSUME NEW kind, NEW items \in Seq(Items), \A i \in 1 .. Len(items) : items[i] \notin kind
  PROVE  Only(kind, items) = <<>>
<1> DEFINE g == [i \in 0 .. Len(items) |-> <<>>]
<1>1. Len(items) \in Nat
  BY LenProperties
<1>2. ASSUME NEW i \in 0 .. Len(items) PROVE g[i] = Kept(kind, items, g, i)
  <2>1. g[i] = <<>> /\ (i # 0 => i \in 1 .. Len(items) /\ g[i - 1] = <<>>)
    BY <1>1
  <2> HIDE DEF g
  <2> QED  BY <2>1 DEF Kept
<1>3. g[Len(items)] = <<>>
  BY <1>1
<1> HIDE DEF g
<1> QED  BY <1>2, <1>3, OnlyIs

-----------------------------------------------------------------------------
(* Runs of empty slots.                                                    *)

Run(n) == [i \in 1 .. n |-> EmptySlot]

LEMMA RunType ==
  ASSUME NEW n \in Nat
  PROVE  Run(n) \in Seq(Items) /\ Len(Run(n)) = n /\ \A i \in 1 .. n : Run(n)[i] = EmptySlot
<1>1. Run(n) \in [1 .. n -> Items]
  BY ItemTypes DEF Run
<1>2. Run(n) \in Seq(Items)
  BY <1>1, SeqDef
<1> QED  BY <1>2 DEF Run

LEMMA RunConcat ==
  ASSUME NEW m \in Nat, NEW n \in Nat
  PROVE  Run(m) \o Run(n) = Run(m + n)
<1> DEFINE s == Run(m) \o Run(n)
           t == Run(m + n)
<1>1. m + n \in Nat
  OBVIOUS
<1>2. /\ Run(m) \in Seq(Items) /\ Len(Run(m)) = m /\ \A i \in 1 .. m : Run(m)[i] = EmptySlot
      /\ Run(n) \in Seq(Items) /\ Len(Run(n)) = n /\ \A i \in 1 .. n : Run(n)[i] = EmptySlot
  BY RunType
<1>3. /\ t \in Seq(Items) /\ Len(t) = m + n /\ \A i \in 1 .. m + n : t[i] = EmptySlot
  BY <1>1, RunType
<1>4. /\ s \in Seq(Items) /\ Len(s) = m + n
      /\ \A i \in 1 .. m + n : s[i] = IF i <= m THEN Run(m)[i] ELSE Run(n)[i - m]
  <2>1. /\ s \in Seq(Items) /\ Len(s) = Len(Run(m)) + Len(Run(n))
        /\ \A i \in 1 .. Len(Run(m)) + Len(Run(n)) :
             s[i] = IF i <= Len(Run(m)) THEN Run(m)[i] ELSE Run(n)[i - Len(Run(m))]
    BY <1>2, ConcatProperties
  <2> HIDE DEF s
  <2> QED  BY <1>2, <2>1
<1>5. ASSUME NEW i \in 1 .. m + n PROVE s[i] = t[i]
  <2>1. i <= m => i \in 1 .. m
    OBVIOUS
  <2>2. ~(i <= m) => i - m \in 1 .. n
    OBVIOUS
  <2> HIDE DEF s, t
  <2> QED  BY <1>2, <1>3, <1>4, <2>1, <2>2
<1> HIDE DEF s, t
<1>6. s = t
  BY <1>3, <1>4, <1>5, SeqEqual
<1> QED  BY <1>6 DEF s, t

LEMMA RunZero == Run(0) = <<>>
BY RunType, EmptySeq

LEMMA RunOne == Run(1) = <<EmptySlot>>
BY DEF Run

LEMMA Kinds ==
  /\ EmptySlot \in TimeSlots /\ EmptySlot \notin Items \ {EmptySlot}
  /\ \A c : Leave(c) \notin TimeSlots
BY ItemTypes DEF TimeSlots, EmptySlot, Leave

LEMMA RunKept ==
  ASSUME NEW n \in Nat
  PROVE  Slotted(Run(n)) = Run(n) /\ Events(Run(n)) = <<>>
<1>1. Run(n) \in Seq(Items) /\ Len(Run(n)) = n /\ \A i \in 1 .. n : Run(n)[i] = EmptySlot
  BY RunType
<1>2. Events(Run(n)) = <<>>
  BY <1>1, Kinds, OnlyNone DEF Events
<1> DEFINE g == [i \in 0 .. n |-> Run(i)]
<1>3. ASSUME NEW i \in 0 .. n PROVE g[i] = Kept(TimeSlots, Run(n), g, i)
  <2>1. CASE i = 0
    <3>1. g[i] = <<>>
      BY <2>1, RunZero
    <3> HIDE DEF g
    <3> QED  BY <2>1, <3>1 DEF Kept
  <2>2. CASE i # 0
    <3>1. g[i] = Run(i) /\ g[i - 1] = Run(i - 1) /\ i \in 1 .. n /\ i - 1 \in Nat /\ (i - 1) + 1 = i
      BY <2>2
    <3>2. Run(i - 1) \o Run(1) = Run((i - 1) + 1)
      BY <3>1, RunConcat
    <3>3. Append(Run(i - 1), EmptySlot) = Run(i - 1) \o <<EmptySlot>>
      BY <3>1, RunType, ItemTypes, AppendIsConcat
    <3>4. Append(Run(i - 1), EmptySlot) = Run(i)
      BY <3>1, <3>2, <3>3, RunOne
    <3> HIDE DEF g
    <3> QED  BY <1>1, <2>2, <3>1, <3>4, Kinds DEF Kept
  <2> QED  BY <2>1, <2>2
<1>4. Only(TimeSlots, Run(n)) = g[n]
  <2> HIDE DEF g
  <2> QED  BY <1>1, <1>3, OnlyIs
<1>5. g[n] = Run(n)
  OBVIOUS
<1> QED  BY <1>2, <1>4, <1>5 DEF Slotted

LEMMA SlottedType ==
  ASSUME NEW s \in Seq(Items) PROVE Slotted(s) \in Seq(Items) /\ Events(s) \in Seq(Items)
BY OnlyType DEF Slotted, Events

LEMMA SlottedConcat ==
  ASSUME NEW s \in Seq(Items), NEW t \in Seq(Items)
  PROVE  /\ Slotted(s \o t) = Slotted(s) \o Slotted(t)
         /\ Events(s \o t) = Events(s) \o Events(t)
BY OnlyConcat DEF Slotted, Events

LEMMA Slotless ==
  ASSUME NEW s \in Seq(Items), ~HasSlot(s)
  PROVE  Slotted(s) = <<>>
BY OnlyNone DEF Slotted, HasSlot, TimeSlots

LEMMA HasSlotConcat ==
  ASSUME NEW s \in Seq(Items), NEW t \in Seq(Items)
  PROVE  HasSlot(s \o t) <=> HasSlot(s) \/ HasSlot(t)
<1>1. /\ Len(s) \in Nat /\ Len(t) \in Nat /\ Len(s \o t) = Len(s) + Len(t)
      /\ \A i \in 1 .. Len(s) + Len(t) :
           (s \o t)[i] = IF i <= Len(s) THEN s[i] ELSE t[i - Len(s)]
  BY LenProperties, ConcatProperties
<1>2. ASSUME NEW i \in 1 .. Len(s), s[i][1] # "leave" PROVE HasSlot(s \o t)
  BY <1>1, <1>2 DEF HasSlot
<1>3. ASSUME NEW i \in 1 .. Len(t), t[i][1] # "leave" PROVE HasSlot(s \o t)
  <2>1. /\ i + Len(s) \in 1 .. Len(s) + Len(t) /\ ~(i + Len(s) <= Len(s))
        /\ (i + Len(s)) - Len(s) = i
    BY <1>1
  <2>2. (s \o t)[i + Len(s)] = t[i]
    BY <1>1, <2>1
  <2> QED  BY <1>1, <1>3, <2>1, <2>2 DEF HasSlot
<1>4. ASSUME NEW i \in 1 .. Len(s) + Len(t), (s \o t)[i][1] # "leave"
      PROVE  HasSlot(s) \/ HasSlot(t)
  <2>1. i <= Len(s) => i \in 1 .. Len(s)
    BY <1>1
  <2>2. ~(i <= Len(s)) => i - Len(s) \in 1 .. Len(t)
    BY <1>1
  <2> QED  BY <1>1, <1>4, <2>1, <2>2 DEF HasSlot
<1> QED  BY <1>1, <1>2, <1>3, <1>4 DEF HasSlot

-----------------------------------------------------------------------------
(* What a client leaves out of the data it is sent.                        *)

\* the first time slot is as many empty ones as the bot has announced
Padded(items) ==
  \E a, z \in Seq(Items) : ~HasSlot(a) /\ items = a \o (Empties \o z)

Ready(items) == HasSlot(items) => Padded(items)

(* A client that put in k empty slots leaves out the first k of those.     *)
LEMMA NetPadded ==
  ASSUME NEW a \in Seq(Items), ~HasSlot(a), NEW z \in Seq(Items), NEW k \in 1 .. NumEmpty
  PROVE  /\ Net(a \o (Empties \o z), k) = a \o (Run(NumEmpty - k) \o z)
         /\ Empties = Run(k) \o Run(NumEmpty - k)
         /\ k \in Nat /\ NumEmpty - k \in Nat
<1> DEFINE rest == Run(NumEmpty - k) \o z
           q == a \o (Run(k) \o rest)
           first == Len(a) + 1
<1>1. /\ NumEmpty \in Nat /\ k \in Nat /\ NumEmpty - k \in Nat /\ k + (NumEmpty - k) = NumEmpty
      /\ k > 0 /\ 1 \in 1 .. k
  BY NumbersAssumption
<1>2. Empties = Run(k) \o Run(NumEmpty - k)
  BY <1>1, RunConcat DEF Empties, Run
<1>3. /\ Run(k) \in Seq(Items) /\ Run(NumEmpty - k) \in Seq(Items) /\ Len(Run(k)) = k
      /\ Run(k)[1] = EmptySlot
  BY <1>1, RunType
<1>4. rest \in Seq(Items)
  BY <1>3, ConcatProperties
<1>5. Empties \o z = Run(k) \o rest
  BY <1>2, <1>3, Assoc
<1> HIDE DEF rest
<1>6. /\ Run(k) \o rest \in Seq(Items) /\ Len(Run(k) \o rest) = k + Len(rest)
      /\ (Run(k) \o rest)[1] = EmptySlot
  <2>1. /\ Run(k) \o rest \in Seq(Items) /\ Len(Run(k) \o rest) = Len(Run(k)) + Len(rest)
        /\ \A i \in 1 .. Len(Run(k)) + Len(rest) :
             (Run(k) \o rest)[i] = IF i <= Len(Run(k)) THEN Run(k)[i] ELSE rest[i - Len(Run(k))]
    BY <1>3, <1>4, ConcatProperties
  <2>2. Len(rest) \in Nat /\ 1 \in 1 .. k + Len(rest) /\ 1 <= k
    BY <1>1, <1>4, LenProperties
  <2> QED  BY <1>3, <2>1, <2>2
<1>7. /\ q \in Seq(Items) /\ Len(a) \in Nat /\ Len(rest) \in Nat /\ Len(q) = Len(a) + (k + Len(rest))
      /\ \A i \in 1 .. Len(a) : q[i] = a[i]
      /\ q[first] = EmptySlot /\ first \in 1 .. Len(q)
  <2> DEFINE t == Run(k) \o rest
  <2>1. t \in Seq(Items) /\ Len(t) = k + Len(rest) /\ t[1] = EmptySlot
    BY <1>6
  <2>2. Len(a) \in Nat /\ Len(rest) \in Nat
    BY <1>4, LenProperties
  <2> HIDE DEF t
  <2>7. t \in Seq(Items)
    BY <2>1
  <2>3. /\ a \o t \in Seq(Items) /\ Len(a \o t) = Len(a) + Len(t)
        /\ \A i \in 1 .. Len(a) + Len(t) :
             (a \o t)[i] = IF i <= Len(a) THEN a[i] ELSE t[i - Len(a)]
    BY <2>7, ConcatProperties
  <2>4. \A i \in 1 .. Len(a) : (a \o t)[i] = a[i]
    BY <1>1, <2>1, <2>2, <2>3
  <2>5. first \in 1 .. Len(a) + Len(t) /\ ~(first <= Len(a)) /\ first - Len(a) = 1
    BY <1>1, <2>1, <2>2
  <2>6. (a \o t)[first] = EmptySlot
    BY <2>1, <2>3, <2>5
  <2> QED  BY <2>1, <2>2, <2>3, <2>4, <2>5, <2>6 DEF t
<1>8. \A i \in 1 .. Len(a) : q[i] # EmptySlot
  BY <1>7 DEF HasSlot, EmptySlot
<1> HIDE DEF q
<1>9. /\ FirstEmpty(q, first)
      /\ \A i \in 1 .. Len(q) : FirstEmpty(q, i) => i = first
  <2>1. \A j \in 1 .. first - 1 : q[j] # EmptySlot
    BY <1>7, <1>8
  <2>2. FirstEmpty(q, first)
    BY <1>7, <2>1 DEF FirstEmpty
  <2>3. ASSUME NEW i \in 1 .. Len(q), FirstEmpty(q, i) PROVE i = first
    <3>1. q[i] = EmptySlot /\ \A j \in 1 .. i - 1 : q[j] # EmptySlot
      BY <2>3 DEF FirstEmpty
    <3>2. i \notin 1 .. Len(a)
      BY <1>8, <3>1
    <3>3. first \notin 1 .. i - 1
      BY <1>7, <3>1
    <3> QED  BY <1>7, <3>2, <3>3
  <2> QED  BY <2>2, <2>3
<1>10. Net(q, k) = SubSeq(q, 1, first - 1) \o SubSeq(q, first + k, Len(q))
  <2>1. (CHOOSE i \in 1 .. Len(q) : FirstEmpty(q, i)) = first
    BY <1>7, <1>9
  <2> QED  BY <1>1, <1>7, <1>9, <2>1 DEF Net
<1>11. SubSeq(q, 1, first - 1) = a
  <2>1. SubSeq(a \o (Run(k) \o rest), 1, Len(a)) = a
    BY <1>6, FrontPart
  <2>2. first - 1 = Len(a)
    BY <1>7
  <2> QED  BY <2>1, <2>2 DEF q
<1>12. SubSeq(q, first + k, Len(q)) = rest
  <2> DEFINE p == a \o Run(k)
  <2>1. p \in Seq(Items) /\ Len(p) = Len(a) + Len(Run(k))
    BY <1>3, ConcatProperties
  <2>2. q = p \o rest
    BY <1>3, <1>4, Assoc DEF q
  <2>3. Len(p) + 1 = first + k
    BY <1>1, <1>3, <1>7, <2>1
  <2> HIDE DEF p, first
  <2>4. SubSeq(p \o rest, Len(p) + 1, Len(p \o rest)) = rest
    BY <1>4, <2>1, BackPart
  <2> QED  BY <2>2, <2>3, <2>4
<1>13. Net(q, k) = a \o rest
  BY <1>10, <1>11, <1>12
<1> QED  BY <1>1, <1>2, <1>5, <1>13 DEF q, rest

LEMMA Joined == \A s, t \in Seq(Items) : s \o t \in Seq(Items)
BY ConcatProperties

Regroups(s, t, u) == s \o (t \o u) = (s \o t) \o u

LEMMA AllRegroup == \A s, t, u \in Seq(Items) : Regroups(s, t, u)
BY Assoc DEF Regroups

LEMMA NothingAdds == \A s \in Seq(Items) : s \o <<>> = s /\ <<>> \o s = s
BY ConcatEmptySeq

(* What is left out are empty slots, as many as were put in; of data       *)
(* without a time slot nothing is left out.                                *)
LEMMA NetPays ==
  ASSUME NEW items \in Seq(Items), NEW k \in 0 .. NumEmpty, k > 0 => Ready(items)
  PROVE  /\ Events(Net(items, k)) = Events(items)
         /\ HasSlot(items) => Run(k) \o Slotted(Net(items, k)) = Slotted(items)
         /\ ~HasSlot(items) => Net(items, k) = items
<1>1. k \in Nat /\ NumEmpty \in Nat
  BY NumbersAssumption
<1>2. CASE k = 0
  <2>1. Net(items, k) = items
    BY <1>2, NetZero
  <2>2. <<>> \o Slotted(items) = Slotted(items)
    BY SlottedType, NothingAdds
  <2> QED  BY <1>2, <2>1, <2>2, RunZero
<1>3. CASE k > 0 /\ ~HasSlot(items)
  <2>1. \A i \in 1 .. Len(items) : ~FirstEmpty(items, i)
    BY <1>3 DEF FirstEmpty, HasSlot, EmptySlot
  <2>2. Net(items, k) = items
    BY <2>1 DEF Net
  <2> QED  BY <1>3, <2>2
<1>4. CASE k > 0 /\ HasSlot(items)
  <2>1. PICK a, z \in Seq(Items) : ~HasSlot(a) /\ items = a \o (Empties \o z)
    BY <1>4 DEF Ready, Padded
  <2> DEFINE m == NumEmpty - k
             out == Run(k)
             kept == Run(m)
  <2>2. /\ k \in 1 .. NumEmpty /\ m \in Nat
    BY <1>1, <1>4
  <2>3. /\ Net(items, k) = a \o (kept \o z)
        /\ Empties = out \o kept
    BY <2>1, <2>2, NetPadded
  <2>4. /\ out \in Seq(Items) /\ Slotted(out) = out /\ Events(out) = <<>>
        /\ kept \in Seq(Items) /\ Slotted(kept) = kept /\ Events(kept) = <<>>
    BY <1>1, <2>2, RunType, RunKept
  <2> HIDE DEF m, out, kept
  <2>5. /\ kept \o z \in Seq(Items) /\ (out \o kept) \o z = out \o (kept \o z)
        /\ out \o (kept \o z) \in Seq(Items)
    <3>1. out \o (kept \o z) = (out \o kept) \o z
      BY <2>4, Assoc, Zenon
    <3>2. kept \o z \in Seq(Items)
      BY <2>4, Joined, Zenon
    <3>3. out \o (kept \o z) \in Seq(Items)
      BY <2>4, <3>2, Joined, Zenon
    <3> QED  BY <3>1, <3>2, <3>3
  <2>6. /\ Slotted(z) \in Seq(Items) /\ Events(z) \in Seq(Items)
        /\ Slotted(a) = <<>> /\ Events(a) \in Seq(Items)
    BY <2>1, SlottedType, Slotless
  <2>7. Slotted(kept \o z) = kept \o Slotted(z) /\ Events(kept \o z) = Events(z)
    <3>1. Slotted(kept \o z) = Slotted(kept) \o Slotted(z) /\ Events(kept \o z) = Events(kept) \o Events(z)
      BY <2>4, SlottedConcat
    <3>2. <<>> \o Events(z) = Events(z)
      BY <2>6, NothingAdds
    <3> QED  BY <2>4, <3>1, <3>2
  <2>8. /\ Slotted(out \o (kept \o z)) = out \o (kept \o Slotted(z))
        /\ Events(out \o (kept \o z)) = Events(z)
    <3> DEFINE w == kept \o z
    <3> HIDE DEF w
    <3>1. Slotted(out \o w) = Slotted(out) \o Slotted(w) /\ Events(out \o w) = Events(out) \o Events(w)
      BY <2>4, <2>5, SlottedConcat DEF w
    <3>2. <<>> \o Events(z) = Events(z)
      BY <2>6, NothingAdds
    <3> QED  BY <2>4, <2>7, <3>1, <3>2 DEF w
  <2>9. kept \o Slotted(z) \in Seq(Items) /\ out \o (kept \o Slotted(z)) \in Seq(Items)
    <3>1. kept \o Slotted(z) \in Seq(Items)
      BY <2>4, <2>6, Joined, Zenon
    <3> QED  BY <2>4, <3>1, Joined, Zenon
  <2>10. /\ Slotted(items) = out \o (kept \o Slotted(z))
         /\ Events(items) = Events(a) \o Events(z)
    <3> DEFINE w == out \o (kept \o z)
               x == out \o (kept \o Slotted(z))
    <3>1. /\ items = a \o w /\ w \in Seq(Items) /\ x \in Seq(Items)
          /\ Slotted(w) = x /\ Events(w) = Events(z)
      BY <2>1, <2>3, <2>5, <2>8, <2>9
    <3> HIDE DEF w, x
    <3>2. Slotted(a \o w) = Slotted(a) \o Slotted(w) /\ Events(a \o w) = Events(a) \o Events(w)
      BY <3>1, SlottedConcat
    <3>3. <<>> \o x = x
      BY <3>1, NothingAdds
    <3> QED  BY <2>6, <3>1, <3>2, <3>3 DEF x
  <2>11. /\ Slotted(Net(items, k)) = kept \o Slotted(z)
         /\ Events(Net(items, k)) = Events(a) \o Events(z)
    <3> DEFINE w == kept \o z
               x == kept \o Slotted(z)
    <3>1. /\ Net(items, k) = a \o w /\ w \in Seq(Items) /\ x \in Seq(Items)
          /\ Slotted(w) = x /\ Events(w) = Events(z)
      BY <2>3, <2>5, <2>7, <2>9
    <3> HIDE DEF w, x
    <3>2. Slotted(a \o w) = Slotted(a) \o Slotted(w) /\ Events(a \o w) = Events(a) \o Events(w)
      BY <3>1, SlottedConcat
    <3>3. <<>> \o x = x
      BY <3>1, NothingAdds
    <3> QED  BY <2>6, <3>1, <3>2, <3>3 DEF x
  <2> QED  BY <1>4, <2>10, <2>11 DEF out
<1> QED  BY <1>1, <1>2, <1>3, <1>4

LEMMA ReadyConcat ==
  ASSUME NEW s \in Seq(Items), NEW t \in Seq(Items), Ready(s), Ready(t)
  PROVE  Ready(s \o t)
<1> SUFFICES ASSUME HasSlot(s \o t) PROVE Padded(s \o t)
  BY DEF Ready
<1>1. CASE HasSlot(s)
  <2>1. PICK a, z \in Seq(Items) : ~HasSlot(a) /\ s = a \o (Empties \o z)
    BY <1>1 DEF Ready, Padded
  <2>2. Empties \o z \in Seq(Items) /\ z \o t \in Seq(Items)
    BY EmptiesType, Joined
  <2>3. s \o t = a \o ((Empties \o z) \o t) /\ (Empties \o z) \o t = Empties \o (z \o t)
    <3>1. (Empties \o z) \o t = Empties \o (z \o t)
      BY EmptiesType, Assoc, Zenon
    <3>2. (a \o (Empties \o z)) \o t = a \o ((Empties \o z) \o t)
      BY <2>2, Assoc, Zenon
    <3> QED  BY <2>1, <3>1, <3>2
  <2> QED  BY <2>1, <2>2, <2>3 DEF Padded
<1>2. CASE ~HasSlot(s)
  <2>1. HasSlot(t)
    BY <1>2, HasSlotConcat
  <2>2. PICK a, z \in Seq(Items) : ~HasSlot(a) /\ t = a \o (Empties \o z)
    BY <2>1 DEF Ready, Padded
  <2>3. Empties \o z \in Seq(Items) /\ s \o a \in Seq(Items)
    BY EmptiesType, Joined
  <2>4. s \o t = (s \o a) \o (Empties \o z) /\ ~HasSlot(s \o a)
    <3>1. s \o (a \o (Empties \o z)) = (s \o a) \o (Empties \o z)
      BY <2>3, Assoc, Zenon
    <3> QED  BY <1>2, <2>2, <3>1, HasSlotConcat
  <2> QED  BY <2>3, <2>4 DEF Padded
<1> QED  BY <1>1, <1>2

LEMMA ReadyPieces ==
  /\ Ready(<<>>) /\ ~HasSlot(<<>>)
  /\ \A c : ~HasSlot(<<Leave(c)>>)
  /\ \A z \in Seq(Items) : Ready(Empties \o z)
<1>1. ~HasSlot(<<>>)
  BY DEF HasSlot
<1>2. \A c : ~HasSlot(<<Leave(c)>>)
  BY DEF HasSlot, Leave
<1>3. ASSUME NEW z \in Seq(Items) PROVE Padded(Empties \o z)
  <2>1. Empties \o z \in Seq(Items) /\ <<>> \in Seq(Items)
    BY EmptiesType, EmptySeq, Joined
  <2>2. Empties \o z = <<>> \o (Empties \o z)
    BY <2>1, NothingAdds
  <2> QED  BY <1>1, <2>1, <2>2 DEF Padded
<1> QED  BY <1>1, <1>2, <1>3 DEF Ready

-----------------------------------------------------------------------------
(* Where a player's game is, given what it went through (v), what is kept  *)
(* for it (r), how many empty slots it put in (u) and the replay (l): it is*)
(* u empty slots ahead.                                                    *)
Paced(v, r, u, l) ==
  /\ Events(v) \o Events(r) = Events(l)
  /\ \E s \in Seq(Items) : /\ Slotted(v) = s \o Run(u)
                           /\ s \o Slotted(r) = Slotted(l)

LEMMA PacedKept ==
  ASSUME NEW v \in Seq(Items), NEW r \in Seq(Items), NEW u \in Nat, NEW l \in Seq(Items),
         NEW m \in Seq(Items), Paced(v, r, u, l)
  PROVE  Paced(v, r \o m, u, l \o m)
<1>1. /\ Events(r \o m) = Events(r) \o Events(m) /\ Slotted(r \o m) = Slotted(r) \o Slotted(m)
      /\ Events(l \o m) = Events(l) \o Events(m) /\ Slotted(l \o m) = Slotted(l) \o Slotted(m)
  BY SlottedConcat
<1>2. /\ Events(v) \in Seq(Items) /\ Events(r) \in Seq(Items) /\ Slotted(r) \in Seq(Items)
      /\ Events(m) \in Seq(Items) /\ Slotted(m) \in Seq(Items)
  BY SlottedType
<1>4. Events(v) \o (Events(r) \o Events(m)) = Events(l) \o Events(m)
  <2>1. Events(v) \o Events(r) = Events(l)
    BY DEF Paced
  <2>2. Events(v) \o (Events(r) \o Events(m)) = (Events(v) \o Events(r)) \o Events(m)
    <3>1. Regroups(Events(v), Events(r), Events(m))
      BY <1>2, AllRegroup, Zenon
    <3> QED  BY <3>1 DEF Regroups
  <2> QED  BY <2>1, <2>2
<1>3. PICK s \in Seq(Items) : Slotted(v) = s \o Run(u) /\ s \o Slotted(r) = Slotted(l)
  BY DEF Paced
<1>5. s \o (Slotted(r) \o Slotted(m)) = Slotted(l) \o Slotted(m)
  <2>1. s \o (Slotted(r) \o Slotted(m)) = (s \o Slotted(r)) \o Slotted(m)
    <3> DEFINE y == Slotted(r)
               z == Slotted(m)
    <3>1. y \in Seq(Items) /\ z \in Seq(Items)
      BY <1>2
    <3> HIDE DEF y, z
    <3>2. s \o (y \o z) = (s \o y) \o z
      BY <3>1, Assoc, Zenon
    <3> QED  BY <3>2 DEF y, z
  <2> QED  BY <1>3, <2>1
<1> QED  BY <1>1, <1>3, <1>4, <1>5 DEF Paced

LEMMA PacedHanded ==
  ASSUME NEW v \in Seq(Items), NEW r \in Seq(Items), NEW u \in 0 .. NumEmpty,
         NEW l \in Seq(Items), u > 0 => Ready(r), Paced(v, r, u, l)
  PROVE  Paced(v \o Net(r, u), <<>>, IF HasSlot(r) THEN 0 ELSE u, l)
<1> DEFINE n == Net(r, u)
<1>1. u \in Nat /\ n \in Seq(Items) /\ Run(u) \in Seq(Items)
  BY NumbersAssumption, NetType, RunType
<1>2. /\ Events(n) = Events(r)
      /\ HasSlot(r) => Run(u) \o Slotted(n) = Slotted(r)
      /\ ~HasSlot(r) => n = r
  BY NetPays
<1> HIDE DEF n
<1>3. /\ Events(v \o n) = Events(v) \o Events(n) /\ Slotted(v \o n) = Slotted(v) \o Slotted(n)
  BY <1>1, SlottedConcat
<1>4. /\ Events(<<>>) = <<>> /\ Slotted(<<>>) = <<>>
  BY RunKept, RunZero
<1>5. /\ Events(v) \in Seq(Items) /\ Events(r) \in Seq(Items)
      /\ Slotted(n) \in Seq(Items) /\ Slotted(r) \in Seq(Items)
      /\ Slotted(l) \in Seq(Items) /\ Events(l) \in Seq(Items)
  BY <1>1, SlottedType
<1>6. Events(v \o n) \o Events(<<>>) = Events(l)
  <2>1. Events(v) \o Events(r) = Events(l)
    BY DEF Paced
  <2> QED  BY <1>2, <1>3, <1>4, <1>5, <2>1, NothingAdds
<1>7. PICK s \in Seq(Items) : Slotted(v) = s \o Run(u) /\ s \o Slotted(r) = Slotted(l)
  BY DEF Paced
<1>8. s \o (Run(u) \o Slotted(n)) = (s \o Run(u)) \o Slotted(n)
  <2> DEFINE y == Run(u)
             z == Slotted(n)
  <2>1. y \in Seq(Items) /\ z \in Seq(Items)
    BY <1>1, <1>5
  <2> HIDE DEF y, z
  <2>2. s \o (y \o z) = (s \o y) \o z
    BY <2>1, Assoc, Zenon
  <2> QED  BY <2>2 DEF y, z
<1>9. CASE HasSlot(r)
  <2>1. Slotted(v \o n) = Slotted(l)
    BY <1>2, <1>3, <1>7, <1>8, <1>9
  <2>2. Slotted(v \o n) = Slotted(l) \o Run(0) /\ Slotted(l) \o Slotted(<<>>) = Slotted(l)
    BY <1>4, <1>5, <2>1, RunZero, NothingAdds
  <2>3. Paced(v \o n, <<>>, 0, l)
    BY <1>5, <1>6, <2>2 DEF Paced
  <2> QED  BY <1>9, <2>3 DEF n
<1>10. CASE ~HasSlot(r)
  <2>1. Slotted(r) = <<>> /\ Slotted(n) = <<>>
    BY <1>2, <1>10, Slotless
  <2>2. s \o Run(u) \in Seq(Items)
    BY <1>1, Joined
  <2>3. Slotted(v \o n) = s \o Run(u) /\ s \o Slotted(<<>>) = Slotted(l)
    BY <1>3, <1>4, <1>7, <2>1, <2>2, NothingAdds
  <2>4. Paced(v \o n, <<>>, u, l)
    BY <1>6, <2>3 DEF Paced
  <2> QED  BY <1>10, <2>4 DEF n
<1> QED  BY <1>9, <1>10

\* data that is handed over as it comes
LEMMA PacedNow ==
  ASSUME NEW v \in Seq(Items), NEW m \in Seq(Items), NEW u \in 0 .. NumEmpty,
         NEW l \in Seq(Items), u > 0 => Ready(m), Paced(v, <<>>, u, l)
  PROVE  Paced(v \o Net(m, u), <<>>, IF HasSlot(m) THEN 0 ELSE u, l \o m)
<1>1. u \in Nat /\ <<>> \in Seq(Items) /\ l \o m \in Seq(Items)
  BY NumbersAssumption, EmptySeq, Joined
<1>2. Paced(v, <<>> \o m, u, l \o m)
  BY <1>1, PacedKept
<1>3. <<>> \o m = m
  BY NothingAdds
<1> QED  BY <1>1, <1>2, <1>3, PacedHanded

LEMMA PacedAhead ==
  ASSUME NEW v \in Seq(Items), NEW r \in Seq(Items), NEW u \in Nat, NEW l \in Seq(Items),
         Paced(v, r, u, l)
  PROVE  Paced(Append(v, EmptySlot), r, u + 1, l)
<1>1. /\ Append(v, EmptySlot) = v \o Run(1) /\ Run(1) \in Seq(Items) /\ Run(u) \in Seq(Items)
      /\ 1 \in Nat
  BY ItemTypes, AppendIsConcat, RunOne, RunType
<1>2. Slotted(v \o Run(1)) = Slotted(v) \o Run(1) /\ Events(v \o Run(1)) = Events(v)
  <2>1. Slotted(Run(1)) = Run(1) /\ Events(Run(1)) = <<>>
    BY <1>1, RunKept
  <2>2. /\ Slotted(v \o Run(1)) = Slotted(v) \o Slotted(Run(1))
        /\ Events(v \o Run(1)) = Events(v) \o Events(Run(1))
    BY <1>1, SlottedConcat
  <2>3. Events(v) \o <<>> = Events(v)
    BY SlottedType, NothingAdds
  <2> QED  BY <2>1, <2>2, <2>3
<1>3. PICK s \in Seq(Items) : Slotted(v) = s \o Run(u) /\ s \o Slotted(r) = Slotted(l)
  BY DEF Paced
<1>4. (s \o Run(u)) \o Run(1) = s \o Run(u + 1)
  <2>1. (s \o Run(u)) \o Run(1) = s \o (Run(u) \o Run(1))
    BY <1>1, Assoc, Zenon
  <2> QED  BY <1>1, <2>1, RunConcat
<1> QED  BY <1>1, <1>2, <1>3, <1>4 DEF Paced

-----------------------------------------------------------------------------
(* The pace.  A client that was without a time slot for a minute puts in an*)
(* empty one and leaves one out later; outages may be of any length here.  *)
Pace ==
  /\ ~loaded => cut = {}
  /\ \A c \in members :
       /\ c \notin cut => queue[c] = <<>>
       /\ c \notin Buffered => buffer[c] = <<>>
       /\ used[c] > 0 => c \in GProxy \ Buffered
       /\ Ready(queue[c])
       /\ Paced(view[c], queue[c] \o buffer[c], used[c], log)

(* What the pace says of one member.                                       *)
LEMMA PaceOf ==
  ASSUME Pace, NEW d \in members
  PROVE  /\ d \notin cut => queue[d] = <<>>
         /\ d \notin Buffered => buffer[d] = <<>>
         /\ used[d] > 0 => d \in GProxy \ Buffered
         /\ Ready(queue[d])
         /\ Paced(view[d], queue[d] \o buffer[d], used[d], log)
BY DEF Pace

LEMMA BothEmpty == <<>> \in Seq(Items) /\ <<>> \o <<>> = <<>>
BY EmptySeq, NothingAdds

LEMMA DataTypes ==
  ASSUME TypeOK, NEW c \in members
  PROVE  /\ c \in Players /\ used[c] \in 0 .. NumEmpty /\ used[c] \in Nat /\ NumEmpty \in Nat
         /\ view[c] \in Seq(Items) /\ queue[c] \in Seq(Items) /\ buffer[c] \in Seq(Items)
         /\ log \in Seq(Items)
BY NumbersAssumption DEF TypeOK

(* Whatever is handed to the players who stay keeps their pace.            *)
LEMMA HandPaces ==
  ASSUME TypeOK, Pace, NEW stay \in SUBSET members, NEW more \in Seq(Items),
         NEW items, \A c \in stay : items[c] = more,
         \A c \in stay : c \in GProxy => Ready(more), Hand(stay, items)
  PROVE  \A c \in stay :
           /\ c \notin cut => queue'[c] = <<>>
           /\ c \notin Buffered => buffer'[c] = <<>>
           /\ used'[c] > 0 => c \in GProxy \ Buffered
           /\ Ready(queue'[c])
           /\ Paced(view'[c], queue'[c] \o buffer'[c], used'[c], log \o more)
<1> DEFINE now == stay \ (Buffered \cup cut)
<1> HIDE DEF now
<1>1. /\ buffer' = [c \in Players |-> IF c \in stay \cap Buffered THEN buffer[c] \o items[c]
                                      ELSE IF c \in stay THEN buffer[c] ELSE <<>>]
      /\ queue' = [c \in Players |-> IF c \in stay \cap cut THEN queue[c] \o items[c]
                                     ELSE IF c \in stay THEN queue[c] ELSE <<>>]
      /\ view' = [c \in Players |-> IF c \in now THEN view[c] \o Net(items[c], used[c])
                                    ELSE IF c \in stay THEN view[c] ELSE <<>>]
      /\ used' = [c \in Players |-> IF c \in stay /\ ~(c \in now /\ HasSlot(items[c]))
                                    THEN used[c] ELSE 0]
  BY DEF Hand, now
<1> SUFFICES ASSUME NEW c \in stay
             PROVE  /\ c \notin cut => queue'[c] = <<>>
                    /\ c \notin Buffered => buffer'[c] = <<>>
                    /\ used'[c] > 0 => c \in GProxy \ Buffered
                    /\ Ready(queue'[c])
                    /\ Paced(view'[c], queue'[c] \o buffer'[c], used'[c], log \o more)
  OBVIOUS
<1> DEFINE v == view[c]
           q == queue[c]
           b == buffer[c]
           u == used[c]
<1>2. /\ c \in members /\ c \in Players /\ items[c] = more
      /\ u \in 0 .. NumEmpty /\ u \in Nat /\ log \in Seq(Items)
      /\ v \in Seq(Items) /\ q \in Seq(Items) /\ b \in Seq(Items)
  BY DataTypes
<1>3. /\ c \notin cut => q = <<>>
      /\ c \notin Buffered => b = <<>>
      /\ u > 0 => c \in GProxy \ Buffered
      /\ Ready(q) /\ Paced(v, q \o b, u, log)
  BY <1>2 DEF Pace
<1>4. q \o b \in Seq(Items)
  BY <1>2, Joined, Zenon
<1>5. /\ buffer'[c] = IF c \in Buffered THEN b \o more ELSE b
      /\ queue'[c] = IF c \in cut THEN q \o more ELSE q
      /\ view'[c] = IF c \in now THEN v \o Net(more, u) ELSE v
      /\ used'[c] = IF c \in now /\ HasSlot(more) THEN 0 ELSE u
  BY <1>1, <1>2
<1>6. ~(c \in Buffered /\ c \in cut)
  BY DEF Pace, Buffered
<1> HIDE DEF v, q, b, u
<1>7. Paced(v, (q \o b) \o more, u, log \o more)
  BY <1>2, <1>3, <1>4, PacedKept
<1>8. CASE c \in Buffered
  <2>1. /\ buffer'[c] = b \o more /\ queue'[c] = q /\ view'[c] = v /\ used'[c] = u
        /\ q = <<>>
    BY <1>3, <1>5, <1>6, <1>8 DEF now
  <2>2. q \o (b \o more) = (q \o b) \o more
    <3>1. Regroups(q, b, more)
      BY <1>2, AllRegroup, Zenon
    <3> QED  BY <3>1 DEF Regroups
  <2> QED  BY <1>3, <1>7, <1>8, <2>1, <2>2
<1>9. CASE c \in cut
  <2>1. /\ buffer'[c] = b /\ queue'[c] = q \o more /\ view'[c] = v /\ used'[c] = u
        /\ b = <<>> /\ c \in GProxy /\ c \notin Buffered
    BY <1>2, <1>3, <1>5, <1>6, <1>9 DEF now, TypeOK
  <2>2. q \o more \in Seq(Items) /\ q \o <<>> = q
    BY <1>2, Joined, NothingAdds, Zenon
  <2>3. (q \o more) \o b = (q \o b) \o more
    BY <2>1, <2>2, NothingAdds
  <2>4. Ready(q \o more)
    BY <1>2, <1>3, <2>1, ReadyConcat
  <2> QED  BY <1>3, <1>7, <1>9, <2>1, <2>3, <2>4
<1>10. CASE c \in now
  <2>1. /\ buffer'[c] = b /\ queue'[c] = q /\ view'[c] = v \o Net(more, u)
        /\ used'[c] = IF HasSlot(more) THEN 0 ELSE u
        /\ b = <<>> /\ q = <<>> /\ c \notin Buffered /\ c \notin cut
    BY <1>3, <1>5, <1>10 DEF now
  <2>2. Paced(v, <<>>, u, log) /\ u > 0 => Ready(more)
    BY <1>3, <2>1, BothEmpty
  <2>3. Paced(v, <<>>, u, log)
    BY <1>3, <2>1, BothEmpty
  <2>4. Paced(v \o Net(more, u), <<>>, IF HasSlot(more) THEN 0 ELSE u, log \o more)
    BY <1>2, <2>2, <2>3, PacedNow
  <2>5. used'[c] > 0 => u > 0
    BY <1>2, <2>1
  <2> QED  BY <1>3, <2>1, <2>4, <2>5, BothEmpty
<1> QED  BY <1>8, <1>9, <1>10 DEF now

LEMMA PaceStands ==
  ASSUME TypeOK, Pace, UNCHANGED <<members, dataVars>>,
         Buffered' = Buffered, ~loaded' => cut' = {}, cut \cap members \subseteq cut'
  PROVE  Pace'
<1>1. UNCHANGED <<members, buffer, queue, view, used, log>>
  BY DEF dataVars
<1> QED  BY <1>1 DEF Pace

LEMMA HandAllPaces ==
  ASSUME TypeOK, Pace, NEW slot \in Seq(Items), HandAll(slot),
         UNCHANGED <<members, finished, loaded, cut>>
  PROVE  Pace'
<1> DEFINE items == [c \in Players |-> Shown(c, slot)]
           more  == Recorded(slot)
<1>1. Hand(members, items) /\ log' = log \o more /\ more \in Seq(Items)
  BY ShownType DEF HandAll
<1>2. \A c \in members : items[c] = more
  BY SameSlot DEF TypeOK
<1>3. ASSUME NEW c \in members, c \in GProxy PROVE Ready(more)
  BY <1>3, ReadyPieces DEF Recorded, UsingGProxy
<1> HIDE DEF items, more
<1>4. \A c \in members :
        /\ c \notin cut => queue'[c] = <<>>
        /\ c \notin Buffered => buffer'[c] = <<>>
        /\ used'[c] > 0 => c \in GProxy \ Buffered
        /\ Ready(queue'[c])
        /\ Paced(view'[c], queue'[c] \o buffer'[c], used'[c], log \o more)
  BY <1>1, <1>2, <1>3, HandPaces
<1>5. Buffered' = Buffered
  BY DEF Buffered
<1> QED  BY <1>1, <1>4, <1>5 DEF Pace

LEMMA LoadedPaces ==
  ASSUME TypeOK, Pace, NEW c \in Players, PlayerLoaded(c)
  PROVE  Pace'
<1>1. /\ ~loaded /\ c \in members \ finished /\ finished' = finished \cup {c}
      /\ UNCHANGED <<members, loaded, cut, queue, used, log>>
  BY DEF PlayerLoaded, playerVars
<1>2. cut = {} /\ c \in members /\ members \subseteq Players
  BY <1>1 DEF Pace, TypeOK
<1>3. Buffered' = Buffered \ {c}
  BY <1>1 DEF Buffered
<1>4. CASE LoadInGame
  <2>1. /\ view' = [view EXCEPT ![c] = @ \o buffer[c]]
        /\ buffer' = [buffer EXCEPT ![c] = <<>>]
    BY <1>4 DEF PlayerLoaded
  <2>2. c \in Buffered
    BY <1>1, <1>4 DEF Buffered
  <2>3. /\ queue[c] = <<>> /\ used[c] = 0 /\ 0 \in 0 .. NumEmpty
        /\ view[c] \in Seq(Items) /\ buffer[c] \in Seq(Items) /\ log \in Seq(Items)
        /\ view'[c] = view[c] \o buffer[c] /\ buffer'[c] = <<>>
    BY <1>1, <1>2, <2>1, <2>2, DataTypes DEF Pace, TypeOK
  <2>4. Paced(view[c], buffer[c], 0, log)
    <3>1. <<>> \o buffer[c] = buffer[c]
      BY <2>3, NothingAdds
    <3> QED  BY <1>2, <2>3, <3>1 DEF Pace
  <2>5. Paced(view[c] \o Net(buffer[c], 0), <<>>, IF HasSlot(buffer[c]) THEN 0 ELSE 0, log)
    BY <2>3, <2>4, PacedHanded
  <2>6. Paced(view'[c], <<>>, 0, log)
    BY <2>3, <2>5, NetZero
  <2>7. ASSUME NEW d \in members, d # c
        PROVE  view'[d] = view[d] /\ buffer'[d] = buffer[d]
    BY <1>1, <1>2, <2>1, <2>7 DEF TypeOK
  <2>8. ASSUME NEW d \in members
        PROVE  /\ d \notin cut => queue[d] = <<>>
               /\ d \notin Buffered' => buffer'[d] = <<>>
               /\ used[d] > 0 => d \in GProxy \ Buffered'
               /\ Ready(queue[d])
               /\ Paced(view'[d], queue[d] \o buffer'[d], used[d], log)
    <3>1. CASE d = c
      <4>1. queue[d] = <<>> /\ buffer'[d] = <<>> /\ used[d] = 0
        BY <2>3, <3>1
      <4>2. ~(used[d] > 0)
        BY <4>1
      <4>3. queue[d] \o buffer'[d] = <<>>
        BY <4>1, BothEmpty
      <4>4. Paced(view'[d], queue[d] \o buffer'[d], used[d], log)
        BY <2>6, <3>1, <4>1, <4>3, Zenon
      <4> QED  BY <4>1, <4>2, <4>4, ReadyPieces
    <3>2. CASE d # c
      <4>1. view'[d] = view[d] /\ buffer'[d] = buffer[d] /\ (d \in Buffered' <=> d \in Buffered)
        BY <1>3, <2>7, <3>2
      <4>2. used[d] > 0 => d \in GProxy \ Buffered'
        BY <4>1, PaceOf
      <4>3. /\ d \notin cut => queue[d] = <<>>
            /\ d \notin Buffered' => buffer'[d] = <<>>
            /\ Ready(queue[d])
        BY <4>1, PaceOf
      <4>4. Paced(view'[d], queue[d] \o buffer'[d], used[d], log)
        BY <4>1, PaceOf
      <4> QED  BY <4>2, <4>3, <4>4
    <3> QED  BY <3>1, <3>2
  <2> QED  BY <1>1, <1>2, <2>8 DEF Pace
<1>5. CASE ~LoadInGame
  <2>1. UNCHANGED <<members, dataVars>>
    BY <1>1, <1>5 DEF PlayerLoaded, dataVars
  <2>2. Buffered' = Buffered
    BY <1>5 DEF Buffered
  <2> QED  BY <1>1, <1>2, <2>1, <2>2, PaceStands
<1> QED  BY <1>4, <1>5, SwitchesAssumption

LEMMA ReconnectPaces ==
  ASSUME TypeOK, Pace, NEW c \in Players, Reconnect(c)
  PROVE  Pace'
<1>1. /\ c \in cut /\ c \in members /\ cut' = cut \ {c}
      /\ queue' = [queue EXCEPT ![c] = <<>>]
      /\ view' = [view EXCEPT ![c] = @ \o Net(queue[c], used[c])]
      /\ used' = [used EXCEPT ![c] = IF HasSlot(queue[c]) THEN 0 ELSE @]
      /\ UNCHANGED <<members, finished, loaded, buffer, log>>
  BY DEF Reconnect, TypeOK, playerVars, loadVars
<1>2. Buffered' = Buffered /\ c \notin Buffered
  BY <1>1 DEF Buffered, Pace
<1>3. /\ view[c] \in Seq(Items) /\ queue[c] \in Seq(Items) /\ log \in Seq(Items)
      /\ used[c] \in 0 .. NumEmpty /\ used[c] \in Nat /\ buffer[c] = <<>>
      /\ Ready(queue[c]) /\ used[c] > 0 => c \in GProxy
  BY <1>1, <1>2, DataTypes DEF Pace
<1>4. /\ view'[c] = view[c] \o Net(queue[c], used[c]) /\ queue'[c] = <<>>
      /\ used'[c] = (IF HasSlot(queue[c]) THEN 0 ELSE used[c]) /\ buffer'[c] = <<>>
  BY <1>1, <1>3 DEF TypeOK
<1>5. Paced(view[c], queue[c], used[c], log)
  <2>1. queue[c] \o <<>> = queue[c]
    BY <1>3, NothingAdds
  <2> QED  BY <1>1, <1>3, <2>1 DEF Pace
<1>6. Paced(view'[c], <<>>, used'[c], log)
  <2>1. Paced(view[c] \o Net(queue[c], used[c]), <<>>,
              IF HasSlot(queue[c]) THEN 0 ELSE used[c], log)
    <3>1. Ready(queue[c])
      BY <1>1 DEF Pace
    <3> QED  BY <1>3, <1>5, <3>1, PacedHanded
  <2> QED  BY <1>4, <2>1
<1>7. ASSUME NEW d \in members, d # c
      PROVE  /\ view'[d] = view[d] /\ buffer'[d] = buffer[d] /\ queue'[d] = queue[d]
             /\ used'[d] = used[d]
  BY <1>1, <1>7 DEF TypeOK
<1>8. ASSUME NEW d \in members
      PROVE  /\ d \notin cut' => queue'[d] = <<>>
             /\ d \notin Buffered' => buffer'[d] = <<>>
             /\ used'[d] > 0 => d \in GProxy \ Buffered'
             /\ Ready(queue'[d])
             /\ Paced(view'[d], queue'[d] \o buffer'[d], used'[d], log)
  <2>1. CASE d = c
    <3>1. c \in GProxy
      BY <1>1 DEF TypeOK
    <3> QED  BY <1>2, <1>4, <1>6, <2>1, <3>1, BothEmpty, ReadyPieces
  <2>2. CASE d # c
    BY <1>1, <1>2, <1>7, <2>2 DEF Pace
  <2> QED  BY <2>1, <2>2
<1>9. ~loaded => cut' = {}
  BY <1>1 DEF Pace
<1> QED  BY <1>1, <1>8, <1>9 DEF Pace

LEMMA PutInPaces ==
  ASSUME TypeOK, Pace, NEW c \in Players, PutInEmpty(c)
  PROVE  Pace'
<1>1. /\ c \in members /\ c \in GProxy /\ (c \in cut \/ lagScreen)
      /\ used' = [used EXCEPT ![c] = @ + 1]
      /\ view' = [view EXCEPT ![c] = Append(@, EmptySlot)]
      /\ UNCHANGED <<members, finished, loaded, cut, buffer, queue, log>>
  BY DEF PutInEmpty, playerVars, loadVars
<1>2. loaded /\ Buffered = {} /\ Buffered' = {}
  BY <1>1 DEF Pace, TypeOK, Buffered
<1>3. /\ view[c] \in Seq(Items) /\ queue[c] \in Seq(Items) /\ buffer[c] \in Seq(Items)
      /\ used[c] \in Nat /\ log \in Seq(Items)
      /\ view'[c] = Append(view[c], EmptySlot) /\ used'[c] = used[c] + 1
  BY <1>1, DataTypes DEF TypeOK
<1>4. Paced(view'[c], queue[c] \o buffer[c], used'[c], log)
  <2>1. queue[c] \o buffer[c] \in Seq(Items)
    BY <1>3, Joined, Zenon
  <2>2. c \in members
    BY <1>1
  <2>3. Paced(view[c], queue[c] \o buffer[c], used[c], log)
    BY <2>2, PaceOf
  <2> QED  BY <1>3, <2>1, <2>3, PacedAhead
<1>5. ASSUME NEW d \in members, d # c PROVE view'[d] = view[d] /\ used'[d] = used[d]
  BY <1>1, <1>5 DEF TypeOK
<1>6. ASSUME NEW d \in members
      PROVE  /\ d \notin cut => queue[d] = <<>>
             /\ d \notin Buffered' => buffer[d] = <<>>
             /\ used'[d] > 0 => d \in GProxy \ Buffered'
             /\ Ready(queue[d])
             /\ Paced(view'[d], queue[d] \o buffer[d], used'[d], log)
  <2>1. /\ d \notin cut => queue[d] = <<>>
        /\ d \notin Buffered' => buffer[d] = <<>>
        /\ Ready(queue[d])
    BY <1>2, PaceOf
  <2>2. CASE d = c
    <3>1. used'[d] > 0 => d \in GProxy \ Buffered'
      BY <1>1, <1>2, <2>2
    <3> QED  BY <1>4, <2>1, <2>2, <3>1
  <2>3. CASE d # c
    <3>1. view'[d] = view[d] /\ used'[d] = used[d]
      BY <1>5, <2>3
    <3>2. used[d] > 0 => d \in GProxy \ Buffered'
      BY <1>2, PaceOf
    <3> QED  BY <2>1, <3>1, <3>2, PaceOf
  <2> QED  BY <2>2, <2>3
<1> QED  BY <1>1, <1>2, <1>6 DEF Pace

LEMMA DeletedPaces ==
  ASSUME TypeOK, Pace, NEW c \in members, NEW disc \in BOOLEAN,
         EventPlayerDeleted(c, disc)
  PROVE  Pace'
<1> DEFINE stay  == members \ {c}
           saves == loaded /\ AutoSave /\ disc
           slots == IF saves THEN Recorded(NextSlot) ELSE <<>>
           more  == slots \o <<Leave(c)>>
           items == Farewell(c, saves)
<1>1. /\ members' = stay /\ cut' = cut \ {c} /\ finished' = finished \ {c}
      /\ loaded' = loaded
      /\ Hand(stay, items)
      /\ log' = log \o slots \o <<Leave(c)>>
  BY DEF EventPlayerDeleted
<1>2. /\ c \in Players /\ members \subseteq Players
      /\ saves \in BOOLEAN /\ turn \in 0 .. MaxUpdates
  BY SwitchesAssumption DEF TypeOK
<1>3. /\ slots \in Seq(Items) /\ <<Leave(c)>> \in Seq(Items)
      /\ \A d \in members : d \in GProxy => Ready(slots)
  <2>1. Recorded(NextSlot) \in Seq(Items) /\ NextSlot \in Seq(Items)
    BY <1>2, SlotTypes, ShownType
  <2>2. <<>> \in Seq(Items)
    BY EmptySeq
  <2>3. Leave(c) \in Items
    BY <1>2, ItemTypes
  <2>4. ASSUME NEW d \in members, d \in GProxy PROVE Ready(Recorded(NextSlot))
    BY <2>1, <2>4, ReadyPieces DEF Recorded, UsingGProxy
  <2> QED  BY <2>1, <2>2, <2>3, <2>4, ReadyPieces
<1>4. ASSUME NEW d \in stay PROVE items[d] = more
  <2>1. items[d] = (IF saves THEN Shown(d, NextSlot) ELSE <<>>) \o <<Leave(c)>>
    BY <1>2 DEF Farewell
  <2>2. Shown(d, NextSlot) = Recorded(NextSlot)
    BY <1>2, SlotTypes, SameSlot
  <2> QED  BY <2>1, <2>2
<1> HIDE DEF stay, saves, slots, items
<1>5. more \in Seq(Items) /\ log' = log \o more
  <2> DEFINE last == <<Leave(c)>>
  <2>1. slots \in Seq(Items) /\ last \in Seq(Items) /\ log \in Seq(Items)
    BY <1>3 DEF TypeOK
  <2>2. log' = log \o slots \o last
    BY <1>1
  <2> HIDE DEF last
  <2>3. slots \o last \in Seq(Items)
    BY <2>1, ConcatProperties
  <2>4. log \o (slots \o last) = (log \o slots) \o last
    BY <2>1, Assoc
  <2> QED  BY <2>2, <2>3, <2>4 DEF last
<1>6. stay \in SUBSET members
  BY DEF stay
<1>7. \A d \in stay : d \in GProxy => Ready(more)
  <2>1. Ready(<<Leave(c)>>)
    BY ReadyPieces DEF Ready
  <2> QED  BY <1>3, <1>6, <2>1, ReadyConcat
<1> HIDE DEF more
<1>8. \A d \in stay :
        /\ d \notin cut => queue'[d] = <<>>
        /\ d \notin Buffered => buffer'[d] = <<>>
        /\ used'[d] > 0 => d \in GProxy \ Buffered
        /\ Ready(queue'[d])
        /\ Paced(view'[d], queue'[d] \o buffer'[d], used'[d], log \o more)
  BY <1>1, <1>4, <1>5, <1>6, <1>7, HandPaces
<1>9. \A d \in stay : (d \in Buffered' <=> d \in Buffered) /\ (d \in cut' <=> d \in cut)
  BY <1>1 DEF Buffered, stay
<1> QED  BY <1>1, <1>5, <1>8, <1>9 DEF Pace

LEMMA PaceStep ==
  ASSUME TypeOK, Pace, [Next]_vars
  PROVE  Pace'
<1>1. ASSUME NEW c \in Players, Quit(c) \/ Drop(c) \/ Reap(c) PROVE Pace'
  BY <1>1, Deletion, DeletedPaces
<1>2. ASSUME NEW c \in Players, KeepAlive(c) \/ DropRequest(c) \/ Kick(c)
      PROVE  Pace'
  <2>1. UNCHANGED <<members, dataVars, finished, loaded, cut>>
    BY <1>2 DEF KeepAlive, DropRequest, Kick, playerVars, loadVars
  <2> QED  BY <2>1, PaceStands DEF Buffered, Pace
<1>3. ASSUME NEW c \in Players, CutOff(c) PROVE Pace'
  <2>1. loaded /\ cut' = cut \cup {c} /\ UNCHANGED <<members, dataVars, finished, loaded>>
    BY <1>3 DEF CutOff, playerVars, loadVars
  <2> QED  BY <2>1, PaceStands DEF Buffered
<1>4. CASE LoadReset
  <2>1. <<EmptySlot>> \in Seq(Items)
    BY SlotTypes DEF TypeOK
  <2>2. HandAll(<<EmptySlot>>) /\ UNCHANGED <<members, finished, loaded, cut>>
    BY <1>4 DEF LoadReset, playerVars, loadVars
  <2> QED  BY <2>1, <2>2, HandAllPaces
<1>5. CASE LagStarts \/ WaitOver
  <2>1. UNCHANGED <<members, dataVars, finished, loaded, cut>>
    BY <1>5 DEF LagStarts, WaitOver, playerVars, loadVars
  <2> QED  BY <2>1, PaceStands DEF Buffered, Pace
<1>6. CASE LagGoesOn
  <2>1. UNCHANGED <<members, finished, loaded, cut>>
    BY <1>6 DEF LagGoesOn, loadVars
  <2>2. CASE HandAll(<<EmptySlot>>)
    <3>1. <<EmptySlot>> \in Seq(Items)
      BY SlotTypes DEF TypeOK
    <3> QED  BY <2>1, <2>2, <3>1, HandAllPaces
  <2>3. CASE UNCHANGED <<dataVars, resets>>
    BY <2>1, <2>3, PaceStands DEF Buffered, Pace
  <2> QED  BY <1>6, <2>2, <2>3 DEF LagGoesOn
<1>7. CASE SendUpdate
  <2>1. NextSlot \in Seq(Items)
    BY SlotTypes DEF TypeOK
  <2>2. HandAll(NextSlot) /\ UNCHANGED <<members, finished, loaded, cut>>
    BY <1>7 DEF SendUpdate, playerVars, loadVars
  <2> QED  BY <2>1, <2>2, HandAllPaces
<1>8. CASE GameLoaded
  <2>1. /\ members \subseteq finished /\ loaded' = TRUE
        /\ UNCHANGED <<members, dataVars, cut>>
    BY <1>8 DEF GameLoaded, playerVars
  <2>2. Buffered' = {} /\ Buffered = {}
    BY <2>1 DEF Buffered
  <2> QED  BY <2>1, <2>2, PaceStands
<1>9. CASE UNCHANGED vars
  BY <1>9, PaceStands DEF vars, dataVars, Buffered, Pace
<1>10. CASE ClientStep
  BY <1>1, <1>2, <1>3, <1>10, LoadedPaces, ReconnectPaces, PutInPaces DEF ClientStep
<1>11. CASE UpdateStep
  BY <1>1, <1>4, <1>5, <1>6, <1>7, <1>8, <1>11 DEF UpdateStep
<1> QED  BY <1>9, <1>10, <1>11 DEF Next

LEMMA PaceInit == Init => Pace
<1> SUFFICES ASSUME Init PROVE Pace
  OBVIOUS
<1>1. Slotted(<<>>) = <<>> /\ Events(<<>>) = <<>>
  BY RunKept, RunZero
<1>2. Paced(<<>>, <<>>, 0, <<>>)
  BY <1>1, BothEmpty, RunZero DEF Paced
<1>3. \A c \in members : /\ queue[c] = <<>> /\ buffer[c] = <<>> /\ view[c] = <<>>
                         /\ used[c] = 0 /\ log = <<>>
  BY DEF Init, Nothing
<1>4. cut = {}
  BY DEF Init
<1>5. ASSUME NEW c \in members
      PROVE  /\ c \notin cut => queue[c] = <<>>
             /\ c \notin Buffered => buffer[c] = <<>>
             /\ used[c] > 0 => c \in GProxy \ Buffered
             /\ Ready(queue[c])
             /\ Paced(view[c], queue[c] \o buffer[c], used[c], log)
  <2>1. /\ queue[c] = <<>> /\ buffer[c] = <<>> /\ view[c] = <<>> /\ used[c] = 0
        /\ log = <<>>
    BY <1>3
  <2>2. ~(used[c] > 0)
    BY <2>1
  <2>3. queue[c] \o buffer[c] = <<>>
    BY <2>1, BothEmpty
  <2>4. Paced(view[c], queue[c] \o buffer[c], used[c], log)
    BY <1>2, <2>1, <2>3, Zenon
  <2> QED  BY <2>1, <2>2, <2>4, ReadyPieces
<1> QED  BY <1>4, <1>5 DEF Pace

LEMMA PacedCourse ==
  ASSUME TypeOK, Pace, NEW c \in members
  PROVE  \E u \in {0, used[c]} : Paced(Course(c), <<>>, u, log)
<1>1. /\ used[c] \in 0 .. NumEmpty /\ used[c] \in Nat /\ NumEmpty \in Nat
      /\ view[c] \in Seq(Items) /\ queue[c] \in Seq(Items) /\ buffer[c] \in Seq(Items)
      /\ log \in Seq(Items)
  BY DataTypes
<1>2. Paced(view[c], queue[c] \o buffer[c], used[c], log) /\ Ready(queue[c])
  BY DEF Pace
<1>3. CASE c \in Buffered
  <2>1. queue[c] = <<>> /\ used[c] = 0 /\ 0 \in 0 .. NumEmpty
    BY <1>1, <1>3 DEF Pace, Buffered
  <2>2. /\ <<>> \o buffer[c] = buffer[c] /\ view[c] \o <<>> = view[c]
    BY <1>1, NothingAdds
  <2>3. Paced(view[c], buffer[c], 0, log)
    BY <1>2, <2>1, <2>2
  <2>4. Paced(view[c] \o Net(buffer[c], 0), <<>>, IF HasSlot(buffer[c]) THEN 0 ELSE 0, log)
    BY <1>1, <2>1, <2>3, PacedHanded
  <2>5. Course(c) = view[c] \o buffer[c]
    BY <2>1, <2>2, NetZero DEF Course
  <2> QED  BY <2>4, <2>5, NetZero
<1>4. CASE c \notin Buffered
  <2>1. buffer[c] = <<>>
    BY <1>4 DEF Pace
  <2>2. queue[c] \o <<>> = queue[c]
    BY <1>1, NothingAdds
  <2>3. Paced(view[c] \o Net(queue[c], used[c]), <<>>,
              IF HasSlot(queue[c]) THEN 0 ELSE used[c], log)
    BY <1>1, <1>2, <2>1, <2>2, PacedHanded
  <2>4. Course(c) = view[c] \o Net(queue[c], used[c])
    <3>1. Net(queue[c], used[c]) \in Seq(Items)
      BY <1>1, NetType
    <3>2. view[c] \o Net(queue[c], used[c]) \in Seq(Items)
      BY <1>1, <3>1, Joined, Zenon
    <3> QED  BY <2>1, <3>2, NothingAdds DEF Course
  <2> QED  BY <2>3, <2>4
<1> QED  BY <1>3, <1>4

(* However long the outages, the game of every player goes through the     *)
(* updates of the replay, with as many empty slots ahead of each and with  *)
(* the same leaves between two; it is ahead of the replay by no more than  *)
(* the empty slots its client has put in (gproxy.cpp, the empty actions of *)
(* CGProxy::Update, and what ProcessRemotePackets makes up for later).     *)
THEOREM EverybodyKeepsPace == Spec => []KeepsPace
<1>1. TypeOK /\ Pace => KeepsPace
  <2> SUFFICES ASSUME TypeOK, Pace, NEW c \in members
               PROVE  /\ Events(Course(c)) = Events(log)
                      /\ \/ Slotted(Course(c)) = Slotted(log)
                         \/ Slotted(Course(c)) = Slotted(log) \o Run(used[c])
    BY DEF KeepsPace, Run
  <2>1. PICK u \in {0, used[c]} : Paced(Course(c), <<>>, u, log)
    BY PacedCourse
  <2>2. Course(c) \in Seq(Items) /\ log \in Seq(Items)
    <3>1. Net(queue[c], used[c]) \in Seq(Items)
      BY DataTypes, NetType
    <3>2. view[c] \o Net(queue[c], used[c]) \in Seq(Items)
      BY <3>1, DataTypes, Joined
    <3> QED  BY <3>2, DataTypes, Joined DEF Course
  <2>3. /\ Slotted(<<>>) = <<>> /\ Events(<<>>) = <<>>
        /\ Events(Course(c)) \o <<>> = Events(Course(c))
        /\ Slotted(log) \in Seq(Items) /\ Slotted(log) \o <<>> = Slotted(log)
    BY <2>2, RunKept, RunZero, SlottedType, NothingAdds
  <2>4. PICK s \in Seq(Items) : Slotted(Course(c)) = s \o Run(u) /\ s \o <<>> = Slotted(log)
    BY <2>1, <2>3 DEF Paced
  <2>5. s \o <<>> = s
    BY NothingAdds
  <2>6. Slotted(Course(c)) = Slotted(log) \o Run(u)
    BY <2>4, <2>5
  <2>7. Events(Course(c)) = Events(log)
    BY <2>1, <2>3 DEF Paced
  <2> QED  BY <2>3, <2>6, <2>7, RunZero
<1>2. TypeOK /\ Pace /\ [Next]_vars => Pace'
  BY PaceStep
<1> QED  BY <1>1, <1>2, TypeCorrect, PaceInit, PTL DEF Spec
=============================================================================
