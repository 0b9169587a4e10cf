---------------------------- MODULE HostingProofs ----------------------------
(***************************************************************************)
(* What is proved about Hosting, for any number of callables, connections, *)
(* games and lists: its types, that a connection to the database has one   *)
(* user, that the database's counts are right, and that no callable is     *)
(* deleted while its thread may use it.                                    *)
(***************************************************************************)
EXTENDS Hosting, FiniteSetTheorems, SequenceTheorems, TLAPS

-----------------------------------------------------------------------------
(* What is true of the database between any two calls, and what a call     *)
(* never does to the threads.                                              *)
Sound(d) == d \in Databases /\ SingleUse(d) /\ Counted(d)

Spares(d, e) ==
  \A c \in Objects : d.stage[c] \in {"issued", "running"} => e.stage[c] # "free"

LEMMA NewIsSound == Sound(NewDatabase)
<1> DEFINE d == NewDatabase
<1>1. d \in Databases
  BY CallablesAssumption DEF NewDatabase, Databases, Stages
<1>2. SingleUse(d)
  BY CallablesAssumption DEF NewDatabase, SingleUse, Pooled
<1>3. Out(d) = {}
  BY DEF NewDatabase, Out
<1>4. Counted(d)
  BY <1>3, FS_EmptySet DEF NewDatabase, Counted
<1> QED BY <1>1, <1>2, <1>4 DEF Sound

LEMMA OutIsFinite == ASSUME NEW d PROVE IsFiniteSet(Out(d)) /\ Cardinality(Out(d)) \in Nat
<1>1. Out(d) \in SUBSET Objects
  BY DEF Out
<1> QED BY <1>1, CallablesAssumption, FS_Subset, FS_CardinalityType

(* Nothing idle is ever closed for being too many.                         *)
LEMMA NothingClosed == ASSUME NEW d, Sound(d) PROVE Kept(d) = d.idle
<1>1. d.idle \in Seq(Connections \cup {NoConnection}) /\ d.num \in Nat
  BY DEF Sound, Databases
<1>2. Len(d.idle) =< d.num
  BY <1>1, OutIsFinite, LenProperties DEF Sound, Counted
<1>3. Surplus(d) = 0
  BY <1>1, <1>2, LenProperties DEF Surplus
<1> QED BY <1>1, <1>3, SubSeqFull DEF Kept

LEMMA IssueIsSound ==
  ASSUME NEW d, Sound(d), NEW c \in Free(d), NEW spawned \in BOOLEAN
  PROVE  /\ Sound(Issue(d, c, spawned))
         /\ Spares(d, Issue(d, c, spawned))
         /\ Free(Issue(d, c, spawned)) = Free(d) \ {c}
         /\ \A x \in Objects : x # c => Issue(d, c, spawned).stage[x] = d.stage[x]
<1> DEFINE e == Issue(d, c, spawned)
<1>0. /\ c \in Objects /\ d.stage[c] = "free" /\ d \in Databases
      /\ d.idle \in Seq(Connections \cup {NoConnection})
      /\ Len(d.idle) \in Nat /\ DOMAIN d.idle = 1 .. Len(d.idle)
      /\ d.num \in Nat /\ d.out \in Nat
  BY LenProperties DEF Sound, Free, Databases
<1>1. Kept(d) = d.idle
  BY NothingClosed
<1>2. Taken(d) \in Connections \cup {NoConnection} /\ Left(d) \in Seq(Connections \cup {NoConnection})
  BY <1>0, <1>1, HeadTailProperties, EmptySeq DEF Taken, Left
<1>3. /\ e.stage = [d.stage EXCEPT ![c] = IF spawned THEN "issued" ELSE "ready"]
      /\ e.conn = [d.conn EXCEPT ![c] = Taken(d)]
      /\ e.idle = Left(d) /\ e.out = d.out + 1
      /\ e.num = IF Taken(d) = NoConnection THEN d.num + 1 ELSE d.num
  BY <1>0 DEF Issue, Databases
<1>4. e \in Databases
  <2> DEFINE st == [d.stage EXCEPT ![c] = IF spawned THEN "issued" ELSE "ready"]
             co == [d.conn EXCEPT ![c] = Taken(d)]
             nu == IF Taken(d) = NoConnection THEN d.num + 1 ELSE d.num
             le == Left(d)
             ou == d.out + 1
  <2>1. /\ st \in [Objects -> Stages] /\ co \in [Objects -> Connections \cup {NoConnection}]
        /\ nu \in Nat /\ ou \in Nat /\ le \in Seq(Connections \cup {NoConnection})
    BY <1>0, <1>2 DEF Databases, Stages
  <2>2. e = [d EXCEPT !.stage = st, !.conn = co, !.idle = le, !.num = nu, !.out = ou]
    BY <1>0 DEF Issue, Databases
  <2> HIDE DEF st, co, nu, le, ou, e
  <2> QED BY <1>0, <2>1, <2>2 DEF Databases
<1>5. /\ Out(e) = Out(d) \cup {c} /\ c \notin Out(d) /\ Free(e) = Free(d) \ {c}
      /\ \A x \in Objects : x # c => e.stage[x] = d.stage[x]
  BY <1>0, <1>3 DEF Out, Free, Databases
<1>6. Cardinality(Out(e)) = Cardinality(Out(d)) + 1
  BY <1>5, OutIsFinite, FS_AddElement
<1>7. Counted(e)
  <2>1. CASE d.idle = <<>>
    <3>1. Len(e.idle) = 0 /\ e.num = d.num + 1
      BY <1>1, <1>3, <2>1, EmptySeq DEF Taken, Left
    <3> QED BY <1>0, <1>3, <1>6, <3>1, OutIsFinite, <2>1, EmptySeq DEF Counted, Sound
  <2>2. CASE d.idle # <<>>
    <3>1. Len(e.idle) = Len(d.idle) - 1
      BY <1>0, <1>1, <1>3, <2>2, HeadTailProperties DEF Left
    <3> QED BY <1>0, <1>3, <1>6, <3>1, OutIsFinite DEF Counted, Sound
  <2> QED BY <2>1, <2>2
<1>8. SingleUse(e)
  <2>1. CASE d.idle = <<>>
    <3>1. Taken(d) = NoConnection /\ e.idle = d.idle
      BY <1>1, <1>3, <2>1 DEF Taken, Left
    <3>2. \A x \in Objects : e.conn[x] # NoConnection => x # c /\ e.conn[x] = d.conn[x]
      BY <1>0, <1>3, <3>1 DEF Databases
    <3> QED BY <1>0, <1>5, <3>1, <3>2 DEF SingleUse, Sound, Pooled
  <2>2. CASE d.idle # <<>>
    <3>1. /\ Taken(d) = d.idle[1] /\ 1 \in DOMAIN d.idle
          /\ DOMAIN e.idle = 1 .. (Len(d.idle) - 1)
          /\ \A i \in DOMAIN e.idle : e.idle[i] = d.idle[i + 1] /\ i + 1 \in DOMAIN d.idle
      <4>1. Left(d) = Tail(d.idle) /\ Taken(d) = Head(d.idle)
        BY <1>1, <2>2 DEF Left, Taken
      <4>2. Len(d.idle) >= 1
        BY <1>0, <2>2, EmptySeq
      <4>3. Len(e.idle) = Len(d.idle) - 1 /\ \A i \in 1 .. Len(e.idle) : e.idle[i] = d.idle[i + 1]
        BY <1>0, <1>3, <2>2, <4>1, HeadTailProperties
      <4>4. DOMAIN e.idle = 1 .. Len(e.idle)
        BY <1>2, <1>3, LenProperties
      <4> QED BY <1>0, <4>1, <4>2, <4>3, <4>4
    <3>2. \A i, j \in DOMAIN e.idle : e.idle[i] = e.idle[j] /\ e.idle[i] # NoConnection => i = j
      <4>1. SUFFICES ASSUME NEW i \in DOMAIN e.idle, NEW j \in DOMAIN e.idle,
                            e.idle[i] = e.idle[j], e.idle[i] # NoConnection
                     PROVE  i = j
        OBVIOUS
      <4>2. i + 1 = j + 1
        BY <3>1, <4>1 DEF SingleUse, Sound
      <4> QED BY <3>1, <4>2, <1>0
    <3>3. Pooled(e) \subseteq Pooled(d) /\ d.idle[1] \in Pooled(d)
      BY <3>1 DEF Pooled
    <3>4. Taken(d) # NoConnection => Taken(d) \notin Pooled(e)
      <4>1. SUFFICES ASSUME Taken(d) # NoConnection, Taken(d) \in Pooled(e) PROVE FALSE
        OBVIOUS
      <4>2. PICK i \in DOMAIN e.idle : e.idle[i] = Taken(d)
        BY <4>1 DEF Pooled
      <4>3. i + 1 = 1
        BY <3>1, <4>1, <4>2 DEF SingleUse, Sound
      <4> QED BY <3>1, <4>3, <1>0
    <3>5. e.conn[c] = Taken(d) /\ \A x \in Objects : x # c => e.conn[x] = d.conn[x]
      BY <1>0, <1>3 DEF Databases
    <3>6. \A x \in Objects : d.conn[x] # NoConnection => d.conn[x] # Taken(d)
      BY <3>1, <3>3 DEF SingleUse, Sound
    <3>7. e.stage[c] # "free"
      BY <1>0, <1>3 DEF Databases
    <3>8. \A x \in Objects : d.conn[x] # NoConnection =>
            /\ d.stage[x] # "free" /\ d.conn[x] \notin Pooled(d)
            /\ \A y \in Objects : d.conn[y] = d.conn[x] => y = x
      BY DEF SingleUse, Sound
    <3>9. ASSUME NEW x \in Objects, e.conn[x] # NoConnection
          PROVE  /\ e.stage[x] # "free" /\ e.conn[x] \notin Pooled(e)
                 /\ \A y \in Objects : e.conn[y] = e.conn[x] => y = x
      <4>1. CASE x = c
        BY <4>1, <3>4, <3>5, <3>6, <3>7, <3>9
      <4>2. CASE x # c
        BY <4>2, <1>5, <3>3, <3>5, <3>6, <3>8, <3>9
      <4> QED BY <4>1, <4>2
    <3> QED BY <3>2, <3>9 DEF SingleUse
  <2> QED BY <2>1, <2>2
<1>9. Spares(d, e)
  BY <1>0, <1>3, <1>5 DEF Spares
<1> QED BY <1>4, <1>5, <1>7, <1>8, <1>9 DEF Sound

LEMMA BeginIsSound ==
  ASSUME NEW d, Sound(d), NEW c \in Objects, d.stage[c] = "issued", Unused(d) # {}
  PROVE  Sound(Begin(d, c)) /\ Spares(d, Begin(d, c))
<1> DEFINE e == Begin(d, c)
           k == CHOOSE x \in Unused(d) : TRUE
<1>0. d \in Databases /\ SingleUse(d) /\ Counted(d)
  BY DEF Sound
<1>1. k \in Connections /\ k \notin Pooled(d) /\ \A x \in Objects : d.conn[x] # k
  <2>1. k \in Unused(d)
    OBVIOUS
  <2> QED BY <2>1 DEF Unused
<1> HIDE DEF k
<1>2. /\ e.stage = [d.stage EXCEPT ![c] = "running"]
      /\ e.conn = [d.conn EXCEPT ![c] = IF @ = NoConnection THEN k ELSE @]
      /\ e.idle = d.idle /\ e.num = d.num /\ e.out = d.out
  BY <1>0 DEF Begin, Databases, k
<1>3. e \in Databases
  BY <1>0, <1>1 DEF Begin, Databases, Stages, k
<1> HIDE DEF e
<1>4. Out(e) = Out(d) /\ Pooled(e) = Pooled(d)
  BY <1>0, <1>2 DEF Out, Databases, Pooled
<1>5. Counted(e)
  BY <1>0, <1>2, <1>4 DEF Counted
<1>6. /\ e.conn[c] = IF d.conn[c] = NoConnection THEN k ELSE d.conn[c]
      /\ \A x \in Objects : x # c => e.conn[x] = d.conn[x] /\ e.stage[x] = d.stage[x]
      /\ e.stage[c] = "running"
  BY <1>0, <1>2 DEF Databases
<1>7. SingleUse(e)
  BY <1>0, <1>1, <1>2, <1>4, <1>6 DEF SingleUse
<1>8. Spares(d, e)
  BY <1>6 DEF Spares
<1> QED BY <1>3, <1>5, <1>7, <1>8 DEF Sound, e

LEMMA FinishIsSound ==
  ASSUME NEW d, Sound(d), NEW c \in Objects, d.stage[c] = "running"
  PROVE  Sound(Finish(d, c)) /\ Spares(d, Finish(d, c))
<1> DEFINE e == Finish(d, c)
<1>0. d \in Databases /\ SingleUse(d) /\ Counted(d)
  BY DEF Sound
<1>1. /\ e.stage = [d.stage EXCEPT ![c] = "ready"] /\ e.conn = d.conn
      /\ e.idle = d.idle /\ e.num = d.num /\ e.out = d.out
  BY <1>0 DEF Finish, Databases
<1>2. e \in Databases
  BY <1>0 DEF Finish, Databases, Stages
<1> HIDE DEF e
<1>3. \A x \in Objects : e.stage[x] = IF x = c THEN "ready" ELSE d.stage[x]
  BY <1>0, <1>1 DEF Databases
<1>4. Out(e) = Out(d) /\ Pooled(e) = Pooled(d)
  BY <1>1, <1>3 DEF Out, Pooled
<1>5. Counted(e) /\ SingleUse(e)
  BY <1>0, <1>1, <1>3, <1>4 DEF Counted, SingleUse
<1>6. Spares(d, e)
  BY <1>3 DEF Spares
<1> QED BY <1>2, <1>5, <1>6 DEF Sound, e

LEMMA RecoverIsSound ==
  ASSUME NEW d, Sound(d), NEW c \in Objects, d.stage[c] = "ready"
  PROVE  Sound(Recover(d, c)) /\ Spares(d, Recover(d, c))
<1> DEFINE e == Recover(d, c)
           full == Len(d.idle) > MaxConnections
<1>0. /\ d \in Databases /\ SingleUse(d) /\ Counted(d)
      /\ d.idle \in Seq(Connections \cup {NoConnection})
      /\ Len(d.idle) \in Nat /\ DOMAIN d.idle = 1 .. Len(d.idle)
      /\ d.num \in Nat /\ d.out \in Nat
      /\ d.conn[c] \in Connections \cup {NoConnection}
  BY LenProperties DEF Sound, Databases
<1>1. /\ Cardinality(Out(d)) >= 1 /\ c \in Out(d)
      /\ Cardinality(Out(d) \ {c}) = Cardinality(Out(d)) - 1
  <2>1. c \in Out(d)
    BY DEF Out
  <2> QED BY <2>1, OutIsFinite, FS_RemoveElement, FS_EmptySet
<1>2. d.out >= 1 /\ d.num >= 1
  BY <1>0, <1>1, OutIsFinite DEF Counted
<1>3. /\ Append(d.idle, d.conn[c]) \in Seq(Connections \cup {NoConnection})
      /\ Len(Append(d.idle, d.conn[c])) = Len(d.idle) + 1
      /\ DOMAIN Append(d.idle, d.conn[c]) = 1 .. (Len(d.idle) + 1)
      /\ \A i \in DOMAIN d.idle : Append(d.idle, d.conn[c])[i] = d.idle[i]
      /\ Append(d.idle, d.conn[c])[Len(d.idle) + 1] = d.conn[c]
  BY <1>0, AppendProperties, LenProperties
<1>4. /\ e.stage = [d.stage EXCEPT ![c] = "free"]
      /\ e.conn = [d.conn EXCEPT ![c] = NoConnection]
      /\ e.idle = IF full THEN d.idle ELSE Append(d.idle, d.conn[c])
      /\ e.num = IF full THEN d.num - 1 ELSE d.num
      /\ e.out = d.out - 1
  BY <1>0, <1>2 DEF Recover, Databases
<1>5. e \in Databases
  <2>1. e.num \in Nat /\ e.out \in Nat /\ e.idle \in Seq(Connections \cup {NoConnection})
    BY <1>0, <1>2, <1>3, <1>4
  <2>2. e.stage \in [Objects -> Stages] /\ e.conn \in [Objects -> Connections \cup {NoConnection}]
    BY <1>0, <1>4 DEF Databases, Stages
  <2> DEFINE st == [d.stage EXCEPT ![c] = "free"]
             co == [d.conn EXCEPT ![c] = NoConnection]
             nu == IF full THEN d.num - 1 ELSE d.num
             le == IF full THEN d.idle ELSE Append(d.idle, d.conn[c])
             ou == d.out - 1
  <2>3. e = [d EXCEPT !.stage = st, !.conn = co, !.idle = le, !.num = nu, !.out = ou]
    <3>1. d.out # 0
      BY <1>0, <1>2
    <3>2. CASE full
      BY <3>1, <3>2 DEF Recover
    <3>3. CASE ~full
      BY <3>1, <3>3 DEF Recover
    <3> QED BY <3>2, <3>3
  <2>4. e.stage = st /\ e.conn = co /\ e.idle = le /\ e.num = nu /\ e.out = ou
    BY <1>4
  <2> HIDE DEF st, co, nu, le, ou, e
  <2> QED BY <1>0, <2>1, <2>2, <2>3, <2>4 DEF Databases
<1> HIDE DEF e
<1>6. \A x \in Objects : /\ e.stage[x] = IF x = c THEN "free" ELSE d.stage[x]
                         /\ e.conn[x] = IF x = c THEN NoConnection ELSE d.conn[x]
  BY <1>0, <1>4 DEF Databases
<1>7. Out(e) = Out(d) \ {c}
  BY <1>6 DEF Out
<1>8. Counted(e)
  <2>1. CASE full
    BY <2>1, <1>0, <1>1, <1>2, <1>4, <1>7, OutIsFinite DEF Counted
  <2>2. CASE ~full
    BY <2>2, <1>0, <1>1, <1>3, <1>4, <1>7, OutIsFinite DEF Counted
  <2> QED BY <2>1, <2>2
<1>9. SingleUse(e)
  <2>0. \A x \in Objects : d.conn[x] # NoConnection =>
          /\ d.stage[x] # "free" /\ d.conn[x] \notin Pooled(d)
          /\ \A y \in Objects : d.conn[y] = d.conn[x] => y = x
    BY <1>0 DEF SingleUse
  <2>1. CASE full
    <3>1. e.idle = d.idle /\ Pooled(e) = Pooled(d)
      BY <2>1, <1>4 DEF Pooled
    <3>2. ASSUME NEW x \in Objects, e.conn[x] # NoConnection
          PROVE  /\ e.stage[x] # "free" /\ e.conn[x] \notin Pooled(e)
                 /\ \A y \in Objects : e.conn[y] = e.conn[x] => y = x
      BY <1>6, <2>0, <3>1, <3>2
    <3> QED BY <1>0, <3>1, <3>2 DEF SingleUse
  <2>2. CASE ~full
    <3>1. Pooled(e) = Pooled(d) \cup {d.conn[c]}
      <4>1. DOMAIN e.idle = DOMAIN d.idle \cup {Len(d.idle) + 1}
        BY <2>2, <1>0, <1>3, <1>4
      <4>2. \A i \in DOMAIN d.idle : e.idle[i] = d.idle[i]
        BY <2>2, <1>3, <1>4
      <4>3. e.idle[Len(d.idle) + 1] = d.conn[c]
        BY <2>2, <1>3, <1>4
      <4> QED BY <4>1, <4>2, <4>3 DEF Pooled
    <3>2. ASSUME NEW x \in Objects, e.conn[x] # NoConnection
          PROVE  /\ e.stage[x] # "free" /\ e.conn[x] \notin Pooled(e)
                 /\ \A y \in Objects : e.conn[y] = e.conn[x] => y = x
      <4>1. x # c /\ e.conn[x] = d.conn[x] /\ e.stage[x] = d.stage[x]
        BY <1>6, <3>2
      <4>2. d.conn[x] # d.conn[c]
        BY <2>0, <3>2, <4>1
      <4> QED BY <1>6, <2>0, <3>1, <3>2, <4>1, <4>2
    <3>3. ASSUME NEW i \in DOMAIN e.idle, NEW j \in DOMAIN e.idle,
                 e.idle[i] = e.idle[j], e.idle[i] # NoConnection
          PROVE  i = j
      <4>1. CASE i \in DOMAIN d.idle /\ j \in DOMAIN d.idle
        BY <4>1, <3>3, <2>2, <1>0, <1>3, <1>4 DEF SingleUse
      <4>2. CASE i \notin DOMAIN d.idle \/ j \notin DOMAIN d.idle
        <5>1. \A h \in DOMAIN e.idle : h \notin DOMAIN d.idle => h = Len(d.idle) + 1 /\ e.idle[h] = d.conn[c]
          BY <2>2, <1>0, <1>3, <1>4
        <5>2. \A h \in DOMAIN d.idle : e.idle[h] \in Pooled(d)
          BY <2>2, <1>3, <1>4 DEF Pooled
        <5> QED BY <4>2, <3>3, <2>0, <5>1, <5>2
      <4> QED BY <4>1, <4>2
    <3> QED BY <3>2, <3>3 DEF SingleUse
  <2> QED BY <2>1, <2>2
<1>10. Spares(d, e)
  BY <1>6 DEF Spares
<1> QED BY <1>5, <1>8, <1>9, <1>10 DEF Sound, e

(* The callable that is issued next.                                       *)
LEMMA IssueNextIsSound ==
  ASSUME NEW d, Sound(d), Free(d) # {}, NEW spawned \in BOOLEAN
  PROVE  /\ NextObject(d) \in Free(d) /\ NextObject(d) \in Objects
         /\ Sound(Issue(d, NextObject(d), spawned))
         /\ Spares(d, Issue(d, NextObject(d), spawned))
<1>1. NextObject(d) \in Free(d)
  BY DEF NextObject
<1> QED BY <1>1, IssueIsSound DEF Free

LEMMA SparesItself == ASSUME NEW d PROVE Spares(d, d)
  BY DEF Spares

LEMMA SomeFree ==
  ASSUME NEW d, NEW n \in Nat, Cardinality(Free(d)) > n
  PROVE  /\ Free(d) # {}
         /\ n >= 1 => \A c \in Free(d) : Free(d) \ {c} # {}
<1>1. IsFiniteSet(Free(d)) /\ Cardinality(Free(d)) \in Nat
  <2>1. Free(d) \in SUBSET Objects
    BY DEF Free
  <2> QED BY <2>1, CallablesAssumption, FS_Subset, FS_CardinalityType
<1>2. Free(d) # {}
  BY <1>1, FS_EmptySet
<1>3. ASSUME n >= 1, NEW c \in Free(d), Free(d) \ {c} = {} PROVE FALSE
  BY <1>1, <1>3, FS_RemoveElement, FS_EmptySet
<1> QED BY <1>2, <1>3

-----------------------------------------------------------------------------
(* The inductive invariant: the database is sound, the rest has its type,  *)
(* and a lobby can become a game in progress without there being too many. *)
Shape ==
  /\ part \in {"exit", "callables", "lobby", "games", "bnets", "over", "crashed"}
  /\ at \in 1 .. (Len(games) + 1)
  /\ lobby \in Lobbies \cup {NoLobby}
  /\ games \in Seq(Games) /\ Len(games) =< MaxGames
  /\ newGame \in BOOLEAN /\ exitingNice \in BOOLEAN /\ finished \in BOOLEAN
  /\ orphans \subseteq Objects /\ lists \subseteq Objects
  /\ alongside \subseteq Objects /\ lost \subseteq Objects
  /\ lobby # NoLobby => Len(games) < MaxGames

IInv == Shape /\ Sound(db)

LEMMA GamesLength == ASSUME Shape PROVE Len(games) \in Nat /\ DOMAIN games = 1 .. Len(games)
  BY LenProperties DEF Shape

LEMMA GameChanged ==
  ASSUME Shape, at \in DOMAIN games, NEW g \in Games
  PROVE  [games EXCEPT ![at] = g] \in Seq(Games) /\ Len([games EXCEPT ![at] = g]) = Len(games)
  BY GamesLength, ExceptSeq DEF Shape

LEMMA GameIsTyped ==
  ASSUME Shape, at \in DOMAIN games
  PROVE  /\ games[at] \in Games /\ games[at].checks \subseteq Objects
         /\ games[at].save \in Objects \cup {NoCallable}
         /\ games[at].rehost \in BOOLEAN /\ games[at].empty \in BOOLEAN
         /\ \A s \in SUBSET Objects : [games[at] EXCEPT !.checks = s] \in Games
         /\ \A c \in Objects : [games[at] EXCEPT !.save = c] \in Games
         /\ [games[at] EXCEPT !.empty = TRUE] \in Games
<1>1. games[at] \in Games
  BY GamesLength, ElementOfSeq DEF Shape
<1> QED BY <1>1 DEF Games

LEMMA WithoutType ==
  ASSUME Shape, at \in DOMAIN games
  PROVE  Without(games, at) \in Seq(Games) /\ Len(Without(games, at)) = Len(games) - 1
<1>1. \A i \in 1 .. Len(games) : games[i] \in Games
  BY ElementOfSeq DEF Shape
<1>2. /\ SubSeq(games, 1, at - 1) \in Seq(Games)
      /\ Len(SubSeq(games, 1, at - 1)) = at - 1
  BY <1>1, GamesLength, SubSeqProperties
<1>3. /\ SubSeq(games, at + 1, Len(games)) \in Seq(Games)
      /\ Len(SubSeq(games, at + 1, Len(games))) = Len(games) - at
  BY <1>1, GamesLength, SubSeqProperties
<1>4. at \in Nat /\ Len(games) \in Nat
  BY GamesLength
<1> DEFINE a == SubSeq(games, 1, at - 1)
           b == SubSeq(games, at + 1, Len(games))
<1>5. Without(games, at) = a \o b
  BY DEF Without
<1> HIDE DEF a, b
<1>6. a \o b \in Seq(Games) /\ Len(a \o b) = Len(a) + Len(b)
  BY <1>2, <1>3, ConcatProperties DEF a, b
<1>7. Len(a) = at - 1 /\ Len(b) = Len(games) - at
  BY <1>2, <1>3 DEF a, b
<1>8. Len(a \o b) = Len(games) - 1
  BY <1>4, <1>6, <1>7
<1> QED BY <1>5, <1>6, <1>8

LEMMA DeleteStep ==
  ASSUME IInv, at \in DOMAIN games, NEW spawned \in BOOLEAN, Delete(games[at], spawned)
  PROVE  /\ Sound(db') /\ Spares(db, db')
         /\ games' \in Seq(Games) /\ Len(games') = Len(games) - 1
         /\ at' = at /\ at' \in 1 .. (Len(games') + 1)
         /\ orphans' \subseteq Objects
<1> DEFINE g == games[at]
<1>1. /\ games' \in Seq(Games) /\ Len(games') = Len(games) - 1 /\ at' = at
  BY WithoutType DEF Delete, IInv
<1>2. at' \in 1 .. (Len(games') + 1)
  BY <1>1, GamesLength DEF IInv
<1>3. g.checks \subseteq Objects /\ g.save \in Objects \cup {NoCallable} /\ orphans \subseteq Objects
  BY GameIsTyped DEF IInv, Shape
<1>4. CASE IsSaved(g)
  <2>1. g.save \in Objects /\ db.stage[g.save] = "ready"
    BY <1>3, <1>4 DEF IsSaved, Saving
  <2>2. CASE db' = Recover(db, g.save) /\ orphans' = orphans \cup g.checks
    BY <1>1, <1>2, <1>3, <2>1, <2>2, RecoverIsSound DEF IInv
  <2>3. CASE /\ Free(db) # {}
             /\ db' = Recover(Issue(db, NextObject(db), spawned), g.save)
             /\ orphans' = orphans \cup g.checks \cup {NextObject(db)}
    <3> DEFINE d == Issue(db, NextObject(db), spawned)
    <3>1. NextObject(db) \in Free(db) /\ NextObject(db) \in Objects /\ Sound(d) /\ Spares(db, d)
      BY <2>3, IssueNextIsSound DEF IInv
    <3>2. \A x \in Objects : x # NextObject(db) => d.stage[x] = db.stage[x]
      BY <3>1, IssueIsSound DEF IInv
    <3>3. g.save # NextObject(db)
      BY <2>1, <3>1 DEF Free
    <3> HIDE DEF d
    <3>4. d.stage[g.save] = "ready"
      BY <2>1, <3>2, <3>3
    <3>5. db' = Recover(d, g.save)
      BY <2>3 DEF d
    <3>6. Sound(db') /\ Spares(d, db')
      BY <2>1, <3>1, <3>4, <3>5, RecoverIsSound
    <3>7. Spares(db, db')
      BY <3>1, <3>2, <3>6 DEF Spares, Free
    <3> QED BY <1>1, <1>2, <1>3, <2>3, <3>1, <3>6, <3>7
  <2> QED BY <1>4, <2>2, <2>3 DEF Delete
<1>5. CASE ~IsSaved(g)
  BY <1>1, <1>2, <1>3, <1>5, SparesItself DEF Delete, IInv
<1> QED BY <1>4, <1>5

LEMMA LobbyIsTyped ==
  ASSUME Shape, lobby # NoLobby
  PROVE  /\ lobby \in Lobbies /\ lobby.checks \subseteq Objects /\ lobby.rehost \in BOOLEAN
         /\ \A s \in SUBSET Objects : [lobby EXCEPT !.checks = s] \in Lobbies
         /\ \A b \in BOOLEAN : [lobby EXCEPT !.countdown = b] \in Lobbies
         /\ [lobby EXCEPT !.rehost = TRUE] \in Lobbies
         /\ [rehost |-> lobby.rehost, empty |-> FALSE, save |-> NoCallable,
             checks |-> lobby.checks] \in Games
  BY DEF Shape, Lobbies, Games

LEMMA NewLobbyType == NewLobby \in Lobbies
  BY DEF NewLobby, Lobbies

-----------------------------------------------------------------------------
(* A step of each part of the pass.                                        *)

LEMMA InitHolds == Init => IInv
<1> SUFFICES ASSUME Init PROVE IInv
  OBVIOUS
<1>1. games \in Seq(Games) /\ Len(games) = 0
  BY EmptySeq DEF Init
<1>2. Shape
  <2>1. part = "callables" /\ at = 1 /\ lobby = NoLobby
    BY DEF Init
  <2>2. at \in 1 .. (Len(games) + 1) /\ Len(games) =< MaxGames
    BY <1>1, <2>1, HostingAssumption
  <2>3. newGame = FALSE /\ exitingNice = FALSE /\ finished = FALSE
    BY DEF Init
  <2>4. orphans = {} /\ lists = {} /\ alongside = {} /\ lost = {}
    BY DEF Init
  <2> QED BY <1>1, <2>1, <2>2, <2>3, <2>4 DEF Shape
<1> QED BY <1>2, NewIsSound DEF Init, IInv

LEMMA ThreadsStep == ASSUME IInv, Threads PROVE IInv' /\ Spares(db, db')
<1>1. ASSUME NEW c \in Objects, ThreadBegins(c) PROVE Sound(db') /\ Spares(db, db') /\ Shape'
  <2>1. Sound(db') /\ Spares(db, db')
    BY <1>1, BeginIsSound DEF ThreadBegins, IInv
  <2>2. Shape'
    BY <1>1 DEF ThreadBegins, IInv, Shape, plan, bnet
  <2> QED BY <2>1, <2>2
<1>2. ASSUME NEW c \in Objects, ThreadEnds(c) PROVE Sound(db') /\ Spares(db, db') /\ Shape'
  <2>1. Sound(db') /\ Spares(db, db')
    BY <1>2, FinishIsSound DEF ThreadEnds, IInv
  <2>2. Shape'
    BY <1>2 DEF ThreadEnds, IInv, Shape, plan, bnet
  <2> QED BY <2>1, <2>2
<1> QED BY <1>1, <1>2 DEF Threads, IInv

LEMMA ExitStep == ASSUME IInv, ExitNicely PROVE IInv' /\ Spares(db, db')
<1>1. db' = db
  BY DEF ExitNicely
<1>2. lobby # NoLobby => lobby.checks \subseteq Objects
  BY LobbyIsTyped DEF IInv
<1>3. orphans' \subseteq Objects /\ lost' \subseteq Objects
  BY <1>2 DEF ExitNicely, IInv, Shape
<1>4. part' \in {"over", "callables"}
  BY DEF ExitNicely
<1>5. Shape'
  BY <1>3, <1>4 DEF ExitNicely, IInv, Shape
<1> QED BY <1>1, <1>5, SparesItself DEF IInv

LEMMA CallablesStep == ASSUME IInv, CallablesPart PROVE IInv' /\ Spares(db, db')
<1>1. ASSUME OrphansLookedAt PROVE IInv' /\ Spares(db, db')
  BY <1>1, SparesItself DEF OrphansLookedAt, IInv, Shape, plan, bnet
<1>2. ASSUME NEW c \in Objects, RecoverOrphan(c) PROVE IInv' /\ Spares(db, db')
  <2>1. Sound(db') /\ Spares(db, db')
    BY <1>2, RecoverIsSound DEF RecoverOrphan, IInv
  <2>2. Shape'
    BY <1>2 DEF RecoverOrphan, IInv, Shape, plan, bnet
  <2> QED BY <2>1, <2>2 DEF IInv
<1> QED BY <1>1, <1>2 DEF CallablesPart

LEMMA LobbyStep == ASSUME IInv, LobbyPart PROVE IInv' /\ Spares(db, db')
<1>1. ASSUME NEW c \in Objects, LobbyHears(c) PROVE IInv' /\ Spares(db, db')
  <2>1. Sound(db') /\ Spares(db, db')
    BY <1>1, RecoverIsSound DEF LobbyHears, IInv
  <2>2. lobby' \in Lobbies
    BY <1>1, LobbyIsTyped DEF LobbyHears, IInv
  <2>3. Shape'
    BY <1>1, <2>2 DEF LobbyHears, IInv, Shape, plan, bnet
  <2> QED BY <2>1, <2>3 DEF IInv
<1>2. ASSUME NEW spawned \in BOOLEAN, LobbyAsks(spawned) PROVE IInv' /\ Spares(db, db')
  <2>1. Free(db) # {}
    BY <1>2, SomeFree, HostingAssumption DEF LobbyAsks, CanAsk
  <2>2. Sound(db') /\ Spares(db, db') /\ NextObject(db) \in Objects
    BY <1>2, <2>1, IssueNextIsSound DEF LobbyAsks, IInv
  <2>3. lobby' \in Lobbies
    BY <1>2, <2>2, LobbyIsTyped DEF LobbyAsks, IInv
  <2>4. Shape'
    BY <1>2, <2>3, GamesLength DEF LobbyAsks, IInv, Shape, plan, bnet
  <2> QED BY <2>2, <2>4 DEF IInv
<1>3. ASSUME BeginCountdown \/ AbortCountdown \/ AskRehost PROVE IInv' /\ Spares(db, db')
  <2>1. lobby' \in Lobbies
    BY <1>3, LobbyIsTyped DEF BeginCountdown, AbortCountdown, AskRehost, IInv
  <2>2. Shape' /\ db' = db
    BY <1>3, <2>1 DEF BeginCountdown, AbortCountdown, AskRehost, IInv, Shape, plan, bnet
  <2> QED BY <2>2, SparesItself DEF IInv
<1>4. ASSUME LobbyGoesOn PROVE IInv' /\ Spares(db, db')
  BY <1>4, SparesItself, GamesLength DEF LobbyGoesOn, IInv, Shape, plan, bnet
<1>5. ASSUME LobbyStarts PROVE IInv' /\ Spares(db, db')
  <2> DEFINE g == [rehost |-> lobby.rehost, empty |-> FALSE, save |-> NoCallable, checks |-> lobby.checks]
  <2>1. g \in Games /\ games' = Append(games, g)
    BY <1>5, LobbyIsTyped DEF LobbyStarts, IInv
  <2> HIDE DEF g
  <2>2. games' \in Seq(Games) /\ Len(games') = Len(games) + 1
    BY <2>1, AppendProperties DEF IInv, Shape
  <2>3. Len(games) < MaxGames
    BY <1>5 DEF LobbyStarts, IInv, Shape
  <2>4. Shape' /\ db' = db
    BY <1>5, <2>2, <2>3, GamesLength, HostingAssumption DEF LobbyStarts, IInv, Shape, plan, bnet
  <2> QED BY <2>4, SparesItself DEF IInv
<1>6. ASSUME LobbyStartsAndEnds PROVE IInv' /\ Spares(db, db')
  BY <1>6, SparesItself DEF LobbyStartsAndEnds, IInv, Shape, plan, bnet
<1>7. ASSUME LobbyCloses PROVE IInv' /\ Spares(db, db')
  <2>1. orphans' \subseteq Objects
    BY <1>7, LobbyIsTyped DEF LobbyCloses, IInv, Shape
  <2>2. PICK due, valid \in BOOLEAN :
          LET again == (newGame \/ due) /\ Connected /\ MayHost /\ valid
          IN  /\ lobby' = IF again THEN NewLobby ELSE NoLobby
              /\ newGame' = ((newGame \/ due) /\ ~again)
    BY <1>7 DEF LobbyCloses
  <2>3. newGame' \in BOOLEAN /\ lobby' \in Lobbies \cup {NoLobby}
    BY <2>2, NewLobbyType
  <2>4. Shape' /\ db' = db
    BY <1>7, <2>1, <2>3, GamesLength DEF LobbyCloses, IInv, Shape, bnet
  <2> QED BY <2>4, SparesItself DEF IInv
<1> QED BY <1>1, <1>2, <1>3, <1>4, <1>5, <1>6, <1>7 DEF LobbyPart

LEMMA GamesStep == ASSUME IInv, GamesPart PROVE IInv' /\ Spares(db, db')
<1>1. ASSUME NEW c \in Objects, GameHears(c) PROVE IInv' /\ Spares(db, db')
  <2>1. Sound(db') /\ Spares(db, db')
    BY <1>1, RecoverIsSound DEF GameHears, IInv
  <2>2. at \in DOMAIN games /\ games' = [games EXCEPT ![at] = [games[at] EXCEPT !.checks = games[at].checks \ {c}]]
    BY <1>1 DEF GameHears, Looking
  <2>3. games' \in Seq(Games) /\ Len(games') = Len(games)
    BY <2>2, GameChanged, GameIsTyped DEF IInv
  <2>4. Shape'
    BY <1>1, <2>3 DEF GameHears, IInv, Shape, plan, bnet
  <2> QED BY <2>1, <2>4 DEF IInv
<1>2. ASSUME NEW spawned \in BOOLEAN, GameAsks(spawned) PROVE IInv' /\ Spares(db, db')
  <2>1. Free(db) # {}
    BY <1>2, SomeFree, HostingAssumption DEF GameAsks, CanAsk
  <2>2. Sound(db') /\ Spares(db, db') /\ NextObject(db) \in Objects
    BY <1>2, <2>1, IssueNextIsSound DEF GameAsks, IInv
  <2>3. /\ at \in DOMAIN games
        /\ games' = [games EXCEPT ![at] = [games[at] EXCEPT !.checks = games[at].checks \cup {NextObject(db)}]]
    BY <1>2 DEF GameAsks, GameHasHeard, Looking
  <2>4. games' \in Seq(Games) /\ Len(games') = Len(games)
    BY <2>2, <2>3, GameChanged, GameIsTyped DEF IInv
  <2>5. Shape'
    BY <1>2, <2>3, <2>4, GamesLength DEF GameAsks, IInv, Shape, plan, bnet
  <2> QED BY <2>2, <2>5 DEF IInv
<1>3. ASSUME NEW spawned \in BOOLEAN, GameSaves(spawned) PROVE IInv' /\ Spares(db, db')
  <2>1. Sound(db') /\ Spares(db, db') /\ NextObject(db) \in Objects
    BY <1>3, IssueNextIsSound DEF GameSaves, IInv
  <2>2. /\ at \in DOMAIN games
        /\ games' = [games EXCEPT ![at] = [games[at] EXCEPT !.save = NextObject(db)]]
    BY <1>3 DEF GameSaves, GameHasHeard, Looking
  <2>3. games' \in Seq(Games) /\ Len(games') = Len(games)
    BY <2>1, <2>2, GameChanged, GameIsTyped DEF IInv
  <2>4. Shape'
    BY <1>3, <2>3 DEF GameSaves, IInv, Shape, plan, bnet
  <2> QED BY <2>1, <2>4 DEF IInv
<1>4. ASSUME NEW spawned \in BOOLEAN, GameEnds(spawned) PROVE IInv' /\ Spares(db, db')
  <2>1. at \in DOMAIN games /\ Delete(games[at], spawned)
    BY <1>4 DEF GameEnds, GameHasHeard, Looking
  <2>2. Shape'
    BY <1>4, <2>1, DeleteStep, GamesLength, HostingAssumption DEF GameEnds, IInv, Shape, plan, bnet
  <2> QED BY <2>1, <2>2, DeleteStep DEF IInv
<1>5. ASSUME NEW spawned \in BOOLEAN, GameCutShort(spawned) PROVE IInv' /\ Spares(db, db')
  <2>1. at \in DOMAIN games /\ Delete(games[at], spawned)
    BY <1>5 DEF GameCutShort, GameHasHeard, Looking
  <2>2. Shape'
    BY <1>5, <2>1, DeleteStep, GamesLength, HostingAssumption DEF GameCutShort, IInv, Shape, bnet
  <2> QED BY <2>1, <2>2, DeleteStep DEF IInv
<1>6. ASSUME Empties PROVE IInv' /\ Spares(db, db')
  <2>1. at \in DOMAIN games /\ games' = [games EXCEPT ![at] = [games[at] EXCEPT !.empty = TRUE]]
    BY <1>6 DEF Empties, Looking
  <2>2. games' \in Seq(Games) /\ Len(games') = Len(games)
    BY <2>1, GameChanged, GameIsTyped DEF IInv
  <2>3. Shape' /\ db' = db
    BY <1>6, <2>2 DEF Empties, IInv, Shape, plan, bnet
  <2> QED BY <2>3, SparesItself DEF IInv
<1>7. ASSUME GameGoesOn PROVE IInv' /\ Spares(db, db')
  <2>1. Shape' /\ db' = db
    BY <1>7, GamesLength DEF GameGoesOn, GameHasHeard, Looking, IInv, Shape, plan, bnet
  <2> QED BY <2>1, SparesItself DEF IInv
<1>8. ASSUME GamesLookedAt PROVE IInv' /\ Spares(db, db')
  BY <1>8, SparesItself DEF GamesLookedAt, IInv, Shape, plan, bnet
<1> QED BY <1>1, <1>2, <1>3, <1>4, <1>5, <1>6, <1>7, <1>8 DEF GamesPart

LEMMA BnetsStep == ASSUME IInv, BnetsPart PROVE IInv' /\ Spares(db, db')
<1>1. ASSUME NEW c \in Objects, BnetHears(c) PROVE IInv' /\ Spares(db, db')
  <2>1. Sound(db') /\ Spares(db, db')
    BY <1>1, RecoverIsSound DEF BnetHears, IInv
  <2>2. Shape'
    BY <1>1 DEF BnetHears, IInv, Shape, plan
  <2> QED BY <2>1, <2>2 DEF IInv
<1>2. ASSUME NEW spawned \in BOOLEAN, BnetAsks(spawned) PROVE IInv' /\ Spares(db, db')
  <2> DEFINE d == Issue(db, NextObject(db), spawned)
  <2>1. Free(db) # {} /\ \A c \in Free(db) : Free(db) \ {c} # {}
    BY <1>2, SomeFree DEF BnetAsks
  <2>2. NextObject(db) \in Free(db) /\ NextObject(db) \in Objects /\ Sound(d) /\ Spares(db, d)
    BY <2>1, IssueNextIsSound DEF IInv
  <2>3. Free(d) = Free(db) \ {NextObject(db)}
    BY <2>2, IssueIsSound DEF IInv
  <2>4. /\ db' = Issue(d, NextObject(d), TRUE) /\ lists' = {NextObject(db)}
        /\ alongside' = {NextObject(d)}
    BY <1>2 DEF BnetAsks
  <2> HIDE DEF d
  <2>5. Sound(db') /\ Spares(d, db') /\ NextObject(d) \in Objects
    BY <2>1, <2>2, <2>3, <2>4, IssueNextIsSound
  <2>6. Spares(db, db')
    <3>1. SUFFICES ASSUME NEW c \in Objects, db.stage[c] \in {"issued", "running"}
                   PROVE  db'.stage[c] # "free"
      BY DEF Spares
    <3>2. c # NextObject(db)
      BY <2>2, <3>1 DEF Free
    <3>3. d.stage[c] = db.stage[c]
      BY <2>2, <3>2, IssueIsSound DEF IInv, d
    <3> QED BY <2>5, <3>1, <3>3 DEF Spares
  <2>7. Shape'
    BY <1>2, <2>2, <2>4, <2>5 DEF BnetAsks, NextPass, IInv, Shape, plan
  <2> QED BY <2>5, <2>6, <2>7 DEF IInv
<1>3. ASSUME NEW nice \in BOOLEAN, Exit(nice) PROVE IInv' /\ Spares(db, db')
  <2>1. Shape' /\ db' = db
    BY <1>3 DEF Exit, IInv, Shape, bnet
  <2> QED BY <2>1, SparesItself DEF IInv
<1>4. ASSUME Host PROVE IInv' /\ Spares(db, db')
  <2>1. Shape' /\ db' = db
    BY <1>4, NewLobbyType DEF Host, MayHost, IInv, Shape, plan, bnet
  <2> QED BY <2>1, SparesItself DEF IInv
<1>5. ASSUME PassEnds PROVE IInv' /\ Spares(db, db')
  <2>1. /\ lobby' = lobby \/ (lobby' = NewLobby /\ Len(games) < MaxGames)
        /\ db' = db
    BY <1>5 DEF PassEnds, Autohosts, MayHost
  <2>2. Shape'
    BY <1>5, <2>1, NewLobbyType DEF PassEnds, NextPass, IInv, Shape, plan, bnet
  <2> QED BY <2>1, <2>2, SparesItself DEF IInv
<1> QED BY <1>1, <1>2, <1>3, <1>4, <1>5 DEF BnetsPart

LEMMA StepHolds == ASSUME IInv, [Next]_vars PROVE IInv' /\ Spares(db, db')
<1>1. CASE UNCHANGED vars
  BY <1>1, SparesItself DEF vars, IInv, Shape
<1>2. CASE Next
  BY <1>1, <1>2, ThreadsStep, ExitStep, CallablesStep, LobbyStep, GamesStep, BnetsStep DEF Next, Stopped
<1> QED BY <1>1, <1>2

LEMMA IInvHolds == Spec => []IInv
<1>1. IInv /\ [Next]_vars => IInv'
  BY StepHolds
<1> QED BY InitHolds, <1>1, PTL DEF Spec

-----------------------------------------------------------------------------
(* The state of the bot's main loop and of the database keeps its types,   *)
(* and there are never more games than there may be (ghost.cpp 1419-1987). *)
THEOREM TypeCorrect == Spec => []TypeOK
<1>1. IInv => TypeOK
  BY DEF IInv, Shape, Sound, TypeOK
<1> QED BY IInvHolds, <1>1, PTL

(* However callables come and go, no connection to the database is used by *)
(* two of them, or idle and in use, at a time (ghostdbmysql.cpp 106-126    *)
(* and 699-719).                                                           *)
THEOREM OneUserPerConnection == Spec => []ConnectionsUsedOnce
<1>1. IInv => ConnectionsUsedOnce
  BY DEF IInv, Sound, ConnectionsUsedOnce
<1> QED BY IInvHolds, <1>1, PTL

(* The database counts its outstanding callables right, and never thinks   *)
(* it has fewer connections than it has (ghostdbmysql.cpp 106-126).        *)
THEOREM CountsAreRight == Spec => []PoolCounted
<1>1. IInv => PoolCounted
  BY DEF IInv, Sound, PoolCounted
<1> QED BY IInvHolds, <1>1, PTL

(* No callable is deleted while its thread has still to run or runs        *)
(* (ghostdb.h:220).                                                        *)
THEOREM ThreadsAreSafe == Spec => ThreadsKeepTheirs
<1> DEFINE Kept0 == \A c \in Objects : db.stage[c] \in {"issued", "running"} => db'.stage[c] # "free"
<1>1. IInv /\ [Next]_vars => [Kept0]_vars
  BY StepHolds DEF Spares
<1> QED BY IInvHolds, <1>1, PTL DEF Spec, ThreadsKeepTheirs

-----------------------------------------------------------------------------
(* Every callable that is out has one owner.  The loose places are told    *)
(* apart one by one; what the games wait for is taken together.            *)

InLobby == IF lobby = NoLobby THEN {} ELSE lobby.checks
Own(g)  == g.checks \cup ({g.save} \ {NoCallable})
InGames == {c \in Objects : \E i \in DOMAIN games : c \in Own(games[i])}

GamesApart ==
  /\ \A i \in DOMAIN games : games[i].save \notin games[i].checks
  /\ \A i, j \in DOMAIN games : i # j => Own(games[i]) \cap Own(games[j]) = {}

RestApart ==
  /\ orphans \cap (lists \cup alongside \cup lost \cup InLobby \cup InGames) = {}
  /\ lists \cap (alongside \cup lost \cup InLobby \cup InGames) = {}
  /\ alongside \cap (lost \cup InLobby \cup InGames) = {}
  /\ lost \cap (InLobby \cup InGames) = {}
  /\ InLobby \cap InGames = {}

AllOwned == Out(db) = orphans \cup lists \cup alongside \cup lost \cup InLobby \cup InGames

Owned == GamesApart /\ RestApart /\ AllOwned

(* What the calls do to the callables that are out.                        *)
LEMMA OutAfter ==
  ASSUME NEW d, Sound(d)
  PROVE  /\ \A c \in Free(d), b \in BOOLEAN : c \notin Out(d) /\ Out(Issue(d, c, b)) = Out(d) \cup {c}
         /\ \A c \in Objects : Out(Recover(d, c)) = Out(d) \ {c}
         /\ \A c \in Objects : d.stage[c] # "free" =>
              Out(Begin(d, c)) = Out(d) /\ Out(Finish(d, c)) = Out(d)
<1>1. d \in Databases /\ d.stage \in [Objects -> Stages]
  BY DEF Sound, Databases
<1>2. ASSUME NEW c \in Objects, NEW v, NEW e, e.stage = [d.stage EXCEPT ![c] = v]
      PROVE  Out(e) = IF v = "free" THEN Out(d) \ {c} ELSE Out(d) \cup {c}
  BY <1>1, <1>2 DEF Out
<1>3. ASSUME NEW c \in Free(d), NEW b \in BOOLEAN
      PROVE  c \notin Out(d) /\ Out(Issue(d, c, b)) = Out(d) \cup {c}
  <2>1. c \in Objects /\ c \notin Out(d)
    BY DEF Free, Out
  <2>2. Issue(d, c, b).stage = [d.stage EXCEPT ![c] = IF b THEN "issued" ELSE "ready"]
    BY <1>1 DEF Issue, Databases
  <2>3. (IF b THEN "issued" ELSE "ready") # "free"
    OBVIOUS
  <2> QED BY <1>2, <2>1, <2>2, <2>3
<1>4. ASSUME NEW c \in Objects PROVE Out(Recover(d, c)) = Out(d) \ {c}
  <2>1. Recover(d, c).stage = [d.stage EXCEPT ![c] = "free"]
    BY <1>1 DEF Recover, Databases
  <2> QED BY <1>2, <2>1
<1>5. ASSUME NEW c \in Objects, d.stage[c] # "free"
      PROVE  Out(Begin(d, c)) = Out(d) /\ Out(Finish(d, c)) = Out(d)
  <2>1. c \in Out(d)
    BY <1>5 DEF Out
  <2>2. Begin(d, c).stage = [d.stage EXCEPT ![c] = "running"]
    BY <1>1 DEF Begin, Databases
  <2>3. Finish(d, c).stage = [d.stage EXCEPT ![c] = "ready"]
    BY <1>1 DEF Finish, Databases
  <2>4. Out(Begin(d, c)) = Out(d) \cup {c} /\ Out(Finish(d, c)) = Out(d) \cup {c}
    BY <1>2, <2>2, <2>3
  <2> QED BY <2>1, <2>4
<1> QED BY <1>3, <1>4, <1>5

(* One game has changed, is gone, or has come.                             *)
LEMMA OwnsObjects ==
  ASSUME Shape, NEW i \in DOMAIN games
  PROVE  games[i] \in Games /\ Own(games[i]) \subseteq Objects /\ Own(games[i]) \subseteq InGames
<1>1. games[i] \in Games
  BY GamesLength, ElementOfSeq DEF Shape
<1>2. Own(games[i]) \subseteq Objects
  BY <1>1 DEF Own, Games
<1> QED BY <1>1, <1>2 DEF InGames

LEMMA GameGives ==
  ASSUME Shape, GamesApart, at \in DOMAIN games, NEW g \in Games,
         games' = [games EXCEPT ![at] = g], g.save \notin g.checks,
         Own(g) \cap (InGames \ Own(games[at])) = {}
  PROVE  GamesApart' /\ InGames' = (InGames \ Own(games[at])) \cup Own(g)
<1>1. /\ DOMAIN games' = DOMAIN games
      /\ games'[at] = g
      /\ \A i \in DOMAIN games : i # at => games'[i] = games[i]
  BY GamesLength, ExceptSeq DEF Shape
<1>2. \A i \in DOMAIN games : i # at =>
        Own(games[i]) \subseteq InGames /\ Own(games[i]) \cap Own(games[at]) = {}
  BY OwnsObjects DEF GamesApart
<1>3. Own(g) \subseteq Objects
  BY DEF Own, Games
<1>4. GamesApart'
  <2>1. ASSUME NEW i \in DOMAIN games PROVE games'[i].save \notin games'[i].checks
    BY <1>1 DEF GamesApart
  <2>2. ASSUME NEW i \in DOMAIN games, NEW j \in DOMAIN games, i # j
        PROVE  Own(games'[i]) \cap Own(games'[j]) = {}
    <3>1. CASE i # at /\ j # at
      BY <1>1, <2>2, <3>1 DEF GamesApart
    <3>2. CASE i = at
      <4>1. games'[i] = g /\ games'[j] = games[j]
        BY <1>1, <2>2, <3>2
      <4> QED BY <1>2, <2>2, <3>2, <4>1
    <3>3. CASE j = at
      <4>1. games'[j] = g /\ games'[i] = games[i]
        BY <1>1, <2>2, <3>3
      <4> QED BY <1>2, <2>2, <3>3, <4>1
    <3> QED BY <3>1, <3>2, <3>3
  <2> QED BY <1>1, <2>1, <2>2 DEF GamesApart
<1>5. InGames' = (InGames \ Own(games[at])) \cup Own(g)
  <2>1. ASSUME NEW c \in InGames' PROVE c \in (InGames \ Own(games[at])) \cup Own(g)
    <3>1. PICK i \in DOMAIN games : c \in Own(games'[i])
      BY <1>1, <2>1 DEF InGames
    <3>2. CASE i = at
      BY <1>1, <3>1, <3>2
    <3>3. CASE i # at
      <4>1. games'[i] = games[i]
        BY <1>1, <3>3
      <4> QED BY <1>2, <3>1, <3>3, <4>1
    <3> QED BY <3>2, <3>3
  <2>2. ASSUME NEW c \in InGames \ Own(games[at]) PROVE c \in InGames'
    <3>1. PICK i \in DOMAIN games : c \in Own(games[i])
      BY <2>2 DEF InGames
    <3>2. i # at /\ games'[i] = games[i]
      BY <1>1, <2>2, <3>1
    <3> QED BY <1>1, <2>2, <3>1, <3>2 DEF InGames
  <2>3. Own(g) \subseteq InGames'
    BY <1>1, <1>3 DEF InGames
  <2> QED BY <2>1, <2>2, <2>3
<1> QED BY <1>4, <1>5

LEMMA GameGoes ==
  ASSUME Shape, GamesApart, at \in DOMAIN games, games' = Without(games, at)
  PROVE  GamesApart' /\ InGames' = InGames \ Own(games[at])
<1> DEFINE n == Len(games)
           a == SubSeq(games, 1, at - 1)
           b == SubSeq(games, at + 1, Len(games))
           From(i) == IF i < at THEN i ELSE i + 1
<1>1. n \in Nat /\ DOMAIN games = 1 .. n /\ at \in 1 .. n
  BY GamesLength
<1>2. \A i \in 1 .. n : games[i] \in Games
  BY ElementOfSeq DEF Shape
<1>3. a \in Seq(Games) /\ Len(a) = at - 1 /\ \A i \in 1 .. at - 1 : a[i] = games[i]
  <2>1. \A i \in 1 .. at - 1 : games[i] \in Games
    BY <1>1, <1>2
  <2>2. /\ a \in Seq(Games) /\ Len(a) = IF 1 <= at - 1 THEN at - 1 - 1 + 1 ELSE 0
        /\ \A i \in 1 .. at - 1 - 1 + 1 : a[i] = games[1 + i - 1]
    BY <1>1, <2>1, SubSeqProperties
  <2> HIDE DEF a
  <2>3. Len(a) = at - 1
    BY <1>1, <2>2
  <2>4. ASSUME NEW i \in 1 .. at - 1 PROVE a[i] = games[i]
    <3>1. i \in 1 .. at - 1 - 1 + 1 /\ 1 + i - 1 = i
      BY <1>1
    <3> QED BY <2>2, <3>1
  <2> QED BY <2>2, <2>3, <2>4
<1>4. b \in Seq(Games) /\ Len(b) = n - at /\ \A i \in 1 .. n - at : b[i] = games[at + i]
  <2>1. \A i \in at + 1 .. n : games[i] \in Games
    BY <1>1, <1>2
  <2>2. /\ b \in Seq(Games) /\ Len(b) = IF at + 1 <= n THEN n - (at + 1) + 1 ELSE 0
        /\ \A i \in 1 .. n - (at + 1) + 1 : b[i] = games[at + 1 + i - 1]
    BY <1>1, <2>1, SubSeqProperties
  <2> HIDE DEF b
  <2>3. Len(b) = n - at
    BY <1>1, <2>2
  <2>4. ASSUME NEW i \in 1 .. n - at PROVE b[i] = games[at + i]
    <3>1. i \in 1 .. n - (at + 1) + 1 /\ at + 1 + i - 1 = at + i
      BY <1>1
    <3> QED BY <2>2, <3>1
  <2> QED BY <2>2, <2>3, <2>4
<1>5. games' = a \o b
  BY DEF Without
<1> HIDE DEF a, b, n
<1>6. /\ games' \in Seq(Games) /\ Len(games') = Len(a) + Len(b)
      /\ \A i \in 1 .. Len(a) + Len(b) :
           games'[i] = IF i <= Len(a) THEN a[i] ELSE b[i - Len(a)]
  BY <1>3, <1>4, <1>5, ConcatProperties
<1>7. DOMAIN games' = 1 .. n - 1
  <2>1. DOMAIN games' = 1 .. Len(games')
    BY <1>6, LenProperties
  <2>2. Len(games') = n - 1
    BY <1>1, <1>3, <1>4, <1>6
  <2> QED BY <2>1, <2>2
<1>8. ASSUME NEW i \in 1 .. n - 1
      PROVE  From(i) \in DOMAIN games \ {at} /\ games'[i] = games[From(i)]
  <2>1. i \in 1 .. Len(a) + Len(b)
    BY <1>1, <1>3, <1>4
  <2>2. CASE i < at
    <3>1. i \in 1 .. at - 1 /\ i <= Len(a)
      BY <1>1, <1>3, <2>2
    <3> QED BY <1>1, <1>3, <1>6, <2>1, <2>2, <3>1
  <2>3. CASE ~(i < at)
    <3>1. /\ i - Len(a) \in 1 .. n - at /\ ~(i <= Len(a)) /\ at + (i - Len(a)) = i + 1
          /\ i + 1 \in 1 .. n /\ i + 1 # at
      BY <1>1, <1>3, <2>3
    <3>2. games'[i] = b[i - Len(a)]
      BY <1>6, <2>1, <3>1
    <3> QED BY <1>1, <1>4, <2>3, <3>1, <3>2
  <2> QED BY <2>2, <2>3
<1>9. \A i, j \in 1 .. n - 1 : i # j => From(i) # From(j)
  BY <1>1
<1>10. \A k \in DOMAIN games \ {at} : \E i \in 1 .. n - 1 : From(i) = k
  <2>1. ASSUME NEW k \in DOMAIN games \ {at} PROVE \E i \in 1 .. n - 1 : From(i) = k
    <3>1. CASE k < at
      <4>1. k \in 1 .. n - 1 /\ From(k) = k
        BY <1>1, <3>1
      <4> QED BY <4>1
    <3>2. CASE ~(k < at)
      <4>1. k - 1 \in 1 .. n - 1 /\ From(k - 1) = k
        BY <1>1, <3>2
      <4> QED BY <4>1
    <3> QED BY <3>1, <3>2
  <2> QED BY <2>1
<1> HIDE DEF From
<1>11. GamesApart'
  BY <1>7, <1>8, <1>9 DEF GamesApart
<1>12. InGames' = InGames \ Own(games[at])
  <2>1. ASSUME NEW c \in InGames' PROVE c \in InGames \ Own(games[at])
    <3>1. PICK i \in 1 .. n - 1 : c \in Own(games'[i])
      BY <1>7, <2>1 DEF InGames
    <3>2. From(i) \in DOMAIN games \ {at} /\ c \in Own(games[From(i)])
      BY <1>8, <3>1
    <3> QED BY <2>1, <3>2 DEF GamesApart, InGames
  <2>2. ASSUME NEW c \in InGames \ Own(games[at]) PROVE c \in InGames'
    <3>1. PICK k \in DOMAIN games \ {at} : c \in Own(games[k])
      BY <2>2 DEF InGames
    <3>2. PICK i \in 1 .. n - 1 : From(i) = k
      BY <1>10, <3>1
    <3>3. c \in Own(games'[i])
      BY <1>8, <3>1, <3>2
    <3> QED BY <1>7, <2>2, <3>3 DEF InGames
  <2> QED BY <2>1, <2>2
<1> QED BY <1>11, <1>12

LEMMA GameComes ==
  ASSUME Shape, GamesApart, NEW g \in Games, games' = Append(games, g),
         g.save \notin g.checks, Own(g) \cap InGames = {}
  PROVE  GamesApart' /\ InGames' = InGames \cup Own(g)
<1> DEFINE n == Len(games)
<1>1. n \in Nat /\ DOMAIN games = 1 .. n
  BY GamesLength
<1>2. /\ Len(games') = n + 1 /\ games' \in Seq(Games)
      /\ \A i \in 1 .. n : games'[i] = games[i]
      /\ games'[n + 1] = g
  BY AppendProperties DEF Shape
<1>3. DOMAIN games' = 1 .. n + 1
  BY <1>2, LenProperties
<1> HIDE DEF n
<1>4. \A i \in 1 .. n + 1 : i \in 1 .. n \/ i = n + 1
  BY <1>1
<1>5. \A i \in 1 .. n : i \in 1 .. n + 1 /\ i # n + 1 /\ Own(games[i]) \subseteq InGames
  BY <1>1, OwnsObjects
<1>6. n + 1 \in 1 .. n + 1 /\ Own(g) \subseteq Objects
  BY <1>1 DEF Own, Games
<1>7. GamesApart'
  <2>1. ASSUME NEW i \in 1 .. n + 1 PROVE games'[i].save \notin games'[i].checks
    BY <1>1, <1>2, <1>4 DEF GamesApart
  <2>2. ASSUME NEW i \in 1 .. n + 1, NEW j \in 1 .. n + 1, i # j
        PROVE  Own(games'[i]) \cap Own(games'[j]) = {}
    <3>1. CASE i \in 1 .. n /\ j \in 1 .. n
      BY <1>1, <1>2, <2>2, <3>1 DEF GamesApart
    <3>2. CASE i = n + 1 /\ j \in 1 .. n
      <4>1. games'[i] = g /\ games'[j] = games[j] /\ Own(games[j]) \subseteq InGames
        BY <1>2, <1>5, <3>2
      <4> QED BY <4>1
    <3>3. CASE j = n + 1 /\ i \in 1 .. n
      <4>1. games'[j] = g /\ games'[i] = games[i] /\ Own(games[i]) \subseteq InGames
        BY <1>2, <1>5, <3>3
      <4> QED BY <4>1
    <3> QED BY <1>4, <2>2, <3>1, <3>2, <3>3
  <2> QED BY <1>3, <2>1, <2>2 DEF GamesApart
<1>8. InGames' = InGames \cup Own(g)
  <2>1. ASSUME NEW c \in InGames' PROVE c \in InGames \cup Own(g)
    <3>1. PICK i \in 1 .. n + 1 : c \in Own(games'[i])
      BY <1>3, <2>1 DEF InGames
    <3>2. CASE i = n + 1
      BY <1>2, <3>1, <3>2
    <3>3. CASE i \in 1 .. n
      <4>1. games'[i] = games[i]
        BY <1>2, <3>3
      <4> QED BY <1>5, <3>1, <3>3, <4>1
    <3> QED BY <1>4, <3>2, <3>3
  <2>2. ASSUME NEW c \in InGames PROVE c \in InGames'
    <3>1. PICK i \in 1 .. n : c \in Own(games[i]) /\ c \in Objects
      BY <1>1 DEF InGames
    <3> QED BY <1>2, <1>3, <1>5, <3>1 DEF InGames
  <2>3. Own(g) \subseteq InGames'
    BY <1>2, <1>3, <1>6 DEF InGames
  <2> QED BY <2>1, <2>2, <2>3
<1> QED BY <1>7, <1>8

(* Each part of a pass leaves every callable with one owner.               *)
LEMMA GamesStand == ASSUME games' = games PROVE InGames' = InGames /\ (GamesApart => GamesApart')
  BY DEF InGames, GamesApart

LEMMA NothingMoves ==
  ASSUME Owned, GamesApart', InGames' = InGames, InLobby' = InLobby,
         UNCHANGED <<orphans, bnet>>, Out(db') = Out(db)
  PROVE  Owned'
  BY DEF Owned, RestApart, AllOwned, bnet

LEMMA LobbyWaits ==
  ASSUME Shape, lobby # NoLobby
  PROVE  /\ InLobby = lobby.checks
         /\ \A x \in SUBSET Objects : lobby' = [lobby EXCEPT !.checks = x] => InLobby' = x
         /\ \A b \in BOOLEAN : lobby' = [lobby EXCEPT !.countdown = b] => InLobby' = InLobby
         /\ lobby' = [lobby EXCEPT !.rehost = TRUE] => InLobby' = InLobby
<1>1. lobby \in Lobbies
  BY LobbyIsTyped
<1>2. \A x \in SUBSET Objects :
        [lobby EXCEPT !.checks = x] \in Lobbies /\ [lobby EXCEPT !.checks = x].checks = x
  BY <1>1 DEF Lobbies
<1>3. \A b \in BOOLEAN :
        /\ [lobby EXCEPT !.countdown = b] \in Lobbies
        /\ [lobby EXCEPT !.countdown = b].checks = lobby.checks
  BY <1>1 DEF Lobbies
<1>4. /\ [lobby EXCEPT !.rehost = TRUE] \in Lobbies
      /\ [lobby EXCEPT !.rehost = TRUE].checks = lobby.checks
  BY <1>1 DEF Lobbies
<1> QED BY <1>2, <1>3, <1>4, LobbyAssumption DEF InLobby

LEMMA NobodyWaits ==
  (lobby' = NoLobby \/ lobby' = NewLobby) => InLobby' = {}
  BY DEF InLobby, NewLobby

LEMMA OwnedThreads == ASSUME IInv, Owned, Threads PROVE Owned'
<1>1. PICK c \in Objects : ThreadBegins(c) \/ ThreadEnds(c)
  BY DEF Threads
<1>2. Out(db') = Out(db)
  BY <1>1, OutAfter DEF ThreadBegins, ThreadEnds, IInv
<1>3. UNCHANGED <<lobby, games, orphans, bnet>>
  BY <1>1 DEF ThreadBegins, ThreadEnds
<1>4. InLobby' = InLobby
  BY <1>3 DEF InLobby
<1> QED BY <1>2, <1>3, <1>4, GamesStand, NothingMoves DEF Owned

LEMMA OwnedExit == ASSUME IInv, Owned, ExitNicely PROVE Owned'
<1>1. PICK forgotten \in SUBSET alongside :
        /\ orphans' = orphans \cup lists \cup (alongside \ forgotten) \cup InLobby
        /\ lost' = lost \cup forgotten
  BY DEF ExitNicely, InLobby
<1>2. /\ lists' = {} /\ alongside' = {} /\ InLobby' = {} /\ db' = db /\ games' = games
  BY NobodyWaits DEF ExitNicely
<1>3. InGames' = InGames /\ GamesApart'
  BY <1>2, GamesStand DEF Owned
<1> QED BY <1>1, <1>2, <1>3 DEF Owned, RestApart, AllOwned

LEMMA OwnedCallables == ASSUME IInv, Owned, CallablesPart PROVE Owned'
<1>1. CASE OrphansLookedAt
  <2>1. UNCHANGED <<db, lobby, games, orphans, bnet>>
    BY <1>1 DEF OrphansLookedAt
  <2>2. InLobby' = InLobby
    BY <2>1 DEF InLobby
  <2> QED BY <2>1, <2>2, GamesStand, NothingMoves DEF Owned
<1>2. ASSUME NEW c \in Objects, RecoverOrphan(c) PROVE Owned'
  <2>1. /\ c \in orphans /\ orphans' = orphans \ {c} /\ UNCHANGED <<lobby, games, bnet>>
        /\ db' = Recover(db, c)
    BY <1>2 DEF RecoverOrphan
  <2>2. Out(db') = Out(db) \ {c}
    BY <2>1, OutAfter DEF IInv
  <2>3. InLobby' = InLobby /\ InGames' = InGames /\ GamesApart'
    BY <2>1, GamesStand DEF InLobby, Owned
  <2> QED BY <2>1, <2>2, <2>3 DEF Owned, RestApart, AllOwned, bnet
<1> QED BY <1>1, <1>2 DEF CallablesPart

LEMMA OwnedLobby == ASSUME IInv, Owned, LobbyPart PROVE Owned'
<1>1. ASSUME NEW c \in Objects, LobbyHears(c) PROVE Owned'
  <2>1. /\ lobby # NoLobby /\ c \in lobby.checks
        /\ lobby' = [lobby EXCEPT !.checks = lobby.checks \ {c}]
        /\ db' = Recover(db, c) /\ UNCHANGED <<games, orphans, bnet>>
    BY <1>1 DEF LobbyHears
  <2>2. Out(db') = Out(db) \ {c}
    BY <2>1, OutAfter DEF IInv
  <2>3. lobby.checks \ {c} \in SUBSET Objects
    BY <2>1, LobbyIsTyped DEF IInv
  <2>4. InLobby = lobby.checks /\ InLobby' = lobby.checks \ {c}
    BY <2>1, <2>3, LobbyWaits DEF IInv
  <2>5. InGames' = InGames /\ GamesApart'
    BY <2>1, GamesStand DEF Owned
  <2> QED BY <2>1, <2>2, <2>4, <2>5 DEF Owned, RestApart, AllOwned, bnet
<1>2. ASSUME NEW spawned \in BOOLEAN, LobbyAsks(spawned) PROVE Owned'
  <2> DEFINE c == NextObject(db)
  <2>1. /\ lobby # NoLobby /\ lobby' = [lobby EXCEPT !.checks = lobby.checks \cup {c}]
        /\ db' = Issue(db, c, spawned) /\ UNCHANGED <<games, orphans, bnet>>
    BY <1>2 DEF LobbyAsks
  <2>2. c \in Free(db) /\ c \in Objects
    BY <1>2, SomeFree, HostingAssumption, IssueNextIsSound DEF LobbyAsks, CanAsk, IInv
  <2> HIDE DEF c
  <2>3. c \notin Out(db) /\ Out(db') = Out(db) \cup {c}
    BY <2>1, <2>2, OutAfter DEF IInv
  <2>4. lobby.checks \cup {c} \in SUBSET Objects
    BY <2>1, <2>2, LobbyIsTyped DEF IInv
  <2>5. InLobby = lobby.checks /\ InLobby' = lobby.checks \cup {c}
    BY <2>1, <2>4, LobbyWaits DEF IInv
  <2>6. InGames' = InGames /\ GamesApart'
    BY <2>1, GamesStand DEF Owned
  <2> QED BY <2>1, <2>3, <2>5, <2>6 DEF Owned, RestApart, AllOwned, bnet
<1>3. CASE BeginCountdown \/ AbortCountdown \/ AskRehost
  <2>1. /\ lobby # NoLobby /\ UNCHANGED <<db, games, orphans, bnet>>
        /\ \/ \E b \in BOOLEAN : lobby' = [lobby EXCEPT !.countdown = b]
           \/ lobby' = [lobby EXCEPT !.rehost = TRUE]
    BY <1>3 DEF BeginCountdown, AbortCountdown, AskRehost
  <2>2. InLobby' = InLobby
    BY <2>1, LobbyWaits DEF IInv
  <2> QED BY <2>1, <2>2, GamesStand, NothingMoves DEF Owned
<1>4. CASE LobbyGoesOn \/ LobbyStartsAndEnds
  <2>1. UNCHANGED <<db, lobby, games, orphans, bnet>>
    BY <1>4 DEF LobbyGoesOn, LobbyStartsAndEnds
  <2>2. InLobby' = InLobby
    BY <2>1 DEF InLobby
  <2> QED BY <2>1, <2>2, GamesStand, NothingMoves DEF Owned
<1>5. CASE LobbyStarts
  <2> DEFINE g == [rehost |-> lobby.rehost, empty |-> FALSE, save |-> NoCallable, checks |-> lobby.checks]
  <2>1. /\ lobby # NoLobby /\ lobby' = NoLobby /\ games' = Append(games, g)
        /\ UNCHANGED <<db, orphans, bnet>>
    BY <1>5 DEF LobbyStarts
  <2>2. g \in Games /\ lobby.checks \subseteq Objects
    BY <2>1, LobbyIsTyped DEF IInv
  <2>3. Own(g) = lobby.checks /\ g.save \notin g.checks
    BY <2>2, HostingAssumption DEF Own
  <2> HIDE DEF g
  <2>4. InLobby = lobby.checks /\ InLobby' = {}
    BY <2>1, LobbyWaits, NobodyWaits DEF IInv
  <2>5. Own(g) \cap InGames = {}
    BY <2>3, <2>4 DEF Owned, RestApart
  <2>6. GamesApart' /\ InGames' = InGames \cup Own(g)
    BY <2>1, <2>2, <2>3, <2>5, GameComes DEF IInv, Owned
  <2> QED BY <2>1, <2>3, <2>4, <2>6 DEF Owned, RestApart, AllOwned, bnet
<1>6. CASE LobbyCloses
  <2>1. /\ lobby # NoLobby /\ orphans' = orphans \cup lobby.checks
        /\ lobby' = NoLobby \/ lobby' = NewLobby
        /\ UNCHANGED <<db, games, bnet>>
    BY <1>6 DEF LobbyCloses
  <2>2. InLobby = lobby.checks /\ InLobby' = {}
    BY <2>1, LobbyWaits, NobodyWaits DEF IInv
  <2>3. InGames' = InGames /\ GamesApart'
    BY <2>1, GamesStand DEF Owned
  <2> QED BY <2>1, <2>2, <2>3 DEF Owned, RestApart, AllOwned, bnet
<1> QED BY <1>1, <1>2, <1>3, <1>4, <1>5, <1>6 DEF LobbyPart

LEMMA LookedAtOwns ==
  ASSUME Shape, at \in DOMAIN games
  PROVE  /\ \A x \in SUBSET Objects :
              LET g == [games[at] EXCEPT !.checks = x]
              IN  g \in Games /\ g.save = games[at].save /\ g.checks = x
                    /\ Own(g) = x \cup ({games[at].save} \ {NoCallable})
         /\ \A c \in Objects :
              LET g == [games[at] EXCEPT !.save = c]
              IN  g \in Games /\ g.save = c /\ g.checks = games[at].checks
                    /\ Own(g) = games[at].checks \cup {c}
         /\ LET g == [games[at] EXCEPT !.empty = TRUE]
            IN  g \in Games /\ g.save = games[at].save /\ g.checks = games[at].checks
                  /\ Own(g) = Own(games[at])
         /\ Own(games[at]) \subseteq InGames
<1>1. games[at] \in Games /\ Own(games[at]) \subseteq InGames
  BY OwnsObjects
<1>2. NoCallable \notin Objects
  BY HostingAssumption
<1> QED BY <1>1, <1>2 DEF Own, Games

LEMMA OwnedDelete ==
  ASSUME IInv, Owned, at \in DOMAIN games, NEW spawned \in BOOLEAN, Delete(games[at], spawned),
         UNCHANGED <<lobby, bnet>>
  PROVE  Owned'
<1> DEFINE g == games[at]
<1>1. GamesApart' /\ InGames' = InGames \ Own(g)
  BY GameGoes DEF Delete, IInv, Owned
<1>2. InLobby' = InLobby
  BY DEF InLobby
<1>3. Own(g) \subseteq InGames /\ g \in Games /\ g.save \notin g.checks
  BY OwnsObjects DEF IInv, Owned, GamesApart
<1>4. CASE IsSaved(g)
  <2>1. g.save \in Objects /\ db.stage[g.save] = "ready" /\ Own(g) = g.checks \cup {g.save}
    BY <1>3, <1>4 DEF IsSaved, Saving, Games, Own
  <2>2. CASE db' = Recover(db, g.save) /\ orphans' = orphans \cup g.checks
    <3>1. Out(db') = Out(db) \ {g.save}
      BY <2>1, <2>2, OutAfter DEF IInv
    <3> QED BY <1>1, <1>2, <1>3, <2>1, <2>2, <3>1 DEF Owned, RestApart, AllOwned, bnet
  <2>3. CASE /\ Free(db) # {}
             /\ db' = Recover(Issue(db, NextObject(db), spawned), g.save)
             /\ orphans' = orphans \cup g.checks \cup {NextObject(db)}
    <3> DEFINE c == NextObject(db)
               d == Issue(db, c, spawned)
    <3>1. c \in Free(db) /\ Sound(d)
      BY <2>3, IssueNextIsSound DEF IInv
    <3>2. c \notin Out(db) /\ Out(d) = Out(db) \cup {c}
      BY <3>1, OutAfter DEF IInv
    <3>3. Out(db') = Out(d) \ {g.save}
      BY <2>1, <2>3, <3>1, OutAfter
    <3> HIDE DEF c, d
    <3>4. orphans' = orphans \cup g.checks \cup {c}
      BY <2>3 DEF c
    <3>5. g.save \in Out(db)
      BY <2>1 DEF Out
    <3> QED BY <1>1, <1>2, <1>3, <2>1, <3>2, <3>3, <3>4, <3>5 DEF Owned, RestApart, AllOwned, bnet
  <2> QED BY <1>4, <2>2, <2>3 DEF Delete
<1>5. CASE ~IsSaved(g)
  <2>1. db' = db /\ orphans' = orphans \cup Own(g)
    BY <1>5 DEF Delete, Own
  <2> QED BY <1>1, <1>2, <1>3, <2>1 DEF Owned, RestApart, AllOwned, bnet
<1> QED BY <1>4, <1>5

LEMMA OwnedGames == ASSUME IInv, Owned, GamesPart PROVE Owned'
<1>1. ASSUME NEW c \in Objects, GameHears(c) PROVE Owned'
  <2> DEFINE x == games[at].checks \ {c}
             g == [games[at] EXCEPT !.checks = x]
  <2>1. /\ at \in DOMAIN games /\ c \in games[at].checks /\ games' = [games EXCEPT ![at] = g]
        /\ db' = Recover(db, c) /\ UNCHANGED <<lobby, orphans, bnet>>
    BY <1>1 DEF GameHears, Looking
  <2>2. x \in SUBSET Objects
    BY <2>1, GameIsTyped DEF IInv
  <2>3. games[at].save \notin games[at].checks
    BY <2>1 DEF Owned, GamesApart
  <2>4. /\ g \in Games /\ g.save \notin g.checks /\ Own(g) = Own(games[at]) \ {c}
        /\ c \in Own(games[at]) /\ Own(games[at]) \subseteq InGames
    BY <2>1, <2>2, <2>3, LookedAtOwns DEF IInv, Own
  <2> HIDE DEF x, g
  <2>5. Own(g) \cap (InGames \ Own(games[at])) = {}
    BY <2>4
  <2>6. GamesApart' /\ InGames' = InGames \ {c}
    <3>1. GamesApart' /\ InGames' = (InGames \ Own(games[at])) \cup Own(g)
      BY <2>1, <2>4, <2>5, GameGives DEF IInv, Owned
    <3> QED BY <2>4, <3>1
  <2>7. Out(db') = Out(db) \ {c} /\ InLobby' = InLobby
    BY <2>1, OutAfter DEF IInv, InLobby
  <2> QED BY <2>1, <2>4, <2>6, <2>7 DEF Owned, RestApart, AllOwned, bnet
<1>2. ASSUME NEW c \in Free(db), NEW spawned \in BOOLEAN, NEW g \in Games,
             at \in DOMAIN games, games' = [games EXCEPT ![at] = g],
             g.save \notin g.checks, Own(g) = Own(games[at]) \cup {c},
             db' = Issue(db, c, spawned), UNCHANGED <<lobby, orphans, bnet>>
      PROVE  Owned'
  <2>1. c \notin Out(db) /\ Out(db') = Out(db) \cup {c} /\ InLobby' = InLobby
    BY <1>2, OutAfter DEF IInv, InLobby
  <2>2. c \notin InGames /\ Own(games[at]) \subseteq InGames
    BY <1>2, <2>1, OwnsObjects DEF IInv, Owned, AllOwned
  <2>3. Own(g) \cap (InGames \ Own(games[at])) = {}
    BY <1>2, <2>2
  <2>4. GamesApart' /\ InGames' = InGames \cup {c}
    <3>1. GamesApart' /\ InGames' = (InGames \ Own(games[at])) \cup Own(g)
      BY <1>2, <2>3, GameGives DEF IInv, Owned
    <3> QED BY <1>2, <2>2, <3>1
  <2> QED BY <1>2, <2>1, <2>4 DEF Owned, RestApart, AllOwned, bnet
<1>3. ASSUME NEW spawned \in BOOLEAN, GameAsks(spawned) PROVE Owned'
  <2> DEFINE c == NextObject(db)
             x == games[at].checks \cup {c}
             g == [games[at] EXCEPT !.checks = x]
  <2>1. /\ at \in DOMAIN games /\ games' = [games EXCEPT ![at] = g]
        /\ db' = Issue(db, c, spawned) /\ UNCHANGED <<lobby, orphans, bnet>>
    BY <1>3 DEF GameAsks, GameHasHeard, Looking
  <2>2. c \in Free(db) /\ c \in Objects
    BY <1>3, SomeFree, HostingAssumption, IssueNextIsSound DEF GameAsks, CanAsk, IInv
  <2>3. x \in SUBSET Objects
    BY <2>1, <2>2, GameIsTyped DEF IInv
  <2>4. games[at].save \notin games[at].checks /\ games[at].save # c
    <3>1. c \notin InGames /\ Own(games[at]) \subseteq InGames
      BY <2>1, <2>2, OutAfter, OwnsObjects DEF IInv, Owned, AllOwned
    <3>2. c # NoCallable
      BY <2>2, HostingAssumption
    <3> QED BY <2>1, <3>1, <3>2 DEF Own, Owned, GamesApart
  <2>5. g \in Games /\ g.save \notin g.checks /\ Own(g) = Own(games[at]) \cup {c}
    BY <2>1, <2>3, <2>4, LookedAtOwns DEF IInv, Own
  <2> HIDE DEF c, x, g
  <2> QED BY <1>2, <2>1, <2>2, <2>5
<1>4. ASSUME NEW spawned \in BOOLEAN, GameSaves(spawned) PROVE Owned'
  <2> DEFINE c == NextObject(db)
             g == [games[at] EXCEPT !.save = c]
  <2>1. /\ at \in DOMAIN games /\ games' = [games EXCEPT ![at] = g]
        /\ games[at].save = NoCallable
        /\ db' = Issue(db, c, spawned) /\ UNCHANGED <<lobby, orphans, bnet>>
    BY <1>4 DEF GameSaves, GameHasHeard, Looking, Saving
  <2>2. c \in Free(db) /\ c \in Objects
    BY <1>4, IssueNextIsSound DEF GameSaves, IInv
  <2>3. c \notin games[at].checks
    <3>1. c \notin InGames /\ Own(games[at]) \subseteq InGames
      BY <2>1, <2>2, OutAfter, OwnsObjects DEF IInv, Owned, AllOwned
    <3> QED BY <3>1 DEF Own
  <2>4. g \in Games /\ g.save \notin g.checks /\ Own(g) = Own(games[at]) \cup {c}
    BY <2>1, <2>2, <2>3, LookedAtOwns DEF IInv, Own
  <2> HIDE DEF c, g
  <2> QED BY <1>2, <2>1, <2>2, <2>4
<1>5. ASSUME NEW spawned \in BOOLEAN, GameEnds(spawned) \/ GameCutShort(spawned) PROVE Owned'
  <2>1. at \in DOMAIN games /\ Delete(games[at], spawned) /\ UNCHANGED <<lobby, bnet>>
    BY <1>5 DEF GameEnds, GameCutShort, GameHasHeard, Looking
  <2> QED BY <2>1, OwnedDelete
<1>6. CASE Empties
  <2> DEFINE g == [games[at] EXCEPT !.empty = TRUE]
  <2>1. /\ at \in DOMAIN games /\ games' = [games EXCEPT ![at] = g]
        /\ UNCHANGED <<db, lobby, orphans, bnet>>
    BY <1>6 DEF Empties, Looking
  <2>2. games[at].save \notin games[at].checks
    BY <2>1 DEF Owned, GamesApart
  <2>3. /\ g \in Games /\ g.save \notin g.checks /\ Own(g) = Own(games[at])
        /\ Own(games[at]) \subseteq InGames
    BY <2>1, <2>2, LookedAtOwns DEF IInv
  <2> HIDE DEF g
  <2>4. Own(g) \cap (InGames \ Own(games[at])) = {}
    BY <2>3
  <2>5. GamesApart' /\ InGames' = InGames
    <3>1. GamesApart' /\ InGames' = (InGames \ Own(games[at])) \cup Own(g)
      BY <2>1, <2>3, <2>4, GameGives DEF IInv, Owned
    <3> QED BY <2>3, <3>1
  <2>6. InLobby' = InLobby
    BY <2>1 DEF InLobby
  <2> QED BY <2>1, <2>5, <2>6, NothingMoves
<1>7. CASE GameGoesOn \/ GamesLookedAt
  <2>1. UNCHANGED <<db, lobby, games, orphans, bnet>>
    BY <1>7 DEF GameGoesOn, GamesLookedAt
  <2>2. InLobby' = InLobby
    BY <2>1 DEF InLobby
  <2> QED BY <2>1, <2>2, GamesStand, NothingMoves DEF Owned
<1> QED BY <1>1, <1>3, <1>4, <1>5, <1>6, <1>7 DEF GamesPart

LEMMA OwnedBnets == ASSUME IInv, Owned, BnetsPart PROVE Owned'
<1>1. ASSUME NEW c \in Objects, BnetHears(c) PROVE Owned'
  <2>1. /\ c \in lists \cup alongside /\ lists' = lists \ {c} /\ alongside' = alongside \ {c}
        /\ db' = Recover(db, c) /\ UNCHANGED <<lobby, games, orphans, lost>>
    BY <1>1 DEF BnetHears
  <2>2. Out(db') = Out(db) \ {c}
    BY <2>1, OutAfter DEF IInv
  <2>3. InLobby' = InLobby /\ InGames' = InGames /\ GamesApart'
    BY <2>1, GamesStand DEF InLobby, Owned
  <2> QED BY <2>1, <2>2, <2>3 DEF Owned, RestApart, AllOwned
<1>2. ASSUME NEW spawned \in BOOLEAN, BnetAsks(spawned) PROVE Owned'
  <2> DEFINE b == NextObject(db)
             d == Issue(db, b, spawned)
             c == NextObject(d)
  <2>1. /\ db' = Issue(d, c, TRUE) /\ lists = {} /\ lists' = {b} /\ alongside' = {c}
        /\ lost' = lost \cup alongside /\ UNCHANGED <<lobby, games, orphans>>
    BY <1>2 DEF BnetAsks
  <2>2. Free(db) # {} /\ \A x \in Free(db) : Free(db) \ {x} # {}
    BY <1>2, SomeFree DEF BnetAsks
  <2>3. b \in Free(db) /\ Sound(d) /\ Free(d) = Free(db) \ {b}
    BY <2>2, IssueNextIsSound, IssueIsSound DEF IInv
  <2> HIDE DEF b
  <2>4. b \notin Out(db) /\ Out(d) = Out(db) \cup {b}
    BY <2>3, OutAfter DEF IInv
  <2> HIDE DEF d
  <2>5. c \in Free(d)
    BY <2>2, <2>3, IssueNextIsSound
  <2> HIDE DEF c
  <2>6. c \notin Out(d) /\ Out(db') = Out(d) \cup {c}
    BY <2>1, <2>3, <2>5, OutAfter
  <2>7. InLobby' = InLobby /\ InGames' = InGames /\ GamesApart'
    BY <2>1, GamesStand DEF InLobby, Owned
  <2>8. b # c /\ b \notin Out(db) /\ c \notin Out(db) /\ Out(db') = Out(db) \cup {b, c}
    BY <2>4, <2>6
  <2>9. Out(db) = orphans \cup alongside \cup lost \cup InLobby \cup InGames
    BY <2>1 DEF Owned, AllOwned
  <2>10. AllOwned'
    BY <2>1, <2>7, <2>8, <2>9 DEF AllOwned
  <2>11. RestApart'
    BY <2>1, <2>7, <2>8, <2>9 DEF RestApart, Owned
  <2> QED BY <2>7, <2>10, <2>11 DEF Owned
<1>3. ASSUME NEW nice \in BOOLEAN, Exit(nice) PROVE Owned'
  <2>1. UNCHANGED <<db, lobby, games, orphans, bnet>>
    BY <1>3 DEF Exit
  <2>2. InLobby' = InLobby
    BY <2>1 DEF InLobby
  <2> QED BY <2>1, <2>2, GamesStand, NothingMoves DEF Owned
<1>4. CASE Host \/ PassEnds
  <2>1. /\ UNCHANGED <<db, games, orphans, bnet>>
        /\ lobby' = lobby \/ (lobby = NoLobby /\ lobby' = NewLobby)
    BY <1>4 DEF Host, PassEnds, Autohosts
  <2>2. InLobby' = InLobby
    BY <2>1, NobodyWaits DEF InLobby
  <2> QED BY <2>1, <2>2, GamesStand, NothingMoves DEF Owned
<1> QED BY <1>1, <1>2, <1>3, <1>4 DEF BnetsPart

LEMMA OwnedHolds == Spec => []Owned
<1>1. Init => Owned
  <2> SUFFICES ASSUME Init PROVE Owned
    OBVIOUS
  <2>1. games = <<>> /\ DOMAIN games = {} /\ InLobby = {} /\ Out(db) = {}
    BY DEF Init, InLobby, Out, NewDatabase
  <2>2. InGames = {}
    BY <2>1 DEF InGames
  <2> QED BY <2>1, <2>2 DEF Init, Owned, GamesApart, RestApart, AllOwned
<1>2. IInv /\ Owned /\ [Next]_vars => Owned'
  <2> SUFFICES ASSUME IInv, Owned, [Next]_vars PROVE Owned'
    OBVIOUS
  <2>1. ASSUME UNCHANGED vars PROVE Owned'
    <3>1. UNCHANGED <<db, lobby, games, orphans, bnet>>
      BY <2>1 DEF vars, bnet
    <3>2. InLobby' = InLobby
      BY <3>1 DEF InLobby
    <3> QED BY <3>1, <3>2, GamesStand, NothingMoves DEF Owned
  <2> QED BY <2>1, OwnedThreads, OwnedExit, OwnedCallables, OwnedLobby, OwnedGames, OwnedBnets
          DEF Next, Stopped
<1> QED BY <1>1, <1>2, IInvHolds, PTL DEF Spec

(* Every callable that is out is waited for in exactly one place: it is    *)
(* taken back once, whoever asked for it, or is one that ~CBNET forgets    *)
(* (game_base.cpp 410-420, game.cpp 241-287, bnet.cpp 185-233).            *)
THEOREM OneOwnerEach == Spec => []OneOwner
<1> SUFFICES ASSUME TRUE PROVE IInv /\ Owned => OneOwner
  <2>1. IInv /\ Owned => OneOwner
    OBVIOUS
  <2> QED BY <2>1, IInvHolds, OwnedHolds, PTL
<1> SUFFICES ASSUME IInv, Owned PROVE OneOwner
  OBVIOUS
<1> DEFINE n == Len(games)
           a == <<orphans, lists, alongside, lost, InLobby>>
           b == [i \in DOMAIN games |-> games[i].checks]
           d == [i \in DOMAIN games |-> {games[i].save} \ {NoCallable}]
<1>1. n \in Nat /\ DOMAIN games = 1 .. n /\ \A i \in 1 .. n : games[i] \in Games
  BY GamesLength, OwnsObjects DEF IInv
<1>2. Places = a \o b \o d
  BY DEF Places, InLobby
<1>3. a \in Seq(SUBSET Objects) /\ Len(a) = 5
  BY LobbyWaits, LobbyIsTyped DEF IInv, Shape, InLobby
<1>4. b \in Seq(SUBSET Objects) /\ Len(b) = n /\ \A i \in 1 .. n : b[i] = games[i].checks
  BY <1>1 DEF Games
<1>5. /\ d \in Seq(SUBSET Objects) /\ Len(d) = n
      /\ \A i \in 1 .. n : d[i] = {games[i].save} \ {NoCallable}
  BY <1>1 DEF Games
<1>6. /\ a[1] = orphans /\ a[2] = lists /\ a[3] = alongside /\ a[4] = lost /\ a[5] = InLobby
  OBVIOUS
<1> HIDE DEF a, b, d, n
<1>7. /\ DOMAIN Places = 1 .. 5 + n + n
      /\ \A i \in 1 .. 5 : Places[i] = a[i]
      /\ \A i \in 1 .. n : Places[5 + i] = games[i].checks
      /\ \A i \in 1 .. n : Places[5 + n + i] = {games[i].save} \ {NoCallable}
  <2>1. /\ a \o b \in Seq(SUBSET Objects) /\ Len(a \o b) = 5 + n
        /\ \A i \in 1 .. 5 + n : (a \o b)[i] = IF i <= 5 THEN a[i] ELSE b[i - 5]
    <3>1. /\ a \o b \in Seq(SUBSET Objects) /\ Len(a \o b) = Len(a) + Len(b)
          /\ \A i \in 1 .. Len(a) + Len(b) :
               (a \o b)[i] = IF i <= Len(a) THEN a[i] ELSE b[i - Len(a)]
      BY <1>3, <1>4, ConcatProperties
    <3> QED BY <1>3, <1>4, <3>1
  <2>2. /\ Places \in Seq(SUBSET Objects) /\ Len(Places) = 5 + n + n
        /\ \A i \in 1 .. 5 + n + n :
             Places[i] = IF i <= 5 + n THEN (a \o b)[i] ELSE d[i - (5 + n)]
    <3> DEFINE ab == a \o b
    <3>1. ab \in Seq(SUBSET Objects) /\ Len(ab) = 5 + n /\ Places = ab \o d
      BY <1>2, <2>1
    <3> HIDE DEF ab
    <3>2. /\ ab \o d \in Seq(SUBSET Objects) /\ Len(ab \o d) = Len(ab) + Len(d)
          /\ \A i \in 1 .. Len(ab) + Len(d) :
               (ab \o d)[i] = IF i <= Len(ab) THEN ab[i] ELSE d[i - Len(ab)]
      <4>1. ab \in Seq(SUBSET Objects)
        BY <3>1
      <4>2. d \in Seq(SUBSET Objects)
        BY <1>5
      <4> QED BY <4>1, <4>2, ConcatProperties
    <3>3. /\ Places \in Seq(SUBSET Objects) /\ Len(Places) = 5 + n + n
          /\ \A i \in 1 .. 5 + n + n :
               Places[i] = IF i <= 5 + n THEN ab[i] ELSE d[i - (5 + n)]
      BY <1>5, <3>1, <3>2
    <3> QED BY <3>3 DEF ab
  <2>3. DOMAIN Places = 1 .. 5 + n + n
    BY <2>2, LenProperties
  <2>4. ASSUME NEW i \in 1 .. 5 PROVE Places[i] = a[i]
    <3>1. i \in 1 .. 5 + n /\ i \in 1 .. 5 + n + n /\ i <= 5 + n /\ i <= 5
      BY <1>1
    <3>2. Places[i] = (a \o b)[i]
      BY <2>2, <3>1
    <3>3. (a \o b)[i] = a[i]
      BY <2>1, <3>1
    <3> QED BY <3>2, <3>3
  <2>5. ASSUME NEW i \in 1 .. n PROVE Places[5 + i] = games[i].checks
    <3>1. /\ 5 + i \in 1 .. 5 + n /\ 5 + i \in 1 .. 5 + n + n /\ 5 + i <= 5 + n
          /\ ~(5 + i <= 5) /\ 5 + i - 5 = i
      BY <1>1
    <3> QED BY <1>4, <2>1, <2>2, <3>1
  <2>6. ASSUME NEW i \in 1 .. n PROVE Places[5 + n + i] = {games[i].save} \ {NoCallable}
    <3> DEFINE k == 5 + n + i
    <3>1. k \in 1 .. 5 + n + n /\ ~(k <= 5 + n) /\ k - (5 + n) = i
      BY <1>1
    <3> HIDE DEF k
    <3>2. Places[k] = d[k - (5 + n)]
      BY <2>2, <3>1
    <3>3. Places[k] = {games[i].save} \ {NoCallable}
      BY <1>5, <3>1, <3>2
    <3> QED BY <3>3 DEF k
  <2> QED BY <2>3, <2>4, <2>5, <2>6
<1>8. \A k \in DOMAIN Places :
        \/ k \in 1 .. 5
        \/ \E i \in 1 .. n : k = 5 + i
        \/ \E i \in 1 .. n : k = 5 + n + i
  <2>1. ASSUME NEW k \in 1 .. 5 + n + n, ~(k \in 1 .. 5), ~(k - 5 \in 1 .. n)
        PROVE  k - (5 + n) \in 1 .. n /\ k = 5 + n + (k - (5 + n))
    BY <1>1, <2>1
  <2>2. ASSUME NEW k \in 1 .. 5 + n + n PROVE k = 5 + (k - 5)
    BY <1>1
  <2> QED BY <1>7, <2>1, <2>2
<1>9. \A i \in 1 .. n :
        /\ games[i].checks \subseteq Own(games[i])
        /\ {games[i].save} \ {NoCallable} \subseteq Own(games[i])
        /\ Own(games[i]) \subseteq InGames
        /\ games[i].checks \cap ({games[i].save} \ {NoCallable}) = {}
  <2>1. \A i \in 1 .. n : Own(games[i]) \subseteq InGames /\ games[i].save \notin games[i].checks
    BY <1>1, OwnsObjects DEF IInv, Owned, GamesApart
  <2> QED BY <2>1 DEF Own
<1>10. \A i, j \in 1 .. n : i # j => Own(games[i]) \cap Own(games[j]) = {}
  BY <1>1 DEF Owned, GamesApart
<1>11. /\ \A i, j \in 1 .. 5 : i # j => a[i] \cap a[j] = {}
       /\ \A i \in 1 .. 5 : a[i] \cap InGames = {}
  <2>1. \A i \in 1 .. 5 : i = 1 \/ i = 2 \/ i = 3 \/ i = 4 \/ i = 5
    OBVIOUS
  <2> QED BY <1>6, <2>1 DEF Owned, RestApart
<1>12. ASSUME NEW j \in DOMAIN Places, NEW k \in DOMAIN Places, j # k
       PROVE  Places[j] \cap Places[k] = {}
  <2>1. CASE j \in 1 .. 5 /\ k \in 1 .. 5
    BY <1>7, <1>11, <1>12, <2>1
  <2>2. ASSUME NEW m \in DOMAIN Places, m \notin 1 .. 5
        PROVE  \E i \in 1 .. n : /\ m = 5 + i \/ m = 5 + n + i
                                 /\ Places[m] \subseteq Own(games[i])
    BY <1>7, <1>8, <1>9, <2>2
  <2>3. ASSUME NEW m \in DOMAIN Places, m \notin 1 .. 5 PROVE Places[m] \subseteq InGames
    BY <1>9, <2>2, <2>3
  <2>4. CASE j \in 1 .. 5 /\ k \notin 1 .. 5
    BY <1>7, <1>11, <2>3, <2>4
  <2>5. CASE j \notin 1 .. 5 /\ k \in 1 .. 5
    BY <1>7, <1>11, <2>3, <2>5
  <2>6. CASE j \notin 1 .. 5 /\ k \notin 1 .. 5
    <3>1. PICK i \in 1 .. n : (j = 5 + i \/ j = 5 + n + i) /\ Places[j] \subseteq Own(games[i])
      BY <2>2, <2>6
    <3>2. PICK l \in 1 .. n : (k = 5 + l \/ k = 5 + n + l) /\ Places[k] \subseteq Own(games[l])
      BY <2>2, <2>6
    <3>3. CASE i # l
      BY <1>10, <3>1, <3>2, <3>3
    <3>4. CASE i = l
      <4>1. (j = 5 + i /\ k = 5 + n + i) \/ (j = 5 + n + i /\ k = 5 + i)
        BY <1>12, <3>1, <3>2, <3>4
      <4> QED BY <1>7, <1>9, <4>1
    <3> QED BY <3>3, <3>4
  <2> QED BY <2>1, <2>4, <2>5, <2>6
<1>13. UNION {Places[k] : k \in DOMAIN Places} = Out(db)
  <2>1. ASSUME NEW k \in DOMAIN Places PROVE Places[k] \subseteq Out(db)
    <3>1. CASE k \in 1 .. 5
      <4>1. k = 1 \/ k = 2 \/ k = 3 \/ k = 4 \/ k = 5
        BY <3>1
      <4> QED BY <1>6, <1>7, <3>1, <4>1 DEF Owned, AllOwned
    <3>2. CASE k \notin 1 .. 5
      <4>1. PICK i \in 1 .. n : Places[k] \subseteq Own(games[i])
        BY <1>7, <1>8, <1>9, <3>2
      <4> QED BY <1>9, <4>1 DEF Owned, AllOwned
    <3> QED BY <3>1, <3>2
  <2>2. ASSUME NEW c \in Out(db) PROVE \E k \in DOMAIN Places : c \in Places[k]
    <3>1. CASE c \notin InGames
      <4>1. \E k \in 1 .. 5 : c \in a[k]
        BY <1>6, <2>2, <3>1 DEF Owned, AllOwned
      <4>2. \A k \in 1 .. 5 : k \in DOMAIN Places
        BY <1>1, <1>7
      <4> QED BY <1>7, <4>1, <4>2
    <3>2. CASE c \in InGames
      <4>1. PICK i \in 1 .. n : c \in Own(games[i])
        BY <1>1, <3>2 DEF InGames
      <4>2. 5 + i \in DOMAIN Places /\ 5 + n + i \in DOMAIN Places
        BY <1>1, <1>7
      <4>3. c \in Places[5 + i] \/ c \in Places[5 + n + i]
        BY <1>7, <4>1 DEF Own
      <4> QED BY <4>2, <4>3
    <3> QED BY <3>1, <3>2
  <2> QED BY <2>1, <2>2
<1> QED BY <1>12, <1>13 DEF OneOwner

=============================================================================
