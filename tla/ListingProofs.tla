--------------------------- MODULE ListingProofs ----------------------------
(***************************************************************************)
(* What the server's list shows, proved for any number of names, commands, *)
(* packets, answers and lost connections.                                  *)
(***************************************************************************)
EXTENDS Listing, SequenceTheorems, WellFoundedInduction, TLAPS

-----------------------------------------------------------------------------
(* The invariant.  On Battle.net a name in the list, or on its way there,  *)
(* is the lobby's, or is withdrawn by a packet that is still to be sent.   *)

\* does a packet behind the i-th withdraw the game?
StopsAfter(q, i) == \E j \in i + 1 .. Len(q) : q[j] = StopAdv

\* every name in the queue is one of the names, or is withdrawn later
Puts(q, names) ==
  \A i \in 1 .. Len(q) : IsRefresh(q[i]) => q[i][2] \in names \/ StopsAfter(q, i)

\* so is whatever the list, which shows now, comes to show
Leads(now, q, names) == (now \in names \/ StopsAfter(q, 0)) /\ Puts(q, names)

\* what the list may show when the lobby is l
Rightful(l) == {Nothing} \cup {k.name : k \in {l} \ {NoLobby}}

\* the name is in the list or comes into it, or a refusal comes back
Promised(now, q, replies, name) ==
  \/ now = name /\ ~StopsAfter(q, 0)
  \/ \E i \in 1 .. Len(q) : q[i] = Advertise(name) /\ ~StopsAfter(q, i)
  \/ \E i \in 1 .. Len(replies) : ~replies[i]

\* what the bot and the server know of their connection
Connections ==
  /\ session => loggedIn
  /\ ~session => listed = Nothing
  /\ socket = "connected" /\ ~loggedIn => out = <<>>
  /\ ~pvpgn => out2 = <<>>
  /\ InLobby /\ lobby.told => loggedIn

Settled == ~pvpgn /\ session => Leads(listed, out, Rightful(lobby))

PrivateToCome ==
  ~pvpgn /\ session /\ InLobby /\ ~lobby.public /\ lobby.told /\ ~lobby.error =>
    Promised(listed, out, answers, lobby.name)

IInv == TypeOK /\ Connections /\ Settled /\ PrivateToCome

-----------------------------------------------------------------------------
(* Packets and queues.                                                     *)

LEMMA Least ==
  ASSUME NEW S \in SUBSET Nat, S # {}
  PROVE  \E m \in S : \A x \in S : m <= x
<1> DEFINE R == OpToRel(<, Nat)
<1>1. PICK m \in S : \A x \in S : ~(<<x, m>> \in R)
  BY NatLessThanWellFounded, WFMin
<1>2. \A x \in S : ~(x < m)
  BY <1>1 DEF OpToRel
<1>3. \A x \in S : m <= x
  BY <1>2
<1> QED  BY <1>3

(* The loop of UnqueueGameRefreshes has a result, which is a queue.        *)
LEMMA UnqueuedType ==
  ASSUME NEW q \in Seq(Packets)
  PROVE  Unqueued(q) \in Seq(Packets) /\ (q = <<>> => Unqueued(q) = <<>>)
<1> DEFINE Loop(f, i) == IF i = 0 THEN <<>>
                         ELSE IF IsRefresh(q[i]) THEN f[i - 1] ELSE Append(f[i - 1], q[i])
           Kept(f, n) == f = [i \in 0 .. n |-> Loop(f, i)]
<1>1. Len(q) \in Nat /\ \A i \in 1 .. Len(q) : q[i] \in Packets
  BY ElementOfSeq, LenProperties
<1>2. \A n \in 0 .. Len(q) : \E f : Kept(f, n)
  <2> DEFINE Bad == {n \in 0 .. Len(q) : ~ \E f : Kept(f, n)}
  <2>1. SUFFICES ASSUME Bad # {} PROVE FALSE
    OBVIOUS
  <2>2. PICK n \in Bad : \A x \in Bad : n <= x
    <3>1. Bad \in SUBSET Nat
      BY <1>1
    <3> HIDE DEF Bad
    <3> QED  BY <2>1, <3>1, Least
  <2>3. n \in 0 .. Len(q) /\ ~ \E f : Kept(f, n)
    BY <2>2
  <2>4. CASE n = 0
    <3> DEFINE f == [i \in 0 .. 0 |-> <<>>]
    <3>1. Kept(f, 0)
      OBVIOUS
    <3> QED  BY <2>3, <2>4, <3>1
  <2>5. CASE n # 0
    <3>1. n - 1 \in 0 .. Len(q) /\ n - 1 \notin Bad
      <4>1. n \in Nat /\ n - 1 \in 0 .. Len(q) /\ ~(n <= n - 1)
        BY <1>1, <2>3, <2>5
      <4> HIDE DEF Bad
      <4> QED  BY <2>2, <4>1
    <3>2. PICK g : Kept(g, n - 1)
      BY <3>1
    <3> DEFINE f == [i \in 0 .. n |-> IF i = n THEN Loop(g, n) ELSE g[i]]
    <3>3. \A i \in 0 .. n - 1 : g[i] = Loop(g, i)
      BY <3>2
    <3>4. ASSUME NEW i \in 0 .. n PROVE f[i] = Loop(f, i)
      <4>1. i # 0 => i - 1 \in 0 .. n /\ i - 1 # n
        BY <1>1, <2>3, <3>4
      <4>2. i # 0 => f[i - 1] = g[i - 1]
        BY <4>1
      <4>3. i # n => i \in 0 .. n - 1
        BY <1>1, <2>3, <3>4
      <4>4. f[i] = Loop(g, i)
        BY <3>3, <4>3
      <4> QED  BY <4>2, <4>4
    <3>5. Kept(f, n)
      BY <3>4
    <3> QED  BY <2>3, <3>5
  <2> QED  BY <2>4, <2>5
<1> DEFINE kept == CHOOSE f : Kept(f, Len(q))
<1>3. Kept(kept, Len(q))
  <2>1. Len(q) \in 0 .. Len(q)
    BY <1>1
  <2> HIDE DEF Kept
  <2>2. \E f : Kept(f, Len(q))
    BY <1>2, <2>1
  <2> QED  BY <2>2
<1>4. \A i \in 0 .. Len(q) : kept[i] = Loop(kept, i)
  BY <1>3
<1>5. Unqueued(q) = kept[Len(q)]
  BY DEF Unqueued
<1> HIDE DEF kept
<1>6. \A n \in 0 .. Len(q) : kept[n] \in Seq(Packets)
  <2> DEFINE Bad == {n \in 0 .. Len(q) : kept[n] \notin Seq(Packets)}
  <2>1. SUFFICES ASSUME Bad # {} PROVE FALSE
    OBVIOUS
  <2>2. PICK n \in Bad : \A x \in Bad : n <= x
    <3>1. Bad \in SUBSET Nat
      BY <1>1
    <3> HIDE DEF Bad
    <3> QED  BY <2>1, <3>1, Least
  <2>3. n \in 0 .. Len(q) /\ kept[n] \notin Seq(Packets)
    BY <2>2
  <2>4. n # 0
    BY <1>4, <2>3, EmptySeq
  <2>5. n - 1 \in 0 .. Len(q) /\ n \in 1 .. Len(q) /\ kept[n - 1] \in Seq(Packets)
    <3>1. n \in 1 .. Len(q) /\ n - 1 \in 0 .. Len(q) /\ ~(n <= n - 1)
      BY <1>1, <2>3, <2>4
    <3>2. n - 1 \notin Bad
      <4> HIDE DEF Bad
      <4> QED  BY <2>2, <3>1
    <3> QED  BY <3>1, <3>2
  <2>6. Append(kept[n - 1], q[n]) \in Seq(Packets)
    BY <1>1, <2>5, AppendProperties
  <2> QED  BY <1>4, <2>3, <2>4, <2>5, <2>6
<1>7. q = <<>> => kept[Len(q)] = <<>>
  BY <1>1, <1>4, EmptySeq
<1> QED  BY <1>1, <1>5, <1>6, <1>7

LEMMA PacketFacts ==
  /\ StopAdv \in Packets /\ EnterChat \in Packets /\ Chat \in Packets
  /\ \A n \in GameNames : Advertise(n) \in Packets
  /\ \A n \in GameNames : IsRefresh(Advertise(n)) /\ Advertise(n)[2] = n /\ Advertise(n) # StopAdv
  /\ \A p \in Packets : IsRefresh(p) => p[2] \in GameNames /\ p = Advertise(p[2])
  /\ ~IsRefresh(StopAdv) /\ ~IsRefresh(EnterChat) /\ ~IsRefresh(Chat)
  /\ EnterChat # StopAdv /\ Chat # StopAdv
BY DEF Packets, StopAdv, EnterChat, Chat, Advertise, IsRefresh

LEMMA NextNameType == \A n \in GameNames : NextName(n) \in GameNames
BY ListingAssumption DEF GameNames, NextName

LEMMA Regrouped ==
  ASSUME NEW a \in Seq(Packets), NEW b \in Seq(Packets), NEW c \in Seq(Packets)
  PROVE  a \o (b \o c) = (a \o b) \o c
<1>1. (a \o b) \o c = a \o (b \o c)
  BY ConcatAssociative
<1> QED  BY <1>1

(* What is withdrawn in two queues, one behind the other.                  *)
LEMMA StopsConcat ==
  ASSUME NEW q \in Seq(Packets), NEW r \in Seq(Packets)
  PROVE  /\ \A i \in 0 .. Len(q) : StopsAfter(q \o r, i) <=> StopsAfter(q, i) \/ StopsAfter(r, 0)
         /\ \A i \in 0 .. Len(r) : StopsAfter(q \o r, Len(q) + i) <=> StopsAfter(r, i)
<1>1. /\ Len(q) \in Nat /\ Len(r) \in Nat /\ Len(q \o r) = Len(q) + Len(r)
      /\ \A i \in 1 .. Len(q) : (q \o r)[i] = q[i]
      /\ \A i \in 1 .. Len(r) : (q \o r)[Len(q) + i] = r[i]
  BY ConcatProperties, LenProperties
<1>2. ASSUME NEW i \in 0 .. Len(q)
      PROVE  StopsAfter(q \o r, i) <=> StopsAfter(q, i) \/ StopsAfter(r, 0)
  <2>1. ASSUME StopsAfter(q \o r, i) PROVE StopsAfter(q, i) \/ StopsAfter(r, 0)
    <3>1. PICK j \in i + 1 .. Len(q) + Len(r) : (q \o r)[j] = StopAdv
      BY <1>1, <2>1 DEF StopsAfter
    <3>2. CASE j <= Len(q)
      <4>1. j \in i + 1 .. Len(q) /\ j \in 1 .. Len(q)
        BY <1>1, <3>2
      <4> QED  BY <1>1, <3>1, <4>1 DEF StopsAfter
    <3>3. CASE j > Len(q)
      <4>1. j - Len(q) \in 0 + 1 .. Len(r) /\ Len(q) + (j - Len(q)) = j
        BY <1>1, <3>3
      <4>2. r[j - Len(q)] = StopAdv
        BY <1>1, <3>1, <4>1
      <4> QED  BY <4>1, <4>2 DEF StopsAfter
    <3> QED  BY <1>1, <3>2, <3>3
  <2>2. ASSUME StopsAfter(q, i) PROVE StopsAfter(q \o r, i)
    <3>1. PICK j \in i + 1 .. Len(q) : q[j] = StopAdv
      BY <2>2 DEF StopsAfter
    <3>2. j \in i + 1 .. Len(q \o r) /\ j \in 1 .. Len(q)
      BY <1>1
    <3> QED  BY <1>1, <3>1, <3>2 DEF StopsAfter
  <2>3. ASSUME StopsAfter(r, 0) PROVE StopsAfter(q \o r, i)
    <3>1. PICK j \in 1 .. Len(r) : r[j] = StopAdv
      BY <2>3 DEF StopsAfter
    <3>2. Len(q) + j \in i + 1 .. Len(q \o r)
      BY <1>1
    <3> QED  BY <1>1, <3>1, <3>2 DEF StopsAfter
  <2> QED  BY <2>1, <2>2, <2>3
<1>3. ASSUME NEW i \in 0 .. Len(r)
      PROVE  StopsAfter(q \o r, Len(q) + i) <=> StopsAfter(r, i)
  <2>1. ASSUME StopsAfter(q \o r, Len(q) + i) PROVE StopsAfter(r, i)
    <3>1. PICK j \in Len(q) + i + 1 .. Len(q) + Len(r) : (q \o r)[j] = StopAdv
      BY <1>1, <2>1 DEF StopsAfter
    <3>2. j - Len(q) \in i + 1 .. Len(r) /\ Len(q) + (j - Len(q)) = j /\ j - Len(q) \in 1 .. Len(r)
      BY <1>1
    <3>3. r[j - Len(q)] = StopAdv
      BY <1>1, <3>1, <3>2
    <3> QED  BY <3>2, <3>3 DEF StopsAfter
  <2>2. ASSUME StopsAfter(r, i) PROVE StopsAfter(q \o r, Len(q) + i)
    <3>1. PICK j \in i + 1 .. Len(r) : r[j] = StopAdv
      BY <2>2 DEF StopsAfter
    <3>2. Len(q) + j \in Len(q) + i + 1 .. Len(q \o r) /\ j \in 1 .. Len(r)
      BY <1>1
    <3> QED  BY <1>1, <3>1, <3>2 DEF StopsAfter
  <2> QED  BY <2>1, <2>2
<1> QED  BY <1>2, <1>3

LEMMA PutsConcat ==
  ASSUME NEW q \in Seq(Packets), NEW r \in Seq(Packets), NEW S, Puts(r, S),
         Puts(q, S) \/ StopsAfter(r, 0)
  PROVE  Puts(q \o r, S)
<1>1. /\ Len(q) \in Nat /\ Len(r) \in Nat /\ Len(q \o r) = Len(q) + Len(r)
      /\ \A i \in 1 .. Len(q) : (q \o r)[i] = q[i]
      /\ \A i \in 1 .. Len(r) : (q \o r)[Len(q) + i] = r[i]
  BY ConcatProperties, LenProperties
<1>2. SUFFICES ASSUME NEW i \in 1 .. Len(q) + Len(r), IsRefresh((q \o r)[i])
               PROVE  (q \o r)[i][2] \in S \/ StopsAfter(q \o r, i)
  BY <1>1 DEF Puts
<1>3. CASE i <= Len(q)
  <2>1. i \in 1 .. Len(q) /\ i \in 0 .. Len(q)
    BY <1>1, <1>3
  <2>2. StopsAfter(q \o r, i) <=> StopsAfter(q, i) \/ StopsAfter(r, 0)
    BY <2>1, StopsConcat
  <2> QED  BY <1>1, <1>2, <2>1, <2>2 DEF Puts
<1>4. CASE i > Len(q)
  <2>1. i - Len(q) \in 1 .. Len(r) /\ i - Len(q) \in 0 .. Len(r) /\ Len(q) + (i - Len(q)) = i
    BY <1>1, <1>4
  <2>2. StopsAfter(q \o r, i) <=> StopsAfter(r, i - Len(q))
    BY <2>1, StopsConcat
  <2>3. (q \o r)[i] = r[i - Len(q)]
    BY <1>1, <2>1
  <2> QED  BY <1>2, <2>1, <2>2, <2>3 DEF Puts
<1> QED  BY <1>1, <1>3, <1>4

(* What is added behind a queue keeps what it leads to, or withdraws it.   *)
LEMMA LeadsConcat ==
  ASSUME NEW q \in Seq(Packets), NEW r \in Seq(Packets), NEW S, NEW now, Puts(r, S),
         Leads(now, q, S) \/ StopsAfter(r, 0)
  PROVE  Leads(now, q \o r, S)
<1>1. 0 \in 0 .. Len(q)
  BY LenProperties
<1>2. StopsAfter(q \o r, 0) <=> StopsAfter(q, 0) \/ StopsAfter(r, 0)
  BY <1>1, StopsConcat
<1> QED  BY <1>2, PutsConcat DEF Leads

LEMMA PromisedConcat ==
  ASSUME NEW q \in Seq(Packets), NEW r \in Seq(Packets), NEW now, NEW replies, NEW name,
         Promised(now, q, replies, name), ~StopsAfter(r, 0)
  PROVE  Promised(now, q \o r, replies, name)
<1>1. /\ Len(q) \in Nat /\ Len(r) \in Nat /\ Len(q \o r) = Len(q) + Len(r)
      /\ \A i \in 1 .. Len(q) : (q \o r)[i] = q[i]
  BY ConcatProperties, LenProperties
<1>2. \A i \in 0 .. Len(q) : StopsAfter(q \o r, i) <=> StopsAfter(q, i)
  BY StopsConcat
<1>3. CASE now = name /\ ~StopsAfter(q, 0)
  <2>1. 0 \in 0 .. Len(q)
    BY <1>1
  <2> QED  BY <1>2, <1>3, <2>1 DEF Promised
<1>4. CASE \E i \in 1 .. Len(q) : q[i] = Advertise(name) /\ ~StopsAfter(q, i)
  <2>1. PICK i \in 1 .. Len(q) : q[i] = Advertise(name) /\ ~StopsAfter(q, i)
    BY <1>4
  <2>2. i \in 0 .. Len(q) /\ i \in 1 .. Len(q \o r)
    BY <1>1
  <2> QED  BY <1>1, <1>2, <2>1, <2>2 DEF Promised
<1> QED  BY <1>3, <1>4 DEF Promised

(* A queue whose first packet was sent.                                    *)
LEMMA TailFacts ==
  ASSUME NEW q \in Seq(Packets), q # <<>>
  PROVE  /\ Head(q) = q[1] /\ Head(q) \in Packets /\ Tail(q) \in Seq(Packets)
         /\ Len(q) \in Nat \ {0} /\ Len(Tail(q)) = Len(q) - 1
         /\ \A i \in 1 .. Len(Tail(q)) : Tail(q)[i] = q[i + 1]
         /\ \A i \in 0 .. Len(q) - 1 : StopsAfter(Tail(q), i) <=> StopsAfter(q, i + 1)
         /\ StopsAfter(q, 0) <=> Head(q) = StopAdv \/ StopsAfter(q, 1)
<1>1. /\ Head(q) = q[1] /\ Head(q) \in Packets /\ Tail(q) \in Seq(Packets)
      /\ Len(q) \in Nat \ {0} /\ Len(Tail(q)) = Len(q) - 1
      /\ \A i \in 1 .. Len(Tail(q)) : Tail(q)[i] = q[i + 1]
  BY HeadTailProperties, EmptySeq, LenProperties
<1>2. ASSUME NEW i \in 0 .. Len(q) - 1
      PROVE  StopsAfter(Tail(q), i) <=> StopsAfter(q, i + 1)
  <2>1. ASSUME StopsAfter(Tail(q), i) PROVE StopsAfter(q, i + 1)
    <3>1. PICK j \in i + 1 .. Len(q) - 1 : Tail(q)[j] = StopAdv
      BY <1>1, <2>1 DEF StopsAfter
    <3>2. j + 1 \in i + 1 + 1 .. Len(q) /\ j \in 1 .. Len(Tail(q))
      BY <1>1
    <3> QED  BY <1>1, <3>1, <3>2 DEF StopsAfter
  <2>2. ASSUME StopsAfter(q, i + 1) PROVE StopsAfter(Tail(q), i)
    <3>1. PICK j \in i + 1 + 1 .. Len(q) : q[j] = StopAdv
      BY <2>2 DEF StopsAfter
    <3>2. j - 1 \in i + 1 .. Len(Tail(q)) /\ j - 1 \in 1 .. Len(Tail(q)) /\ (j - 1) + 1 = j
      BY <1>1
    <3> QED  BY <1>1, <3>1, <3>2 DEF StopsAfter
  <2> QED  BY <2>1, <2>2
<1>3. StopsAfter(q, 0) <=> Head(q) = StopAdv \/ StopsAfter(q, 1)
  <2>1. 1 .. Len(q) = {1} \cup (2 .. Len(q))
    BY <1>1
  <2> QED  BY <1>1, <2>1 DEF StopsAfter
<1> QED  BY <1>1, <1>2, <1>3

(* On Battle.net the server shows after a packet what it showed before, or *)
(* what the packet tells it to.                                            *)
LEMMA LeadsTail ==
  ASSUME NEW q \in Seq(Packets), q # <<>>, NEW S, NEW now, NEW next, Nothing \in S,
         Leads(now, q, S),
         next \in (IF IsRefresh(Head(q)) THEN {Head(q)[2], now}
                   ELSE IF Head(q) = StopAdv THEN {Nothing} ELSE {now})
  PROVE  Leads(next, Tail(q), S)
<1>1. next \in S \/ StopsAfter(Tail(q), 0)
  <2>1. StopsAfter(Tail(q), 0) <=> StopsAfter(q, 1)
    BY TailFacts
  <2>2. StopsAfter(q, 0) <=> Head(q) = StopAdv \/ StopsAfter(q, 1)
    BY TailFacts
  <2>3. IsRefresh(Head(q)) => Head(q)[2] \in S \/ StopsAfter(q, 1)
    BY TailFacts DEF Leads, Puts
  <2>4. ~IsRefresh(StopAdv)
    BY PacketFacts
  <2> QED  BY <2>1, <2>2, <2>3, <2>4 DEF Leads
<1>2. Puts(Tail(q), S)
  <2>1. SUFFICES ASSUME NEW i \in 1 .. Len(Tail(q)), IsRefresh(Tail(q)[i])
                 PROVE  Tail(q)[i][2] \in S \/ StopsAfter(Tail(q), i)
    BY DEF Puts
  <2>2. /\ Tail(q)[i] = q[i + 1] /\ i + 1 \in 1 .. Len(q) /\ i \in 0 .. Len(q) - 1
    BY TailFacts
  <2>3. StopsAfter(Tail(q), i) <=> StopsAfter(q, i + 1)
    BY <2>2, TailFacts
  <2> QED  BY <2>1, <2>2, <2>3 DEF Leads, Puts
<1> QED  BY <1>1, <1>2 DEF Leads

(* A name that is promised is in the list, still comes into it, or was     *)
(* just refused.                                                           *)
LEMMA PromisedTail ==
  ASSUME NEW q \in Seq(Packets), q # <<>>, NEW now, NEW next, NEW replies \in Seq(BOOLEAN),
         NEW name \in GameNames, Leads(now, q, {Nothing, name}),
         next \in (IF IsRefresh(Head(q)) THEN {Head(q)[2], now}
                   ELSE IF Head(q) = StopAdv THEN {Nothing} ELSE {now}),
         Promised(now, q, replies, name)
  PROVE  Promised(next, Tail(q),
                  IF IsRefresh(Head(q)) THEN Append(replies, next = Head(q)[2]) ELSE replies, name)
<1> DEFINE after == IF IsRefresh(Head(q)) THEN Append(replies, next = Head(q)[2]) ELSE replies
<1>1. /\ Len(replies) \in Nat
      /\ \A v \in BOOLEAN :
           /\ Len(Append(replies, v)) = Len(replies) + 1
           /\ \A i \in 1 .. Len(replies) : Append(replies, v)[i] = replies[i]
           /\ Append(replies, v)[Len(replies) + 1] = v
  BY AppendProperties, LenProperties
<1>2. StopsAfter(Tail(q), 0) <=> StopsAfter(q, 1)
  BY TailFacts
<1>3. CASE \E i \in 1 .. Len(replies) : ~replies[i]
  <2>1. \E i \in 1 .. Len(after) : ~after[i]
    BY <1>1, <1>3
  <2> QED  BY <2>1 DEF Promised
<1>4. CASE now = name /\ ~StopsAfter(q, 0)
  <2>1. Head(q) # StopAdv /\ ~StopsAfter(q, 1)
    BY <1>4, TailFacts
  <2>2. IsRefresh(Head(q)) => Head(q)[2] = name
    <3>1. IsRefresh(Head(q)) => Head(q)[2] \in {Nothing, name} /\ Head(q)[2] \in GameNames
      BY <2>1, TailFacts, PacketFacts DEF Leads, Puts
    <3> QED  BY <3>1, NothingAssumption
  <2>3. next = name
    BY <1>4, <2>1, <2>2
  <2> QED  BY <1>2, <2>1, <2>3 DEF Promised
<1>5. CASE \E i \in 1 .. Len(q) : q[i] = Advertise(name) /\ ~StopsAfter(q, i)
  <2>1. PICK i \in 1 .. Len(q) : q[i] = Advertise(name) /\ ~StopsAfter(q, i)
    BY <1>5
  <2>2. CASE i = 1
    <3>1. Head(q) = Advertise(name) /\ IsRefresh(Head(q)) /\ Head(q)[2] = name
      BY <2>1, <2>2, TailFacts, PacketFacts
    <3>2. CASE next = name
      BY <1>2, <2>1, <2>2, <3>2 DEF Promised
    <3>3. CASE next # name
      <4>1. after = Append(replies, FALSE)
        <5>1. after = Append(replies, next = Head(q)[2])
          BY <3>1
        <5>2. (next = Head(q)[2]) = FALSE
          BY <3>1, <3>3
        <5> HIDE DEF after
        <5> QED  BY <5>1, <5>2, Zenon
      <4>2. Len(replies) + 1 \in 1 .. Len(after) /\ after[Len(replies) + 1] = FALSE
        <5>1. /\ Len(Append(replies, FALSE)) = Len(replies) + 1
              /\ Append(replies, FALSE)[Len(replies) + 1] = FALSE
          BY <1>1
        <5> HIDE DEF after
        <5> QED  BY <1>1, <4>1, <5>1
      <4>3. ~after[Len(replies) + 1]
        BY <4>2
      <4> QED  BY <4>2, <4>3 DEF Promised
    <3> QED  BY <3>2, <3>3
  <2>3. CASE i # 1
    <3>1. /\ i - 1 \in 1 .. Len(Tail(q)) /\ i - 1 \in 0 .. Len(q) - 1 /\ (i - 1) + 1 = i
      BY <2>3, TailFacts
    <3>2. Tail(q)[i - 1] = q[i] /\ (StopsAfter(Tail(q), i - 1) <=> StopsAfter(q, i))
      BY <3>1, TailFacts
    <3> QED  BY <2>1, <3>1, <3>2 DEF Promised
  <2> QED  BY <2>2, <2>3
<1> QED  BY <1>3, <1>4, <1>5 DEF Promised

-----------------------------------------------------------------------------
(* What the bot puts behind its queue.                                     *)

LEMMA RightfulNames ==
  /\ Rightful(NoLobby) = {Nothing}
  /\ \A l : l # NoLobby => Rightful(l) = {Nothing, l.name}
BY DEF Rightful

LEMMA LeadsMore ==
  ASSUME NEW now, NEW q, NEW S, NEW T, S \subseteq T, Leads(now, q, S)
  PROVE  Leads(now, q, T)
BY DEF Leads, Puts

LEMMA Pieces ==
  ASSUME NEW n \in GameNames, NEW public \in BOOLEAN
  PROVE  /\ First(n) \in Seq(Packets) /\ BackToChat(public) \in Seq(Packets)
         /\ Withdraw \in Seq(Packets) /\ <<EnterChat>> \in Seq(Packets)
         /\ <<Advertise(n)>> \in Seq(Packets)
         /\ StopsAfter(Withdraw, 0) /\ ~StopsAfter(First(n), 0)
         /\ ~StopsAfter(BackToChat(public), 0) /\ ~StopsAfter(<<EnterChat>>, 0)
         /\ \A S : Puts(Withdraw, S) /\ Puts(BackToChat(public), S) /\ Puts(<<EnterChat>>, S)
         /\ \A S : n \in S => Puts(First(n), S)
<1>1. /\ First(n) \in Seq(Packets) /\ BackToChat(public) \in Seq(Packets)
      /\ Withdraw \in Seq(Packets) /\ <<EnterChat>> \in Seq(Packets)
      /\ <<Advertise(n)>> \in Seq(Packets)
  BY PacketFacts DEF First, BackToChat, Withdraw
<1>2. StopsAfter(Withdraw, 0) /\ \A S : Puts(Withdraw, S)
  BY PacketFacts DEF Withdraw, StopsAfter, Puts
<1>3. ~StopsAfter(<<EnterChat>>, 0) /\ \A S : Puts(<<EnterChat>>, S)
  BY PacketFacts DEF StopsAfter, Puts
<1>4. ~StopsAfter(<<>>, 0) /\ \A S : Puts(<<>>, S)
  BY DEF StopsAfter, Puts
<1>5. ~StopsAfter(<<Advertise(n)>>, 0) /\ \A S : n \in S => Puts(<<Advertise(n)>>, S)
  BY PacketFacts DEF StopsAfter, Puts
<1> QED  BY <1>1, <1>2, <1>3, <1>4, <1>5 DEF First, BackToChat

\* a queue with messages behind it
Chatted(q, s) == \E r \in Seq({Chat}) : s = q \o r

LEMMA ChatOnly ==
  ASSUME NEW r \in Seq({Chat})
  PROVE  r \in Seq(Packets) /\ ~StopsAfter(r, 0) /\ \A S : Puts(r, S)
<1>1. r \in Seq(Packets)
  BY PacketFacts, SeqMonotonic
<1>2. \A i \in 1 .. Len(r) : r[i] = Chat
  BY ElementOfSeq
<1> QED  BY <1>1, <1>2, PacketFacts DEF StopsAfter, Puts

LEMMA ChattedSame == ASSUME NEW q \in Seq(Packets) PROVE Chatted(q, q)
BY EmptySeq, ConcatEmptySeq DEF Chatted

LEMMA SaidChatted ==
  ASSUME NEW q \in Seq(Packets), NEW parts \in 1 .. 2
  PROVE  /\ Chatted(q, Said(q, parts)) /\ Said(q, parts) \in Seq(Packets)
         /\ ~loggedIn => Said(q, parts) = q
<1>1. [i \in 1 .. parts |-> Chat] \in Seq({Chat})
  BY SeqDef
<1>2. q \o [i \in 1 .. parts |-> Chat] \in Seq(Packets)
  BY <1>1, ChatOnly, ConcatProperties
<1> QED  BY <1>1, <1>2, ChattedSame DEF Said, Queued, Chatted

LEMMA ChattedOnce ==
  ASSUME NEW q \in Seq(Packets), NEW s, NEW t, Chatted(q, s), Chatted(s, t)
  PROVE  Chatted(q, t)
<1>1. PICK a \in Seq({Chat}) : s = q \o a
  BY DEF Chatted
<1>2. PICK b \in Seq({Chat}) : t = s \o b
  BY DEF Chatted
<1>3. (q \o a) \o b = q \o (a \o b)
  BY ChatOnly, ConcatAssociative
<1>4. a \o b \in Seq({Chat})
  BY ConcatProperties
<1> QED  BY <1>1, <1>2, <1>3, <1>4 DEF Chatted

(* Messages change nothing of what the list comes to show.                 *)
LEMMA ChattedKeeps ==
  ASSUME NEW q \in Seq(Packets), NEW s, Chatted(q, s)
  PROVE  /\ s \in Seq(Packets)
         /\ \A now, S : Leads(now, q, S) => Leads(now, s, S)
         /\ \A now, replies, name :
              Promised(now, q, replies, name) => Promised(now, s, replies, name)
<1>1. PICK r \in Seq({Chat}) : s = q \o r
  BY DEF Chatted
<1> QED  BY <1>1, ChatOnly, ConcatProperties, LeadsConcat, PromisedConcat

(* Behind an advertisement the name is promised.                           *)
LEMMA PromisedLast ==
  ASSUME NEW q \in Seq(Packets), NEW b \in Seq(Packets), NEW n \in GameNames, NEW now,
         NEW replies, ~StopsAfter(b, 0)
  PROVE  Promised(now, (q \o <<Advertise(n)>>) \o b, replies, n)
<1> DEFINE a == <<Advertise(n)>>
           s == q \o a
<1>1. a \in Seq(Packets) /\ Len(a) = 1 /\ a[1] = Advertise(n)
  BY PacketFacts
<1>2. s \in Seq(Packets) /\ Len(s) = Len(q) + 1 /\ Len(q) \in Nat /\ s[Len(q) + 1] = a[1]
  BY <1>1, ConcatProperties, LenProperties
<1> HIDE DEF s
<1>3. /\ Len(s \o b) = Len(s) + Len(b) /\ Len(b) \in Nat
      /\ (s \o b)[Len(s)] = s[Len(s)]
  <2>1. Len(b) \in Nat /\ Len(s) \in 1 .. Len(s) + Len(b) /\ Len(s) <= Len(s)
    BY <1>2, LenProperties
  <2> QED  BY <1>2, <2>1, ConcatProperties
<1>4. StopsAfter(s \o b, Len(s)) <=> StopsAfter(b, 0)
  <2>1. 0 \in 0 .. Len(b) /\ Len(s) + 0 = Len(s)
    BY <1>2, <1>3
  <2> QED  BY <1>2, <2>1, StopsConcat
<1>5. Len(s) \in 1 .. Len(s \o b)
  BY <1>2, <1>3
<1>6. Promised(now, s \o b, replies, n)
  BY <1>1, <1>2, <1>3, <1>4, <1>5 DEF Promised
<1> QED  BY <1>6 DEF s

-----------------------------------------------------------------------------
(* Steps of the lobby.                                                     *)

\* what the invariant asks of a lobby l and the queue q beside it
Tells(l, q) ==
  /\ l # NoLobby /\ l.told => loggedIn
  /\ ~pvpgn /\ session => Leads(listed, q, Rightful(l))
  /\ ~pvpgn /\ session /\ l # NoLobby /\ ~l.public /\ l.told /\ ~l.error =>
       Promised(listed, q, answers, l.name)

LEMMA Told == IInv => Tells(lobby, out)
BY DEF IInv, Connections, Settled, PrivateToCome, InLobby, Tells

LEMMA LobbyStep ==
  ASSUME IInv, UNCHANGED <<config, socket, loggedIn, server, drops>>,
         lobby' \in Lobbies \cup {NoLobby}, out' \in Seq(Packets), out2' \in Seq(Packets),
         ~pvpgn => out2' = out2, ~loggedIn /\ out = <<>> => out' = <<>>,
         Tells(lobby', out')
  PROVE  IInv'
<1>1. TypeOK'
  BY DEF IInv, TypeOK, config, server
<1>2. Connections'
  BY DEF IInv, Connections, TypeOK, config, server, InLobby, Tells
<1>3. Settled'
  BY DEF IInv, Settled, config, server, Tells
<1>4. PrivateToCome'
  BY DEF IInv, PrivateToCome, config, server, InLobby, Tells
<1> QED  BY <1>1, <1>2, <1>3, <1>4 DEF IInv

(* The lobby with other marks: its name, and what is promised, stay.       *)
LEMMA SameName ==
  ASSUME IInv, NEW l \in Lobbies, lobby # NoLobby, l.name = lobby.name, l.public = lobby.public,
         l.told => lobby.told, lobby.error => l.error, NEW q, Chatted(out, q)
  PROVE  Tells(l, q)
<1>1. Tells(lobby, out)
  BY Told
<1>2. Rightful(l) = Rightful(lobby)
  BY LobbyAssumption, RightfulNames
<1>3. out \in Seq(Packets)
  BY DEF IInv, TypeOK
<1>4. l.public \in BOOLEAN /\ l.told \in BOOLEAN /\ l.error \in BOOLEAN
  BY DEF Lobbies
<1> QED  BY <1>1, <1>2, <1>3, <1>4, ChattedKeeps DEF Tells

(* What was listed is withdrawn, and with it all that is in the queue.     *)
LEMMA Withdrawn ==
  ASSUME NEW now, NEW q \in Seq(Packets), NEW n
  PROVE  /\ q \o Withdraw \in Seq(Packets)
         /\ \A S : Leads(now, q \o Withdraw, S)
<1>1. Withdraw \in Seq(Packets) /\ StopsAfter(Withdraw, 0) /\ \A S : Puts(Withdraw, S)
  BY PacketFacts DEF Withdraw, StopsAfter, Puts
<1> QED  BY <1>1, ConcatProperties, LeadsConcat

(* Nothing is promised to a lobby whose name is about to be told.          *)
LEMMA Unnamed ==
  ASSUME IInv, NEW l \in Lobbies \cup {NoLobby}, l = NoLobby \/ ~l.told, NEW q \in Seq(Packets)
  PROVE  Tells(l, Queued(q, Withdraw)) /\ Queued(q, Withdraw) \in Seq(Packets)
<1>1. session => loggedIn
  BY DEF IInv, Connections
<1>2. CASE loggedIn
  BY <1>2, Withdrawn DEF Tells, Queued
<1>3. CASE ~loggedIn
  BY <1>1, <1>3 DEF Tells, Queued
<1> QED  BY <1>2, <1>3

LEMMA AnnouncedChatted ==
  ASSUME NEW q \in Seq(Packets), NEW s \in Announced(q)
  PROVE  Chatted(q, s) /\ s \in Seq(Packets) /\ (~loggedIn => s = q)
BY SaidChatted, ChattedSame DEF Announced

LEMMA SecondType ==
  ASSUME IInv, NEW n \in GameNames
  PROVE  Second(n) \in Seq(Packets) /\ (~pvpgn => Second(n) = out2)
<1>1. out2 \in Seq(Packets)
  BY DEF IInv, TypeOK
<1>2. out2 \o <<Advertise(n)>> \in Seq(Packets)
  BY <1>1, Pieces, ConcatProperties
<1> QED  BY <1>1, <1>2 DEF Second, Queued

(* A new lobby: what is said first does not withdraw the name.  Whatever   *)
(* the list shows was withdrawn when the last lobby ended.                 *)
LEMMA Creates ==
  ASSUME IInv, NEW n \in GameNames, NEW public \in BOOLEAN, Create(n, public)
  PROVE  IInv'
<1>1. PICK said \in Announced(out) : out' = Queued(said, First(n) \o BackToChat(public))
  BY DEF Create
<1>2. out \in Seq(Packets)
  BY DEF IInv, TypeOK
<1>3. Chatted(out, said) /\ said \in Seq(Packets) /\ (~loggedIn => said = out)
  BY <1>1, <1>2, AnnouncedChatted
<1>4. lobby = NoLobby /\ lobby' \in Lobbies /\ lobby'.name = n /\ lobby'.told = loggedIn
  BY DEF Create, InLobby, Lobbies, IInv, TypeOK
<1>5. First(n) \o BackToChat(public) \in Seq(Packets) /\ First(n) \in Seq(Packets)
      /\ BackToChat(public) \in Seq(Packets) /\ ~StopsAfter(BackToChat(public), 0)
  BY Pieces, ConcatProperties
<1>6. out' \in Seq(Packets) /\ (~loggedIn => out' = out)
  BY <1>1, <1>3, <1>5, ConcatProperties DEF Queued
<1>7. Tells(lobby', out')
  <2>1. lobby' # NoLobby
    BY <1>4, LobbyAssumption
  <2>2. CASE ~pvpgn /\ session
    <3>1. loggedIn
      BY <2>2 DEF IInv, Connections
    <3>2. Leads(listed, said, {Nothing})
      <4>1. Leads(listed, out, {Nothing})
        BY <1>4, <2>2, RightfulNames, Told DEF Tells
      <4> QED  BY <1>2, <1>3, <4>1, ChattedKeeps
    <3>3. Leads(listed, said, {Nothing, n})
      BY <3>2, LeadsMore
    <3>4. Leads(listed, said \o First(n), {Nothing, n}) /\ said \o First(n) \in Seq(Packets)
      BY <1>3, <1>5, <3>3, Pieces, LeadsConcat, ConcatProperties
    <3>5. out' = (said \o First(n)) \o BackToChat(public)
      <4>1. out' = said \o (First(n) \o BackToChat(public))
        BY <1>1, <3>1 DEF Queued
      <4>2. said \o (First(n) \o BackToChat(public)) = (said \o First(n)) \o BackToChat(public)
        BY <1>3, <1>5, Regrouped, Zenon
      <4> QED  BY <4>1, <4>2
    <3>6. Leads(listed, out', {Nothing, n})
      BY <1>5, <3>4, <3>5, Pieces, LeadsConcat
    <3>7. Promised(listed, out', answers, n)
      BY <1>3, <1>5, <2>2, <3>5, PromisedLast DEF First
    <3> QED  BY <1>4, <2>1, <3>1, <3>6, <3>7, RightfulNames DEF Tells
  <2> QED  BY <1>4, <2>2 DEF Tells
<1>8. out2' \in Seq(Packets) /\ (~pvpgn => out2' = out2)
  BY SecondType DEF Create
<1> QED  BY <1>4, <1>6, <1>7, <1>8, LobbyStep DEF Create

LEMMA Refreshes ==
  ASSUME IInv, Refresh
  PROVE  IInv'
<1>1. out \in Seq(Packets) /\ lobby \in Lobbies /\ lobby.name \in GameNames /\ lobby # NoLobby
  BY DEF IInv, TypeOK, Refresh, InLobby, Lobbies
<1>2. lobby' \in Lobbies /\ lobby'.name = lobby.name /\ lobby'.public = TRUE
  BY <1>1 DEF Refresh, Lobbies
<1>3. out' = out \o First(lobby.name) /\ out' \in Seq(Packets)
  BY <1>1, Pieces, ConcatProperties DEF Refresh, Queued
<1>4. lobby' # NoLobby
  BY <1>2, LobbyAssumption
<1>5. ~pvpgn /\ session => Leads(listed, out', {Nothing, lobby.name})
  <2>1. ~pvpgn /\ session => Leads(listed, out, {Nothing, lobby.name})
    BY <1>1, RightfulNames, Told DEF Tells
  <2>2. First(lobby.name) \in Seq(Packets) /\ Puts(First(lobby.name), {Nothing, lobby.name})
    BY <1>1, Pieces
  <2> QED  BY <1>1, <1>3, <2>1, <2>2, LeadsConcat, Zenon
<1>6. Tells(lobby', out')
  BY <1>2, <1>4, <1>5, RightfulNames DEF Tells, Refresh
<1> QED  BY <1>1, <1>2, <1>3, <1>6, SecondType, LobbyStep DEF Refresh

LEMMA RehostsPublic ==
  ASSUME IInv, NEW n \in GameNames, RehostPublic(n)
  PROVE  IInv'
<1>1. out \in Seq(Packets) /\ out2 \in Seq(Packets) /\ lobby \in Lobbies
  BY DEF IInv, TypeOK, RehostPublic, InLobby
<1>2. lobby' \in Lobbies /\ ~lobby'.told
  BY <1>1 DEF RehostPublic, Lobbies
<1>3. Unqueued(out) \in Seq(Packets) /\ (out = <<>> => Unqueued(out) = <<>>)
  BY <1>1, UnqueuedType
<1>4. Tells(lobby', out') /\ out' \in Seq(Packets)
  BY <1>2, <1>3, Unnamed DEF RehostPublic
<1> QED  BY <1>1, <1>2, <1>3, <1>4, LobbyStep DEF RehostPublic, Queued

LEMMA RehostsPrivate ==
  ASSUME IInv, NEW n \in GameNames, RehostPrivate(n)
  PROVE  IInv'
<1> DEFINE q == Unqueued(out)
           more == Withdraw \o First(n) \o BackToChat(FALSE)
<1>1. out \in Seq(Packets) /\ out2 \in Seq(Packets) /\ lobby \in Lobbies /\ lobby # NoLobby
  BY DEF IInv, TypeOK, RehostPrivate, InLobby
<1>2. lobby' \in Lobbies /\ lobby'.name = n /\ lobby'.told = loggedIn
  BY <1>1 DEF RehostPrivate, Lobbies, IInv, TypeOK
<1>3. q \in Seq(Packets) /\ (out = <<>> => q = <<>>)
  BY <1>1, UnqueuedType
<1>4. /\ Withdraw \in Seq(Packets) /\ First(n) \in Seq(Packets)
      /\ BackToChat(FALSE) \in Seq(Packets) /\ ~StopsAfter(BackToChat(FALSE), 0)
      /\ \A S : n \in S => Puts(First(n), S)
      /\ \A S : Puts(BackToChat(FALSE), S)
  BY Pieces
<1>5. out' = IF loggedIn THEN q \o more ELSE q
  BY DEF RehostPrivate, Queued
<1>6. q \o more = ((q \o Withdraw) \o First(n)) \o BackToChat(FALSE)
  <2>1. Withdraw \o First(n) \in Seq(Packets)
    BY <1>4, ConcatProperties
  <2>2. q \o more = (q \o (Withdraw \o First(n))) \o BackToChat(FALSE)
    BY <1>3, <1>4, <2>1, Regrouped, Zenon
  <2>3. q \o (Withdraw \o First(n)) = (q \o Withdraw) \o First(n)
    BY <1>3, <1>4, Regrouped, Zenon
  <2> QED  BY <2>2, <2>3, Zenon
<1> HIDE DEF q, more
<1>7. /\ q \o Withdraw \in Seq(Packets)
      /\ (q \o Withdraw) \o First(n) \in Seq(Packets)
      /\ ((q \o Withdraw) \o First(n)) \o BackToChat(FALSE) \in Seq(Packets)
  BY <1>3, <1>4, ConcatProperties
<1>8. out' \in Seq(Packets) /\ (~loggedIn /\ out = <<>> => out' = <<>>)
  BY <1>3, <1>5, <1>6, <1>7
<1>9. Tells(lobby', out')
  <2>1. lobby' # NoLobby
    BY <1>2, LobbyAssumption
  <2>2. CASE ~pvpgn /\ session
    <3>1. out' = ((q \o Withdraw) \o First(n)) \o BackToChat(FALSE) /\ loggedIn
      BY <1>5, <1>6, <2>2 DEF IInv, Connections
    <3>2. Leads(listed, q \o Withdraw, {Nothing, n})
      BY <1>3, Withdrawn
    <3>3. Leads(listed, (q \o Withdraw) \o First(n), {Nothing, n})
      <4>1. Puts(First(n), {Nothing, n})
        BY <1>4
      <4> QED  BY <1>4, <1>7, <3>2, <4>1, LeadsConcat, Zenon
    <3>4. Leads(listed, out', {Nothing, n})
      <4>1. Puts(BackToChat(FALSE), {Nothing, n})
        BY <1>4
      <4> QED  BY <1>4, <1>7, <3>1, <3>3, <4>1, LeadsConcat, Zenon
    <3>5. First(n) = <<Advertise(n)>>
      BY <2>2 DEF First
    <3>6. Promised(listed, out', answers, n)
      BY <1>4, <1>7, <3>1, <3>5, PromisedLast, Zenon
    <3> QED  BY <1>2, <2>1, <3>1, <3>4, <3>6, RightfulNames DEF Tells
  <2> QED  BY <1>2, <2>2 DEF Tells
<1> QED  BY <1>1, <1>2, <1>8, <1>9, SecondType, LobbyStep DEF RehostPrivate

(* What only marks the lobby, names it anew, ends it, or is said.          *)
LEMMA Marks ==
  ASSUME IInv, BeginCountdown \/ AbortCountdown \/ Unhost
  PROVE  IInv'
<1>1. out \in Seq(Packets) /\ out2 \in Seq(Packets) /\ lobby \in Lobbies /\ lobby # NoLobby
  BY DEF IInv, TypeOK, BeginCountdown, AbortCountdown, Unhost, InLobby
<1>2. /\ lobby' \in Lobbies /\ lobby'.name = lobby.name /\ lobby'.public = lobby.public
      /\ lobby'.told = lobby.told /\ lobby'.error = lobby.error
  BY <1>1 DEF BeginCountdown, AbortCountdown, Unhost, Lobbies
<1>3. Chatted(out, out') /\ out' \in Seq(Packets) /\ (~loggedIn => out' = out)
  BY <1>1, AnnouncedChatted, ChattedSame DEF BeginCountdown, AbortCountdown, Unhost
<1>4. UNCHANGED <<config, socket, loggedIn, server, drops, out2>>
  BY DEF BeginCountdown, AbortCountdown, Unhost
<1>5. Tells(lobby', out')
  BY <1>1, <1>2, <1>3, SameName
<1> QED  BY <1>1, <1>2, <1>3, <1>4, <1>5, LobbyStep

LEMMA AutoRehosts ==
  ASSUME IInv, AutoRehost
  PROVE  IInv'
<1>1. out \in Seq(Packets) /\ out2 \in Seq(Packets) /\ lobby \in Lobbies
  BY DEF IInv, TypeOK, AutoRehost, InLobby
<1>2. lobby' \in Lobbies /\ ~lobby'.told
  BY <1>1, NextNameType DEF AutoRehost, Lobbies
<1>3. Tells(lobby', out') /\ out' \in Seq(Packets)
  BY <1>1, <1>2, Unnamed DEF AutoRehost
<1> QED  BY <1>1, <1>2, <1>3, LobbyStep DEF AutoRehost, Queued

LEMMA Ends ==
  ASSUME IInv, LobbyEnds
  PROVE  IInv'
<1>1. out \in Seq(Packets) /\ out2 \in Seq(Packets)
  BY DEF IInv, TypeOK
<1>2. Tells(lobby', out') /\ out' \in Seq(Packets)
  BY <1>1, Unnamed DEF LobbyEnds
<1> QED  BY <1>1, <1>2, LobbyStep DEF LobbyEnds, Queued

LEMMA Talks ==
  ASSUME IInv, NEW parts \in 1 .. 2, Talk(parts)
  PROVE  IInv'
<1>1. out \in Seq(Packets) /\ out2 \in Seq(Packets) /\ lobby \in Lobbies \cup {NoLobby}
  BY DEF IInv, TypeOK
<1>2. Chatted(out, out') /\ out' \in Seq(Packets)
  BY <1>1, SaidChatted DEF Talk
<1>3. Tells(lobby, out')
  BY <1>1, <1>2, ChattedKeeps, Told DEF Tells
<1> QED  BY <1>1, <1>2, <1>3, LobbyStep DEF Talk

-----------------------------------------------------------------------------
(* Steps of the server and of the connection.                              *)

(* What the server shows and answers when it is sent a packet.             *)
LEMMA SendType ==
  ASSUME TypeOK, NEW p \in Packets, Send(p)
  PROVE  /\ listed' \in GameNames \cup {Nothing} /\ answers' \in Seq(BOOLEAN)
         /\ session' = session
         /\ ~session => UNCHANGED <<listed, answers>>
         /\ session => answers' = IF IsRefresh(p) THEN Append(answers, listed' = p[2]) ELSE answers
         /\ session /\ ~pvpgn => listed' \in (IF IsRefresh(p) THEN {p[2], listed}
                                            ELSE IF p = StopAdv THEN {Nothing} ELSE {listed})
<1>1. (listed' = p[2]) \in BOOLEAN
  OBVIOUS
<1>2. answers \in Seq(BOOLEAN) /\ listed \in GameNames \cup {Nothing}
      /\ (IsRefresh(p) => p[2] \in GameNames)
  BY PacketFacts DEF TypeOK
<1>3. Append(answers, listed' = p[2]) \in Seq(BOOLEAN)
  BY <1>1, <1>2, AppendProperties, Zenon
<1>4. listed' \in Listings(p) /\ answers' = Answered(p, listed') /\ session' = session
  BY DEF Send
<1>5. answers' \in Seq(BOOLEAN)
  BY <1>2, <1>3, <1>4, Zenon DEF Answered
<1>6. session => answers' = IF IsRefresh(p) THEN Append(answers, listed' = p[2]) ELSE answers
  BY <1>4, Zenon DEF Answered
<1>7. ~session => UNCHANGED <<listed, answers>>
  BY <1>4 DEF Answered, Listings
<1>8. listed' \in GameNames \cup {Nothing}
  BY <1>2, <1>4 DEF Listings
<1>9. session /\ ~pvpgn => listed' \in (IF IsRefresh(p) THEN {p[2], listed}
                                     ELSE IF p = StopAdv THEN {Nothing} ELSE {listed})
  BY <1>4 DEF Listings
<1> QED  BY <1>4, <1>5, <1>6, <1>7, <1>8, <1>9, Zenon

LEMMA SendsFirst ==
  ASSUME IInv, SendFirst
  PROVE  IInv'
<1> DEFINE p == Head(out)
<1>1. /\ out \in Seq(Packets) /\ out # <<>> /\ lobby \in Lobbies \cup {NoLobby}
      /\ answers \in Seq(BOOLEAN) /\ pvpgn \in BOOLEAN /\ TypeOK
  BY DEF IInv, TypeOK, SendFirst
<1>2. p \in Packets /\ Tail(out) \in Seq(Packets)
  BY <1>1, TailFacts
<1>3. /\ UNCHANGED <<pvpgn, renames, socket, loggedIn, out2, lobby, drops>> /\ out' = Tail(out)
      /\ Send(p) /\ socket = "connected"
  BY DEF SendFirst, config
<1> HIDE DEF p
<1>4. /\ listed' \in GameNames \cup {Nothing} /\ answers' \in Seq(BOOLEAN) /\ session' = session
      /\ ~session => UNCHANGED <<listed, answers>>
      /\ session => answers' = IF IsRefresh(p) THEN Append(answers, listed' = p[2]) ELSE answers
      /\ session /\ ~pvpgn => listed' \in (IF IsRefresh(p) THEN {p[2], listed}
                                         ELSE IF p = StopAdv THEN {Nothing} ELSE {listed})
  BY <1>1, <1>2, <1>3, SendType, Zenon
<1>5. TypeOK'
  BY <1>1, <1>2, <1>3, <1>4 DEF TypeOK
<1>6. Connections'
  BY <1>1, <1>3, <1>4 DEF IInv, Connections, InLobby
<1>7. Settled'
  <2>1. SUFFICES ASSUME ~pvpgn, session PROVE Leads(listed', Tail(out), Rightful(lobby))
    BY <1>3, <1>4 DEF Settled
  <2>2. Leads(listed, out, Rightful(lobby)) /\ Nothing \in Rightful(lobby)
    BY <2>1 DEF IInv, Settled, Rightful
  <2> QED  BY <1>1, <1>4, <2>1, <2>2, LeadsTail DEF p
<1>8. PrivateToCome'
  <2>1. SUFFICES ASSUME ~pvpgn, session, lobby # NoLobby, ~lobby.public, lobby.told, ~lobby.error
                 PROVE  Promised(listed', Tail(out), answers', lobby.name)
    BY <1>3, <1>4 DEF PrivateToCome, InLobby
  <2>2. Leads(listed, out, {Nothing, lobby.name}) /\ lobby.name \in GameNames
    BY <1>1, <2>1, RightfulNames DEF IInv, Settled, Lobbies
  <2>3. Promised(listed, out, answers, lobby.name)
    BY <2>1 DEF IInv, PrivateToCome, InLobby
  <2>4. Promised(listed', Tail(out),
                 IF IsRefresh(p) THEN Append(answers, listed' = p[2]) ELSE answers, lobby.name)
    <3>1. listed' \in (IF IsRefresh(p) THEN {p[2], listed}
                       ELSE IF p = StopAdv THEN {Nothing} ELSE {listed})
      BY <1>4, <2>1
    <3> QED  BY <1>1, <2>2, <2>3, <3>1, PromisedTail, Zenon DEF p
  <2>5. answers' = IF IsRefresh(p) THEN Append(answers, listed' = p[2]) ELSE answers
    BY <1>4, <2>1, Zenon
  <2> QED  BY <2>4, <2>5, Zenon
<1> QED  BY <1>5, <1>6, <1>7, <1>8 DEF IInv

(* On Battle.net nothing is in the other queue.                            *)
LEMMA SendsSecond ==
  ASSUME IInv, SendSecond
  PROVE  IInv'
<1> DEFINE p == Head(out2)
<1>1. out2 \in Seq(Packets) /\ out2 # <<>> /\ pvpgn \in BOOLEAN /\ TypeOK
  BY DEF IInv, TypeOK, SendSecond
<1>2. p \in Packets /\ Tail(out2) \in Seq(Packets)
  BY <1>1, TailFacts
<1>3. /\ UNCHANGED <<pvpgn, renames, socket, loggedIn, out, lobby, drops>> /\ out2' = Tail(out2)
      /\ Send(p) /\ pvpgn
  BY <1>1 DEF SendSecond, config, IInv, Connections
<1> HIDE DEF p
<1>4. /\ listed' \in GameNames \cup {Nothing} /\ answers' \in Seq(BOOLEAN) /\ session' = session
      /\ ~session => UNCHANGED <<listed, answers>>
  BY <1>1, <1>2, <1>3, SendType, Zenon
<1>5. TypeOK'
  BY <1>1, <1>2, <1>3, <1>4 DEF TypeOK
<1>6. Connections'
  BY <1>3, <1>4 DEF IInv, Connections, InLobby
<1> QED  BY <1>3, <1>5, <1>6 DEF IInv, Settled, PrivateToCome

LEMMA ShiftedReplies ==
  ASSUME NEW replies \in Seq(BOOLEAN), replies # <<>>
  PROVE  /\ Tail(replies) \in Seq(BOOLEAN) /\ Len(Tail(replies)) = Len(replies) - 1
         /\ \A i \in 1 .. Len(Tail(replies)) : Tail(replies)[i] = replies[i + 1]
         /\ Len(replies) \in Nat \ {0} /\ Head(replies) = replies[1]
<1>1. /\ Tail(replies) \in Seq(BOOLEAN) /\ Len(Tail(replies)) = Len(replies) - 1
      /\ \A i \in 1 .. Len(Tail(replies)) : Tail(replies)[i] = replies[i + 1]
  BY HeadTailProperties
<1>2. Len(replies) \in Nat \ {0}
  BY EmptySeq
<1>3. Head(replies) = replies[1]
  OBVIOUS
<1> QED  BY <1>1, <1>2, <1>3

LEMMA Accepts ==
  ASSUME IInv, Accepted
  PROVE  IInv'
<1>1. answers \in Seq(BOOLEAN) /\ answers # <<>> /\ Head(answers) /\ answers' = Tail(answers)
      /\ UNCHANGED <<pvpgn, renames, socket, loggedIn, out, out2, lobby, session, listed, drops>>
  BY DEF IInv, TypeOK, Accepted, config
<1>2. /\ Tail(answers) \in Seq(BOOLEAN) /\ Len(Tail(answers)) = Len(answers) - 1
      /\ \A i \in 1 .. Len(Tail(answers)) : Tail(answers)[i] = answers[i + 1]
      /\ Len(answers) \in Nat \ {0} /\ Head(answers) = answers[1]
  <2>1. answers \in Seq(BOOLEAN) /\ answers # <<>>
    BY <1>1
  <2> QED  BY ONLY <2>1, ShiftedReplies
<1>3. TypeOK'
  BY <1>1, <1>2 DEF IInv, TypeOK
<1>4. Connections' /\ Settled'
  BY <1>1 DEF IInv, Connections, Settled, InLobby
<1>5. ASSUME NEW i \in 1 .. Len(answers), ~answers[i]
      PROVE  \E k \in 1 .. Len(answers') : ~answers'[k]
  <2>1. i # 1
    BY <1>1, <1>2, <1>5
  <2>2. i - 1 \in 1 .. Len(Tail(answers)) /\ (i - 1) + 1 = i
    BY <1>2, <2>1
  <2>3. Tail(answers)[i - 1] = answers[i]
    BY <1>2, <2>2
  <2> QED  BY <1>1, <1>5, <2>2, <2>3
<1>6. PrivateToCome'
  BY <1>1, <1>5 DEF IInv, PrivateToCome, Promised, InLobby
<1> QED  BY <1>3, <1>4, <1>6 DEF IInv

(* What was refused is promised no more: the lobby has an error, or        *)
(* another name.                                                           *)
LEMMA Refuses ==
  ASSUME IInv, Refused
  PROVE  IInv'
<1>1. PICK said \in {out, Said(out, 1), Said(Said(out, 1), 1)}, empty \in BOOLEAN :
         IF ~InLobby THEN UNCHANGED <<out, lobby>>
         ELSE IF renames
           THEN /\ lobby' = [lobby EXCEPT !.name = NextName(@), !.error = FALSE, !.told = FALSE]
                /\ out' = Queued(said, Withdraw)
           ELSE /\ lobby' = [lobby EXCEPT !.error = TRUE, !.exiting = @ \/ empty]
                /\ out' = said
  BY DEF Refused
<1>2. /\ UNCHANGED <<pvpgn, renames, socket, loggedIn, out2, session, listed, drops>>
      /\ answers' = Tail(answers) /\ answers # <<>> /\ loggedIn
  BY DEF Refused, config
<1>3. out \in Seq(Packets) /\ lobby \in Lobbies \cup {NoLobby} /\ answers \in Seq(BOOLEAN)
  BY DEF IInv, TypeOK
<1>4. Tail(answers) \in Seq(BOOLEAN)
  BY <1>2, <1>3, ShiftedReplies
<1>5. Chatted(out, said) /\ said \in Seq(Packets)
  <2>1. Chatted(out, Said(out, 1)) /\ Said(out, 1) \in Seq(Packets)
    BY <1>3, SaidChatted
  <2>2. Chatted(Said(out, 1), Said(Said(out, 1), 1)) /\ Said(Said(out, 1), 1) \in Seq(Packets)
    BY <2>1, SaidChatted
  <2>3. Chatted(out, Said(Said(out, 1), 1))
    BY <1>3, <2>1, <2>2, ChattedOnce
  <2> QED  BY <1>3, <2>1, <2>2, <2>3, ChattedSame
<1>6. /\ lobby' \in Lobbies \cup {NoLobby} /\ out' \in Seq(Packets)
      /\ (lobby' = NoLobby \/ ~lobby'.told \/ lobby'.error) /\ Tells(lobby', out')
  <2>1. CASE ~InLobby
    BY <1>1, <1>3, <2>1, Told DEF InLobby
  <2>2. CASE InLobby /\ renames
    <3>1. lobby' \in Lobbies /\ ~lobby'.told /\ out' = Queued(said, Withdraw)
      BY <1>1, <1>3, <2>2, NextNameType DEF InLobby, Lobbies
    <3> QED  BY <1>5, <3>1, Unnamed
  <2>3. CASE InLobby /\ ~renames
    <3>1. /\ lobby' \in Lobbies /\ lobby'.error = TRUE /\ lobby'.told = lobby.told
          /\ lobby'.name = lobby.name /\ lobby'.public = lobby.public /\ out' = said
      BY <1>1, <1>3, <2>3 DEF InLobby, Lobbies
    <3>2. Tells(lobby', out')
      <4>1. lobby # NoLobby /\ Chatted(out, out')
        BY <1>5, <2>3, <3>1 DEF InLobby
      <4> QED  BY <3>1, <4>1, SameName
    <3> QED  BY <1>5, <3>1, <3>2
  <2> QED  BY <2>1, <2>2, <2>3
<1>7. TypeOK'
  BY <1>2, <1>3, <1>4, <1>6 DEF IInv, TypeOK
<1>8. Connections'
  BY <1>2, <1>6 DEF IInv, Connections, InLobby
<1>9. Settled' /\ PrivateToCome'
  BY <1>2, <1>6 DEF Settled, PrivateToCome, InLobby, Tells
<1> QED  BY <1>7, <1>8, <1>9 DEF IInv

(* A new connection finds nothing to send, and no game in the list.        *)
LEMMA LogsInFresh ==
  ASSUME IInv, TryConnect \/ Connected \/ LogsIn \/ ConnectFails
  PROVE  IInv'
<1>1. TypeOK'
  <2> USE EmptySeq DEF IInv, TypeOK
  <2>1. CASE TryConnect
    BY <2>1 DEF TryConnect, config, server
  <2>2. CASE Connected
    BY <2>2 DEF Connected, config, server
  <2>3. CASE LogsIn
    BY <2>3 DEF LogsIn, config
  <2>4. CASE ConnectFails
    <3>1. drops' \in 0 .. DropBound
      BY <2>4, ListingAssumption DEF ConnectFails
    <3> QED  BY <2>4, <3>1 DEF ConnectFails, config, server
  <2> QED  BY <2>1, <2>2, <2>3, <2>4
<1>2. CASE TryConnect \/ Connected \/ ConnectFails
  <2>1. ~loggedIn /\ ~session
    BY <1>2 DEF IInv, TypeOK, Connections, TryConnect, Connected, ConnectFails
  <2>2. Connections'
    BY <1>2, <2>1 DEF IInv, Connections, TryConnect, Connected, ConnectFails, config, server, InLobby
  <2> QED  BY <1>1, <1>2, <2>1, <2>2
           DEF IInv, Settled, PrivateToCome, TryConnect, Connected, ConnectFails, server
<1>3. CASE LogsIn
  <2>1. /\ UNCHANGED <<pvpgn, renames, socket, out, out2, lobby, listed, answers, drops>>
        /\ loggedIn' = TRUE /\ session' = TRUE
        /\ out = <<>> /\ ~session /\ listed = Nothing /\ (InLobby => ~lobby.told)
    BY <1>3 DEF IInv, Connections, LogsIn, config
  <2>2. Connections'
    BY <2>1 DEF IInv, Connections, InLobby
  <2>3. Leads(listed, out, Rightful(lobby))
    BY <2>1 DEF Leads, Puts, Rightful
  <2> QED  BY <1>1, <2>1, <2>2, <2>3 DEF IInv, Settled, PrivateToCome, InLobby
<1> QED  BY <1>2, <1>3

(* The bot's games go with the connection.                                 *)
LEMMA Loses ==
  ASSUME IInv, ServerDrops \/ NoticesLoss
  PROVE  IInv'
<1>1. TypeOK'
  <2>1. CASE ServerDrops
    <3>1. drops' \in 0 .. DropBound
      BY <2>1, ListingAssumption DEF ServerDrops, IInv, TypeOK
    <3> QED  BY <2>1, <3>1 DEF IInv, TypeOK, ServerDrops, config
  <2>2. CASE NoticesLoss
    <3>1. Untold \in Lobbies \cup {NoLobby}
      BY DEF IInv, TypeOK, Untold, InLobby, Lobbies
    <3> QED  BY <2>2, <3>1, EmptySeq DEF IInv, TypeOK, NoticesLoss, config
  <2> QED  BY <2>1, <2>2
<1>2. ~session'
  BY DEF ServerDrops, NoticesLoss
<1>3. Connections'
  <2>1. CASE ServerDrops
    BY <2>1 DEF IInv, Connections, ServerDrops, config, InLobby
  <2>2. CASE NoticesLoss
    <3>1. lobby' = NoLobby \/ ~lobby'.told
      <4>1. lobby \in Lobbies \cup {NoLobby} /\ lobby' = Untold
        BY <2>2 DEF IInv, TypeOK, NoticesLoss
      <4> QED  BY <4>1 DEF Untold, InLobby, Lobbies
    <3> QED  BY <2>2, <3>1 DEF IInv, Connections, NoticesLoss, config, InLobby
  <2> QED  BY <2>1, <2>2
<1> QED  BY <1>1, <1>2, <1>3 DEF IInv, Settled, PrivateToCome

-----------------------------------------------------------------------------
LEMMA StartIInv == Init => IInv
<1> SUFFICES ASSUME Init PROVE IInv
  OBVIOUS
<1>1. TypeOK
  <2>1. drops \in 0 .. DropBound
    BY ListingAssumption DEF Init
  <2>2. <<>> \in Seq(Packets) /\ <<>> \in Seq(BOOLEAN)
    BY EmptySeq
  <2> QED  BY <2>1, <2>2 DEF Init, TypeOK
<1> QED  BY <1>1 DEF Init, IInv, Connections, Settled, PrivateToCome, InLobby

LEMMA NextIInv == IInv /\ [Next]_vars => IInv'
<1> SUFFICES ASSUME IInv, [Next]_vars PROVE IInv'
  OBVIOUS
<1>1. CASE Users
  BY <1>1, Creates, RehostsPublic, RehostsPrivate, Marks, Talks DEF Users
<1>2. CASE Sending
  BY <1>2, SendsFirst, SendsSecond, Accepts, Refuses DEF Sending
<1>3. CASE Connection
  BY <1>3, LogsInFresh, Loses DEF Connection
<1>4. CASE Refresh \/ AutoRehost \/ LobbyEnds
  BY <1>4, Refreshes, AutoRehosts, Ends
<1>5. CASE ServerDrops \/ ConnectFails
  BY <1>5, Loses, LogsInFresh
<1>6. CASE UNCHANGED vars
  BY <1>6 DEF vars, IInv, TypeOK, Connections, Settled, PrivateToCome, InLobby
<1> QED  BY <1>1, <1>2, <1>3, <1>4, <1>5, <1>6 DEF Next

LEMMA AlwaysIInv == Spec => []IInv
<1> QED  BY StartIInv, NextIInv, PTL DEF Spec

(* Both queues hold packets, the answers are answers and the lobby is one, *)
(* whatever the names, the bounds and the kind of server (bnet.cpp).       *)
THEOREM TypeCorrect == Spec => []TypeOK
<1>1. IInv => TypeOK
  BY DEF IInv
<1> QED  BY <1>1, AlwaysIInv, PTL

(* On Battle.net no game that is gone, or has another name by now, is left *)
(* in the list when everything is sent: each rehost, refusal and end puts  *)
(* a withdrawal behind the advertisements that came before it              *)
(* (game.cpp 5033-5041, game_base.cpp 5854-5860, ghost.cpp 1652-1656).     *)
THEOREM OnlyTheLobbyIsListed == Spec => []OnlyLobbyListed
<1>1. IInv => OnlyLobbyListed
  <2> SUFFICES ASSUME IInv, ~pvpgn, AllSent
               PROVE  listed \in {Nothing} \cup {l.name : l \in {lobby} \ {NoLobby}}
    BY DEF OnlyLobbyListed
  <2>1. Leads(listed, out, Rightful(lobby)) /\ out = <<>>
    BY DEF IInv, Settled, AllSent
  <2>2. ~StopsAfter(<<>>, 0)
    BY DEF StopsAfter
  <2> QED  BY <2>1, <2>2 DEF Leads, Rightful
<1> QED  BY <1>1, AlwaysIInv, PTL

(* On Battle.net a private game, which is advertised once, is in the list  *)
(* when everything is sent, if the name was not refused and the connection *)
(* was not lost since: nothing that is queued later withdraws it, and      *)
(* everything that might was queued before (game.cpp 5033-5047).           *)
THEOREM PrivateGamesAreListed == Spec => []PrivateAdvertisedThere
<1>1. IInv => PrivateAdvertisedThere
  <2> SUFFICES ASSUME IInv, ~pvpgn, AllSent, InLobby, ~lobby.public, lobby.told, ~lobby.error
               PROVE  listed = lobby.name
    BY DEF PrivateAdvertisedThere, PrivateAdvertised
  <2>1. Promised(listed, <<>>, <<>>, lobby.name)
    BY DEF IInv, PrivateToCome, AllSent
  <2> QED  BY <2>1 DEF Promised
<1> QED  BY <1>1, AlwaysIInv, PTL

=============================================================================
