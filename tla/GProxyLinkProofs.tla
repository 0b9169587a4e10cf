-------------------------- MODULE GProxyLinkProofs ---------------------------
(***************************************************************************)
(* Without load-in-game the link of a GProxy++ player is a pair of reliable*)
(* channels, for any number of packets, connections and losses, and with   *)
(* acknowledgements, requests and answers that are late or lost.           *)
(***************************************************************************)
EXTENDS GProxyLink, SequenceTheorems, TLAPS

\* the indices of the packets in a stream
DataAt(q) == {j \in 1 .. Len(q) : q[j][1] = "data"}

Holds(q, n) == \E j \in 1 .. Len(q) : q[j] = Data(n)

\* the packets in the stream q follow packet lo one by one and do not go
\* beyond packet hi
InOrder(q, lo, hi) ==
  /\ \A j \in DataAt(q) : q[j][2] \in lo + 1 .. hi
  /\ \A i, j \in DataAt(q) : i < j => q[i][2] < q[j][2]
  /\ \A j \in DataAt(q) : \A n \in lo + 1 .. q[j][2] : Holds(q, n)

\* they go up to packet hi
Complete(q, lo, hi) == InOrder(q, lo, hi) /\ \A n \in lo + 1 .. hi : Holds(q, n)

\* the buffer keeps the last of total packets
KeepsLast(buffer, total) ==
  /\ Len(buffer) <= total
  /\ \A j \in 1 .. Len(buffer) : buffer[j] = total - Len(buffer) + j

\* what the two ends have got
Counted ==
  /\ shown = Numbered(Len(shown)) /\ Len(shown) <= Len(said)
  /\ heard = Numbered(Len(heard)) /\ Len(heard) <= local
  /\ Len(heard) >= 1

\* what is on the way to the client: all it has not got, and the answer to
\* its request first
DownStream ==
  /\ Attached => Complete(down, Len(shown), Len(said))
  /\ \A j \in 1 .. Len(down) :
       /\ down[j][1] = "ack" => down[j][2] <= Len(heard)
       /\ down[j][1] = "reconnect" => j = 1 /\ ~synced /\ down[j][2] = Len(heard)

\* what is on the way to the bot: its own socket may carry less than the bot
\* has not got, the other connections carry no packets at all
UpStreams ==
  /\ InOrder(lines[1], Len(heard), local)
  /\ Attached /\ synced => Complete(lines[1], Len(heard), local)
  /\ Attached /\ ~synced => DataAt(lines[1]) = {}
  /\ \A i \in 2 .. Len(lines) : DataAt(lines[i]) = {}
  /\ \A i \in 1 .. Len(lines) : \A j \in 1 .. Len(lines[i]) :
       lines[i][j][1] \in {"ack", "reconnect"} => lines[i][j][2] <= Len(shown)
  /\ connected /\ Len(lines) > 1 =>
       ~synced /\ lines[Len(lines)] # <<>> /\ Head(lines[Len(lines)]) = Reconnect(Len(shown))

\* what the two ends keep
Buffers ==
  /\ KeepsLast(pbuffer, local) /\ local - Len(pbuffer) <= Len(heard)
  /\ KeepsLast(gbuffer, Len(said))
  /\ loaded => \/ Len(said) - Len(gbuffer) <= Len(shown)
               \/ \A n \in 1 .. Len(said) - Len(gbuffer) : said[n] # "update"
  /\ ~loaded => gbuffer = <<>> /\ \A n \in 1 .. Len(said) : said[n] # "update"

\* before the handshake the request for it precedes the packets of the game
Handshake ==
  /\ loaded => gproxy
  /\ ~gproxy =>
       /\ Len(heard) = 1
       /\ shown # <<>> => \E i \in 1 .. Len(lines[1]) : lines[1][i] = InitMsg
       /\ \A j \in DataAt(lines[1]) : \E i \in 1 .. j - 1 : lines[1][i] = InitMsg
       /\ \A j \in 1 .. Len(down) : down[j][1] # "reconnect"

\* a client without the bot's own socket is one that may come back
Returning == ~gone /\ ~Attached => Protected

LinkInv == TypeOK /\ Counted /\ DownStream /\ UpStreams /\ Buffers /\ Handshake /\ Returning

-----------------------------------------------------------------------------
(* Streams.                                                                *)

LEMMA HoldsTail ==
  ASSUME NEW q \in Seq(Msgs), q # <<>>, NEW n \in Nat, Holds(q, n), Head(q) # Data(n)
  PROVE  Holds(Tail(q), n)
<1>1. PICK j \in 1 .. Len(q) : q[j] = Data(n)
  BY DEF Holds
<1>2. j # 1
  BY <1>1
<1>3. j - 1 \in 1 .. Len(Tail(q)) /\ Tail(q)[j - 1] = q[j]
  BY <1>2, HeadTailProperties, LenProperties
<1> QED  BY <1>1, <1>3 DEF Holds

LEMMA DataTail ==
  ASSUME NEW q \in Seq(Msgs), q # <<>>, NEW j \in DataAt(Tail(q))
  PROVE  j + 1 \in DataAt(q) /\ j + 1 > 1 /\ Tail(q)[j] = q[j + 1] /\ j \in Nat
BY HeadTailProperties, LenProperties DEF DataAt

(* Something other than a packet is read.                                  *)
LEMMA ReadOther ==
  ASSUME NEW q \in Seq(Msgs), q # <<>>, Head(q)[1] # "data", NEW lo \in Nat, NEW hi \in Nat
  PROVE  /\ InOrder(q, lo, hi) => InOrder(Tail(q), lo, hi)
         /\ Complete(q, lo, hi) => Complete(Tail(q), lo, hi)
<1>1. \A n \in Nat : Holds(q, n) => Holds(Tail(q), n)
  BY HoldsTail DEF Data
<1>2. ASSUME InOrder(q, lo, hi) PROVE InOrder(Tail(q), lo, hi)
  <2>1. ASSUME NEW j \in DataAt(Tail(q))
        PROVE  /\ Tail(q)[j][2] \in lo + 1 .. hi
               /\ \A n \in lo + 1 .. Tail(q)[j][2] : Holds(Tail(q), n)
    <3>1. j + 1 \in DataAt(q) /\ Tail(q)[j] = q[j + 1]
      BY <2>1, DataTail
    <3>2. q[j + 1][2] \in lo + 1 .. hi /\ \A n \in lo + 1 .. q[j + 1][2] : Holds(q, n)
      BY <1>2, <3>1 DEF InOrder
    <3>3. \A n \in lo + 1 .. q[j + 1][2] : n \in Nat
      BY <3>2
    <3> QED  BY <1>1, <3>1, <3>2, <3>3
  <2>2. ASSUME NEW i \in DataAt(Tail(q)), NEW j \in DataAt(Tail(q)), i < j
        PROVE  Tail(q)[i][2] < Tail(q)[j][2]
    <3>1. \A k \in DataAt(Tail(q)) : k \in Nat /\ k + 1 \in DataAt(q) /\ Tail(q)[k] = q[k + 1]
      BY DataTail
    <3>2. i + 1 < j + 1
      BY <2>2, <3>1
    <3>3. i + 1 \in DataAt(q) /\ j + 1 \in DataAt(q)
      BY <3>1
    <3> QED  BY <1>2, <3>1, <3>2, <3>3 DEF InOrder
  <2> QED  BY <2>1, <2>2 DEF InOrder
<1> QED  BY <1>1, <1>2 DEF Complete

(* The packet that is read is the next one.                                *)
LEMMA ReadData ==
  ASSUME NEW q \in Seq(Msgs), q # <<>>, Head(q)[1] = "data", NEW lo \in Nat, NEW hi \in Nat,
         InOrder(q, lo, hi)
  PROVE  /\ Head(q)[2] = lo + 1 /\ lo + 1 <= hi
         /\ InOrder(Tail(q), lo + 1, hi)
         /\ Complete(q, lo, hi) => Complete(Tail(q), lo + 1, hi)
<1>1. 1 \in DataAt(q) /\ Head(q) = q[1] /\ Len(q) \in Nat
  BY EmptySeq, LenProperties DEF DataAt
<1>2. q[1][2] \in lo + 1 .. hi /\ Holds(q, lo + 1)
  BY <1>1 DEF InOrder
<1>3. PICK k \in 1 .. Len(q) : q[k] = Data(lo + 1)
  BY <1>2 DEF Holds
<1>4. k \in DataAt(q) /\ q[k][2] = lo + 1
  BY <1>3 DEF DataAt, Data
<1>5. k = 1
  <2> SUFFICES ASSUME 1 < k PROVE FALSE
    BY <1>1
  <2>1. q[1][2] < q[k][2]
    BY <1>1, <1>4 DEF InOrder
  <2> QED  BY <2>1, <1>2, <1>4
<1>6. q[1][2] = lo + 1 /\ lo + 1 <= hi
  BY <1>2, <1>4, <1>5
<1>7. ASSUME NEW n \in lo + 2 .. hi, Holds(q, n) PROVE Holds(Tail(q), n)
  BY <1>1, <1>6, <1>7, HoldsTail DEF Data
<1>8. ASSUME NEW j \in DataAt(Tail(q))
      PROVE  /\ Tail(q)[j][2] \in lo + 2 .. hi
             /\ \A n \in lo + 2 .. Tail(q)[j][2] : Holds(Tail(q), n)
  <2>1. j + 1 \in DataAt(q) /\ 1 < j + 1 /\ Tail(q)[j] = q[j + 1]
    BY <1>8, DataTail
  <2>2. q[j + 1][2] \in lo + 1 .. hi /\ q[1][2] < q[j + 1][2]
    BY <1>1, <2>1 DEF InOrder
  <2>3. \A n \in lo + 1 .. q[j + 1][2] : Holds(q, n)
    BY <2>1 DEF InOrder
  <2>4. q[j + 1][2] \in lo + 2 .. hi
    BY <1>6, <2>2
  <2>5. \A n \in lo + 2 .. q[j + 1][2] : Holds(Tail(q), n)
    BY <1>7, <2>3, <2>4
  <2> QED  BY <2>1, <2>4, <2>5
<1>9. ASSUME NEW i \in DataAt(Tail(q)), NEW j \in DataAt(Tail(q)), i < j
      PROVE  Tail(q)[i][2] < Tail(q)[j][2]
  <2>1. \A m \in DataAt(Tail(q)) : m \in Nat /\ m + 1 \in DataAt(q) /\ Tail(q)[m] = q[m + 1]
    BY DataTail
  <2>2. i + 1 < j + 1
    BY <1>9, <2>1
  <2>3. i + 1 \in DataAt(q) /\ j + 1 \in DataAt(q)
    BY <2>1
  <2> QED  BY <2>1, <2>2, <2>3 DEF InOrder
<1>10. InOrder(Tail(q), lo + 1, hi)
  <2>1. lo + 1 + 1 = lo + 2
    OBVIOUS
  <2> QED  BY <1>8, <1>9, <2>1 DEF InOrder
<1> QED  BY <1>1, <1>6, <1>7, <1>10 DEF Complete

(* Something other than a packet is written.                               *)
LEMMA WriteOther ==
  ASSUME NEW q \in Seq(Msgs), NEW m \in Msgs, m[1] # "data", NEW lo \in Nat, NEW hi \in Nat
  PROVE  /\ DataAt(q \o <<m>>) = DataAt(q)
         /\ InOrder(q, lo, hi) => InOrder(q \o <<m>>, lo, hi)
         /\ Complete(q, lo, hi) => Complete(q \o <<m>>, lo, hi)
<1>1. /\ Len(q) \in Nat /\ Len(q \o <<m>>) = Len(q) + 1
      /\ \A j \in 1 .. Len(q) : (q \o <<m>>)[j] = q[j]
      /\ (q \o <<m>>)[Len(q) + 1] = m
  OBVIOUS
<1>2. DataAt(q \o <<m>>) = DataAt(q)
  BY <1>1 DEF DataAt
<1>3. \A n : Holds(q, n) => Holds(q \o <<m>>, n)
  BY <1>1 DEF Holds
<1>4. \A j \in DataAt(q) : (q \o <<m>>)[j] = q[j]
  BY <1>1 DEF DataAt
<1>5. ASSUME InOrder(q, lo, hi) PROVE InOrder(q \o <<m>>, lo, hi)
  <2> DEFINE r == q \o <<m>>
  <2>1. DataAt(r) = DataAt(q) /\ \A j \in DataAt(r) : r[j] = q[j]
    BY <1>2, <1>4
  <2>2. \A n : Holds(q, n) => Holds(r, n)
    BY <1>3
  <2> HIDE DEF r
  <2>3. \A j \in DataAt(r) : r[j][2] \in lo + 1 .. hi
    BY <1>5, <2>1 DEF InOrder
  <2>4. \A i, j \in DataAt(r) : i < j => r[i][2] < r[j][2]
    BY <1>5, <2>1 DEF InOrder
  <2>5. \A j \in DataAt(r) : \A n \in lo + 1 .. r[j][2] : Holds(r, n)
    BY <1>5, <2>1, <2>2 DEF InOrder
  <2> QED  BY <2>3, <2>4, <2>5 DEF InOrder, r
<1> QED  BY <1>2, <1>3, <1>5 DEF Complete

(* One more packet is written to a stream that has all before it.          *)
LEMMA WriteData ==
  ASSUME NEW q \in Seq(Msgs), NEW lo \in Nat, NEW hi \in Nat, lo <= hi, Complete(q, lo, hi)
  PROVE  Complete(q \o <<Data(hi + 1)>>, lo, hi + 1)
<1> DEFINE r == q \o <<Data(hi + 1)>>
<1>1. /\ Len(q) \in Nat /\ Len(r) = Len(q) + 1
      /\ \A j \in 1 .. Len(q) : r[j] = q[j]
      /\ r[Len(q) + 1] = Data(hi + 1)
  BY DEF Data, Msgs
<1>2. Data(hi + 1)[1] = "data" /\ Data(hi + 1)[2] = hi + 1
  BY DEF Data
<1> HIDE DEF r
<1>3. DataAt(r) = DataAt(q) \cup {Len(q) + 1}
  BY <1>1, <1>2 DEF DataAt
<1>4. \A n \in lo + 1 .. hi + 1 : Holds(r, n)
  <2>1. \A n \in lo + 1 .. hi : Holds(r, n)
    BY <1>1 DEF Complete, Holds
  <2>2. Holds(r, hi + 1)
    BY <1>1 DEF Holds
  <2> QED  BY <2>1, <2>2
<1>5. \A j \in DataAt(q) : j \in 1 .. Len(q) /\ r[j] = q[j] /\ q[j][2] \in lo + 1 .. hi
  BY <1>1 DEF DataAt, Complete, InOrder
<1>6. ASSUME NEW j \in DataAt(r)
      PROVE  r[j][2] \in lo + 1 .. hi + 1 /\ \A n \in lo + 1 .. r[j][2] : Holds(r, n)
  BY <1>1, <1>2, <1>3, <1>4, <1>5
<1>7. ASSUME NEW i \in DataAt(r), NEW j \in DataAt(r), i < j
      PROVE  r[i][2] < r[j][2]
  <2>1. i \in DataAt(q)
    BY <1>1, <1>3, <1>5, <1>7
  <2>2. CASE j \in DataAt(q)
    BY <1>5, <1>7, <2>1, <2>2 DEF Complete, InOrder
  <2>3. CASE j = Len(q) + 1
    BY <1>1, <1>2, <1>5, <2>1, <2>3
  <2> QED  BY <1>3, <2>2, <2>3
<1> QED  BY <1>4, <1>6, <1>7 DEF Complete, InOrder, r

(* The sender may be ahead of the stream.                                  *)
LEMMA Ahead ==
  ASSUME NEW q, NEW lo \in Nat, NEW hi \in Nat, InOrder(q, lo, hi)
  PROVE  InOrder(q, lo, hi + 1)
BY DEF InOrder

(* What is kept is written to a stream that has no packets.                *)
LEMMA WriteKept ==
  ASSUME NEW q \in Seq(Msgs), DataAt(q) = {}, NEW buffer \in Seq(Nat), NEW total \in Nat,
         KeepsLast(buffer, total)
  PROVE  Complete(q \o DataOf(buffer), total - Len(buffer), total)
<1> DEFINE r == q \o DataOf(buffer)
           lo == total - Len(buffer)
<1>1. /\ Len(buffer) \in Nat /\ Len(buffer) <= total
      /\ \A j \in 1 .. Len(buffer) : buffer[j] = total - Len(buffer) + j
  BY DEF KeepsLast
<1>2. lo \in Nat /\ lo + Len(buffer) = total
  BY <1>1
<1>3. DataOf(buffer) \in Seq(Msgs) /\ Len(DataOf(buffer)) = Len(buffer)
  BY <1>1 DEF DataOf, Data, Msgs
<1>4. \A j \in 1 .. Len(buffer) : DataOf(buffer)[j] = Data(lo + j)
  BY <1>1 DEF DataOf
<1>5. /\ Len(q) \in Nat /\ Len(r) = Len(q) + Len(buffer)
      /\ \A j \in 1 .. Len(q) : r[j] = q[j]
      /\ \A j \in Len(q) + 1 .. Len(r) : r[j] = DataOf(buffer)[j - Len(q)]
  <2>1. Len(q) \in Nat
    BY LenProperties
  <2>2. /\ Len(r) = Len(q) + Len(buffer)
        /\ \A i \in 1 .. Len(q) + Len(buffer) :
             r[i] = IF i <= Len(q) THEN q[i] ELSE DataOf(buffer)[i - Len(q)]
    BY <1>3, ConcatProperties
  <2> HIDE DEF r
  <2> QED  BY <1>1, <2>1, <2>2
<1>6. \A j \in Len(q) + 1 .. Len(r) : r[j] = Data(lo + (j - Len(q)))
  <2> SUFFICES ASSUME NEW j \in Len(q) + 1 .. Len(r) PROVE r[j] = Data(lo + (j - Len(q)))
    OBVIOUS
  <2> HIDE DEF r, lo
  <2>1. j - Len(q) \in 1 .. Len(buffer)
    BY <1>1, <1>5
  <2> QED  BY <1>4, <1>5, <2>1
<1> HIDE DEF r, lo
<1>7. DataAt(r) = Len(q) + 1 .. Len(r)
  <2>1. \A j \in 1 .. Len(q) : r[j][1] # "data"
    BY <1>5 DEF DataAt
  <2>2. \A j \in Len(q) + 1 .. Len(r) : r[j][1] = "data"
    BY <1>6 DEF Data
  <2> QED  BY <1>1, <1>5, <2>1, <2>2 DEF DataAt
<1>8. \A j \in DataAt(r) : j \in Nat /\ r[j][2] = lo + (j - Len(q))
  BY <1>1, <1>5, <1>6, <1>7 DEF Data
<1>9. \A n \in lo + 1 .. total : Holds(r, n)
  <2> SUFFICES ASSUME NEW n \in lo + 1 .. total PROVE Holds(r, n)
    OBVIOUS
  <2>1. Len(q) + (n - lo) \in Len(q) + 1 .. Len(r)
    BY <1>1, <1>2, <1>5
  <2>2. r[Len(q) + (n - lo)] = Data(n)
    <3> DEFINE j == Len(q) + (n - lo)
    <3>1. lo + (j - Len(q)) = n
      BY <1>2, <1>5
    <3>2. j \in Len(q) + 1 .. Len(r)
      BY <2>1
    <3> HIDE DEF j
    <3>3. r[j] = Data(n)
      BY <1>6, <3>1, <3>2
    <3> QED  BY <3>3 DEF j
  <2> QED  BY <1>5, <2>1, <2>2 DEF Holds
<1>10. \A j \in DataAt(r) : r[j][2] \in lo + 1 .. total
  BY <1>1, <1>2, <1>5, <1>7, <1>8
<1>11. \A i, j \in DataAt(r) : i < j => r[i][2] < r[j][2]
  BY <1>2, <1>5, <1>7, <1>8
<1>12. \A j \in DataAt(r) : \A n \in lo + 1 .. r[j][2] : Holds(r, n)
  BY <1>2, <1>9, <1>10
<1> QED  BY <1>9, <1>10, <1>11, <1>12 DEF Complete, InOrder, r, lo

(* A stream without packets is in order wherever the sender stands.        *)
LEMMA NoData ==
  ASSUME NEW q, DataAt(q) = {}, NEW lo, NEW hi
  PROVE  InOrder(q, lo, hi)
BY DEF InOrder

-----------------------------------------------------------------------------
(* Buffers.                                                                *)

LEMMA UnqueueKeeps ==
  ASSUME NEW buffer \in Seq(Nat), NEW total \in Nat, NEW last \in Nat,
         KeepsLast(buffer, total), last <= total
  PROVE  /\ Unqueue(buffer, total, last) \in Seq(Nat)
         /\ KeepsLast(Unqueue(buffer, total, last), total)
         /\ IF last > total - Len(buffer)
            THEN total - Len(Unqueue(buffer, total, last)) = last
            ELSE Unqueue(buffer, total, last) = buffer
<1> DEFINE k == last - (total - Len(buffer))
<1>1. /\ Len(buffer) \in Nat /\ Len(buffer) <= total
      /\ \A j \in 1 .. Len(buffer) : buffer[j] = total - Len(buffer) + j
  BY DEF KeepsLast
<1>2. CASE last > total - Len(buffer)
  <2>1. k \in 1 .. Len(buffer) /\ total - Len(buffer) + k = last
    BY <1>1, <1>2
  <2> DEFINE r == SubSeq(buffer, k + 1, Len(buffer))
  <2>2. Unqueue(buffer, total, last) = r
    BY <1>2 DEF Unqueue
  <2> HIDE DEF k
  <2>3. /\ r \in Seq(Nat) /\ Len(r) = Len(buffer) - k
        /\ \A j \in 1 .. Len(buffer) - k : r[j] = buffer[j + k]
    BY <1>1, <2>1
  <2> HIDE DEF r
  <2>4. \A j \in 1 .. Len(r) : r[j] = last + j
    <3> SUFFICES ASSUME NEW j \in 1 .. Len(r) PROVE r[j] = last + j
      OBVIOUS
    <3>1. j \in 1 .. Len(buffer) - k /\ j + k \in 1 .. Len(buffer)
      BY <1>1, <2>1, <2>3
    <3>2. r[j] = buffer[j + k]
      BY <2>3, <3>1
    <3>3. buffer[j + k] = total - Len(buffer) + (j + k)
      BY <1>1, <3>1
    <3>4. j \in Nat /\ k \in Nat /\ total - Len(buffer) \in Nat
      BY <1>1, <2>1, <3>1
    <3>5. total - Len(buffer) + (j + k) = last + j
      BY <2>1, <3>4
    <3> QED  BY <3>2, <3>3, <3>5
  <2>5. total - Len(r) = last
    BY <1>1, <2>1, <2>3
  <2>6. Len(r) <= total /\ \A j \in 1 .. Len(r) : r[j] = total - Len(r) + j
    <3>1. Len(r) \in Nat
      BY <2>3, LenProperties
    <3>2. Len(r) <= total /\ total - Len(r) = last
      BY <1>1, <2>5, <3>1
    <3> QED  BY <2>4, <3>2
  <2> QED  BY <1>2, <2>2, <2>3, <2>5, <2>6 DEF KeepsLast
<1>3. CASE ~(last > total - Len(buffer))
  BY <1>3 DEF Unqueue
<1> QED  BY <1>2, <1>3

LEMMA AppendKeeps ==
  ASSUME NEW buffer \in Seq(Nat), NEW total \in Nat, KeepsLast(buffer, total)
  PROVE  /\ Append(buffer, total + 1) \in Seq(Nat)
         /\ KeepsLast(Append(buffer, total + 1), total + 1)
         /\ total + 1 - Len(Append(buffer, total + 1)) = total - Len(buffer)
<1> DEFINE r == Append(buffer, total + 1)
<1>1. /\ r \in Seq(Nat) /\ Len(r) = Len(buffer) + 1 /\ r[Len(buffer) + 1] = total + 1
      /\ \A j \in 1 .. Len(buffer) : r[j] = buffer[j]
  BY AppendProperties
<1> HIDE DEF r
<1>2. Len(buffer) \in Nat
  BY LenProperties
<1>3. Len(r) <= total + 1 /\ total + 1 - Len(r) = total - Len(buffer)
  BY <1>1, <1>2 DEF KeepsLast
<1>4. \A j \in 1 .. Len(r) : r[j] = total + 1 - Len(r) + j
  BY <1>1, <1>2 DEF KeepsLast
<1> QED  BY <1>1, <1>3, <1>4 DEF KeepsLast, r

(* The packets got, one more.                                              *)
LEMMA OneMore ==
  ASSUME NEW got \in Seq(Nat), got = Numbered(Len(got))
  PROVE  /\ Append(got, Len(got) + 1) = Numbered(Len(got) + 1)
         /\ Len(Append(got, Len(got) + 1)) = Len(got) + 1
<1>1. Len(got) \in Nat
  BY LenProperties
<1>2. /\ Append(got, Len(got) + 1) \in Seq(Nat)
      /\ Len(Append(got, Len(got) + 1)) = Len(got) + 1
      /\ \A i \in 1 .. Len(got) : Append(got, Len(got) + 1)[i] = got[i]
      /\ Append(got, Len(got) + 1)[Len(got) + 1] = Len(got) + 1
  BY <1>1, AppendProperties
<1>3. \A i \in 1 .. Len(got) : got[i] = i
  BY DEF Numbered
<1>4. /\ Numbered(Len(got) + 1) \in Seq(Nat)
      /\ Len(Numbered(Len(got) + 1)) = Len(got) + 1
      /\ \A i \in 1 .. Len(got) + 1 : Numbered(Len(got) + 1)[i] = i
  BY <1>1 DEF Numbered
<1>5. \A i \in 1 .. Len(got) + 1 : Append(got, Len(got) + 1)[i] = Numbered(Len(got) + 1)[i]
  BY <1>1, <1>2, <1>3, <1>4
<1> QED  BY <1>2, <1>4, <1>5, SeqEqual

-----------------------------------------------------------------------------
(* The lines.                                                              *)

LEMMA MsgTypes ==
  ASSUME NEW n \in Nat
  PROVE  /\ Data(n) \in Msgs /\ Ack(n) \in Msgs /\ Reconnect(n) \in Msgs
         /\ InitMsg \in Msgs /\ LeaveMsg \in Msgs
BY DEF Data, Ack, Reconnect, InitMsg, LeaveMsg, Msgs

LEMMA DataOfType ==
  ASSUME NEW packets \in Seq(Nat)
  PROVE  DataOf(packets) \in Seq(Msgs)
BY DEF DataOf, Data, Msgs

LEMMA LineTypes ==
  ASSUME TypeOK
  PROVE  /\ Len(lines) \in Nat /\ Len(lines) >= 1
         /\ Head(lines) = lines[1]
         /\ \A i \in 1 .. Len(lines) : lines[i] \in Seq(Msgs)
BY EmptySeq, LenProperties DEF TypeOK

LEMMA WriteUp ==
  ASSUME TypeOK, NEW msgs \in Seq(Msgs)
  PROVE  /\ Up(msgs) \in Seq(Seq(Msgs)) /\ Len(Up(msgs)) = Len(lines) /\ Up(msgs) # <<>>
         /\ Up(msgs)[Len(lines)] = lines[Len(lines)] \o msgs
         /\ \A i \in 1 .. Len(lines) : i # Len(lines) => Up(msgs)[i] = lines[i]
<1>1. Len(lines) \in 1 .. Len(lines) /\ lines \in Seq(Seq(Msgs))
  BY LineTypes DEF TypeOK
<1>2. lines[Len(lines)] \o msgs \in Seq(Msgs)
  BY <1>1, LineTypes, ConcatProperties
<1>3. /\ Up(msgs) \in Seq(Seq(Msgs)) /\ Len(Up(msgs)) = Len(lines)
      /\ \A i \in 1 .. Len(lines) :
           Up(msgs)[i] = IF i = Len(lines) THEN lines[Len(lines)] \o msgs ELSE lines[i]
  BY <1>1, <1>2, ExceptSeq DEF Up
<1> DEFINE up == Up(msgs)
<1> HIDE DEF up
<1>4. Len(up) # 0 => up # <<>>
  BY EmptySeq
<1>5. up # <<>>
  BY <1>3, <1>4, LineTypes DEF up
<1>6. up[Len(lines)] = lines[Len(lines)] \o msgs
  BY <1>1, <1>3 DEF up
<1> QED  BY <1>3, <1>5, <1>6 DEF up

\* the bot's socket is read
LEMMA ReadLine ==
  ASSUME TypeOK, Head(lines) # <<>>
  PROVE  LET read == [lines EXCEPT ![1] = Tail(lines[1])] IN
         /\ lines[1] # <<>> /\ Head(Head(lines)) = Head(lines[1]) /\ Head(lines[1]) \in Msgs
         /\ read \in Seq(Seq(Msgs)) /\ Len(read) = Len(lines) /\ read # <<>>
         /\ read[1] = Tail(lines[1])
         /\ \A i \in 2 .. Len(lines) : read[i] = lines[i]
<1>1. /\ 1 \in 1 .. Len(lines) /\ lines \in Seq(Seq(Msgs)) /\ lines[1] # <<>>
      /\ lines[1] \in Seq(Msgs) /\ Head(lines) = lines[1]
  BY LineTypes DEF TypeOK
<1>2. Tail(lines[1]) \in Seq(Msgs) /\ Head(lines[1]) \in Msgs
  BY <1>1, HeadTailProperties
<1> DEFINE read == [lines EXCEPT ![1] = Tail(lines[1])]
<1>3. /\ read \in Seq(Seq(Msgs)) /\ Len(read) = Len(lines)
      /\ \A i \in 1 .. Len(lines) : read[i] = IF i = 1 THEN Tail(lines[1]) ELSE lines[i]
  BY <1>1, <1>2, ExceptSeq
<1>4. read # <<>>
  BY <1>1, <1>3, LineTypes, EmptySeq
<1> HIDE DEF read
<1>5. read[1] = Tail(lines[1]) /\ \A i \in 2 .. Len(lines) : read[i] = lines[i]
  BY <1>1, <1>3, LineTypes
<1> QED  BY <1>1, <1>2, <1>3, <1>4, <1>5 DEF read

\* a new connection is the last
LEMMA NewLine ==
  ASSUME TypeOK, NEW line \in Seq(Msgs)
  PROVE  /\ Append(lines, line) \in Seq(Seq(Msgs)) /\ Append(lines, line) # <<>>
         /\ Len(Append(lines, line)) = Len(lines) + 1
         /\ Append(lines, line)[Len(lines) + 1] = line
         /\ \A i \in 1 .. Len(lines) : Append(lines, line)[i] = lines[i]
<1>1. lines \in Seq(Seq(Msgs))
  BY DEF TypeOK
<1> QED  BY <1>1, AppendProperties

LEMMA RestOfLines ==
  ASSUME TypeOK, NEW i \in 1 .. Len(lines)
  PROVE  LET rest == SubSeq(lines, i + 1, Len(lines)) IN
         /\ rest \in Seq(Seq(Msgs)) /\ Len(rest) = Len(lines) - i
         /\ \A j \in 1 .. Len(lines) - i : rest[j] = lines[i + j]
<1> DEFINE rest == SubSeq(lines, i + 1, Len(lines))
<1>1. Len(lines) \in Nat /\ i \in Nat /\ \A j \in i + 1 .. Len(lines) : lines[j] \in Seq(Msgs)
  BY LineTypes
<1>2. /\ rest \in Seq(Seq(Msgs))
      /\ Len(rest) = IF i + 1 <= Len(lines) THEN Len(lines) - (i + 1) + 1 ELSE 0
      /\ \A j \in 1 .. Len(lines) - (i + 1) + 1 : rest[j] = lines[i + 1 + j - 1]
  BY <1>1, SubSeqProperties
<1> HIDE DEF rest
<1>3. Len(rest) = Len(lines) - i
  BY <1>1, <1>2
<1>4. ASSUME NEW j \in 1 .. Len(lines) - i PROVE rest[j] = lines[i + j]
  <2>1. j \in 1 .. Len(lines) - (i + 1) + 1 /\ i + 1 + j - 1 = i + j
    BY <1>1
  <2> QED  BY <1>2, <2>1
<1> QED  BY <1>2, <1>3, <1>4 DEF rest

\* the bot takes over the connection i
LEMMA TakeLine ==
  ASSUME TypeOK, NEW i \in 2 .. Len(lines), lines[i] # <<>>
  PROVE  LET taken == <<Tail(lines[i])>> \o SubSeq(lines, i + 1, Len(lines)) IN
         /\ taken \in Seq(Seq(Msgs)) /\ Len(taken) = Len(lines) - i + 1 /\ taken # <<>>
         /\ taken[1] = Tail(lines[i])
         /\ \A j \in 2 .. Len(taken) : i + j - 1 \in 2 .. Len(lines) /\ taken[j] = lines[i + j - 1]
<1> DEFINE rest == SubSeq(lines, i + 1, Len(lines))
           first == <<Tail(lines[i])>>
           taken == first \o rest
<1>1. Len(lines) \in Nat /\ i \in Nat /\ lines[i] \in Seq(Msgs)
  BY LineTypes
<1>2. Tail(lines[i]) \in Seq(Msgs)
  BY <1>1, HeadTailProperties
<1>3. /\ rest \in Seq(Seq(Msgs)) /\ Len(rest) = Len(lines) - i
      /\ \A j \in 1 .. Len(lines) - i : rest[j] = lines[i + j]
  BY <1>1, RestOfLines
<1>4. first \in Seq(Seq(Msgs)) /\ Len(first) = 1 /\ first[1] = Tail(lines[i])
  BY <1>2
<1> HIDE DEF rest, first
<1>5. /\ Len(first \o rest) = Len(first) + Len(rest) /\ first \o rest \in Seq(Seq(Msgs))
      /\ \A j \in 1 .. Len(first) + Len(rest) :
           (first \o rest)[j] = IF j <= Len(first) THEN first[j] ELSE rest[j - Len(first)]
  BY <1>3, <1>4, ConcatProperties
<1>6. /\ taken \in Seq(Seq(Msgs)) /\ Len(taken) = 1 + Len(rest)
      /\ \A j \in 1 .. 1 + Len(rest) : taken[j] = IF j <= 1 THEN first[j] ELSE rest[j - 1]
  BY <1>4, <1>5
<1> HIDE DEF taken
<1>7. taken[1] = Tail(lines[i]) /\ Len(taken) = Len(lines) - i + 1
  <2>1. 1 \in 1 .. 1 + Len(rest) /\ 1 <= 1 /\ 1 + Len(rest) = Len(lines) - i + 1
    BY <1>1, <1>3
  <2> QED  BY <1>4, <1>6, <2>1
<1>8. ASSUME NEW j \in 2 .. Len(taken)
      PROVE  i + j - 1 \in 2 .. Len(lines) /\ taken[j] = lines[i + j - 1]
  <2>1. j - 1 \in 1 .. Len(lines) - i /\ j \in 1 .. 1 + Len(rest) /\ ~(j <= 1)
    BY <1>1, <1>3, <1>6
  <2>2. taken[j] = rest[j - 1] /\ rest[j - 1] = lines[i + (j - 1)]
    BY <1>3, <1>6, <2>1
  <2>3. i + (j - 1) = i + j - 1 /\ i + j - 1 \in 2 .. Len(lines)
    BY <1>1, <2>1
  <2> QED  BY <2>2, <2>3
<1>9. taken # <<>>
  BY <1>1, <1>6, <1>7, EmptySeq
<1> QED  BY <1>6, <1>7, <1>8, <1>9 DEF taken, first, rest

\* the bot closes the connection i
LEMMA CloseLine ==
  ASSUME TypeOK, NEW i \in 2 .. Len(lines)
  PROVE  LET closed == RemoveAt(lines, i) IN
         /\ closed \in Seq(Seq(Msgs)) /\ Len(closed) = Len(lines) - 1 /\ closed # <<>>
         /\ \A j \in 1 .. Len(closed) :
              closed[j] = lines[IF j < i THEN j ELSE j + 1]
<1> DEFINE before == SubSeq(lines, 1, i - 1)
           after == SubSeq(lines, i + 1, Len(lines))
           closed == before \o after
<1>1. Len(lines) \in Nat /\ i \in Nat /\ \A j \in 1 .. Len(lines) : lines[j] \in Seq(Msgs)
  BY LineTypes
<1>2. /\ before \in Seq(Seq(Msgs)) /\ Len(before) = i - 1
      /\ \A j \in 1 .. i - 1 : before[j] = lines[j]
  <2>1. \A j \in 1 .. i - 1 : lines[j] \in Seq(Msgs)
    BY <1>1
  <2>2. /\ before \in Seq(Seq(Msgs))
        /\ Len(before) = IF 1 <= i - 1 THEN i - 1 - 1 + 1 ELSE 0
        /\ \A j \in 1 .. i - 1 - 1 + 1 : before[j] = lines[1 + j - 1]
    BY <1>1, <2>1, SubSeqProperties
  <2> HIDE DEF before
  <2>3. i - 1 - 1 + 1 = i - 1 /\ 1 <= i - 1 /\ \A j \in 1 .. i - 1 : 1 + j - 1 = j
    BY <1>1
  <2> QED  BY <2>2, <2>3
<1>3. /\ after \in Seq(Seq(Msgs)) /\ Len(after) = Len(lines) - i
      /\ \A j \in 1 .. Len(lines) - i : after[j] = lines[i + j]
  BY <1>1, RestOfLines
<1> HIDE DEF before, after
<1>4. /\ closed \in Seq(Seq(Msgs)) /\ Len(closed) = Len(before) + Len(after)
      /\ \A j \in 1 .. Len(before) + Len(after) :
           closed[j] = IF j <= Len(before) THEN before[j] ELSE after[j - Len(before)]
  BY <1>2, <1>3, ConcatProperties
<1> HIDE DEF closed
<1>5. Len(closed) = Len(lines) - 1
  BY <1>1, <1>2, <1>3, <1>4
<1>6. ASSUME NEW j \in 1 .. Len(closed)
      PROVE  closed[j] = lines[IF j < i THEN j ELSE j + 1]
  <2>1. CASE j < i
    <3>1. j \in 1 .. i - 1 /\ j <= Len(before)
      BY <1>1, <1>2, <2>1
    <3> QED  BY <1>2, <1>4, <2>1, <3>1
  <2>2. CASE ~(j < i)
    <3>1. ~(j <= Len(before)) /\ j - Len(before) \in 1 .. Len(lines) - i
      BY <1>1, <1>2, <1>5, <2>2
    <3>2. i + (j - Len(before)) = j + 1
      BY <1>1, <1>2, <3>1
    <3> QED  BY <1>3, <1>4, <2>2, <3>1, <3>2
  <2> QED  BY <2>1, <2>2
<1>7. closed # <<>>
  BY <1>1, <1>4, <1>5, EmptySeq
<1> QED  BY <1>4, <1>5, <1>6, <1>7 DEF closed, before, after, RemoveAt

-----------------------------------------------------------------------------
(* Types.                                                                  *)

LEMMA DownType ==
  ASSUME TypeOK, NEW msgs \in Seq(Msgs)
  PROVE  Down(msgs) \in Seq(Msgs) /\ (Down(msgs) # <<>> => Attached)
BY ConcatProperties DEF TypeOK, Down

LEMMA UnqueueType ==
  ASSUME NEW packets \in Seq(Nat), NEW total \in Nat, NEW last \in Nat
  PROVE  Unqueue(packets, total, last) \in Seq(Nat)
<1>1. Len(packets) \in Nat /\ \A j \in 1 .. Len(packets) : packets[j] \in Nat
  BY LenProperties, ElementOfSeq
<1>2. CASE last > total - Len(packets)
  <2> DEFINE first == last - (total - Len(packets)) + 1
  <2>1. first \in Int /\ first >= 1
    BY <1>1, <1>2
  <2> HIDE DEF first
  <2>2. \A j \in first .. Len(packets) : packets[j] \in Nat
    BY <1>1, <2>1
  <2>3. SubSeq(packets, first, Len(packets)) \in Seq(Nat)
    BY <1>1, <2>1, <2>2, SubSeqProperties
  <2> QED  BY <1>2, <2>3 DEF Unqueue, first
<1>3. CASE ~(last > total - Len(packets))
  BY <1>3 DEF Unqueue
<1> QED  BY <1>2, <1>3

LEMMA AnswerType ==
  ASSUME TypeOK, NEW kept \in Seq(Nat)
  PROVE  Answer(kept) \in Seq(Msgs)
<1>1. Len(heard) \in Nat /\ Len(said) + 1 \in Nat
  BY LenProperties DEF TypeOK
<1>2. Reconnect(Len(heard)) \in Msgs /\ Data(Len(said) + 1) \in Msgs /\ DataOf(kept) \in Seq(Msgs)
  BY <1>1, MsgTypes, DataOfType
<1>3. <<Reconnect(Len(heard))>> \in Seq(Msgs) /\ <<Data(Len(said) + 1)>> \in Seq(Msgs)
  BY <1>2
<1>4. <<Reconnect(Len(heard))>> \o DataOf(kept) \in Seq(Msgs)
  BY <1>2, <1>3, ConcatProperties
<1> QED  BY <1>3, <1>4, ConcatProperties DEF Answer

LEMMA BotReceivesType == TypeOK /\ BotReceives => TypeOK'
<1> SUFFICES ASSUME TypeOK, BotReceives PROVE TypeOK'
  OBVIOUS
<1> DEFINE msg == Head(Head(lines))
<1>1. /\ lines' = [lines EXCEPT ![1] = Tail(lines[1])]
      /\ Head(lines) # <<>>
      /\ UNCHANGED <<loaded, said, gone, connected, ready, synced, local, pbuffer, shown, losses>>
  BY DEF BotReceives, clientVars
<1>2. msg \in Msgs /\ msg[2] \in Nat
  BY <1>1, ReadLine DEF Msgs
<1>3. lines' \in Seq(Seq(Msgs)) /\ lines' # <<>> /\ Len(lines') = Len(lines)
  BY <1>1, ReadLine
<1>4. Attached' = Attached
  BY <1>1, <1>3 DEF Attached
<1>5. InitMsg \in Msgs /\ <<InitMsg>> \in Seq(Msgs)
  BY DEF InitMsg, Msgs
<1>6. Down(<<InitMsg>>) \in Seq(Msgs) /\ (Down(<<InitMsg>>) # <<>> => Attached)
  BY <1>5, DownType
<1>7. Unqueue(gbuffer, Len(said), msg[2]) \in Seq(Nat) /\ Append(heard, msg[2]) \in Seq(Nat)
  BY <1>2, UnqueueType, AppendProperties, LenProperties DEF TypeOK
<1>8. \/ heard' = Append(heard, msg[2]) /\ UNCHANGED <<present, gproxy, gbuffer, down>>
      \/ gproxy' = TRUE /\ down' = Down(<<InitMsg>>) /\ UNCHANGED <<present, gbuffer, heard>>
      \/ gbuffer' = Unqueue(gbuffer, Len(said), msg[2]) /\ UNCHANGED <<present, gproxy, heard, down>>
      \/ present' = FALSE /\ UNCHANGED <<gproxy, gbuffer, heard, down>>
  BY DEF BotReceives
<1> HIDE DEF msg
<1> QED  BY <1>1, <1>3, <1>4, <1>6, <1>7, <1>8 DEF TypeOK

LEMMA AcceptReconnectType ==
  ASSUME TypeOK, NEW i \in 2 .. Len(lines), AcceptReconnect(i)
  PROVE  TypeOK'
<1> DEFINE kept == Unqueue(gbuffer, Len(said), Head(lines[i])[2])
<1>1. /\ lines[i] # <<>>
      /\ gbuffer' = Append(kept, Len(said) + 1)
      /\ said' = Append(said, "notice")
      /\ lines' = <<Tail(lines[i])>> \o SubSeq(lines, i + 1, Len(lines))
      /\ down' = IF connected /\ i = Len(lines) THEN Answer(kept) ELSE <<>>
      /\ UNCHANGED <<present, gproxy, loaded, heard, gone, connected, ready, synced, local, pbuffer,
                     shown, losses>>
  BY DEF AcceptReconnect, Requested, clientVars
<1>2. Head(lines[i]) \in Msgs
  BY <1>1, LineTypes, HeadTailProperties
<1>3. Head(lines[i])[2] \in Nat /\ Len(said) \in Nat
  BY <1>2, LenProperties DEF Msgs, TypeOK
<1>4. kept \in Seq(Nat)
  BY <1>3, UnqueueType DEF TypeOK
<1> HIDE DEF kept
<1>5. Append(kept, Len(said) + 1) \in Seq(Nat) /\ Append(said, "notice") \in Seq(Kinds)
  BY <1>3, <1>4, AppendProperties DEF TypeOK, Kinds
<1>6. lines' \in Seq(Seq(Msgs)) /\ lines' # <<>> /\ Len(lines') = Len(lines) - i + 1
  BY <1>1, TakeLine
<1>7. down' \in Seq(Msgs) /\ (down' # <<>> => Attached')
  <2>1. CASE connected /\ i = Len(lines)
    <3>1. connected' /\ Len(lines') = 1
      BY <1>1, <1>6, <2>1, LineTypes
    <3> QED  BY <1>1, <1>4, <2>1, <3>1, AnswerType DEF Attached
  <2>2. CASE ~(connected /\ i = Len(lines))
    BY <1>1, <2>2
  <2> QED  BY <2>1, <2>2
<1> QED  BY <1>1, <1>5, <1>6, <1>7 DEF TypeOK

LEMMA RejectReconnectType ==
  ASSUME TypeOK, NEW i \in 2 .. Len(lines), RejectReconnect(i)
  PROVE  TypeOK'
<1>1. /\ lines' = RemoveAt(lines, i)
      /\ (gone' = TRUE /\ connected' = FALSE) \/ UNCHANGED <<gone, connected>>
      /\ UNCHANGED <<present, gproxy, loaded, said, gbuffer, heard, ready, synced, local, pbuffer,
                     shown, down, losses>>
  BY DEF RejectReconnect, botVars
<1>2. lines' \in Seq(Seq(Msgs)) /\ lines' # <<>>
  BY <1>1, CloseLine
<1>3. Len(lines) # 1
  BY LineTypes
<1>4. down = <<>>
  BY <1>3 DEF TypeOK, Attached
<1>5. gone' \in BOOLEAN /\ connected' \in BOOLEAN /\ (gone' => ~connected')
  <2>1. CASE gone' = TRUE /\ connected' = FALSE
    BY <2>1
  <2>2. CASE UNCHANGED <<gone, connected>>
    BY <2>2 DEF TypeOK
  <2> QED  BY <1>1, <2>1, <2>2
<1> QED  BY <1>1, <1>2, <1>4, <1>5 DEF TypeOK

LEMMA ClientReceivesType == TypeOK /\ ClientReceives => TypeOK'
<1> SUFFICES ASSUME TypeOK, ClientReceives PROVE TypeOK'
  OBVIOUS
<1> DEFINE msg == Head(down)
           unqueued == Unqueue(pbuffer, local, msg[2])
<1>1. /\ down' = Tail(down) /\ down # <<>>
      /\ UNCHANGED <<present, gproxy, loaded, said, gbuffer, heard, gone, connected, local, losses>>
  BY DEF ClientReceives, botVars
<1>2. msg \in Msgs /\ msg[2] \in Nat /\ Tail(down) \in Seq(Msgs)
  <2>1. down \in Seq(Msgs) /\ down # <<>>
    BY <1>1 DEF TypeOK
  <2>2. Head(down) \in Msgs /\ Tail(down) \in Seq(Msgs)
    BY <2>1, HeadTailProperties
  <2> QED  BY <2>2 DEF Msgs
<1>3. unqueued \in Seq(Nat) /\ Append(shown, msg[2]) \in Seq(Nat)
  BY <1>2, UnqueueType, AppendProperties DEF TypeOK
<1>4. \A msgs \in Seq(Msgs) :
        Up(msgs) \in Seq(Seq(Msgs)) /\ Len(Up(msgs)) = Len(lines) /\ Up(msgs) # <<>>
  BY WriteUp
<1>5. <<InitMsg>> \in Seq(Msgs) /\ DataOf(unqueued) \in Seq(Msgs)
  BY <1>3, DataOfType DEF InitMsg, Msgs
<1>6. \/ /\ shown' = Append(shown, msg[2])
         /\ lines' = Up(<<InitMsg>>) \/ lines' = lines
         /\ UNCHANGED <<ready, synced, pbuffer>>
      \/ ready' = TRUE /\ UNCHANGED <<synced, pbuffer, shown, lines>>
      \/ pbuffer' = unqueued /\ UNCHANGED <<ready, synced, shown, lines>>
      \/ /\ pbuffer' = unqueued
         /\ lines' = Up(DataOf(unqueued))
         /\ synced' = TRUE
         /\ UNCHANGED <<ready, shown>>
  BY DEF ClientReceives
<1> HIDE DEF unqueued, msg
<1>7. lines' \in Seq(Seq(Msgs)) /\ Len(lines') = Len(lines) /\ lines' # <<>>
  <2> DEFINE request == <<InitMsg>>
             packets == DataOf(unqueued)
  <2>1. lines' = Up(request) \/ lines' = Up(packets) \/ lines' = lines
    BY <1>6
  <2>2. request \in Seq(Msgs) /\ packets \in Seq(Msgs)
    BY <1>5
  <2> HIDE DEF request, packets
  <2>3. lines \in Seq(Seq(Msgs)) /\ lines # <<>>
    BY DEF TypeOK
  <2>4. CASE lines' = Up(request)
    BY <1>4, <2>2, <2>4
  <2>5. CASE lines' = Up(packets)
    BY <1>4, <2>2, <2>5
  <2>6. CASE lines' = lines
    BY <2>3, <2>6
  <2> QED  BY <2>1, <2>4, <2>5, <2>6
<1>8. Attached' = Attached
  BY <1>1, <1>7 DEF Attached
<1> QED  BY <1>1, <1>2, <1>3, <1>6, <1>7, <1>8 DEF TypeOK

(* What either end writes leaves the types alone.                          *)
LEMMA WritesType ==
  ASSUME TypeOK,
         \/ \E kind \in {"update", "other"} : Send(kind)
         \/ BotAcks
         \/ Local
         \/ ClientAcks
         \/ GameGoes
  PROVE  TypeOK'
<1>1. /\ Len(said) + 1 \in Nat /\ Len(heard) \in Nat /\ local + 1 \in Nat /\ Len(shown) \in Nat
  BY LenProperties DEF TypeOK
<1>2. /\ <<Data(Len(said) + 1)>> \in Seq(Msgs) /\ <<Ack(Len(heard))>> \in Seq(Msgs)
      /\ <<Data(local + 1)>> \in Seq(Msgs) /\ <<Ack(Len(shown))>> \in Seq(Msgs)
      /\ <<LeaveMsg>> \in Seq(Msgs)
  BY <1>1, MsgTypes
<1>3. ASSUME NEW kind \in {"update", "other"}, Send(kind) PROVE TypeOK'
  <2>1. Append(said, kind) \in Seq(Kinds) /\ Kept(gbuffer) \in Seq(Nat)
    BY <1>1, AppendProperties DEF TypeOK, Kinds, Kept
  <2> QED  BY <1>2, <1>3, <2>1, DownType DEF Send, TypeOK, clientVars, Attached
<1>4. CASE BotAcks
  BY <1>2, <1>4, DownType DEF BotAcks, TypeOK, botVars, clientVars, Attached
<1>5. \A msgs \in Seq(Msgs) :
        Up(msgs) \in Seq(Seq(Msgs)) /\ Len(Up(msgs)) = Len(lines) /\ Up(msgs) # <<>>
  BY WriteUp
<1>6. CASE Local
  <2>1. lines' \in Seq(Seq(Msgs)) /\ Len(lines') = Len(lines) /\ lines' # <<>>
    BY <1>2, <1>5, <1>6 DEF Local, TypeOK
  <2>2. Append(pbuffer, local + 1) \in Seq(Nat)
    BY <1>1, AppendProperties DEF TypeOK
  <2> QED  BY <1>1, <1>6, <2>1, <2>2 DEF Local, TypeOK, botVars, Attached
<1>7. CASE ClientAcks
  BY <1>2, <1>5, <1>7 DEF ClientAcks, TypeOK, botVars, clientVars, Attached
<1>8. CASE GameGoes
  <2>1. lines' \in Seq(Seq(Msgs)) /\ lines' # <<>>
    BY <1>2, <1>5, <1>8 DEF GameGoes, TypeOK
  <2> QED  BY <1>8, <2>1, EmptySeq DEF GameGoes, TypeOK, botVars
<1> QED  BY <1>3, <1>4, <1>6, <1>7, <1>8

LEMMA ConnectType == TypeOK /\ Connect => TypeOK'
<1> SUFFICES ASSUME TypeOK, Connect PROVE TypeOK'
  OBVIOUS
<1>1. <<Reconnect(Len(shown))>> \in Seq(Msgs)
  BY LenProperties, MsgTypes DEF TypeOK
<1>2. lines' \in Seq(Seq(Msgs)) /\ lines' # <<>>
  BY <1>1, NewLine DEF Connect
<1>3. down = <<>>
  BY DEF Connect, TypeOK, Attached
<1> QED  BY <1>2, <1>3 DEF Connect, TypeOK, botVars

LEMMA TypeStep == TypeOK /\ [Next]_vars => TypeOK'
<1> SUFFICES ASSUME TypeOK, [Next]_vars PROVE TypeOK'
  OBVIOUS
<1>1. CASE GameLoaded
  BY <1>1 DEF GameLoaded, TypeOK, clientVars, Attached
<1>2. CASE Delete
  BY <1>2 DEF Delete, TypeOK, clientVars, Attached
<1>3. CASE Lose
  <2>1. <<>> \in Seq(Msgs) /\ (~Protected) \in BOOLEAN /\ losses + 1 \in Nat
    BY EmptySeq DEF TypeOK
  <2> QED  BY <1>3, <2>1 DEF Lose, TypeOK, botVars
<1>4. CASE UNCHANGED vars
  BY <1>4 DEF vars, TypeOK, Attached
<1> QED
  BY <1>1, <1>2, <1>3, <1>4, BotReceivesType, AcceptReconnectType, RejectReconnectType,
     ClientReceivesType, WritesType, ConnectType DEF Next, BotStep, ClientStep

LEMMA TypeInit == Init => TypeOK
<1> SUFFICES ASSUME Init PROVE TypeOK
  OBVIOUS
<1>1. <<>> \in Seq(Msgs) /\ <<>> \in Seq(Nat) /\ <<>> \in Seq(Kinds)
  BY EmptySeq
<1>2. <<1>> \in Seq(Nat) /\ <<<<>>>> \in Seq(Seq(Msgs)) /\ <<<<>>>> # <<>>
  BY <1>1
<1> QED  BY <1>1, <1>2 DEF Init, TypeOK

(* Streams carry messages, buffers packets; only the connection that both  *)
(* ends use carries anything towards the client.                           *)
THEOREM TypeCorrect == Spec => []TypeOK
BY TypeInit, TypeStep, PTL DEF Spec

-----------------------------------------------------------------------------
(* What a step may do to one part of the invariant.                        *)

LEMMA Lengths ==
  ASSUME TypeOK
  PROVE  /\ Len(said) \in Nat /\ Len(heard) \in Nat /\ Len(shown) \in Nat /\ local \in Nat
         /\ Len(gbuffer) \in Nat /\ Len(pbuffer) \in Nat /\ Len(down) \in Nat
BY LenProperties DEF TypeOK

LEMMA GotMore ==
  ASSUME NEW got \in Seq(Nat), NEW n \in Nat
  PROVE  /\ Len(Append(got, n)) = Len(got) + 1 /\ Len(got) \in Nat
         /\ \A i \in 1 .. Len(got) : Append(got, n)[i] = got[i]
BY AppendProperties, LenProperties

LEMMA SaidMore ==
  ASSUME TypeOK, NEW kind \in Kinds
  PROVE  /\ Len(Append(said, kind)) = Len(said) + 1
         /\ \A i \in 1 .. Len(said) : Append(said, kind)[i] = said[i]
         /\ Append(said, kind)[Len(said) + 1] = kind
BY AppendProperties DEF TypeOK

\* the right to come back is not lost
LEMMA StaysProtected ==
  ASSUME TypeOK, Counted, ready => ready',
         Len(shown') \in Nat, Len(shown) <= Len(shown'),
         \A n \in 1 .. Len(shown) : shown'[n] = shown[n],
         \A n \in 1 .. Len(said) : said'[n] = said[n]
  PROVE  Protected => Protected'
<1> SUFFICES ASSUME Protected PROVE Protected'
  OBVIOUS
<1>1. PICK i \in 1 .. Len(shown) : said[shown[i]] = "update"
  BY DEF Protected
<1>2. shown[i] = i /\ i \in 1 .. Len(said) /\ i \in 1 .. Len(shown')
  BY Lengths DEF Counted, Numbered
<1>3. said'[shown'[i]] = "update"
  BY <1>1, <1>2
<1> QED  BY <1>2, <1>3 DEF Protected

\* a message more on the bot's socket
LEMMA WriteDown ==
  ASSUME TypeOK, NEW m \in Msgs
  PROVE  /\ Len(Down(<<m>>)) \in Nat
         /\ \A j \in 1 .. Len(Down(<<m>>)) :
              \/ j \in 1 .. Len(down) /\ Down(<<m>>)[j] = down[j]
              \/ Attached /\ Down(<<m>>)[j] = m
<1>1. down \in Seq(Msgs) /\ Len(down) \in Nat
  BY Lengths DEF TypeOK
<1>2. CASE Attached
  <2> DEFINE r == down \o <<m>>
  <2>1. Len(r) = Len(down) + 1 /\ r[Len(down) + 1] = m /\ \A j \in 1 .. Len(down) : r[j] = down[j]
    BY <1>1
  <2> HIDE DEF r
  <2>2. \A j \in 1 .. Len(r) : (j \in 1 .. Len(down) /\ r[j] = down[j]) \/ r[j] = m
    BY <1>1, <2>1
  <2>3. Down(<<m>>) = r
    BY <1>2 DEF Down, r
  <2> QED  BY <1>1, <1>2, <2>1, <2>2, <2>3
<1>3. CASE ~Attached
  BY <1>1, <1>3 DEF Down
<1> QED  BY <1>2, <1>3

\* nothing happens on the lines
LEMMA UpStreamsStay ==
  ASSUME TypeOK, UpStreams, UNCHANGED <<lines, heard, local, synced>>, connected' => connected,
         Len(shown') \in Nat, Len(shown) <= Len(shown'), Len(lines) > 1 => shown' = shown
  PROVE  UpStreams'
<1>1. Attached' => Attached
  BY DEF Attached
<1>2. \A i \in 1 .. Len(lines) : \A j \in 1 .. Len(lines[i]) :
        lines[i][j][1] \in {"ack", "reconnect"} => lines[i][j][2] <= Len(shown')
  <2> SUFFICES ASSUME NEW i \in 1 .. Len(lines), NEW j \in 1 .. Len(lines[i]),
                      lines[i][j][1] \in {"ack", "reconnect"}
               PROVE  lines[i][j][2] <= Len(shown')
    OBVIOUS
  <2>1. lines[i][j] \in Msgs
    BY LineTypes
  <2>2. lines[i][j][2] \in Nat /\ lines[i][j][2] <= Len(shown)
    BY <2>1 DEF Msgs, UpStreams
  <2> QED  BY <2>2, Lengths
<1>3. connected' /\ Len(lines) > 1 =>
        ~synced /\ lines[Len(lines)] # <<>> /\ Head(lines[Len(lines)]) = Reconnect(Len(shown'))
  BY DEF UpStreams
<1> QED  BY <1>1, <1>2, <1>3 DEF UpStreams

\* the client writes one message
LEMMA WriteUpOne ==
  ASSUME TypeOK, NEW m \in Msgs, lines' = Up(<<m>>)
  PROVE  /\ Len(lines') = Len(lines)
         /\ lines'[Len(lines)] = lines[Len(lines)] \o <<m>>
         /\ \A i \in 1 .. Len(lines) : i # Len(lines) => lines'[i] = lines[i]
<1> DEFINE one == <<m>>
<1>1. one \in Seq(Msgs)
  OBVIOUS
<1>2. lines' = Up(one)
  OBVIOUS
<1> HIDE DEF one
<1>3. /\ Len(Up(one)) = Len(lines)
      /\ Up(one)[Len(lines)] = lines[Len(lines)] \o one
      /\ \A i \in 1 .. Len(lines) : i # Len(lines) => Up(one)[i] = lines[i]
  BY <1>1, WriteUp
<1> QED  BY <1>2, <1>3 DEF one

\* the client writes something other than a packet
LEMMA UpStreamsOther ==
  ASSUME TypeOK, UpStreams, NEW m \in Msgs, m[1] # "data",
         m[1] \in {"ack", "reconnect"} => m[2] <= Len(shown),
         lines' = Up(<<m>>), UNCHANGED <<heard, local, synced>>, connected' => connected,
         Len(shown') \in Nat, Len(shown) <= Len(shown'), Len(lines) > 1 => shown' = shown
  PROVE  UpStreams'
<1>1. Len(lines) \in Nat /\ Len(lines) >= 1 /\ \A i \in 1 .. Len(lines) : lines[i] \in Seq(Msgs)
  BY LineTypes
<1>4. /\ Len(lines') = Len(lines)
      /\ lines'[Len(lines)] = lines[Len(lines)] \o <<m>>
      /\ \A i \in 1 .. Len(lines) : i # Len(lines) => lines'[i] = lines[i]
  BY WriteUpOne
<1>5. Attached' => Attached
  BY <1>4 DEF Attached
<1>6. ASSUME NEW i \in 1 .. Len(lines)
      PROVE  /\ DataAt(lines'[i]) = DataAt(lines[i])
             /\ InOrder(lines[i], Len(heard), local) => InOrder(lines'[i], Len(heard), local)
             /\ Complete(lines[i], Len(heard), local) => Complete(lines'[i], Len(heard), local)
             /\ \A j \in 1 .. Len(lines'[i]) :
                  (j \in 1 .. Len(lines[i]) /\ lines'[i][j] = lines[i][j]) \/ lines'[i][j] = m
  <2>1. CASE i = Len(lines)
    <3>1. lines'[i] = lines[i] \o <<m>> /\ lines[i] \in Seq(Msgs)
      BY <1>1, <1>4, <2>1
    <3>2. \A j \in 1 .. Len(lines[i] \o <<m>>) :
            \/ j \in 1 .. Len(lines[i]) /\ (lines[i] \o <<m>>)[j] = lines[i][j]
            \/ (lines[i] \o <<m>>)[j] = m
      BY <3>1
    <3> QED  BY <3>1, <3>2, WriteOther, Lengths
  <2>2. CASE i # Len(lines)
    BY <1>4, <2>2
  <2> QED  BY <2>1, <2>2
<1>7. ASSUME NEW i \in 1 .. Len(lines'), NEW j \in 1 .. Len(lines'[i]),
             lines'[i][j][1] \in {"ack", "reconnect"}
      PROVE  lines'[i][j][2] <= Len(shown')
  <2>1. CASE j \in 1 .. Len(lines[i]) /\ lines'[i][j] = lines[i][j]
    <3>1. i \in 1 .. Len(lines) /\ lines[i] \in Seq(Msgs)
      BY <1>1, <1>4
    <3>2. lines[i][j] \in Msgs
      BY <2>1, <3>1, ElementOfSeq
    <3>3. lines[i][j][2] \in Nat /\ lines[i][j][2] <= Len(shown)
      BY <1>7, <2>1, <3>1, <3>2 DEF Msgs, UpStreams
    <3>4. lines[i][j][2] <= Len(shown')
      BY <3>3, Lengths
    <3> QED  BY <2>1, <3>4
  <2>2. CASE lines'[i][j] = m
    BY <1>7, <2>2, Lengths DEF Msgs
  <2> QED  BY <1>4, <1>6, <2>1, <2>2
<1>8. connected' /\ Len(lines') > 1 =>
        /\ ~synced' /\ lines'[Len(lines')] # <<>>
        /\ Head(lines'[Len(lines')]) = Reconnect(Len(shown'))
  <2> SUFFICES ASSUME connected', Len(lines) > 1
               PROVE  /\ ~synced /\ lines'[Len(lines)] # <<>>
                      /\ Head(lines'[Len(lines)]) = Reconnect(Len(shown))
    BY <1>4
  <2> DEFINE last == lines[Len(lines)]
  <2>1. ~synced /\ last # <<>> /\ Head(last) = Reconnect(Len(shown)) /\ last \in Seq(Msgs)
    BY <1>1 DEF UpStreams
  <2>2. lines'[Len(lines)] = last \o <<m>>
    BY <1>4
  <2> HIDE DEF last
  <2>3. last \o <<m>> # <<>> /\ Head(last \o <<m>>) = Head(last)
    BY <2>1
  <2> QED  BY <2>1, <2>2, <2>3
<1>9. 1 \in 1 .. Len(lines) /\ \A i \in 2 .. Len(lines) : i \in 1 .. Len(lines)
  BY <1>1
<1> QED  BY <1>4, <1>5, <1>6, <1>7, <1>8, <1>9 DEF UpStreams

-----------------------------------------------------------------------------
(* What the bot does of itself.                                            *)

LEMMA SendKeeps ==
  ASSUME LinkInv, ~LoadInGame, NEW kind \in {"update", "other"}, Send(kind)
  PROVE  LinkInv'
<1>1. /\ TypeOK /\ Counted /\ DownStream /\ UpStreams /\ Buffers /\ Handshake /\ Returning
      /\ kind \in Kinds
  BY DEF LinkInv, Kinds
<1>2. /\ said' = Append(said, kind) /\ gbuffer' = Kept(gbuffer)
      /\ down' = Down(<<Data(Len(said) + 1)>>)
      /\ kind = "update" => loaded
      /\ UNCHANGED <<present, gproxy, loaded, heard, gone, connected, ready, synced, local, pbuffer,
                     shown, losses, lines>>
  BY DEF Send, MaySendUpdate, clientVars
<1>3. TypeOK'
  BY <1>1, TypeStep DEF Next, BotStep
<1>4. /\ Len(said') = Len(said) + 1 /\ said'[Len(said) + 1] = kind
      /\ \A n \in 1 .. Len(said) : said'[n] = said[n]
  BY <1>1, <1>2, SaidMore
<1>5. Counted'
  BY <1>1, <1>2, <1>4, Lengths DEF Counted
<1>6. UpStreams' /\ Attached' = Attached
  BY <1>1, <1>2, UpStreamsStay, Lengths DEF Attached
<1> DEFINE m == Data(Len(said) + 1)
<1>7. m \in Msgs /\ m[1] = "data"
  BY <1>1, Lengths, MsgTypes DEF Data
<1>8. /\ Len(down') \in Nat
      /\ \A j \in 1 .. Len(down') :
           (j \in 1 .. Len(down) /\ down'[j] = down[j]) \/ down'[j] = m
  <2> HIDE DEF m
  <2>1. down' = Down(<<m>>)
    BY <1>2 DEF m
  <2> QED  BY <1>1, <1>7, <2>1, WriteDown
<1>9. DownStream'
  <2>1. ASSUME Attached PROVE Complete(down', Len(shown), Len(said) + 1)
    <3>1. down \in Seq(Msgs) /\ Complete(down, Len(shown), Len(said)) /\ Len(shown) <= Len(said)
      BY <1>1, <2>1 DEF TypeOK, DownStream, Counted
    <3>2. down' = down \o <<Data(Len(said) + 1)>>
      BY <1>2, <2>1 DEF Down
    <3> QED  BY <1>1, <3>1, <3>2, WriteData, Lengths
  <2>2. ASSUME NEW j \in 1 .. Len(down')
        PROVE  /\ down'[j][1] = "ack" => down'[j][2] <= Len(heard)
               /\ down'[j][1] = "reconnect" => j = 1 /\ ~synced /\ down'[j][2] = Len(heard)
    BY <1>1, <1>7, <1>8 DEF DownStream
  <2> QED  BY <1>2, <1>4, <1>6, <2>1, <2>2 DEF DownStream
<1>10. Buffers'
  <2>1. CASE loaded
    <3>1. gproxy /\ gbuffer' = Append(gbuffer, Len(said) + 1)
      BY <1>1, <1>2, <2>1 DEF Handshake, Kept
    <3>2. /\ KeepsLast(gbuffer', Len(said'))
          /\ Len(said') - Len(gbuffer') = Len(said) - Len(gbuffer)
      BY <1>1, <1>4, <3>1, AppendKeeps, Lengths DEF Buffers, TypeOK
    <3>3. \A n \in 1 .. Len(said) - Len(gbuffer) : said'[n] = said[n]
      BY <1>1, <1>4, Lengths
    <3> QED  BY <1>1, <1>2, <2>1, <3>2, <3>3 DEF Buffers
  <2>2. CASE ~loaded
    <3>1. gbuffer' = <<>> /\ kind # "update"
      BY <1>1, <1>2, <2>2 DEF Buffers, Kept
    <3>2. KeepsLast(<<>>, Len(said'))
      BY <1>1, <1>4, Lengths, EmptySeq DEF KeepsLast
    <3>3. \A n \in 1 .. Len(said') : said'[n] # "update"
      BY <1>1, <1>4, <2>2, <3>1, Lengths DEF Buffers
    <3> QED  BY <1>1, <1>2, <2>2, <3>1, <3>2, <3>3 DEF Buffers
  <2> QED  BY <2>1, <2>2
<1>11. Handshake'
  <2>1. ~gproxy => \A j \in 1 .. Len(down') : down'[j][1] # "reconnect"
    BY <1>1, <1>7, <1>8 DEF Handshake
  <2> QED  BY <1>1, <1>2, <2>1 DEF Handshake
<1>12. Returning'
  <2>1. Protected => Protected'
    BY <1>1, <1>2, <1>4, Lengths, StaysProtected
  <2> QED  BY <1>1, <1>2, <1>6, <2>1 DEF Returning
<1> QED  BY <1>3, <1>5, <1>6, <1>9, <1>10, <1>11, <1>12 DEF LinkInv

LEMMA GameLoadedKeeps == LinkInv /\ ~LoadInGame /\ GameLoaded => LinkInv'
<1> SUFFICES ASSUME LinkInv, GameLoaded PROVE LinkInv'
  OBVIOUS
<1>1. TypeOK /\ Counted /\ DownStream /\ UpStreams /\ Buffers /\ Handshake /\ Returning
  BY DEF LinkInv
<1>2. /\ ~loaded /\ loaded' = TRUE /\ LoadedPacket <= Len(heard)
      /\ UNCHANGED <<present, gproxy, said, gbuffer, heard, gone, connected, ready, synced, local,
                     pbuffer, shown, losses, lines, down>>
  BY DEF GameLoaded, clientVars
<1>3. TypeOK'
  BY <1>1, TypeStep DEF Next, BotStep
<1>4. gproxy
  <2>1. Len(heard) # 1
    <3>1. LoadedPacket \in Nat /\ LoadedPacket > 1
      BY LinkAssumption
    <3>2. LoadedPacket <= Len(heard) /\ Len(heard) \in Nat
      BY <1>1, <1>2, Lengths
    <3> QED  BY <3>1, <3>2
  <2> QED  BY <1>1, <2>1 DEF Handshake
<1>5. \A n \in 1 .. Len(said) - Len(gbuffer) : said[n] # "update"
  BY <1>1, <1>2, Lengths, EmptySeq DEF Buffers
<1>6. Counted' /\ DownStream' /\ UpStreams' /\ Returning'
  BY <1>1, <1>2 DEF Counted, DownStream, UpStreams, Returning, Attached, Protected
<1>7. Buffers' /\ Handshake'
  BY <1>1, <1>2, <1>4, <1>5 DEF Buffers, Handshake
<1> QED  BY <1>3, <1>6, <1>7 DEF LinkInv

LEMMA BotAcksKeeps == LinkInv /\ BotAcks => LinkInv'
<1> SUFFICES ASSUME LinkInv, BotAcks PROVE LinkInv'
  OBVIOUS
<1>1. TypeOK /\ Counted /\ DownStream /\ UpStreams /\ Buffers /\ Handshake /\ Returning
  BY DEF LinkInv
<1> DEFINE m == Ack(Len(heard))
<1>2. /\ gproxy /\ Attached /\ down' = Down(<<m>>)
      /\ UNCHANGED <<present, gproxy, loaded, said, gbuffer, heard, gone, connected, ready, synced,
                     local, pbuffer, shown, losses, lines>>
  BY DEF BotAcks, botVars, clientVars
<1>3. TypeOK'
  BY <1>1, TypeStep DEF Next, BotStep
<1>4. m \in Msgs /\ m[1] = "ack" /\ m[2] = Len(heard) /\ Len(heard) \in Nat
  BY <1>1, Lengths, MsgTypes DEF Ack
<1> HIDE DEF m
<1>5. \A j \in 1 .. Len(down') : (j \in 1 .. Len(down) /\ down'[j] = down[j]) \/ down'[j] = m
  BY <1>1, <1>2, <1>4, WriteDown
<1>6. DownStream'
  <2>1. Complete(down', Len(shown), Len(said))
    <3>1. down \in Seq(Msgs) /\ Complete(down, Len(shown), Len(said)) /\ down' = down \o <<m>>
      BY <1>1, <1>2 DEF TypeOK, DownStream, Down
    <3> QED  BY <1>1, <1>4, <3>1, WriteOther, Lengths
  <2>2. ASSUME NEW j \in 1 .. Len(down')
        PROVE  /\ down'[j][1] = "ack" => down'[j][2] <= Len(heard)
               /\ down'[j][1] = "reconnect" => j = 1 /\ ~synced /\ down'[j][2] = Len(heard)
    BY <1>1, <1>4, <1>5 DEF DownStream
  <2> QED  BY <1>2, <2>1, <2>2 DEF DownStream
<1>7. Counted' /\ UpStreams' /\ Buffers' /\ Handshake' /\ Returning'
  BY <1>1, <1>2 DEF Counted, UpStreams, Buffers, Handshake, Returning, Attached, Protected
<1> QED  BY <1>3, <1>6, <1>7 DEF LinkInv

LEMMA DeleteKeeps == LinkInv /\ Delete => LinkInv'
<1> SUFFICES ASSUME LinkInv, Delete PROVE LinkInv'
  OBVIOUS
<1>1. TypeOK /\ Counted /\ DownStream /\ UpStreams /\ Buffers /\ Handshake /\ Returning
  BY DEF LinkInv
<1>2. UNCHANGED <<gproxy, loaded, said, gbuffer, heard, gone, connected, ready, synced, local,
                  pbuffer, shown, losses, lines, down>>
  BY DEF Delete, clientVars
<1>3. TypeOK'
  BY <1>1, TypeStep DEF Next, BotStep
<1>4. /\ Counted' /\ DownStream' /\ UpStreams' /\ Buffers' /\ Handshake' /\ Returning'
  BY <1>1, <1>2
     DEF Counted, DownStream, UpStreams, Buffers, Handshake, Returning, Attached, Protected
<1> QED  BY <1>3, <1>4 DEF LinkInv

-----------------------------------------------------------------------------
(* What the client does of itself.                                         *)

LEMMA LoseKeeps == LinkInv /\ Lose => LinkInv'
<1> SUFFICES ASSUME LinkInv, Lose PROVE LinkInv'
  OBVIOUS
<1>1. TypeOK /\ Counted /\ DownStream /\ UpStreams /\ Buffers /\ Handshake /\ Returning
  BY DEF LinkInv
<1>2. /\ connected' = FALSE /\ gone' = ~Protected /\ down' = <<>>
      /\ UNCHANGED <<present, gproxy, loaded, said, gbuffer, heard, ready, synced, local, pbuffer,
                     shown, lines>>
  BY DEF Lose, botVars
<1>3. TypeOK'
  BY <1>1, TypeStep DEF Next, ClientStep
<1>4. DownStream'
  BY <1>2, EmptySeq DEF DownStream, Attached
<1>5. UpStreams'
  BY <1>1, <1>2, UpStreamsStay, Lengths
<1>6. Handshake'
  BY <1>1, <1>2, EmptySeq DEF Handshake
<1>7. Counted' /\ Buffers' /\ Returning'
  BY <1>1, <1>2 DEF Counted, Buffers, Returning, Protected
<1> QED  BY <1>3, <1>4, <1>5, <1>6, <1>7 DEF LinkInv

LEMMA ConnectKeeps == LinkInv /\ Connect => LinkInv'
<1> SUFFICES ASSUME LinkInv, Connect PROVE LinkInv'
  OBVIOUS
<1>1. TypeOK /\ Counted /\ DownStream /\ UpStreams /\ Buffers /\ Handshake /\ Returning
  BY DEF LinkInv
<1> DEFINE m == Reconnect(Len(shown))
           line == <<m>>
<1>2. /\ ~gone /\ ~connected /\ connected' = TRUE /\ synced' = FALSE
      /\ lines' = Append(lines, line)
      /\ UNCHANGED <<present, gproxy, loaded, said, gbuffer, heard, gone, ready, local, pbuffer,
                     shown, down, losses>>
  BY DEF Connect, botVars
<1>3. TypeOK'
  BY <1>1, TypeStep DEF Next, ClientStep
<1>4. m \in Msgs /\ m[1] = "reconnect" /\ m[2] = Len(shown) /\ Len(shown) \in Nat
  BY <1>1, Lengths, MsgTypes DEF Reconnect
<1>5. line \in Seq(Msgs) /\ Len(line) = 1 /\ line[1] = m /\ line # <<>> /\ Head(line) = m
  BY <1>4
<1>6. /\ Len(lines') = Len(lines) + 1 /\ lines'[Len(lines) + 1] = line
      /\ \A i \in 1 .. Len(lines) : lines'[i] = lines[i]
      /\ Len(lines) \in Nat /\ Len(lines) >= 1
  <2> HIDE DEF line
  <2> QED  BY <1>1, <1>2, <1>5, NewLine, LineTypes
<1> HIDE DEF m, line
<1>7. ~Attached /\ ~Attached' /\ lines'[1] = lines[1] /\ down = <<>>
  BY <1>1, <1>2, <1>6 DEF Attached, TypeOK
<1>8. DataAt(line) = {}
  BY <1>4, <1>5 DEF DataAt
<1>9. UpStreams'
  <2>1. InOrder(lines'[1], Len(heard), local)
    BY <1>1, <1>7 DEF UpStreams
  <2>2. \A i \in 2 .. Len(lines') : DataAt(lines'[i]) = {}
    <3> SUFFICES ASSUME NEW i \in 2 .. Len(lines') PROVE DataAt(lines'[i]) = {}
      OBVIOUS
    <3>1. CASE i = Len(lines) + 1
      BY <1>6, <1>8, <3>1
    <3>2. CASE i \in 2 .. Len(lines)
      <4>1. lines'[i] = lines[i]
        BY <1>6, <3>2
      <4> QED  BY <1>1, <3>2, <4>1 DEF UpStreams
    <3> QED  BY <1>6, <3>1, <3>2
  <2>3. ASSUME NEW i \in 1 .. Len(lines'), NEW j \in 1 .. Len(lines'[i]),
               lines'[i][j][1] \in {"ack", "reconnect"}
        PROVE  lines'[i][j][2] <= Len(shown)
    <3>1. CASE i = Len(lines) + 1
      BY <1>4, <1>5, <1>6, <3>1
    <3>2. CASE i \in 1 .. Len(lines)
      BY <1>1, <1>6, <2>3, <3>2 DEF UpStreams
    <3> QED  BY <1>6, <3>1, <3>2
  <2>4. lines'[Len(lines')] # <<>> /\ Head(lines'[Len(lines')]) = Reconnect(Len(shown))
    BY <1>5, <1>6 DEF m
  <2> QED  BY <1>2, <1>7, <2>1, <2>2, <2>3, <2>4 DEF UpStreams
<1>10. DownStream' /\ Handshake'
  BY <1>1, <1>2, <1>7, EmptySeq DEF DownStream, Handshake
<1>11. Protected'
  BY <1>1, <1>2, <1>7 DEF Returning, Protected
<1>12. Counted' /\ Buffers' /\ Returning'
  BY <1>1, <1>2, <1>11 DEF Counted, Buffers, Returning
<1> QED  BY <1>3, <1>9, <1>10, <1>12 DEF LinkInv

\* the handshake when the client writes
LEMMA HandshakeWrite ==
  ASSUME TypeOK, Handshake, NEW m \in Msgs, lines' = Up(<<m>>),
         UNCHANGED <<loaded, gproxy, heard>>,
         shown' # <<>> => shown # <<>> \/ (m = InitMsg /\ Len(lines) = 1),
         m[1] = "data" => shown # <<>>,
         ~gproxy => \A j \in 1 .. Len(down') : down'[j][1] # "reconnect"
  PROVE  Handshake'
<1> SUFFICES ASSUME ~gproxy
             PROVE  /\ shown' # <<>> => \E i \in 1 .. Len(lines'[1]) : lines'[1][i] = InitMsg
                    /\ \A j \in DataAt(lines'[1]) : \E i \in 1 .. j - 1 : lines'[1][i] = InitMsg
  BY DEF Handshake
<1> DEFINE q == lines[1]
           r == lines'[1]
<1>1. q \in Seq(Msgs) /\ Len(q) \in Nat /\ Len(lines) \in Nat /\ Len(lines) >= 1
  BY LineTypes, LenProperties
<1>2. /\ shown # <<>> => \E i \in 1 .. Len(q) : q[i] = InitMsg
      /\ \A j \in DataAt(q) : \E i \in 1 .. j - 1 : q[i] = InitMsg
  BY DEF Handshake
<1>3. CASE Len(lines) = 1
  <2>1. r = q \o <<m>>
    BY <1>3, WriteUpOne
  <2> HIDE DEF q, r
  <2>2. Len(r) = Len(q) + 1 /\ r[Len(q) + 1] = m /\ \A j \in 1 .. Len(q) : r[j] = q[j]
    BY <1>1, <2>1
  <2>3. shown # <<>> => \E i \in 1 .. Len(q) : r[i] = InitMsg
    BY <1>2, <2>2
  <2>4. shown' # <<>> => \E i \in 1 .. Len(r) : r[i] = InitMsg
    BY <1>1, <2>2, <2>3
  <2>5. ASSUME NEW j \in DataAt(r) PROVE \E i \in 1 .. j - 1 : r[i] = InitMsg
    <3>1. CASE j = Len(q) + 1
      <4>1. m[1] = "data" /\ Len(q) = j - 1
        BY <1>1, <2>2, <2>5, <3>1 DEF DataAt
      <4> QED  BY <2>3, <4>1
    <3>2. CASE j \in 1 .. Len(q)
      <4>1. j \in DataAt(q)
        BY <2>2, <2>5, <3>2 DEF DataAt
      <4>2. PICK i \in 1 .. j - 1 : q[i] = InitMsg
        BY <1>2, <4>1
      <4>3. i \in 1 .. Len(q)
        BY <1>1, <3>2
      <4> QED  BY <2>2, <4>2, <4>3
    <3> QED  BY <1>1, <2>2, <2>5, <3>1, <3>2 DEF DataAt
  <2> QED  BY <2>4, <2>5 DEF r
<1>4. CASE Len(lines) # 1
  <2>1. 1 \in 1 .. Len(lines) /\ 1 # Len(lines)
    BY <1>1, <1>4
  <2>2. r = q
    BY <2>1, WriteUpOne
  <2>3. shown' # <<>> => shown # <<>>
    BY <1>4
  <2> HIDE DEF q, r
  <2>4. shown' # <<>> => \E i \in 1 .. Len(r) : r[i] = InitMsg
    BY <1>2, <2>2, <2>3
  <2>5. \A j \in DataAt(r) : \E i \in 1 .. j - 1 : r[i] = InitMsg
    BY <1>2, <2>2
  <2> QED  BY <2>4, <2>5 DEF r
<1> QED  BY <1>3, <1>4

LEMMA ClientAcksKeeps == LinkInv /\ ClientAcks => LinkInv'
<1> SUFFICES ASSUME LinkInv, ClientAcks PROVE LinkInv'
  OBVIOUS
<1>1. TypeOK /\ Counted /\ DownStream /\ UpStreams /\ Buffers /\ Handshake /\ Returning
  BY DEF LinkInv
<1> DEFINE m == Ack(Len(shown))
<1>2. /\ connected /\ lines' = Up(<<m>>)
      /\ UNCHANGED <<present, gproxy, loaded, said, gbuffer, heard, gone, connected, ready, synced,
                     local, pbuffer, shown, losses, down>>
  BY DEF ClientAcks, botVars, clientVars
<1>3. TypeOK'
  BY <1>1, TypeStep DEF Next, ClientStep
<1>4. m \in Msgs /\ m[1] = "ack" /\ m[2] = Len(shown) /\ Len(shown) \in Nat
  BY <1>1, Lengths, MsgTypes DEF Ack
<1> HIDE DEF m
<1>5. UpStreams' /\ Attached' = Attached
  BY <1>1, <1>2, <1>4, UpStreamsOther, WriteUpOne DEF Attached
<1>6. Handshake'
  <2>1. ~gproxy => \A j \in 1 .. Len(down') : down'[j][1] # "reconnect"
    BY <1>1, <1>2 DEF Handshake
  <2>2. UNCHANGED <<loaded, gproxy, heard>>
    BY <1>2
  <2>3. shown' # <<>> => shown # <<>> \/ (m = InitMsg /\ Len(lines) = 1)
    BY <1>2
  <2>4. m[1] = "data" => shown # <<>>
    BY <1>4
  <2>5. TypeOK /\ Handshake /\ m \in Msgs /\ lines' = Up(<<m>>)
    BY <1>1, <1>2, <1>4
  <2> QED  BY <2>1, <2>2, <2>3, <2>4, <2>5, HandshakeWrite
<1>7. Counted' /\ DownStream' /\ Buffers' /\ Returning'
  BY <1>1, <1>2, <1>5 DEF Counted, DownStream, Buffers, Returning, Protected
<1> QED  BY <1>3, <1>5, <1>6, <1>7 DEF LinkInv

LEMMA GameGoesKeeps == LinkInv /\ GameGoes => LinkInv'
<1> SUFFICES ASSUME LinkInv, GameGoes PROVE LinkInv'
  OBVIOUS
<1>1. TypeOK /\ Counted /\ DownStream /\ UpStreams /\ Buffers /\ Handshake /\ Returning
  BY DEF LinkInv
<1>2. /\ gone' = TRUE /\ connected' = FALSE /\ down' = <<>>
      /\ lines' = Up(<<LeaveMsg>>) \/ lines' = lines
      /\ UNCHANGED <<present, gproxy, loaded, said, gbuffer, heard, ready, synced, local, pbuffer,
                     shown, losses>>
  BY DEF GameGoes, botVars
<1>3. TypeOK'
  BY <1>1, TypeStep DEF Next, ClientStep
<1>4. LeaveMsg \in Msgs /\ LeaveMsg[1] = "leave"
  BY DEF LeaveMsg, Msgs
<1>5. UpStreams'
  <2>1. CASE lines' = Up(<<LeaveMsg>>)
    BY <1>1, <1>2, <1>4, <2>1, UpStreamsOther, Lengths
  <2>2. CASE lines' = lines
    BY <1>1, <1>2, <2>2, UpStreamsStay, Lengths
  <2> QED  BY <1>2, <2>1, <2>2
<1>6. Handshake'
  <2>1. \A j \in 1 .. Len(down') : down'[j][1] # "reconnect"
    BY <1>2, EmptySeq
  <2>2. CASE lines' = Up(<<LeaveMsg>>)
    <3>1. UNCHANGED <<loaded, gproxy, heard>>
      BY <1>2
    <3>2. shown' # <<>> => shown # <<>> \/ (LeaveMsg = InitMsg /\ Len(lines) = 1)
      BY <1>2
    <3>3. LeaveMsg[1] = "data" => shown # <<>>
      BY <1>4
    <3>4. ~gproxy => \A j \in 1 .. Len(down') : down'[j][1] # "reconnect"
      BY <2>1
    <3> QED  BY <1>1, <1>4, <2>2, <3>1, <3>2, <3>3, <3>4, HandshakeWrite
  <2>3. CASE lines' = lines
    BY <1>1, <1>2, <2>1, <2>3 DEF Handshake
  <2> QED  BY <1>2, <2>2, <2>3
<1>7. DownStream'
  BY <1>2, EmptySeq DEF DownStream, Attached
<1>8. Counted' /\ Buffers' /\ Returning'
  BY <1>1, <1>2 DEF Counted, Buffers, Returning
<1> QED  BY <1>3, <1>5, <1>6, <1>7, <1>8 DEF LinkInv

LEMMA LocalKeeps == LinkInv /\ Local => LinkInv'
<1> SUFFICES ASSUME LinkInv, Local PROVE LinkInv'
  OBVIOUS
<1>1. TypeOK /\ Counted /\ DownStream /\ UpStreams /\ Buffers /\ Handshake /\ Returning
  BY DEF LinkInv
<1> DEFINE m == Data(local + 1)
<1>2. /\ shown # <<>> /\ local' = local + 1 /\ pbuffer' = Append(pbuffer, local + 1)
      /\ lines' = IF connected /\ synced THEN Up(<<m>>) ELSE lines
      /\ UNCHANGED <<present, gproxy, loaded, said, gbuffer, heard, gone, connected, ready, synced,
                     shown, losses, down>>
  BY DEF Local, botVars
<1>3. TypeOK'
  BY <1>1, TypeStep DEF Next, ClientStep
<1>4. m \in Msgs /\ m[1] = "data" /\ local \in Nat /\ Len(heard) \in Nat /\ Len(heard) <= local
  BY <1>1, Lengths, MsgTypes DEF Data, Counted
<1>5. Counted'
  BY <1>1, <1>2, <1>4 DEF Counted
<1>6. Buffers'
  <2>1. /\ KeepsLast(pbuffer', local') /\ local' - Len(pbuffer') = local - Len(pbuffer)
    BY <1>1, <1>2, <1>4, AppendKeeps DEF Buffers, TypeOK
  <2> QED  BY <1>1, <1>2, <2>1 DEF Buffers
<1>7. CASE connected /\ synced
  <2>1. Len(lines) = 1 /\ Attached
    <3>1. ~(Len(lines) > 1) /\ connected
      BY <1>1, <1>7 DEF UpStreams
    <3>2. Len(lines) \in Nat /\ Len(lines) >= 1
      BY <1>1, LineTypes
    <3>3. Len(lines) = 1
      BY <3>1, <3>2
    <3> QED  BY <3>1, <3>3 DEF Attached
  <2>2. Len(lines') = 1 /\ lines'[1] = lines[1] \o <<m>>
    <3> HIDE DEF m
    <3> QED  BY <1>1, <1>2, <1>4, <1>7, <2>1, WriteUpOne
  <2>3. lines[1] \in Seq(Msgs) /\ Complete(lines[1], Len(heard), local)
    BY <1>1, <1>7, <2>1, LineTypes DEF UpStreams
  <2>4. Complete(lines'[1], Len(heard), local')
    BY <1>2, <1>4, <2>2, <2>3, WriteData
  <2>5. ASSUME NEW j \in 1 .. Len(lines'[1]), lines'[1][j][1] \in {"ack", "reconnect"}
        PROVE  lines'[1][j][2] <= Len(shown)
    <3> HIDE DEF m
    <3>1. \A k \in 1 .. Len(lines[1] \o <<m>>) :
            \/ k \in 1 .. Len(lines[1]) /\ (lines[1] \o <<m>>)[k] = lines[1][k]
            \/ (lines[1] \o <<m>>)[k] = m
      BY <1>4, <2>3
    <3>2. j \in 1 .. Len(lines[1]) /\ lines'[1][j] = lines[1][j]
      BY <1>4, <2>2, <2>5, <3>1
    <3> QED  BY <1>1, <2>1, <2>5, <3>2 DEF UpStreams
  <2>6. UpStreams'
    <3>1. UNCHANGED <<heard, shown, connected, synced>> /\ synced
      BY <1>2, <1>7
    <3>2. InOrder(lines'[1], Len(heard), local')
      BY <2>4 DEF Complete
    <3>3. /\ \A i \in 2 .. Len(lines') : DataAt(lines'[i]) = {}
          /\ ~(Len(lines') > 1)
      BY <2>2
    <3>4. \A i \in 1 .. Len(lines') : i = 1
      BY <2>2
    <3> QED  BY <2>4, <2>5, <3>1, <3>2, <3>3, <3>4 DEF UpStreams
  <2>7. Handshake'
    <3> HIDE DEF m
    <3>1. ~gproxy => \A j \in 1 .. Len(down') : down'[j][1] # "reconnect"
      BY <1>1, <1>2 DEF Handshake
    <3>2. UNCHANGED <<loaded, gproxy, heard>> /\ lines' = Up(<<m>>)
      BY <1>2, <1>7
    <3>3. shown' # <<>> => shown # <<>> \/ (m = InitMsg /\ Len(lines) = 1)
      BY <1>2
    <3>4. m[1] = "data" => shown # <<>>
      BY <1>2
    <3> QED  BY <1>1, <1>4, <3>1, <3>2, <3>3, <3>4, HandshakeWrite
  <2>8. DownStream' /\ Returning'
    BY <1>1, <1>2, <2>1, <2>2 DEF DownStream, Returning, Attached
  <2> QED  BY <1>3, <1>5, <1>6, <2>6, <2>7, <2>8 DEF LinkInv
<1>8. CASE ~(connected /\ synced)
  <2>1. lines' = lines /\ ~(Attached /\ synced)
    BY <1>2, <1>8 DEF Attached
  <2>2. InOrder(lines[1], Len(heard), local + 1)
    BY <1>1, <1>4, Ahead DEF UpStreams
  <2>3. UpStreams'
    BY <1>1, <1>2, <2>1, <2>2 DEF UpStreams, Attached
  <2>4. DownStream' /\ Returning' /\ Handshake'
    BY <1>1, <1>2, <2>1 DEF DownStream, Returning, Handshake, Attached, Protected
  <2> QED  BY <1>3, <1>5, <1>6, <2>3, <2>4 DEF LinkInv
<1> QED  BY <1>7, <1>8

-----------------------------------------------------------------------------
(* The bot reads its socket.                                               *)

LEMMA NoDataTail ==
  ASSUME NEW q \in Seq(Msgs), q # <<>>, DataAt(q) = {}
  PROVE  DataAt(Tail(q)) = {}
BY DataTail

LEMMA TailFacts ==
  ASSUME NEW q \in Seq(Msgs), q # <<>>
  PROVE  /\ Head(q) = q[1] /\ 1 \in 1 .. Len(q) /\ Head(q) \in Msgs
         /\ Tail(q) \in Seq(Msgs) /\ Len(Tail(q)) \in Nat /\ Len(q) \in Nat
         /\ Len(Tail(q)) = Len(q) - 1
         /\ \A j \in 1 .. Len(Tail(q)) :
              j \in Nat /\ j + 1 \in 2 .. Len(q) /\ j + 1 # 1 /\ Tail(q)[j] = q[j + 1]
         /\ \A j \in 2 .. Len(q) : j - 1 \in 1 .. Len(Tail(q)) /\ Tail(q)[j - 1] = q[j]
<1>1. Len(q) \in Nat /\ Len(q) # 0
  BY LenProperties, EmptySeq
<1>2. /\ Tail(q) \in Seq(Msgs) /\ Len(Tail(q)) = Len(q) - 1 /\ Head(q) \in Msgs /\ Head(q) = q[1]
      /\ \A j \in 1 .. Len(Tail(q)) : Tail(q)[j] = q[j + 1]
  BY HeadTailProperties
<1> DEFINE r == Tail(q)
<1> HIDE DEF r
<1>3. \A j \in 1 .. Len(r) : j \in Nat /\ j + 1 \in 2 .. Len(q) /\ j + 1 # 1 /\ r[j] = q[j + 1]
  BY <1>1, <1>2 DEF r
<1>4. ASSUME NEW j \in 2 .. Len(q) PROVE j - 1 \in 1 .. Len(r) /\ r[j - 1] = q[j]
  <2>1. j - 1 \in 1 .. Len(r) /\ j - 1 + 1 = j
    BY <1>1, <1>2 DEF r
  <2> QED  BY <1>3, <2>1
<1> QED  BY <1>1, <1>2, <1>3, <1>4 DEF r

\* the parts of UpStreams that do not depend on the packets got
LEMMA ReadLineKeeps ==
  ASSUME TypeOK, UpStreams, Head(lines) # <<>>, lines' = [lines EXCEPT ![1] = Tail(lines[1])],
         UNCHANGED <<local, connected, synced, shown>>,
         InOrder(Tail(lines[1]), Len(heard'), local),
         Attached /\ synced => Complete(Tail(lines[1]), Len(heard'), local)
  PROVE  UpStreams' /\ Attached' = Attached
<1> DEFINE q == lines[1]
<1>1. /\ Len(lines) \in Nat /\ Len(lines) >= 1 /\ q # <<>> /\ q \in Seq(Msgs)
      /\ Len(lines') = Len(lines) /\ lines'[1] = Tail(q)
      /\ \A i \in 2 .. Len(lines) : lines'[i] = lines[i]
  BY LineTypes, ReadLine
<1>2. Attached' = Attached
  BY <1>1 DEF Attached
<1>3. Attached /\ ~synced => DataAt(Tail(q)) = {}
  BY <1>1, NoDataTail DEF UpStreams
<1>4. \A i \in 2 .. Len(lines) : DataAt(lines'[i]) = {}
  BY <1>1 DEF UpStreams
<1>5. ASSUME NEW i \in 1 .. Len(lines), NEW j \in 1 .. Len(lines'[i]),
             lines'[i][j][1] \in {"ack", "reconnect"}
      PROVE  lines'[i][j][2] <= Len(shown)
  <2>1. CASE i = 1
    <3>1. j + 1 \in 1 .. Len(q) /\ lines'[i][j] = q[j + 1]
      BY <1>1, <2>1, TailFacts
    <3>2. 1 \in 1 .. Len(lines) /\ q[j + 1][1] \in {"ack", "reconnect"}
      BY <1>1, <1>5, <3>1
    <3>3. q[j + 1][2] <= Len(shown)
      BY <3>1, <3>2 DEF UpStreams
    <3> QED  BY <3>1, <3>3
  <2>2. CASE i \in 2 .. Len(lines)
    <3>1. lines'[i] = lines[i]
      BY <1>1, <2>2
    <3> QED  BY <1>5, <3>1 DEF UpStreams
  <2> QED  BY <1>1, <2>1, <2>2
<1>6. connected /\ Len(lines) > 1 =>
        /\ ~synced /\ lines'[Len(lines)] # <<>>
        /\ Head(lines'[Len(lines)]) = Reconnect(Len(shown))
  <2> SUFFICES ASSUME connected, Len(lines) > 1
               PROVE  /\ ~synced /\ lines'[Len(lines)] # <<>>
                      /\ Head(lines'[Len(lines)]) = Reconnect(Len(shown))
    OBVIOUS
  <2>1. lines'[Len(lines)] = lines[Len(lines)]
    BY <1>1
  <2> QED  BY <2>1 DEF UpStreams
<1>7. /\ InOrder(lines'[1], Len(heard'), local)
      /\ Attached /\ synced => Complete(lines'[1], Len(heard'), local)
      /\ Attached /\ ~synced => DataAt(lines'[1]) = {}
  BY <1>1, <1>3
<1> HIDE DEF q
<1>8. /\ Len(lines') = Len(lines)
      /\ local' = local /\ connected' = connected /\ synced' = synced /\ shown' = shown
  BY <1>1
<1>9. UpStreams'
  <2>1. InOrder(lines'[1], Len(heard'), local')
    BY <1>7, <1>8
  <2>2. Attached' /\ synced' => Complete(lines'[1], Len(heard'), local')
    BY <1>2, <1>7, <1>8
  <2>3. Attached' /\ ~synced' => DataAt(lines'[1]) = {}
    BY <1>2, <1>7, <1>8
  <2>4. \A i \in 2 .. Len(lines') : DataAt(lines'[i]) = {}
    BY <1>4, <1>8
  <2>5. \A i \in 1 .. Len(lines') : \A j \in 1 .. Len(lines'[i]) :
          lines'[i][j][1] \in {"ack", "reconnect"} => lines'[i][j][2] <= Len(shown')
    BY <1>5, <1>8
  <2>6. connected' /\ Len(lines') > 1 =>
          /\ ~synced' /\ lines'[Len(lines')] # <<>>
          /\ Head(lines'[Len(lines')]) = Reconnect(Len(shown'))
    BY <1>6, <1>8
  <2> QED  BY <2>1, <2>2, <2>3, <2>4, <2>5, <2>6 DEF UpStreams
<1> QED  BY <1>2, <1>9

\* the request for protection is still to be read
LEMMA HandshakeRead ==
  ASSUME TypeOK, Handshake, Head(lines) # <<>>, lines' = [lines EXCEPT ![1] = Tail(lines[1])],
         Head(lines[1])[1] \notin {"data", "init"},
         UNCHANGED <<loaded, gproxy, heard, shown, down>>
  PROVE  Handshake'
<1> DEFINE q == lines[1]
           r == lines'[1]
<1>1. q # <<>> /\ q \in Seq(Msgs) /\ r = Tail(q)
  BY LineTypes, ReadLine
<1>2. q[1] # InitMsg
  BY <1>1, TailFacts DEF InitMsg
<1> SUFFICES ASSUME ~gproxy
             PROVE  /\ shown # <<>> => \E i \in 1 .. Len(r) : r[i] = InitMsg
                    /\ \A j \in DataAt(r) : \E i \in 1 .. j - 1 : r[i] = InitMsg
  BY DEF Handshake
<1>3. /\ shown # <<>> => \E i \in 1 .. Len(q) : q[i] = InitMsg
      /\ \A j \in DataAt(q) : \E i \in 1 .. j - 1 : q[i] = InitMsg
  BY DEF Handshake
<1> HIDE DEF q, r
<1>4. \A i \in 1 .. Len(q) : q[i] = InitMsg => i - 1 \in 1 .. Len(r) /\ r[i - 1] = InitMsg
  <2> SUFFICES ASSUME NEW i \in 1 .. Len(q), q[i] = InitMsg
               PROVE  i - 1 \in 1 .. Len(r) /\ r[i - 1] = InitMsg
    OBVIOUS
  <2>1. i \in 2 .. Len(q)
    BY <1>1, <1>2, TailFacts
  <2> QED  BY <1>1, <2>1, TailFacts
<1>5. shown # <<>> => \E i \in 1 .. Len(r) : r[i] = InitMsg
  BY <1>3, <1>4
<1>6. ASSUME NEW j \in DataAt(r) PROVE \E i \in 1 .. j - 1 : r[i] = InitMsg
  <2>1. j + 1 \in DataAt(q) /\ j \in Nat /\ j \in 1 .. Len(r) /\ Len(q) \in Nat /\ Len(r) = Len(q) - 1
    BY <1>1, <1>6, DataTail, TailFacts DEF DataAt
  <2>2. PICK i \in 1 .. (j + 1) - 1 : q[i] = InitMsg
    BY <1>3, <2>1
  <2>3. i \in 1 .. Len(q) /\ i \in Nat
    BY <2>1, <2>2
  <2>4. i - 1 \in 1 .. Len(r) /\ r[i - 1] = InitMsg
    BY <1>4, <2>2, <2>3
  <2>5. i - 1 \in 1 .. j - 1
    BY <2>1, <2>2, <2>4
  <2> QED  BY <2>4, <2>5
<1> QED  BY <1>5, <1>6

LEMMA BotReceivesKeeps == LinkInv /\ BotReceives => LinkInv'
<1> SUFFICES ASSUME LinkInv, BotReceives PROVE LinkInv'
  OBVIOUS
<1>1. TypeOK /\ Counted /\ DownStream /\ UpStreams /\ Buffers /\ Handshake /\ Returning
  BY DEF LinkInv
<1> DEFINE q == lines[1]
           msg == Head(q)
<1>2. /\ Head(lines) # <<>> /\ lines' = [lines EXCEPT ![1] = Tail(q)]
      /\ UNCHANGED <<loaded, said, gone, connected, ready, synced, local, pbuffer, shown, losses>>
      /\ Head(lines) = q
  BY <1>1, LineTypes DEF BotReceives, clientVars
<1>3. TypeOK'
  BY <1>1, TypeStep DEF Next, BotStep
<1>4. q # <<>> /\ q \in Seq(Msgs) /\ msg \in Msgs /\ msg = q[1] /\ 1 \in 1 .. Len(q)
  BY <1>1, <1>2, LineTypes, TailFacts
<1>5. InOrder(q, Len(heard), local) /\ (Attached /\ synced => Complete(q, Len(heard), local))
  BY <1>1 DEF UpStreams
<1>6. \/ /\ msg[1] = "data" /\ heard' = Append(heard, msg[2])
         /\ UNCHANGED <<present, gproxy, gbuffer, down>>
      \/ /\ msg[1] = "init" /\ gproxy' = TRUE /\ down' = Down(<<InitMsg>>)
         /\ UNCHANGED <<present, gbuffer, heard>>
      \/ /\ msg[1] = "ack" /\ gbuffer' = Unqueue(gbuffer, Len(said), msg[2])
         /\ UNCHANGED <<present, gproxy, heard, down>>
      \/ /\ msg[1] = "leave" /\ UNCHANGED <<gproxy, gbuffer, heard, down>>
  BY <1>2 DEF BotReceives
<1>7. ASSUME msg[1] # "data"
      PROVE  /\ InOrder(Tail(q), Len(heard), local)
             /\ Attached /\ synced => Complete(Tail(q), Len(heard), local)
  BY <1>1, <1>4, <1>5, <1>7, ReadOther, Lengths
<1>8. CASE msg[1] = "data" /\ heard' = Append(heard, msg[2])
           /\ UNCHANGED <<present, gproxy, gbuffer, down>>
  <2>1. /\ msg[2] = Len(heard) + 1 /\ Len(heard) + 1 <= local
        /\ InOrder(Tail(q), Len(heard) + 1, local)
        /\ Attached /\ synced => Complete(Tail(q), Len(heard) + 1, local)
    BY <1>1, <1>4, <1>5, <1>8, ReadData, Lengths
  <2>2. Len(heard') = Len(heard) + 1 /\ heard' = Numbered(Len(heard'))
    BY <1>1, <1>8, <2>1, OneMore DEF Counted, TypeOK
  <2>3. Counted'
    BY <1>1, <1>2, <2>1, <2>2, Lengths DEF Counted
  <2>4. UpStreams' /\ Attached' = Attached
    BY <1>1, <1>2, <2>1, <2>2, ReadLineKeeps
  <2>5. 1 \in DataAt(q)
    BY <1>4, <1>8 DEF DataAt
  <2>6. \A j \in 1 .. Len(down) : down[j][1] # "reconnect"
    <3> SUFFICES ASSUME NEW j \in 1 .. Len(down), down[j][1] = "reconnect" PROVE FALSE
      OBVIOUS
    <3>1. ~synced /\ down # <<>>
      BY <1>1, EmptySeq DEF DownStream
    <3>2. Attached
      BY <1>1, <3>1 DEF TypeOK
    <3> QED  BY <1>1, <2>5, <3>1, <3>2 DEF UpStreams
  <2>7. \A j \in 1 .. Len(down) : down[j][1] = "ack" => down[j][2] <= Len(heard')
    <3> SUFFICES ASSUME NEW j \in 1 .. Len(down), down[j][1] = "ack" PROVE down[j][2] <= Len(heard')
      OBVIOUS
    <3>1. down[j] \in Msgs /\ down[j][2] <= Len(heard)
      BY <1>1 DEF DownStream, TypeOK
    <3> QED  BY <1>1, <2>2, <3>1, Lengths DEF Msgs
  <2>8. DownStream'
    BY <1>1, <1>2, <1>8, <2>4, <2>6, <2>7 DEF DownStream
  <2>9. gproxy
    BY <1>1, <2>5 DEF Handshake
  <2>10. Handshake'
    BY <1>8, <2>9 DEF Handshake
  <2>11. local - Len(pbuffer) <= Len(heard')
    BY <1>1, <2>2, Lengths DEF Buffers
  <2>12. Buffers' /\ Returning'
    BY <1>1, <1>2, <1>8, <2>4, <2>11 DEF Buffers, Returning, Protected
  <2> QED  BY <1>3, <2>3, <2>4, <2>8, <2>10, <2>12 DEF LinkInv
<1>9. ASSUME msg[1] # "data", heard' = heard
      PROVE  Counted' /\ UpStreams' /\ Attached' = Attached /\ Returning'
  <2>1. /\ InOrder(Tail(q), Len(heard'), local)
        /\ Attached /\ synced => Complete(Tail(q), Len(heard'), local)
    BY <1>7, <1>9
  <2>2. UpStreams' /\ Attached' = Attached
    BY <1>1, <1>2, <2>1, ReadLineKeeps
  <2> QED  BY <1>1, <1>2, <1>9, <2>2 DEF Counted, Returning, Protected
<1>10. CASE msg[1] = "init" /\ gproxy' = TRUE /\ down' = Down(<<InitMsg>>)
            /\ UNCHANGED <<present, gbuffer, heard>>
  <2>1. Counted' /\ UpStreams' /\ Attached' = Attached /\ Returning'
    BY <1>9, <1>10
  <2>2. InitMsg \in Msgs /\ InitMsg[1] = "init"
    BY DEF InitMsg, Msgs
  <2>3. \A j \in 1 .. Len(down') :
          (j \in 1 .. Len(down) /\ down'[j] = down[j]) \/ down'[j] = InitMsg
    BY <1>1, <1>10, <2>2, WriteDown
  <2>4. Attached => Complete(down', Len(shown), Len(said))
    <3> SUFFICES ASSUME Attached PROVE Complete(down', Len(shown), Len(said))
      OBVIOUS
    <3>1. down \in Seq(Msgs) /\ Complete(down, Len(shown), Len(said)) /\ down' = down \o <<InitMsg>>
      BY <1>1, <1>10 DEF TypeOK, DownStream, Down
    <3> QED  BY <1>1, <2>2, <3>1, WriteOther, Lengths
  <2>5. ASSUME NEW j \in 1 .. Len(down')
        PROVE  /\ down'[j][1] = "ack" => down'[j][2] <= Len(heard)
               /\ down'[j][1] = "reconnect" => j = 1 /\ ~synced /\ down'[j][2] = Len(heard)
    BY <1>1, <2>2, <2>3 DEF DownStream
  <2>6. DownStream'
    BY <1>2, <1>10, <2>1, <2>4, <2>5 DEF DownStream
  <2>7. Handshake' /\ Buffers'
    BY <1>1, <1>2, <1>10 DEF Handshake, Buffers
  <2> QED  BY <1>3, <2>1, <2>6, <2>7 DEF LinkInv
<1>11. CASE msg[1] = "ack" /\ gbuffer' = Unqueue(gbuffer, Len(said), msg[2])
            /\ UNCHANGED <<present, gproxy, heard, down>>
  <2>1. Counted' /\ UpStreams' /\ Attached' = Attached /\ Returning'
    BY <1>9, <1>11
  <2>2. msg[2] \in Nat /\ msg[2] <= Len(shown) /\ msg[2] <= Len(said)
    <3>1. msg[2] \in Nat
      BY <1>4 DEF Msgs
    <3>2. 1 \in 1 .. Len(lines)
      BY <1>1, LineTypes
    <3>3. msg[2] <= Len(shown)
      BY <1>1, <1>4, <1>11, <3>2 DEF UpStreams
    <3> QED  BY <1>1, <3>1, <3>3, Lengths DEF Counted
  <2>3. Buffers'
    <3>1. /\ KeepsLast(gbuffer', Len(said))
          /\ IF msg[2] > Len(said) - Len(gbuffer)
             THEN Len(said) - Len(gbuffer') = msg[2] ELSE gbuffer' = gbuffer
      BY <1>1, <1>11, <2>2, UnqueueKeeps, Lengths DEF Buffers, TypeOK
    <3>2. ~loaded => gbuffer' = gbuffer
      <4> SUFFICES ASSUME ~loaded PROVE gbuffer' = gbuffer
        OBVIOUS
      <4>1. Len(gbuffer) = 0
        BY <1>1, EmptySeq DEF Buffers
      <4> QED  BY <1>1, <2>2, <3>1, <4>1, Lengths
    <3>3. loaded => \/ Len(said) - Len(gbuffer') <= Len(shown)
                    \/ \A n \in 1 .. Len(said) - Len(gbuffer') : said[n] # "update"
      <4>1. CASE msg[2] > Len(said) - Len(gbuffer)
        BY <2>2, <3>1, <4>1
      <4>2. CASE ~(msg[2] > Len(said) - Len(gbuffer))
        BY <1>1, <3>1, <4>2 DEF Buffers
      <4> QED  BY <4>1, <4>2
    <3> QED  BY <1>1, <1>2, <1>11, <3>1, <3>2, <3>3 DEF Buffers
  <2>4. DownStream'
    BY <1>1, <1>2, <1>11, <2>1 DEF DownStream
  <2>5. Handshake'
    <3>1. msg[1] \notin {"data", "init"} /\ UNCHANGED <<loaded, gproxy, heard, shown, down>>
      BY <1>2, <1>11
    <3> QED  BY <1>1, <1>2, <3>1, HandshakeRead
  <2> QED  BY <1>3, <2>1, <2>3, <2>4, <2>5 DEF LinkInv
<1>12. CASE msg[1] = "leave" /\ UNCHANGED <<gproxy, gbuffer, heard, down>>
  <2>1. Counted' /\ UpStreams' /\ Attached' = Attached /\ Returning'
    BY <1>9, <1>12
  <2>2. DownStream' /\ Buffers'
    BY <1>1, <1>2, <1>12, <2>1 DEF DownStream, Buffers
  <2>3. Handshake'
    <3>1. msg[1] \notin {"data", "init"} /\ UNCHANGED <<loaded, gproxy, heard, shown, down>>
      BY <1>2, <1>12
    <3> QED  BY <1>1, <1>2, <3>1, HandshakeRead
  <2> QED  BY <1>3, <2>1, <2>2, <2>3 DEF LinkInv
<1> QED  BY <1>6, <1>8, <1>10, <1>11, <1>12

-----------------------------------------------------------------------------
(* The client reads its connection.                                        *)

LEMMA ClientReceivesKeeps == LinkInv /\ ClientReceives => LinkInv'
<1> SUFFICES ASSUME LinkInv, ClientReceives PROVE LinkInv'
  OBVIOUS
<1>1. TypeOK /\ Counted /\ DownStream /\ UpStreams /\ Buffers /\ Handshake /\ Returning
  BY DEF LinkInv
<1> DEFINE msg == Head(down)
           unqueued == Unqueue(pbuffer, local, msg[2])
<1>2. /\ down # <<>> /\ down' = Tail(down) /\ connected
      /\ UNCHANGED <<present, gproxy, loaded, said, gbuffer, heard, gone, connected, local, losses>>
  BY DEF ClientReceives, botVars
<1>3. TypeOK'
  BY <1>1, TypeStep DEF Next, ClientStep
<1>4. Attached /\ Len(lines) = 1
  BY <1>1, <1>2 DEF TypeOK, Attached
<1>5. /\ down \in Seq(Msgs) /\ msg \in Msgs /\ msg = down[1] /\ 1 \in 1 .. Len(down)
      /\ \A j \in 1 .. Len(down') : j + 1 \in 2 .. Len(down) /\ down'[j] = down[j + 1]
  BY <1>1, <1>2, TailFacts DEF TypeOK
<1>6. msg[2] \in Nat /\ Complete(down, Len(shown), Len(said))
  BY <1>1, <1>4, <1>5 DEF Msgs, DownStream
<1>7. \/ /\ msg[1] = "data" /\ shown' = Append(shown, msg[2])
         /\ lines' = IF msg[2] = 1 THEN Up(<<InitMsg>>) ELSE lines
         /\ UNCHANGED <<ready, synced, pbuffer>>
      \/ msg[1] = "init" /\ ready' = TRUE /\ UNCHANGED <<synced, pbuffer, shown, lines>>
      \/ msg[1] = "ack" /\ pbuffer' = unqueued /\ UNCHANGED <<ready, synced, shown, lines>>
      \/ /\ msg[1] = "reconnect" /\ pbuffer' = unqueued /\ lines' = Up(DataOf(unqueued))
         /\ synced' = TRUE /\ UNCHANGED <<ready, shown>>
  BY DEF ClientReceives
<1>8. ASSUME NEW j \in 1 .. Len(down')
      PROVE  down'[j][1] # "reconnect" /\ (down'[j][1] = "ack" => down'[j][2] <= Len(heard))
  <2>1. j + 1 \in 1 .. Len(down) /\ j + 1 # 1 /\ down'[j] = down[j + 1]
    BY <1>5
  <2> QED  BY <1>1, <2>1 DEF DownStream
<1>9. ASSUME Attached', Complete(down', Len(shown'), Len(said)) PROVE DownStream' /\ Returning'
  BY <1>2, <1>8, <1>9 DEF DownStream, Returning
<1>10. ASSUME msg[1] # "data" PROVE Complete(down', Len(shown), Len(said))
  BY <1>1, <1>2, <1>5, <1>6, <1>10, ReadOther, Lengths
<1> HIDE DEF msg, unqueued
<1>11. CASE /\ msg[1] = "data" /\ shown' = Append(shown, msg[2])
            /\ lines' = IF msg[2] = 1 THEN Up(<<InitMsg>>) ELSE lines
            /\ UNCHANGED <<ready, synced, pbuffer>>
  <2>1. /\ msg[2] = Len(shown) + 1 /\ Len(shown) + 1 <= Len(said)
        /\ Complete(down', Len(shown) + 1, Len(said))
    BY <1>1, <1>2, <1>5, <1>6, <1>11, ReadData, Lengths DEF Complete, msg
  <2>2. Len(shown') = Len(shown) + 1 /\ shown' = Numbered(Len(shown'))
    BY <1>1, <1>11, <2>1, OneMore DEF Counted, TypeOK
  <2>3. Counted'
    BY <1>1, <1>2, <2>1, <2>2, Lengths DEF Counted
  <2>4. Len(shown') \in Nat /\ Len(shown) <= Len(shown') /\ (Len(lines) > 1 => shown' = shown)
    BY <1>1, <1>4, <2>2, Lengths
  <2>5. InitMsg \in Msgs /\ InitMsg[1] = "init"
    BY DEF InitMsg, Msgs
  <2>6. UNCHANGED <<lines, heard, local, synced>> \/ lines' = Up(<<InitMsg>>)
    BY <1>2, <1>11
  <2>7. UNCHANGED <<heard, local, synced>> /\ (connected' => connected)
    BY <1>2, <1>11
  <2>8. UpStreams' /\ Len(lines') = Len(lines)
    <3>1. CASE lines' = Up(<<InitMsg>>)
      BY <1>1, <2>4, <2>5, <2>7, <3>1, UpStreamsOther, WriteUpOne
    <3>2. CASE UNCHANGED <<lines, heard, local, synced>>
      BY <1>1, <2>4, <2>7, <3>2, UpStreamsStay
    <3> QED  BY <2>6, <3>1, <3>2
  <2>9. Attached'
    BY <1>2, <1>4, <2>8 DEF Attached
  <2>10. Buffers'
    <3>1. loaded => \/ Len(said) - Len(gbuffer) <= Len(shown')
                    \/ \A n \in 1 .. Len(said) - Len(gbuffer) : said[n] # "update"
      BY <1>1, <2>2, Lengths DEF Buffers
    <3> QED  BY <1>1, <1>2, <1>11, <3>1 DEF Buffers
  <2>11. Handshake'
    <3>1. ~gproxy => \A j \in 1 .. Len(down') : down'[j][1] # "reconnect"
      BY <1>8
    <3>2. UNCHANGED <<loaded, gproxy, heard>>
      BY <1>2
    <3>3. CASE msg[2] = 1
      <4>1. shown' # <<>> => shown # <<>> \/ (InitMsg = InitMsg /\ Len(lines) = 1)
        BY <1>4
      <4>2. InitMsg[1] = "data" => shown # <<>>
        BY <2>5
      <4>3. lines' = Up(<<InitMsg>>)
        BY <1>11, <3>3
      <4> QED  BY <1>1, <2>5, <3>1, <3>2, <4>1, <4>2, <4>3, HandshakeWrite
    <3>4. CASE msg[2] # 1
      <4>1. shown # <<>> /\ lines' = lines
        BY <1>11, <2>1, <3>4, EmptySeq
      <4> QED  BY <1>1, <3>1, <3>2, <4>1 DEF Handshake
    <3> QED  BY <3>3, <3>4
  <2>12. DownStream' /\ Returning'
    BY <1>9, <2>1, <2>2, <2>9
  <2> QED  BY <1>3, <2>3, <2>8, <2>10, <2>11, <2>12 DEF LinkInv
<1>12. ASSUME UNCHANGED <<synced, shown, lines>>, msg[1] # "data"
       PROVE  Counted' /\ UpStreams' /\ DownStream' /\ Returning' /\ Handshake'
  <2>1. UpStreams' /\ Attached'
    BY <1>1, <1>2, <1>4, <1>12, UpStreamsStay, Lengths DEF Attached
  <2>2. DownStream' /\ Returning'
    BY <1>9, <1>10, <1>12, <2>1
  <2>3. Counted' /\ Handshake'
    BY <1>1, <1>2, <1>8, <1>12 DEF Counted, Handshake
  <2> QED  BY <2>1, <2>2, <2>3
<1>13. CASE msg[1] = "init" /\ ready' = TRUE /\ UNCHANGED <<synced, pbuffer, shown, lines>>
  <2>1. Counted' /\ UpStreams' /\ DownStream' /\ Returning' /\ Handshake'
    BY <1>12, <1>13
  <2>2. Buffers'
    BY <1>1, <1>2, <1>13 DEF Buffers
  <2> QED  BY <1>3, <2>1, <2>2 DEF LinkInv
<1>14. ASSUME msg[2] <= Len(heard), pbuffer' = unqueued, UNCHANGED shown
       PROVE  /\ Buffers' /\ pbuffer' \in Seq(Nat) /\ KeepsLast(pbuffer', local)
              /\ msg[2] = Len(heard) => local - Len(pbuffer') = Len(heard)
  <2>1. msg[2] <= local
    BY <1>1, <1>6, <1>14, Lengths DEF Counted
  <2>2. /\ unqueued \in Seq(Nat) /\ KeepsLast(unqueued, local)
        /\ IF msg[2] > local - Len(pbuffer)
           THEN local - Len(unqueued) = msg[2] ELSE unqueued = pbuffer
    BY <1>1, <1>6, <2>1, UnqueueKeeps, Lengths DEF Buffers, TypeOK, unqueued
  <2>3. local - Len(pbuffer) <= Len(heard)
    BY <1>1 DEF Buffers
  <2>4. local - Len(unqueued) <= Len(heard)
    BY <1>14, <2>2, <2>3
  <2>5. msg[2] = Len(heard) => local - Len(unqueued) = Len(heard)
    BY <1>1, <2>2, <2>3, Lengths
  <2>6. Buffers'
    BY <1>1, <1>2, <1>14, <2>2, <2>4 DEF Buffers
  <2> QED  BY <1>14, <2>2, <2>5, <2>6
<1>15. CASE msg[1] = "ack" /\ pbuffer' = unqueued /\ UNCHANGED <<ready, synced, shown, lines>>
  <2>1. Counted' /\ UpStreams' /\ DownStream' /\ Returning' /\ Handshake'
    BY <1>12, <1>15
  <2>2. msg[2] <= Len(heard)
    BY <1>1, <1>5, <1>15 DEF DownStream
  <2>3. Buffers'
    BY <1>14, <1>15, <2>2
  <2> QED  BY <1>3, <2>1, <2>3 DEF LinkInv
<1>16. CASE /\ msg[1] = "reconnect" /\ pbuffer' = unqueued /\ lines' = Up(DataOf(unqueued))
            /\ synced' = TRUE /\ UNCHANGED <<ready, shown>>
  <2>1. msg[2] = Len(heard) /\ ~synced /\ gproxy
    BY <1>1, <1>5, <1>16 DEF DownStream, Handshake
  <2>2. /\ Buffers' /\ pbuffer' \in Seq(Nat) /\ KeepsLast(pbuffer', local)
        /\ local - Len(pbuffer') = Len(heard)
    BY <1>1, <1>14, <1>16, <2>1, Lengths
  <2> DEFINE q == lines[1]
             msgs == DataOf(pbuffer')
  <2>3. /\ q \in Seq(Msgs) /\ Len(q) \in Nat /\ DataAt(q) = {} /\ msgs \in Seq(Msgs)
        /\ Len(msgs) \in Nat /\ \A j \in 1 .. Len(msgs) : msgs[j][1] = "data"
    <3>1. q \in Seq(Msgs) /\ DataAt(q) = {}
      BY <1>1, <1>4, <2>1, LineTypes DEF UpStreams
    <3>2. msgs \in Seq(Msgs)
      BY <2>2, DataOfType
    <3>3. Len(pbuffer') \in Nat
      BY <2>2, LenProperties
    <3>4. Len(msgs) = Len(pbuffer') /\ \A j \in 1 .. Len(msgs) : msgs[j][1] = "data"
      BY <3>3 DEF DataOf, Data
    <3> QED  BY <3>1, <3>2, <3>3, <3>4, LenProperties
  <2>4. Complete(q \o msgs, Len(heard), local)
    BY <1>1, <2>2, <2>3, WriteKept, Lengths
  <2> HIDE DEF msgs
  <2>5. Len(lines') = 1 /\ lines'[1] = q \o msgs
    <3>1. lines' = Up(msgs)
      BY <1>16 DEF msgs
    <3> QED  BY <1>1, <1>4, <2>3, <3>1, WriteUp
  <2>6. ASSUME NEW j \in 1 .. Len(lines'[1]), lines'[1][j][1] \in {"ack", "reconnect"}
        PROVE  lines'[1][j][2] <= Len(shown)
    <3>1. /\ Len(q \o msgs) = Len(q) + Len(msgs)
          /\ \A k \in 1 .. Len(q) + Len(msgs) :
               (q \o msgs)[k] = IF k <= Len(q) THEN q[k] ELSE msgs[k - Len(q)]
      BY <2>3, ConcatProperties
    <3>2. CASE j <= Len(q)
      <4>1. j \in 1 .. Len(q) /\ lines'[1][j] = q[j]
        BY <2>3, <2>5, <3>1, <3>2
      <4> QED  BY <1>1, <1>4, <2>6, <4>1 DEF UpStreams
    <3>3. CASE ~(j <= Len(q))
      <4>1. j - Len(q) \in 1 .. Len(msgs) /\ lines'[1][j] = msgs[j - Len(q)]
        BY <2>3, <2>5, <3>1, <3>3
      <4> QED  BY <2>3, <2>6, <4>1
    <3> QED  BY <3>2, <3>3
  <2>7. UpStreams'
    <3>1. UNCHANGED <<heard, local, shown>> /\ synced'
      BY <1>2, <1>16
    <3>2. InOrder(lines'[1], Len(heard), local)
      BY <2>4, <2>5 DEF Complete
    <3>3. /\ \A i \in 2 .. Len(lines') : DataAt(lines'[i]) = {}
          /\ ~(Len(lines') > 1)
      BY <2>5
    <3>4. \A i \in 1 .. Len(lines') : i = 1
      BY <2>5
    <3> QED  BY <2>4, <2>5, <2>6, <3>1, <3>2, <3>3, <3>4 DEF UpStreams
  <2>8. Attached'
    BY <1>2, <2>5 DEF Attached
  <2>9. DownStream' /\ Returning'
    BY <1>9, <1>10, <1>16, <2>8
  <2>10. Counted' /\ Handshake'
    BY <1>1, <1>2, <1>16, <2>1 DEF Counted, Handshake
  <2> QED  BY <1>3, <2>2, <2>7, <2>9, <2>10 DEF LinkInv
<1> QED  BY <1>7, <1>11, <1>13, <1>15, <1>16

-----------------------------------------------------------------------------
(* The bot answers a request.                                              *)

LEMMA RejectReconnectKeeps ==
  ASSUME LinkInv, NEW i \in 2 .. Len(lines), RejectReconnect(i)
  PROVE  LinkInv'
<1>1. TypeOK /\ Counted /\ DownStream /\ UpStreams /\ Buffers /\ Handshake /\ Returning
  BY DEF LinkInv
<1>2. /\ lines' = RemoveAt(lines, i)
      /\ UNCHANGED <<present, gproxy, loaded, said, gbuffer, heard, ready, synced, local, pbuffer,
                     shown, down, losses>>
  BY DEF RejectReconnect, botVars
<1>3. TypeOK'
  BY <1>1, TypeStep DEF Next, BotStep
<1>4. \/ i = Len(lines) /\ connected /\ gone' = TRUE /\ connected' = FALSE
      \/ ~(i = Len(lines) /\ connected) /\ gone' = gone /\ connected' = connected
  BY DEF RejectReconnect
<1>5. /\ Len(lines) \in Nat /\ i \in Nat /\ Len(lines') = Len(lines) - 1
      /\ \A j \in 1 .. Len(lines') : lines'[j] = lines[IF j < i THEN j ELSE j + 1]
  BY <1>1, <1>2, CloseLine, LineTypes
<1>6. lines'[1] = lines[1] /\ 1 \in 1 .. Len(lines)
  <2>1. 1 \in 1 .. Len(lines') /\ 1 < i
    BY <1>5
  <2> QED  BY <1>5, <2>1
<1>7. ~Attached /\ ~Attached'
  <2>1. ~Attached
    BY <1>5 DEF Attached
  <2>2. connected' => Len(lines') # 1
    <3> SUFFICES ASSUME connected', Len(lines') = 1 PROVE FALSE
      OBVIOUS
    <3>1. i = Len(lines)
      BY <1>5
    <3> QED  BY <1>4, <3>1
  <2> QED  BY <2>1, <2>2 DEF Attached
<1>8. \A j \in 2 .. Len(lines') : \E k \in 2 .. Len(lines) : lines'[j] = lines[k]
  <2> SUFFICES ASSUME NEW j \in 2 .. Len(lines') PROVE \E k \in 2 .. Len(lines) : lines'[j] = lines[k]
    OBVIOUS
  <2> DEFINE k == IF j < i THEN j ELSE j + 1
  <2>1. k \in 2 .. Len(lines) /\ j \in 1 .. Len(lines')
    BY <1>5
  <2>2. lines'[j] = lines[k]
    BY <1>5, <2>1
  <2> QED  BY <2>1, <2>2
<1>9. connected' /\ Len(lines') > 1 =>
        ~synced /\ lines'[Len(lines')] # <<>> /\ Head(lines'[Len(lines')]) = Reconnect(Len(shown))
  <2> SUFFICES ASSUME connected', Len(lines') > 1
               PROVE  /\ ~synced /\ lines'[Len(lines')] # <<>>
                      /\ Head(lines'[Len(lines')]) = Reconnect(Len(shown))
    OBVIOUS
  <2>1. connected /\ i # Len(lines)
    BY <1>4
  <2>2. Len(lines') \in 1 .. Len(lines') /\ ~(Len(lines') < i) /\ Len(lines') + 1 = Len(lines)
    BY <1>5, <2>1
  <2>3. lines'[Len(lines')] = lines[Len(lines)] /\ Len(lines) > 1
    BY <1>5, <2>2
  <2> QED  BY <1>1, <2>1, <2>3 DEF UpStreams
<1>10. UpStreams'
  <2>1. InOrder(lines'[1], Len(heard), local)
    BY <1>1, <1>6 DEF UpStreams
  <2>2. \A j \in 2 .. Len(lines') : DataAt(lines'[j]) = {}
    BY <1>1, <1>8 DEF UpStreams
  <2>3. ASSUME NEW j \in 1 .. Len(lines'), NEW k \in 1 .. Len(lines'[j]),
               lines'[j][k][1] \in {"ack", "reconnect"}
        PROVE  lines'[j][k][2] <= Len(shown)
    <3>1. PICK l \in 1 .. Len(lines) : lines'[j] = lines[l]
      <4>1. CASE j = 1
        BY <1>6, <4>1
      <4>2. CASE j \in 2 .. Len(lines')
        BY <1>8, <4>2
      <4> QED  BY <1>5, <4>1, <4>2
    <3> QED  BY <1>1, <2>3, <3>1 DEF UpStreams
  <2> QED  BY <1>2, <1>7, <1>9, <2>1, <2>2, <2>3 DEF UpStreams
<1>11. down = <<>>
  BY <1>1, <1>7 DEF TypeOK
<1>12. DownStream'
  BY <1>1, <1>2, <1>7, <1>11, EmptySeq DEF DownStream
<1>13. Returning'
  BY <1>1, <1>2, <1>4, <1>7 DEF Returning, Protected
<1>14. Counted' /\ Buffers' /\ Handshake'
  BY <1>1, <1>2, <1>6 DEF Counted, Buffers, Handshake
<1> QED  BY <1>3, <1>10, <1>12, <1>13, <1>14 DEF LinkInv

\* a player whose game has loaded gets all it lacks
LEMMA NothingLost ==
  ASSUME TypeOK, Counted, Buffers, loaded, Protected
  PROVE  Len(said) - Len(gbuffer) <= Len(shown)
<1> SUFFICES ASSUME ~(Len(said) - Len(gbuffer) <= Len(shown)) PROVE FALSE
  OBVIOUS
<1>1. \A n \in 1 .. Len(said) - Len(gbuffer) : said[n] # "update"
  BY DEF Buffers
<1>2. PICK i \in 1 .. Len(shown) : said[shown[i]] = "update"
  BY DEF Protected
<1>3. shown[i] = i
  BY DEF Counted, Numbered
<1>4. i \in 1 .. Len(said) - Len(gbuffer)
  BY Lengths
<1> QED  BY <1>1, <1>2, <1>3, <1>4

LEMMA AcceptReconnectKeeps ==
  ASSUME LinkInv, NEW i \in 2 .. Len(lines), AcceptReconnect(i)
  PROVE  LinkInv'
<1>1. TypeOK /\ Counted /\ DownStream /\ UpStreams /\ Buffers /\ Handshake /\ Returning
  BY DEF LinkInv
<1> DEFINE last == Head(lines[i])[2]
           kept == Unqueue(gbuffer, Len(said), last)
<1>2. /\ loaded /\ gproxy
      /\ lines[i] # <<>> /\ Head(lines[i])[1] = "reconnect"
      /\ gbuffer' = Append(kept, Len(said) + 1)
      /\ said' = Append(said, "notice")
      /\ lines' = <<Tail(lines[i])>> \o SubSeq(lines, i + 1, Len(lines))
      /\ down' = IF connected /\ i = Len(lines) THEN Answer(kept) ELSE <<>>
      /\ UNCHANGED <<present, gproxy, loaded, heard, gone, connected, ready, synced, local, pbuffer,
                     shown, losses>>
  BY DEF AcceptReconnect, Accepting, Requested, clientVars
<1>3. TypeOK'
  BY <1>1, TypeStep DEF Next, BotStep
<1>4. /\ Len(lines) \in Nat /\ i \in Nat /\ i \in 1 .. Len(lines)
      /\ lines[i] \in Seq(Msgs) /\ Head(lines[i]) = lines[i][1] /\ 1 \in 1 .. Len(lines[i])
      /\ last \in Nat
  <2>1. Len(lines) \in Nat /\ lines[i] \in Seq(Msgs)
    BY <1>1, LineTypes
  <2>2. Head(lines[i]) = lines[i][1] /\ 1 \in 1 .. Len(lines[i]) /\ Head(lines[i]) \in Msgs
    BY <1>2, <2>1, TailFacts
  <2> QED  BY <2>1, <2>2 DEF Msgs
<1>5. last <= Len(shown) /\ last <= Len(said)
  <2>1. last <= Len(shown)
    BY <1>1, <1>2, <1>4 DEF UpStreams
  <2> QED  BY <1>1, <1>4, <2>1, Lengths DEF Counted
<1>6. ~Attached /\ (~gone => Protected)
  BY <1>1, <1>4 DEF Attached, Returning
<1>7. connected /\ i = Len(lines) =>
        ~synced /\ last = Len(shown) /\ Len(said) - Len(gbuffer) <= Len(shown)
  <2> SUFFICES ASSUME connected, i = Len(lines)
               PROVE  ~synced /\ last = Len(shown) /\ Len(said) - Len(gbuffer) <= Len(shown)
    OBVIOUS
  <2>1. ~synced /\ Head(lines[i]) = Reconnect(Len(shown))
    BY <1>1, <1>4 DEF UpStreams
  <2>2. ~gone
    BY <1>1 DEF TypeOK
  <2> QED  BY <1>1, <1>2, <1>6, <2>1, <2>2, NothingLost DEF Reconnect
<1> HIDE DEF last
<1>8. /\ kept \in Seq(Nat) /\ KeepsLast(kept, Len(said))
      /\ IF last > Len(said) - Len(gbuffer)
         THEN Len(said) - Len(kept) = last ELSE kept = gbuffer
  BY <1>1, <1>4, <1>5, UnqueueKeeps, Lengths DEF Buffers, TypeOK
<1> HIDE DEF kept
<1>9. /\ Len(said') = Len(said) + 1
      /\ \A n \in 1 .. Len(said) : said'[n] = said[n]
  BY <1>1, <1>2, SaidMore DEF Kinds
<1>10. Counted'
  BY <1>1, <1>2, <1>9, Lengths DEF Counted
<1>11. Buffers'
  <2>1. /\ KeepsLast(gbuffer', Len(said'))
        /\ Len(said') - Len(gbuffer') = Len(said) - Len(kept)
    BY <1>1, <1>2, <1>8, <1>9, AppendKeeps, Lengths
  <2>2. \/ Len(said) - Len(kept) <= Len(shown)
        \/ \A n \in 1 .. Len(said) - Len(kept) : said'[n] # "update"
    <3>1. CASE last > Len(said) - Len(gbuffer)
      BY <1>5, <1>8, <3>1
    <3>2. CASE ~(last > Len(said) - Len(gbuffer))
      <4>1. kept = gbuffer
        BY <1>8, <3>2
      <4>2. \A n \in 1 .. Len(said) - Len(gbuffer) : said'[n] = said[n]
        BY <1>1, <1>9, Lengths
      <4> QED  BY <1>1, <1>2, <4>1, <4>2 DEF Buffers
    <3> QED  BY <3>1, <3>2
  <2> QED  BY <1>1, <1>2, <2>1, <2>2 DEF Buffers
<1>12. /\ Len(lines') = Len(lines) - i + 1
       /\ lines'[1] = Tail(lines[i])
       /\ \A j \in 2 .. Len(lines') : i + j - 1 \in 2 .. Len(lines) /\ lines'[j] = lines[i + j - 1]
  BY <1>1, <1>2, TakeLine
<1>13. Attached' => connected /\ i = Len(lines)
  BY <1>2, <1>4, <1>12 DEF Attached
<1>14. DataAt(lines'[1]) = {}
  BY <1>1, <1>2, <1>4, <1>12, NoDataTail DEF UpStreams
<1>15. UpStreams'
  <2>1. InOrder(lines'[1], Len(heard), local)
    BY <1>14, NoData
  <2>2. ~(Attached' /\ synced)
    BY <1>7, <1>13
  <2>3. \A j \in 2 .. Len(lines') : DataAt(lines'[j]) = {}
    BY <1>1, <1>12 DEF UpStreams
  <2>4. ASSUME NEW j \in 1 .. Len(lines'), NEW k \in 1 .. Len(lines'[j]),
               lines'[j][k][1] \in {"ack", "reconnect"}
        PROVE  lines'[j][k][2] <= Len(shown)
    <3>1. CASE j = 1
      <4>1. k + 1 \in 1 .. Len(lines[i]) /\ lines'[j][k] = lines[i][k + 1]
        BY <1>2, <1>4, <1>12, <3>1, TailFacts
      <4> QED  BY <1>1, <1>4, <2>4, <4>1 DEF UpStreams
    <3>2. CASE j \in 2 .. Len(lines')
      <4>1. i + j - 1 \in 1 .. Len(lines) /\ lines'[j] = lines[i + j - 1]
        BY <1>12, <3>2
      <4> QED  BY <1>1, <2>4, <4>1 DEF UpStreams
    <3> QED  BY <1>4, <1>12, <3>1, <3>2
  <2>5. connected /\ Len(lines') > 1 =>
          /\ ~synced /\ lines'[Len(lines')] # <<>>
          /\ Head(lines'[Len(lines')]) = Reconnect(Len(shown))
    <3> SUFFICES ASSUME connected, Len(lines') > 1
                 PROVE  /\ ~synced /\ lines'[Len(lines')] # <<>>
                        /\ Head(lines'[Len(lines')]) = Reconnect(Len(shown))
      OBVIOUS
    <3>1. Len(lines') \in 2 .. Len(lines') /\ i + Len(lines') - 1 = Len(lines) /\ Len(lines) > 1
      BY <1>4, <1>12
    <3>2. lines'[Len(lines')] = lines[Len(lines)]
      BY <1>12, <3>1
    <3> QED  BY <1>1, <3>1, <3>2 DEF UpStreams
  <2> QED  BY <1>2, <1>14, <2>1, <2>2, <2>3, <2>4, <2>5 DEF UpStreams
<1>16. DownStream'
  <2>1. CASE connected /\ i = Len(lines)
    <3> DEFINE first == <<Reconnect(Len(heard))>>
               middle == first \o DataOf(kept)
    <3>1. Len(said) - Len(kept) = Len(shown)
      BY <1>1, <1>5, <1>7, <1>8, <2>1, Lengths
    <3>2. /\ Reconnect(Len(heard)) \in Msgs /\ Data(Len(said) + 1) \in Msgs
          /\ DataOf(kept) \in Seq(Msgs)
      BY <1>1, <1>8, Lengths, MsgTypes, DataOfType
    <3>3. /\ first \in Seq(Msgs) /\ Len(first) = 1 /\ first[1] = Reconnect(Len(heard))
          /\ DataAt(first) = {}
      BY <3>2 DEF DataAt, Reconnect
    <3> HIDE DEF first
    <3>4. /\ middle \in Seq(Msgs) /\ Len(middle) = 1 + Len(DataOf(kept))
          /\ Len(DataOf(kept)) \in Nat
          /\ \A j \in 1 .. 1 + Len(DataOf(kept)) :
               middle[j] = IF j <= 1 THEN first[j] ELSE DataOf(kept)[j - 1]
      <4> DEFINE rest == DataOf(kept)
      <4>1. rest \in Seq(Msgs) /\ Len(rest) \in Nat
        BY <3>2, LenProperties
      <4> HIDE DEF rest
      <4>2. /\ first \o rest \in Seq(Msgs) /\ Len(first \o rest) = Len(first) + Len(rest)
            /\ \A j \in 1 .. Len(first) + Len(rest) :
                 (first \o rest)[j] = IF j <= Len(first) THEN first[j] ELSE rest[j - Len(first)]
        BY <3>3, <4>1, ConcatProperties
      <4> QED  BY <3>3, <4>1, <4>2 DEF rest
    <3>5. Complete(middle, Len(shown), Len(said))
      BY <1>1, <1>8, <3>1, <3>3, WriteKept, Lengths
    <3> HIDE DEF middle
    <3>6. down' = middle \o <<Data(Len(said) + 1)>>
      BY <1>2, <2>1 DEF Answer, middle, first
    <3>7. Complete(down', Len(shown), Len(said) + 1)
      BY <1>1, <3>4, <3>5, <3>6, WriteData, Lengths DEF Counted
    <3>8. \A j \in 1 .. Len(DataOf(kept)) : DataOf(kept)[j][1] = "data"
      <4>1. Len(kept) \in Nat
        BY <1>8, LenProperties
      <4> QED  BY <4>1 DEF DataOf, Data
    <3>9. \A j \in 1 .. Len(down') :
            down'[j][1] = "data" \/ (j = 1 /\ down'[j] = Reconnect(Len(heard)))
      <4> SUFFICES ASSUME NEW j \in 1 .. Len(down')
                   PROVE  down'[j][1] = "data" \/ (j = 1 /\ down'[j] = Reconnect(Len(heard)))
        OBVIOUS
      <4>1. /\ Len(down') = Len(middle) + 1 /\ down'[Len(middle) + 1] = Data(Len(said) + 1)
            /\ \A k \in 1 .. Len(middle) : down'[k] = middle[k]
        BY <3>2, <3>4, <3>6
      <4>2. CASE j = 1
        BY <3>3, <3>4, <4>1, <4>2
      <4>3. CASE j = Len(middle) + 1
        BY <4>1, <4>3 DEF Data
      <4>4. CASE j \in 2 .. Len(middle)
        <5>1. j - 1 \in 1 .. Len(DataOf(kept)) /\ down'[j] = DataOf(kept)[j - 1]
          BY <3>4, <4>1, <4>4
        <5> QED  BY <3>8, <5>1
      <4> QED  BY <3>4, <4>1, <4>2, <4>3, <4>4
    <3>10. Reconnect(Len(heard))[1] = "reconnect" /\ Reconnect(Len(heard))[2] = Len(heard)
      BY DEF Reconnect
    <3>11. ASSUME NEW j \in 1 .. Len(down')
           PROVE  /\ down'[j][1] = "ack" => down'[j][2] <= Len(heard)
                  /\ down'[j][1] = "reconnect" => j = 1 /\ ~synced /\ down'[j][2] = Len(heard)
      BY <1>7, <2>1, <3>9, <3>10
    <3> QED  BY <1>2, <1>9, <3>7, <3>11 DEF DownStream
  <2>2. CASE ~(connected /\ i = Len(lines))
    BY <1>2, <1>13, <2>2, EmptySeq DEF DownStream
  <2> QED  BY <2>1, <2>2
<1>17. Handshake'
  BY <1>2 DEF Handshake
<1>18. Returning'
  <2>1. Protected => Protected'
    BY <1>1, <1>2, <1>9, Lengths, StaysProtected
  <2> QED  BY <1>2, <1>6, <2>1 DEF Returning
<1> QED  BY <1>3, <1>10, <1>11, <1>15, <1>16, <1>17, <1>18 DEF LinkInv

-----------------------------------------------------------------------------
(* The invariant, and what follows from it.                                *)

LEMMA LinkInit == Init => LinkInv
<1> SUFFICES ASSUME Init PROVE LinkInv
  OBVIOUS
<1>1. TypeOK
  BY TypeInit
<1>2. /\ gproxy = FALSE /\ loaded = FALSE /\ gone = FALSE /\ connected = TRUE /\ synced = TRUE
      /\ said = <<>> /\ gbuffer = <<>> /\ heard = <<1>> /\ local = 1 /\ pbuffer = <<1>>
      /\ shown = <<>> /\ lines = <<<<>>>> /\ down = <<>>
  BY DEF Init
<1>3. /\ Len(said) = 0 /\ Len(gbuffer) = 0 /\ Len(heard) = 1 /\ heard[1] = 1 /\ Len(pbuffer) = 1
      /\ pbuffer[1] = 1 /\ Len(shown) = 0 /\ Len(lines) = 1 /\ lines[1] = <<>> /\ Len(lines[1]) = 0
      /\ Len(down) = 0
  BY <1>2
<1>4. Attached
  BY <1>2, <1>3 DEF Attached
<1>5. DataAt(down) = {} /\ DataAt(lines[1]) = {}
  BY <1>3 DEF DataAt
<1>6. Numbered(0) = <<>> /\ Numbered(1) = <<1>>
  BY DEF Numbered
<1>7. Counted
  BY <1>2, <1>3, <1>6 DEF Counted
<1>8. DownStream
  BY <1>3, <1>5 DEF DownStream, Complete, InOrder
<1>9. UpStreams
  BY <1>2, <1>3, <1>5 DEF UpStreams, Complete, InOrder
<1>10. Buffers
  BY <1>2, <1>3 DEF Buffers, KeepsLast
<1>11. Handshake
  BY <1>2, <1>3, <1>5 DEF Handshake
<1>12. Returning
  BY <1>4 DEF Returning
<1> QED  BY <1>1, <1>7, <1>8, <1>9, <1>10, <1>11, <1>12 DEF LinkInv

LEMMA LinkStep == LinkInv /\ ~LoadInGame /\ [Next]_vars => LinkInv'
<1> SUFFICES ASSUME LinkInv, ~LoadInGame, [Next]_vars PROVE LinkInv'
  OBVIOUS
<1>1. CASE UNCHANGED vars
  <2>1. TypeOK'
    BY TypeStep DEF LinkInv
  <2>2. /\ Counted' /\ DownStream' /\ UpStreams' /\ Buffers' /\ Handshake' /\ Returning'
    BY <1>1 DEF LinkInv, vars, Counted, DownStream, UpStreams, Buffers, Handshake, Returning,
                Attached, Protected
  <2> QED  BY <2>1, <2>2 DEF LinkInv
<1>2. CASE BotStep
  BY <1>2, SendKeeps, GameLoadedKeeps, BotReceivesKeeps, BotAcksKeeps, DeleteKeeps,
     AcceptReconnectKeeps, RejectReconnectKeeps DEF BotStep
<1>3. CASE ClientStep
  BY <1>3, LocalKeeps, ClientReceivesKeeps, ClientAcksKeeps, LoseKeeps, ConnectKeeps,
     GameGoesKeeps DEF ClientStep
<1> QED  BY <1>1, <1>2, <1>3 DEF Next

LEMMA LinkKeeps == ASSUME ~LoadInGame PROVE Spec => []LinkInv
<1>1. LinkInv /\ [Next]_vars => LinkInv'
  BY LinkStep
<1> QED  BY <1>1, LinkInit, PTL DEF Spec

LEMMA KeepsWhatIsMissing ==
  ASSUME NEW buffer \in Seq(Nat), NEW total \in Nat, KeepsLast(buffer, total), NEW got \in Nat,
         total - Len(buffer) <= got, NEW n \in got + 1 .. total
  PROVE  Contains(buffer, n)
<1>1. Len(buffer) \in Nat
  BY LenProperties
<1> DEFINE j == n - (total - Len(buffer))
<1>2. j \in 1 .. Len(buffer) /\ total - Len(buffer) + j = n
  BY <1>1
<1> HIDE DEF j
<1>3. buffer[j] = n
  BY <1>2 DEF KeepsLast
<1> QED  BY <1>2, <1>3 DEF Contains

(* Without load-in-game a client that may come back finds every packet it  *)
(* lacks in the bot's buffer (CGamePlayer::EventGProxyReconnect), and still*)
(* has every packet the bot lacks (GPS_RECONNECT in ProcessRemotePackets). *)
THEOREM LinkForgetsNothing == ASSUME ~LoadInGame PROVE Spec => []NothingForgotten
<1>1. LinkInv => NothingForgotten
  <2> SUFFICES ASSUME LinkInv, MayReturn
               PROVE  /\ \A n \in Len(shown) + 1 .. Len(said) : Contains(gbuffer, n)
                      /\ \A n \in Len(heard) + 1 .. local : Contains(pbuffer, n)
    BY DEF NothingForgotten
  <2>1. TypeOK /\ Counted /\ Buffers /\ loaded /\ Protected
    BY DEF LinkInv, MayReturn, Accepting
  <2>2. /\ gbuffer \in Seq(Nat) /\ KeepsLast(gbuffer, Len(said))
        /\ pbuffer \in Seq(Nat) /\ KeepsLast(pbuffer, local) /\ local - Len(pbuffer) <= Len(heard)
    BY <2>1 DEF TypeOK, Buffers
  <2>3. Len(said) - Len(gbuffer) <= Len(shown)
    BY <2>1, NothingLost
  <2> QED  BY <2>1, <2>2, <2>3, KeepsWhatIsMissing, Lengths
<1> QED  BY <1>1, LinkKeeps, PTL

(* Without load-in-game the handshake (GPS_INIT) is over when the game has *)
(* loaded: the request is written before the game's first packet.          *)
THEOREM HandshakeComesFirst == ASSUME ~LoadInGame PROVE Spec => []HandshakeFirst
<1>1. LinkInv => HandshakeFirst
  BY DEF LinkInv, Handshake, HandshakeFirst
<1> QED  BY <1>1, LinkKeeps, PTL

-----------------------------------------------------------------------------
(* The link is a pair of reliable channels.                                *)

LEMMA NumberedFacts ==
  ASSUME NEW k \in Nat
  PROVE  /\ Numbered(k) \in Seq(Nat) /\ Len(Numbered(k)) = k
         /\ \A i \in 1 .. k : Numbered(k)[i] = i
         /\ Append(Numbered(k), Len(Numbered(k)) + 1) = Numbered(k + 1)
<1>1. Numbered(k) \in Seq(Nat) /\ Len(Numbered(k)) = k /\ \A i \in 1 .. k : Numbered(k)[i] = i
  BY DEF Numbered
<1> DEFINE got == Numbered(k)
<1> HIDE DEF got
<1>2. Append(got, Len(got) + 1) = Numbered(Len(got) + 1)
  BY <1>1, OneMore DEF got
<1> QED  BY <1>1, <1>2 DEF got

LEMMA OnePacket ==
  ASSUME TypeOK, [Next]_vars
  PROVE  \/ Len(said') = Len(said) + 1 /\ UNCHANGED <<heard, shown, local>>
         \/ (\E n \in Nat : heard' = Append(heard, n)) /\ UNCHANGED <<said, shown, local>>
         \/ (\E n \in Nat : shown' = Append(shown, n)) /\ UNCHANGED <<said, heard, local>>
         \/ local' = local + 1 /\ UNCHANGED <<said, heard, shown>>
         \/ UNCHANGED <<said, heard, shown, local>>
<1>1. ASSUME NEW kind \in {"update", "other"}, Send(kind)
      PROVE  Len(said') = Len(said) + 1 /\ UNCHANGED <<heard, shown, local>>
  BY <1>1, SaidMore DEF Send, Kinds, clientVars
<1>2. ASSUME NEW i \in 2 .. Len(lines), AcceptReconnect(i)
      PROVE  Len(said') = Len(said) + 1 /\ UNCHANGED <<heard, shown, local>>
  BY <1>2, SaidMore DEF AcceptReconnect, Kinds, clientVars
<1>3. CASE BotReceives
  <2>1. Head(Head(lines))[2] \in Nat
    BY <1>3, ReadLine DEF BotReceives, Msgs
  <2> QED  BY <1>3, <2>1 DEF BotReceives, clientVars
<1>4. CASE ClientReceives
  <2>1. down \in Seq(Msgs) /\ down # <<>>
    BY <1>4 DEF ClientReceives, TypeOK
  <2>2. Head(down)[2] \in Nat
    BY <2>1, TailFacts DEF Msgs
  <2> QED  BY <1>4, <2>2 DEF ClientReceives, botVars
<1>5. CASE Local
  BY <1>5 DEF Local, botVars
<1>6. CASE GameLoaded \/ BotAcks \/ Delete \/ ClientAcks \/ Lose \/ Connect \/ GameGoes
  BY <1>6 DEF GameLoaded, BotAcks, Delete, ClientAcks, Lose, Connect, GameGoes, botVars, clientVars
<1>7. ASSUME NEW i \in 2 .. Len(lines), RejectReconnect(i)
      PROVE  UNCHANGED <<said, heard, shown, local>>
  BY <1>7 DEF RejectReconnect, botVars
<1>8. CASE UNCHANGED vars
  BY <1>8 DEF vars
<1> QED  BY <1>1, <1>2, <1>3, <1>4, <1>5, <1>6, <1>7, <1>8 DEF Next, BotStep, ClientStep

LEMMA ChannelInit == Init => Channel!Init
BY DEF Init, Channel!Init, Numbered

LEMMA ChannelStep ==
  ASSUME LinkInv, LinkInv', [Next]_vars
  PROVE  [Channel!Next]_(Channel!vars)
<1>1. TypeOK /\ Counted /\ TypeOK' /\ Counted'
  BY DEF LinkInv
<1>2. /\ Len(said) \in Nat /\ Len(heard) \in Nat /\ Len(shown) \in Nat /\ local \in Nat
      /\ heard \in Seq(Nat) /\ shown \in Seq(Nat)
  BY <1>1, Lengths DEF TypeOK
<1>3. /\ shown = Numbered(Len(shown)) /\ heard = Numbered(Len(heard))
      /\ shown' = Numbered(Len(shown')) /\ heard' = Numbered(Len(heard'))
      /\ Len(shown') <= Len(said') /\ Len(heard') <= local'
  BY <1>1 DEF Counted
<1>4. CASE Len(said') = Len(said) + 1 /\ UNCHANGED <<heard, shown, local>>
  <2>1. Numbered(Len(said')) = Channel!Sent(Numbered(Len(said)))
    BY <1>2, <1>4, NumberedFacts DEF Channel!Sent
  <2> QED  BY <1>4, <2>1 DEF Channel!Next, Channel!ToGame
<1>5. CASE local' = local + 1 /\ UNCHANGED <<said, heard, shown>>
  <2>1. Numbered(local') = Channel!Sent(Numbered(local))
    BY <1>2, <1>5, NumberedFacts DEF Channel!Sent
  <2> QED  BY <1>5, <2>1 DEF Channel!Next, Channel!ToBot
<1>6. CASE (\E n \in Nat : heard' = Append(heard, n)) /\ UNCHANGED <<said, shown, local>>
  <2>1. Len(heard') = Len(heard) + 1
    BY <1>2, <1>6, GotMore
  <2>2. heard' = Append(heard, Len(heard) + 1)
    BY <1>2, <1>3, <2>1, OneMore
  <2>3. Numbered(local)[Len(heard) + 1] = Len(heard) + 1 /\ Len(heard) < Len(Numbered(local))
    <3>1. Len(heard) + 1 <= local
      BY <1>3, <1>6, <2>1
    <3>2. Len(heard) + 1 \in 1 .. local /\ Len(heard) < local
      BY <1>2, <3>1
    <3>3. Len(Numbered(local)) = local /\ \A i \in 1 .. local : Numbered(local)[i] = i
      BY <1>2, NumberedFacts
    <3> QED  BY <3>2, <3>3
  <2>4. heard' = Channel!Arrived(Numbered(local), heard)
    BY <2>2, <2>3 DEF Channel!Arrived
  <2> QED  BY <1>6, <2>3, <2>4 DEF Channel!Next, Channel!ToBot
<1>7. CASE (\E n \in Nat : shown' = Append(shown, n)) /\ UNCHANGED <<said, heard, local>>
  <2>1. Len(shown') = Len(shown) + 1
    BY <1>2, <1>7, GotMore
  <2>2. shown' = Append(shown, Len(shown) + 1)
    BY <1>2, <1>3, <2>1, OneMore
  <2>3. Numbered(Len(said))[Len(shown) + 1] = Len(shown) + 1 /\ Len(shown) < Len(Numbered(Len(said)))
    <3>1. Len(shown) + 1 <= Len(said)
      BY <1>3, <1>7, <2>1
    <3>2. Len(shown) + 1 \in 1 .. Len(said) /\ Len(shown) < Len(said)
      BY <1>2, <3>1
    <3>3. Len(Numbered(Len(said))) = Len(said) /\ \A i \in 1 .. Len(said) : Numbered(Len(said))[i] = i
      BY <1>2, NumberedFacts
    <3> QED  BY <3>2, <3>3
  <2>4. shown' = Channel!Arrived(Numbered(Len(said)), shown)
    BY <2>2, <2>3 DEF Channel!Arrived
  <2> QED  BY <1>7, <2>3, <2>4 DEF Channel!Next, Channel!ToGame
<1>8. CASE UNCHANGED <<said, heard, shown, local>>
  BY <1>8 DEF Channel!vars
<1> QED  BY <1>1, <1>4, <1>5, <1>6, <1>7, <1>8, OnePacket

(* Without load-in-game the link implements a pair of channels that lose,  *)
(* repeat and reorder nothing: what the two ends count as got is what was  *)
(* sent, packet by packet, whatever becomes of the connections.            *)
THEOREM LinkIsReliable == ASSUME ~LoadInGame PROVE Spec => Reliable
<1>1. LinkInv /\ LinkInv' /\ [Next]_vars => [Channel!Next]_(Channel!vars)
  BY ChannelStep
<1> QED  BY <1>1, ChannelInit, LinkKeeps, PTL DEF Spec, Reliable, Channel!Spec
=============================================================================
