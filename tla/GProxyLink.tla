----------------------------- MODULE GProxyLink ------------------------------
(***************************************************************************)
(* The link of one GProxy++ player: CGamePlayer of src/ghost/gameplayer.cpp*)
(* and the reconnect listener of src/ghost/ghost.cpp at the bot's end,     *)
(* CGProxy of src/3rdparty/gproxy/src/gproxy.cpp at the player's.          *)
(*                                                                         *)
(* Both ends count the packets they get and keep those they sent until the *)
(* other end acknowledges them.  A client that loses its connection opens  *)
(* a new one and says how many packets it has got (GPS_RECONNECT); the bot *)
(* answers with its own count and sends what is missing, and the client    *)
(* holds the game's packets back until it has that answer.                 *)
(*                                                                         *)
(* The two ends do not learn of a loss together: the client may be on its  *)
(* third connection while the bot still reads the first.  lines are the    *)
(* streams towards the bot, from that of the bot's socket (m_Socket) to    *)
(* that of the client's latest connection; those between them wait in the  *)
(* list of reconnect sockets.  A stream that breaks is one that nobody     *)
(* reads any further.  What the bot writes to a connection that the client *)
(* has left is lost, so down is the stream of the latest connection only.  *)
(*                                                                         *)
(* A packet is its number.  A definition whose name ends in _Slip is not   *)
(* part of the model: it is the definition below it with a likely mistake. *)
(***************************************************************************)
EXTENDS Naturals, Sequences, SequencesExt

CONSTANTS
  LoadInGame,    \* m_LoadInGame
  LoadedPacket,  \* the game's W3GS_GAMELOADED_SELF
  MaxSaid,       \* bound: packets of the bot, without reconnect notices
  MaxLocal,      \* bound: packets of the player's game
  MaxLosses      \* bound: lost connections

ASSUME LinkAssumption == /\ LoadInGame \in BOOLEAN
                         /\ LoadedPacket \in Nat /\ LoadedPacket > 1
                         /\ MaxSaid \in Nat /\ MaxLocal \in Nat /\ MaxLosses \in Nat

VARIABLES
  present,   \* is the player object in the game?
  gproxy,    \* m_GProxy
  loaded,    \* m_GameLoaded
  said,      \* the packets sent to the player: m_TotalPacketsSent of them
  gbuffer,   \* m_GProxyBuffer
  heard,     \* the packets got: m_TotalPacketsReceived of them
  gone,      \* has the game left the client (m_LocalSocket)?
  connected, \* does the client take its connection for alive?
  ready,     \* m_ReconnectPort > 0: the handshake is complete
  synced,    \* m_Synchronized
  local,     \* m_TotalPacketsReceivedFromLocal
  pbuffer,   \* m_PacketBuffer
  shown,     \* the packets got: m_TotalPacketsReceivedFromRemote of them
  lines,     \* the streams towards the bot
  down,      \* the stream to the client
  losses     \* connections lost so far

botVars    == <<present, gproxy, loaded, said, gbuffer, heard>>
clientVars == <<gone, connected, ready, synced, local, pbuffer, shown, losses>>
vars == <<present, gproxy, loaded, said, gbuffer, heard, gone, connected, ready,
          synced, local, pbuffer, shown, lines, down, losses>>

\* W3GS packets are counted, the others are not
Data(n) == <<"data", n>>
InitMsg == <<"init", 0>>
LeaveMsg == <<"leave", 0>>
Ack(n)  == <<"ack", n>>
Reconnect(n) == <<"reconnect", n>>
DataOf(packets) == [i \in 1 .. Len(packets) |-> Data(packets[i])]

\* GPS_ACK and GPS_RECONNECT: the packets up to last need not be kept
Unqueue(packets, total, last) ==
  LET unqueued == total - Len(packets) IN
  IF last > unqueued THEN SubSeq(packets, last - unqueued + 1, Len(packets)) ELSE packets

-----------------------------------------------------------------------------
(* The streams.                                                            *)

\* is the bot's socket the client's connection?
Attached == connected /\ Len(lines) = 1

\* the bot writes to its socket
Down(msgs) == IF Attached THEN down \o msgs ELSE down

\* the client writes to its socket
Up(msgs) == [lines EXCEPT ![Len(lines)] = @ \o msgs]

-----------------------------------------------------------------------------
(* The bot's end.                                                          *)

\* the packets kept for the player when one more is sent
Kept(buffer) == IF gproxy /\ loaded THEN Append(buffer, Len(said) + 1) ELSE buffer

\* updates are sent in the game, and with load-in-game to those who have loaded
MaySendUpdate == loaded \/ (LoadInGame /\ LoadedPacket <= Len(heard))

Send_Slip(kind) ==                       \* keeps only what can not be sent
  /\ present /\ Len(said) < MaxSaid
  /\ kind = "update" => MaySendUpdate
  /\ said' = Append(said, kind)
  /\ gbuffer' = IF Attached THEN gbuffer ELSE Kept(gbuffer)
  /\ down' = Down(<<Data(Len(said) + 1)>>)
  /\ UNCHANGED <<present, gproxy, loaded, heard, clientVars, lines>>

\* CGamePlayer::Send
Send(kind) ==
  /\ present /\ Len(said) < MaxSaid
  /\ kind = "update" => MaySendUpdate
  /\ said' = Append(said, kind)
  /\ gbuffer' = Kept(gbuffer)
  /\ down' = Down(<<Data(Len(said) + 1)>>)
  /\ UNCHANGED <<present, gproxy, loaded, heard, clientVars, lines>>

\* the game loads when all players have: this one among them
GameLoaded ==
  /\ present /\ ~loaded
  /\ LoadedPacket <= Len(heard)
  /\ loaded' = TRUE
  /\ UNCHANGED <<present, gproxy, said, gbuffer, heard, clientVars, lines, down>>

\* CGamePlayer::ExtractPackets and ProcessPackets
BotReceives ==
  /\ present /\ Head(lines) # <<>>
  /\ LET msg == Head(Head(lines)) IN
     \/ /\ msg[1] = "data"
        /\ heard' = Append(heard, msg[2])
        /\ UNCHANGED <<present, gproxy, gbuffer, down>>
     \/ /\ msg[1] = "init"
        /\ gproxy' = TRUE
        /\ down' = Down(<<InitMsg>>)
        /\ UNCHANGED <<present, gbuffer, heard>>
     \/ /\ msg[1] = "ack"
        /\ gbuffer' = Unqueue(gbuffer, Len(said), msg[2])
        /\ UNCHANGED <<present, gproxy, heard, down>>
     \/ /\ msg[1] = "leave"
        /\ present' = FALSE
        /\ UNCHANGED <<gproxy, gbuffer, heard, down>>
  /\ lines' = [lines EXCEPT ![1] = Tail(@)]
  /\ UNCHANGED <<loaded, said, clientVars>>

\* an acknowledgement every 10 seconds; one on the way is as good as many
BotAcks ==
  /\ present /\ gproxy /\ Attached
  /\ ~Contains(down, Ack(Len(heard)))
  /\ down' = Down(<<Ack(Len(heard))>>)
  /\ UNCHANGED <<botVars, clientVars, lines>>

\* the player is kicked, dropped or lost before the game has loaded
Delete ==
  /\ present
  /\ present' = FALSE
  /\ UNCHANGED <<gproxy, loaded, said, gbuffer, heard, clientVars, lines, down>>

\* a reconnect socket whose request has arrived
Requested(i) == i \in 2 .. Len(lines) /\ lines[i] # <<>> /\ Head(lines[i])[1] = "reconnect"

Accepting == present /\ loaded /\ gproxy

Answer_Slip(kept) == DataOf(kept)        \* the answer itself is forgotten

\* EventGProxyReconnect's answer, the packets that are missing, and the
\* notice to all players that the player is back
Answer(kept) == <<Reconnect(Len(heard))>> \o DataOf(kept) \o <<Data(Len(said) + 1)>>

\* EventGProxyReconnect: the old socket goes, and with it what it had got
AcceptReconnect(i) ==
  /\ Accepting
  /\ Requested(i)
  /\ LET kept == Unqueue(gbuffer, Len(said), Head(lines[i])[2]) IN
     /\ gbuffer' = Append(kept, Len(said) + 1)
     /\ said' = Append(said, "notice")
     /\ lines' = <<Tail(lines[i])>> \o SubSeq(lines, i + 1, Len(lines))
     /\ down' = IF connected /\ i = Len(lines) THEN Answer(kept) ELSE <<>>
  /\ UNCHANGED <<present, gproxy, loaded, heard, clientVars>>

\* GPS_REJECT: no such player in a game that has loaded.  The client gives up
RejectReconnect(i) ==
  /\ ~Accepting
  /\ Requested(i)
  /\ lines' = RemoveAt(lines, i)
  /\ IF i = Len(lines) /\ connected
     THEN gone' = TRUE /\ connected' = FALSE
     ELSE UNCHANGED <<gone, connected>>
  /\ UNCHANGED <<botVars, ready, synced, local, pbuffer, shown, down, losses>>

-----------------------------------------------------------------------------
(* The client's end.                                                       *)

\* m_GameIsReliable && m_ActionReceived && m_ReconnectPort > 0
Protected == ready /\ \E i \in 1 .. Len(shown) : said[shown[i]] = "update"

\* ExtractLocalPackets and ProcessLocalPackets: a packet of the game.  It is
\* not forwarded while the link is out of step
Local ==
  /\ ~gone /\ shown # <<>>
  /\ local < MaxLocal
  /\ local' = local + 1
  /\ pbuffer' = Append(pbuffer, local + 1)
  /\ lines' = IF connected /\ synced THEN Up(<<Data(local + 1)>>) ELSE lines
  /\ UNCHANGED <<botVars, gone, connected, ready, synced, shown, down, losses>>

\* ProcessRemotePackets: the packet that says the join is accepted (1) is
\* answered by the request for protection
ClientReceives ==
  /\ ~gone /\ connected /\ down # <<>>
  /\ LET msg == Head(down) IN
     \/ /\ msg[1] = "data"
        /\ shown' = Append(shown, msg[2])
        /\ lines' = IF msg[2] = 1 THEN Up(<<InitMsg>>) ELSE lines
        /\ UNCHANGED <<ready, synced, pbuffer>>
     \/ /\ msg[1] = "init"
        /\ ready' = TRUE
        /\ UNCHANGED <<synced, pbuffer, shown, lines>>
     \/ /\ msg[1] = "ack"
        /\ pbuffer' = Unqueue(pbuffer, local, msg[2])
        /\ UNCHANGED <<ready, synced, shown, lines>>
     \/ /\ msg[1] = "reconnect"
        /\ pbuffer' = Unqueue(pbuffer, local, msg[2])
        /\ lines' = Up(DataOf(pbuffer'))
        /\ synced' = TRUE
        /\ UNCHANGED <<ready, shown>>
  /\ down' = Tail(down)
  /\ UNCHANGED <<botVars, gone, connected, local, losses>>

\* an acknowledgement every 10 seconds, also while the link is out of step
ClientAcks ==
  /\ ~gone /\ connected /\ Protected
  /\ ~Contains(Last(lines), Ack(Len(shown)))
  /\ lines' = Up(<<Ack(Len(shown))>>)
  /\ UNCHANGED <<botVars, clientVars, down>>

Lose_Slip ==                             \* what is not read yet is not dropped
  /\ ~gone /\ connected
  /\ losses < MaxLosses
  /\ losses' = losses + 1
  /\ connected' = FALSE
  /\ gone' = ~Protected
  /\ UNCHANGED <<botVars, ready, synced, local, pbuffer, shown, lines, down>>

\* an error, the end of the stream, or 20 seconds of silence.  Without
\* protection the client disconnects the game
Lose ==
  /\ ~gone /\ connected
  /\ losses < MaxLosses
  /\ losses' = losses + 1
  /\ connected' = FALSE
  /\ gone' = ~Protected
  /\ down' = <<>>
  /\ UNCHANGED <<botVars, ready, synced, local, pbuffer, shown, lines>>

Connect_Slip ==                          \* keeps forwarding
  /\ ~gone /\ ~connected
  /\ connected' = TRUE
  /\ lines' = Append(lines, <<Reconnect(Len(shown))>>)
  /\ UNCHANGED <<botVars, gone, ready, synced, local, pbuffer, shown, down, losses>>

\* a new connection is made: what was written to the socket meanwhile is
\* cleared, and the request is the first thing on it
Connect ==
  /\ ~gone /\ ~connected
  /\ connected' = TRUE
  /\ synced' = FALSE
  /\ lines' = Append(lines, <<Reconnect(Len(shown))>>)
  /\ UNCHANGED <<botVars, gone, ready, local, pbuffer, shown, down, losses>>

\* the game leaves, or breaks down.  The client's own leave message goes out
\* in any case, the game's like every packet of the game
GameGoes ==
  /\ ~gone
  /\ gone' = TRUE
  /\ connected' = FALSE
  /\ down' = <<>>
  /\ \/ connected /\ lines' = Up(<<LeaveMsg>>)
     \/ ~(connected /\ synced) /\ UNCHANGED lines
  /\ UNCHANGED <<botVars, ready, synced, local, pbuffer, shown, losses>>

-----------------------------------------------------------------------------
\* the bot has got the join request; it is still in the client's buffer
Init ==
  /\ present = TRUE /\ gproxy = FALSE /\ loaded = FALSE
  /\ said = <<>> /\ gbuffer = <<>> /\ heard = <<1>>
  /\ gone = FALSE /\ connected = TRUE /\ ready = FALSE /\ synced = TRUE
  /\ local = 1 /\ pbuffer = <<1>> /\ shown = <<>>
  /\ lines = <<<<>>>> /\ down = <<>> /\ losses = 0

BotStep ==
  \/ Send("update")
  \/ Send("other")
  \/ GameLoaded
  \/ BotReceives
  \/ BotAcks
  \/ Delete
  \/ \E i \in 2 .. Len(lines) : AcceptReconnect(i)
  \/ \E i \in 2 .. Len(lines) : RejectReconnect(i)

ClientStep ==
  \/ Local
  \/ ClientReceives
  \/ ClientAcks
  \/ Lose
  \/ Connect
  \/ GameGoes

Next == BotStep \/ ClientStep

Spec == Init /\ [][Next]_vars

\* both programs keep reading their sockets, and a client that is protected
\* keeps trying to connect
Fairness ==
  /\ WF_vars(BotReceives)
  /\ WF_vars(\E i \in 2 .. Len(lines) : AcceptReconnect(i))
  /\ WF_vars(ClientReceives)
  /\ WF_vars(Connect)

FairSpec == Spec /\ Fairness

-----------------------------------------------------------------------------
Kinds == {"update", "other", "notice"}
Msgs == {"data", "init", "leave", "ack", "reconnect"} \X Nat

(* The types of the state.  Only a connected client has anything to read,  *)
(* and only the bot's own stream carries no request.                       *)
TypeOK ==
  /\ present \in BOOLEAN /\ gproxy \in BOOLEAN /\ loaded \in BOOLEAN
  /\ said \in Seq(Kinds) /\ gbuffer \in Seq(Nat) /\ heard \in Seq(Nat)
  /\ gone \in BOOLEAN /\ connected \in BOOLEAN /\ ready \in BOOLEAN /\ synced \in BOOLEAN
  /\ local \in Nat /\ pbuffer \in Seq(Nat) /\ shown \in Seq(Nat)
  /\ lines \in Seq(Seq(Msgs)) /\ lines # <<>>
  /\ down \in Seq(Msgs) /\ losses \in Nat
  /\ down # <<>> => Attached
  /\ gone => ~connected

\* the packets that a client with the right to reconnect may still ask for
MayReturn == Accepting /\ ~gone /\ Protected

(* A client that may come back finds every packet that it did not get in   *)
(* the bot's buffer, and has every packet that the bot did not get in its  *)
(* own ("we can avoid buffering packets until we know the client is using  *)
(* GProxy++ since that'll be determined before the game starts").          *)
NothingForgotten ==
  MayReturn => /\ \A n \in Len(shown) + 1 .. Len(said) : Contains(gbuffer, n)
               /\ \A n \in Len(heard) + 1 .. local : Contains(pbuffer, n)

(* A game does not load before the handshake of its GProxy++ player.       *)
HandshakeFirst == loaded => gproxy

Numbered(k) == [i \in 1 .. k |-> i]

\* the channels the link makes out of its connections
Channel == INSTANCE Channels WITH
  toGame <- Numbered(Len(said)), atGame <- shown,
  toBot <- Numbered(local), atBot <- heard

(* The link loses, repeats and reorders nothing.                           *)
Reliable == Channel!Spec

(* What either end sends gets to the other, unless the player leaves.      *)
EverythingArrives ==
  /\ \A n \in 1 .. MaxSaid : Len(said) >= n ~> Len(shown) >= n \/ gone \/ ~present
  /\ \A n \in 1 .. MaxLocal : local >= n ~> Len(heard) >= n \/ gone \/ ~present
=============================================================================
