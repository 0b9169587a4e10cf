------------------------------ MODULE Channels -------------------------------
(***************************************************************************)
(* What a GProxy++ link promises: a pair of channels, from the bot to a    *)
(* player's game and back, that lose nothing, repeat nothing and keep the  *)
(* order, whatever happens to the connections beneath them.                *)
(***************************************************************************)
EXTENDS Naturals, Sequences

VARIABLES
  toGame,  \* the packets the bot has sent so far
  atGame,  \* those the game has got
  toBot,   \* the packets the game has sent so far
  atBot    \* those the bot has got

vars == <<toGame, atGame, toBot, atBot>>

Init ==
  /\ toGame = <<>> /\ atGame = <<>>
  \* the bot has got the join request when the link is set up
  /\ toBot = <<1>> /\ atBot = <<1>>

\* one more packet, packets being numbered in the order they are sent
Sent(channel) == Append(channel, Len(channel) + 1)

\* the next one arrives
Arrived(channel, got) == Append(got, channel[Len(got) + 1])

ToGame ==
  \/ toGame' = Sent(toGame) /\ UNCHANGED <<atGame, toBot, atBot>>
  \/ /\ Len(atGame) < Len(toGame)
     /\ atGame' = Arrived(toGame, atGame)
     /\ UNCHANGED <<toGame, toBot, atBot>>

ToBot ==
  \/ toBot' = Sent(toBot) /\ UNCHANGED <<atBot, toGame, atGame>>
  \/ /\ Len(atBot) < Len(toBot)
     /\ atBot' = Arrived(toBot, atBot)
     /\ UNCHANGED <<toBot, toGame, atGame>>

Next == ToGame \/ ToBot

Spec == Init /\ [][Next]_vars
=============================================================================
