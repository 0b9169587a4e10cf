----------------------------- MODULE Broadcast ------------------------------
(***************************************************************************)
(* What a hosted game promises its players once the map loads: there is    *)
(* one history of the game, and whatever a player's copy of the game has   *)
(* gone through is a beginning of it.  A player may be behind, never on a  *)
(* different course.                                                       *)
(*                                                                         *)
(* src/ghost/game_base.cpp says it where the load-in-game screen is reset: *)
(* "in order to prevent a desync we must make sure every player receives   *)
(* the exact same "desyncable game data" (updates and player leaves) in    *)
(* the exact same order".                                                  *)
(***************************************************************************)
EXTENDS Sequences, SequencesExt

CONSTANT Players

VARIABLES
  log,      \* the history: time slots and leaves
  members,  \* who is still in the game
  seen      \* what the game of each of them has gone through

vars == <<log, members, seen>>

Init == log = <<>> /\ members = Players /\ seen = [c \in Players |-> <<>>]

\* history is made, some of those who stay hear some more of it, some leave
Advance ==
  /\ IsPrefix(log, log')
  /\ members' \subseteq members
  /\ \A c \in members' : IsPrefix(seen[c], seen'[c]) /\ IsPrefix(seen'[c], log')

Next == Advance

Spec == Init /\ [][Next]_vars
=============================================================================
