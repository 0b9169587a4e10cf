----------------------------- MODULE MCGameLoop -----------------------------
(* The instances of GameLoop that TLC checks. *)
EXTENDS GameLoop, TLC

\* players with and without GProxy++ are interchangeable among themselves
PlayerSymmetry == Permutations(GProxy) \cup Permutations(Players \ GProxy)
=============================================================================
