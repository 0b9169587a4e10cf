------------------------------ MODULE MCLobby -------------------------------
(* The instances of Lobby that TLC checks. *)
EXTENDS Lobby, TLC

\* the objects are interchangeable: no action and no property orders them
ConnSymmetry == Permutations(Conns)
=============================================================================
