------------------------------ MODULE MCDesync -------------------------------
(* The instances of Desync that TLC checks. *)
EXTENDS Desync
=============================================================================
