------------------------------ MODULE MCEnding -------------------------------
(* The instances of Ending that TLC checks. *)
EXTENDS Ending
=============================================================================
