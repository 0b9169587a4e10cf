------------------------------ MODULE MCHosting ------------------------------
(* The instances of Hosting that TLC checks. *)
EXTENDS Hosting
=============================================================================
