------------------------------ MODULE MCDownload ------------------------------
(* The instance of Download that TLC checks: the constants are in the .cfg.   *)
(* No symmetry is used, as liveness is checked.                               *)
EXTENDS Download
=============================================================================
