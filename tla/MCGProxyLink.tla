---------------------------- MODULE MCGProxyLink -----------------------------
(* The instances of GProxyLink that TLC checks. *)
EXTENDS GProxyLink
=============================================================================
