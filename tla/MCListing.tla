------------------------------ MODULE MCListing ------------------------------
(* The instances of Listing that TLC checks. *)
EXTENDS Listing
=============================================================================
