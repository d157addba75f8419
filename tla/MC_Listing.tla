----------------------------- MODULE MC_Listing -----------------------------
(***************************************************************************)
(* An instance of Listing for TLC: four links with times that coincide,    *)
(* read in pages of one, two or three, and with limits out of range.       *)
(***************************************************************************)
EXTENDS Listing

SomeLimits == -1 .. MaxPage + 1

=============================================================================
