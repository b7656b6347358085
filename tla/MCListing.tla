------------------------------ MODULE MCListing ------------------------------
(* Instances of Listing for TLC: names are numbers, "." is 0.              *)
EXTENDS Listing

MCNames == 0 .. 3
MCHidden == {0, 1}
MCLinks == {3}
=============================================================================
