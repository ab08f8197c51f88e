---------------------------- MODULE MCBaseAlloc ----------------------------
(* Three addresses, requests of 0 to 3 bytes, and products that wrap at 8. *)
EXTENDS BaseAlloc, TLC

Symmetry == Permutations(Addresses)
=============================================================================
