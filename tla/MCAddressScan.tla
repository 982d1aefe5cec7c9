--------------------------- MODULE MCAddressScan ---------------------------
(* A small instance of AddressScan: one filter, as LdoBurnsService has, and *)
(* two calls that may overlap.                                              *)
EXTENDS AddressScan, TLC

Symmetry == Permutations(Runs)
=============================================================================
