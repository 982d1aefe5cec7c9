--------------------------- MODULE MCVestingCalcs ---------------------------
(* VestingCalcs on a small instance.                                       *)
EXTENDS VestingCalcs, TLC

Symmetry == Permutations(Members)
=============================================================================
