--------------------------- MODULE MCCircSupply ---------------------------
(***************************************************************************)
(* Instances of CircSupply.  The runs differ in what they let happen, one  *)
(* cfg each: nothing unusual, failed requests, reorganisations, requests   *)
(* that outlive their cycle.                                               *)
(***************************************************************************)
EXTENDS CircSupply, TLC

Symmetry == Permutations(Runs)

(* One initial state: a member with a vesting the snapshot knows.          *)
OneInit ==
  /\ snapshot = [toBlock |-> 1, vestingMembers |-> Members, burnsAddresses |-> {}]
  /\ blocks[1].nonVested = [m \in Members |-> 1]
  /\ blocks[1].balance = [m \in Members |-> 1]

OneInitSpec == Init /\ OneInit /\ [][Next]_vars
=============================================================================
