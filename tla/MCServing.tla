----------------------------- MODULE MCServing -----------------------------
(* Serving with two tokens, of which one endpoint of the first is asked:   *)
(* endpoints share nothing but the storage.  There is a block genesis, and *)
(* two forks of the next height; the node may report any of them at any    *)
(* time.  At most one slot holds a request that failed.                    *)
EXTENDS Serving, FiniteSets, TLC

CONSTANTS ldo, genesis

MCEndpoints == { <<"detailed", ldo>> }

Forks == Hashes \ {genesis}

Symmetry == Permutations(Runs) \cup Permutations(Requests) \cup Permutations(Forks)

(* A hash is that of one block.                                            *)
BlocksHaveOneNumber ==
  \A r \in Runs : cycle[r] # None => (cycle[r].number = 0) = (cycle[r].hash = genesis)

OneFailure ==
  Cardinality({ x \in Runs \X Tokens : request[x[1]][x[2]] = "failed" }) <= 1

Bounds == BlocksHaveOneNumber /\ OneFailure

(* The status of an answered request decides no later step; RoutedIsServed *)
(* looks at the step that sets it, where it was None.                      *)
View == <<workerVars, cache, handling, filling, routed, recent>>
=============================================================================
