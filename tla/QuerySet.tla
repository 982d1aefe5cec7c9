------------------------------ MODULE QuerySet ------------------------------
(***************************************************************************)
(* What queryFilterInChunks promises its caller, and what AddressScan      *)
(* takes it for: the chunks of a call are answered one by one, in any      *)
(* order; the call resolves with the answer to the last of them, or it is  *)
(* rejected, at any time before that, and what was answered is dropped.    *)
(***************************************************************************)
EXTENDS Integers

CONSTANTS Calls, ChunkCount

VARIABLES
  left,     \* left[c]: chunks of the pending call c that are not answered yet
  outcome   \* outcome[c]: "none", "pending", "resolved" or "rejected"

vars == <<left, outcome>>

Init ==
  /\ left = [c \in Calls |-> {}]
  /\ outcome = [c \in Calls |-> "none"]

Begin(c) ==
  /\ outcome[c] = "none"
  /\ left' = [left EXCEPT ![c] = 1 .. ChunkCount[c]]
  /\ outcome' = [outcome EXCEPT ![c] = IF ChunkCount[c] = 0 THEN "resolved" ELSE "pending"]

Answer(c, k) ==
  /\ outcome[c] = "pending"
  /\ k \in left[c]
  /\ left' = [left EXCEPT ![c] = @ \ {k}]
  /\ outcome' = [outcome EXCEPT ![c] = IF left[c] = {k} THEN "resolved" ELSE "pending"]

Reject(c) ==
  /\ outcome[c] = "pending"
  /\ left' = [left EXCEPT ![c] = {}]
  /\ outcome' = [outcome EXCEPT ![c] = "rejected"]

Next == \E c \in Calls : Begin(c) \/ Reject(c) \/ \E k \in left[c] : Answer(c, k)

Spec == Init /\ [][Next]_vars
=============================================================================
