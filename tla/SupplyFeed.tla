----------------------------- MODULE SupplyFeed -----------------------------
(***************************************************************************)
(* What the service promises when no block is dropped and no request       *)
(* outlives its cycle: for every token it publishes data of a block, which *)
(* never gets older and keeps up with the chain; and the data is true of   *)
(* the block it names, until something disturbs the service.               *)
(***************************************************************************)
EXTENDS Integers, Sequences

CONSTANTS
  Tokens,
  Infos,    \* data that may be published
  None      \* nothing published yet

VARIABLES
  truth,     \* truth[h]: number of block h, and the true data of each token
  served,    \* served[t]: the data published for t and its block
  disturbed  \* whether anything has gone wrong

feedVars == <<truth, served, disturbed>>

FeedInit ==
  /\ Len(truth) = 1
  /\ served = [t \in Tokens |-> None]
  /\ disturbed = FALSE

(* A block is added to the chain.                                          *)
Extend ==
  /\ Len(truth') = Len(truth) + 1
  /\ SubSeq(truth', 1, Len(truth)) = truth
  /\ UNCHANGED <<served, disturbed>>

Disturb ==
  /\ disturbed' = TRUE
  /\ UNCHANGED <<truth, served>>

Publish(t, h) ==
  /\ served[t] # None => served[t].block.number <= truth[h].number
  /\ \E info \in Infos :
       /\ ~ disturbed => info = truth[h].info[t]
       /\ served' = [served EXCEPT ![t] =
            [block |-> [number |-> truth[h].number, hash |-> h], info |-> info]]
  /\ UNCHANGED <<truth, disturbed>>

PublishLatest(t) ==
  /\ served[t] # None => served[t].block.hash # Len(truth)
  /\ Publish(t, Len(truth))

FeedNext ==
  \/ Extend
  \/ Disturb
  \/ \E t \in Tokens, h \in DOMAIN truth : Publish(t, h)

(* Data of every token, true, of blocks in order, and up to date in the    *)
(* end whenever the chain pauses.                                          *)
FeedSpec ==
  /\ FeedInit
  /\ [][FeedNext]_feedVars
  /\ \A t \in Tokens : WF_feedVars(PublishLatest(t))
=============================================================================
