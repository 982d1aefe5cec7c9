------------------------------ MODULE EthChain ------------------------------
(***************************************************************************)
(* External: the Ethereum chain and the node the service asks.  Nothing of *)
(* it is in the repository; it is modelled from what the service reads:    *)
(* the latest block (number and hash), contract state by block hash        *)
(* (vestings, balances) and contract events by block number.               *)
(*                                                                         *)
(* blocks holds every block that was ever at the head; a position in it    *)
(* stands for the block hash, so a state read by hash never changes, even  *)
(* for a block a reorganisation dropped.  chain[n] is the hash of block n  *)
(* of the branch the node follows now.                                     *)
(*                                                                         *)
(* The vestings of a member are the amount that is not vested yet; how it  *)
(* decreases with time is the subject of VestingCalcs.                     *)
(***************************************************************************)
EXTENDS Integers, Sequences, FiniteSets

CONSTANTS
  Members,        \* holders who may receive vestings
  MaxAmount,      \* bound: amount of tokens not vested of one member
  MaxMined,       \* bound: blocks mined in all, on every branch
  MaxReorgDepth   \* environment: blocks a reorganisation may replace

ASSUME EthChainAssumption ==
  /\ IsFiniteSet(Members)
  /\ MaxAmount \in Nat
  /\ MaxMined \in Nat
  /\ MaxReorgDepth \in Nat
  /\ MaxReorgDepth < MaxMined

VARIABLES
  blocks,   \* blocks[h]: the block with hash h
  chain,    \* chain[n]: hash of block n of the followed branch
  highest   \* highest block number the node ever had

chainVars == <<blocks, chain, highest>>

VestingFilters == {"NewVesting", "RevokeVesting"}
BurnFilters == {"Burn"}
EventFilters == VestingFilters \cup BurnFilters

Block == [number    : Nat,
          nonVested : [Members -> Nat],
          balance   : [Members -> Nat],
          events    : [EventFilters -> SUBSET Members]]

head == chain[Len(chain)]

(* What eth_getLogs answers from: the events of the followed branch that   *)
(* match some filter of filters.                                           *)
EventLog(filters) ==
  [n \in DOMAIN chain |-> [f \in filters |-> blocks[chain[n]].events[f]]]

NoEvents == [f \in EventFilters |-> {}]

-----------------------------------------------------------------------------
(* The blocks that may follow block b, of one transaction at most.  Locked *)
(* tokens cannot be moved, so only a burn leaves a member with less than   *)
(* what is not vested, and then only what it receives brings it back.      *)
(* Other transfers do not change the smaller of both, and are left out.    *)

Empty(b) == [b EXCEPT !.number = @ + 1, !.events = NoEvents]

Granted(b, m) ==
  [Empty(b) EXCEPT !.nonVested[m] = @ + 1, !.balance[m] = @ + 1,
                   !.events["NewVesting"] = {m}]

Revoked(b, m) ==
  [Empty(b) EXCEPT !.nonVested[m] = 0, !.balance[m] = @ - b.nonVested[m],
                   !.events["RevokeVesting"] = {m}]

Burned(b, m) ==
  [Empty(b) EXCEPT !.balance[m] = @ - 1, !.events["Burn"] = {m}]

(* A transfer to m, of which the service sees no event.                    *)
Received(b, m) == [Empty(b) EXCEPT !.balance[m] = @ + 1]

Successors(b) ==
  {Empty(b)}
    \cup { Granted(b, m) : m \in {x \in Members : b.nonVested[x] < MaxAmount} }
    \cup { Revoked(b, m) : m \in {x \in Members : 0 < b.nonVested[x]
                                                  /\ b.nonVested[x] <= b.balance[x]} }
    \cup { Burned(b, m) : m \in {x \in Members : b.balance[x] > 0} }
    \cup { Received(b, m) : m \in {x \in Members : b.balance[x] < b.nonVested[x]} }

Mine ==
  /\ Len(blocks) < MaxMined
  /\ \E b \in Successors(blocks[head]) :
       /\ blocks' = Append(blocks, b)
       /\ chain' = Append(chain, Len(blocks) + 1)
       /\ highest' = IF highest < b.number THEN b.number ELSE highest

(* The head falls back to block n: a reorganisation whose new branch later *)
(* Mine steps build, or an answer from a node that lags behind.            *)
Reorg(n) ==
  /\ n < Len(chain)
  /\ highest - MaxReorgDepth <= n
  /\ chain' = SubSeq(chain, 1, n)
  /\ UNCHANGED <<blocks, highest>>

ChainStep == Mine \/ \E n \in 1 .. MaxMined : Reorg(n)

(* Block 1 is the last block of the snapshot, with some history behind it; *)
(* it is final, as just enough blocks follow it.                           *)
ChainInit ==
  /\ \E v, w \in [Members -> 0 .. MaxAmount] :
       blocks = [n \in 1 .. MaxReorgDepth + 1 |->
                   [number |-> n, nonVested |-> v, balance |-> w, events |-> NoEvents]]
  /\ chain = [n \in 1 .. MaxReorgDepth + 1 |-> n]
  /\ highest = MaxReorgDepth + 1

ChainTypeOK ==
  /\ blocks \in Seq(Block)
  /\ Len(blocks) <= MaxMined
  /\ chain \in Seq(DOMAIN blocks)
  /\ highest \in Nat

(* The blocks of the followed branch are numbered by their place, and the  *)
(* node never loses a block deeper than MaxReorgDepth.                     *)
ChainInv ==
  /\ ChainTypeOK
  /\ 1 <= Len(chain) /\ Len(chain) <= highest
  /\ highest <= Len(blocks)
  /\ highest - MaxReorgDepth <= Len(chain)
  /\ \A n \in DOMAIN chain : blocks[chain[n]].number = n
  /\ \A h \in DOMAIN blocks : blocks[h].number \in 1 .. highest

(* What is locked at block h: for each member the amount not vested, or    *)
(* the balance when burns left less.                                       *)
Locked(h, m) ==
  IF blocks[h].balance[m] < blocks[h].nonVested[m]
    THEN blocks[h].balance[m] ELSE blocks[h].nonVested[m]
=============================================================================
