----------------------------- MODULE CircSupply -----------------------------
(***************************************************************************)
(* The update side of the service: WorkerService and the storage           *)
(* (UpdateWorker), the LDO token service with all it calls (LdoService),   *)
(* and the node it reads (EthChain).  The other token services, stETH and  *)
(* wstETH, read their data by block hash and keep no state: each of their  *)
(* calls succeeds or fails as a whole.                                     *)
(*                                                                         *)
(* Requests fail at most MaxFailures times in a behaviour.                 *)
(***************************************************************************)
EXTENDS LdoService

CONSTANTS
  OtherTokens,   \* token services beside "ldo"
  MaxFailures    \* bound: requests that fail

ASSUME CircSupplyAssumption ==
  /\ MaxFailures \in Nat
  /\ "ldo" \notin OtherTokens
  /\ None \notin Runs
  /\ None \notin [number : Nat, hash : 1 .. MaxMined]
  /\ None \notin [block : [number : Nat, hash : 1 .. MaxMined], info : Nat]

VARIABLES
  executing, lastBlock, cycle, request, tokensData,  \* see UpdateWorker
  failures                                           \* requests failed so far

workerVars == <<executing, lastBlock, cycle, request, tokensData>>
vars == <<chainVars, ldoVars, workerVars, failures>>

Tokens == {"ldo"} \cup OtherTokens

Worker == INSTANCE UpdateWorker WITH
  Hashes <- 1 .. MaxMined, MaxNumber <- MaxMined, Infos <- Nat

BlockInfo(h) == [number |-> blocks[h].number, hash |-> h]

-----------------------------------------------------------------------------
MineBlock ==
  /\ Mine
  /\ UNCHANGED <<ldoVars, workerVars, failures>>

ReorgHead ==
  /\ \E n \in 1 .. MaxMined : Reorg(n)
  /\ UNCHANGED <<ldoVars, workerVars, failures>>

(* A cycle takes the head and asks every token service for its data.       *)
BeginCycle(r) ==
  /\ Worker!StartCycle(r, BlockInfo(head))
  /\ StartCall(r, head)
  /\ UNCHANGED <<chainVars, failures>>

ProgressLdo(r) ==
  /\ LdoProgress(r)
  /\ UNCHANGED <<chainVars, workerVars, failures>>

SaveLdo(r) ==
  /\ Resolved(r)
  /\ Worker!SaveTokenData(r, "ldo", call[r].locked)
  /\ UNCHANGED <<chainVars, ldoVars, failures>>

(* What another token's block holds is not kept apart from its hash.       *)
SaveOther(r) ==
  /\ \E t \in OtherTokens : Worker!SaveTokenData(r, t, cycle[r].hash)
  /\ UNCHANGED <<chainVars, ldoVars, failures>>

EndCycle(r) ==
  /\ Worker!EndCycle(r)
  /\ UNCHANGED <<chainVars, ldoVars, failures>>

FailLdoRequest(r) ==
  /\ failures < MaxFailures
  /\ failures' = failures + 1
  /\ LdoFailure(r)
  /\ UNCHANGED <<chainVars, workerVars>>

(* getTokenInfo of LDO rejects; what it started runs on.                   *)
RejectLdo(r) ==
  /\ call[r].rejected
  /\ Worker!FailToken(r, "ldo")
  /\ UNCHANGED <<chainVars, ldoVars, failures>>

FailOther(r) ==
  /\ failures < MaxFailures
  /\ failures' = failures + 1
  /\ \E t \in OtherTokens : Worker!FailToken(r, t)
  /\ UNCHANGED <<chainVars, ldoVars>>

-----------------------------------------------------------------------------
Init == ChainInit /\ LdoInit /\ Worker!WorkerInit /\ failures = 0

(* What happens when requests are answered and timers fire.                *)
Progress(r) ==
  \/ ProgressLdo(r)
  \/ SaveLdo(r)
  \/ SaveOther(r)
  \/ EndCycle(r)
  \/ RejectLdo(r)

Next ==
  \/ MineBlock
  \/ ReorgHead
  \/ \E r \in Runs : BeginCycle(r) \/ Progress(r) \/ FailLdoRequest(r) \/ FailOther(r)

Spec == Init /\ [][Next]_vars

(* Every request is answered in the end, by the node or by the provider's  *)
(* timeout, and the cron job calls the worker again and again.             *)
Fairness == \A r \in Runs : WF_vars(Progress(r)) /\ WF_vars(BeginCycle(r))

FairSpec == Spec /\ Fairness

-----------------------------------------------------------------------------
TypeOK ==
  /\ ChainTypeOK
  /\ LdoTypeOK
  /\ Worker!WorkerTypeOK
  /\ failures \in 0 .. MaxFailures

LockedAt(h) == SumFunction([m \in Members |-> Locked(h, m)])

TrueInfo(t, h) == IF t = "ldo" THEN LockedAt(h) ELSE h

TrueData(t) == tokensData[t].info = TrueInfo(t, tokensData[t].block.hash)

(* The supply served is the supply at the block it is served with: counted *)
(* as locked is what is locked at that block, with every vesting granted   *)
(* or revoked by then and every burn ("Collecting data by blockHash        *)
(* ensures that all data is from the same block", ldo.service.ts:23).      *)
SavedSupplyIsTrue ==
  \A t \in Tokens : tokensData[t] # None => TrueData(t)

(* With no reorganisation, and no request that outlives its cycle, the     *)
(* update side is a feed of blocks in order that keeps up with the chain,  *)
(* and of true data until a request fails.                                 *)
Feed == INSTANCE SupplyFeed WITH
  Infos <- 0 .. MaxMined + MaxAmount * Cardinality(Members),
  disturbed <- failures > 0,
  truth <- [h \in DOMAIN blocks |->
              [number |-> blocks[h].number, info |-> [t \in Tokens |-> TrueInfo(t, h)]]],
  served <- tokensData

IsTrueFeed == Feed!FeedSpec

-----------------------------------------------------------------------------
(* Under failures.                                                         *)

OnChain(h) == \E n \in DOMAIN chain : chain[n] = h

(* Every cached amount is what it was at some block from first to last.    *)
CachedBetween(first, last) ==
  \A m \in Cached : \E n \in DOMAIN chain :
    first <= n /\ n <= last /\ membersVestings[m] = blocks[chain[n]].nonVested[m]

(* A failed cycle does no lasting harm as long as nothing cached is older  *)
(* than the block of the last save, and the next scan that leads to a save *)
(* reaches back to that block: then the data saved is true again.  (Member *)
(* vestings that were fetched before are read again only when an event is  *)
(* seen, ldo-events.ts:32.)  True data alone is not enough: two amounts    *)
(* that are out of date may cancel out in one sum and not in the next.     *)
SaveKeepsTruth ==
  [][\A r \in Runs :
       LET saved == tokensData["ldo"].block.number
       IN  /\ SaveLdo(r)
           /\ OnChain(call[r].hash)
           /\ tokensData["ldo"] # None
           /\ CachedBetween(saved, blocks[call[r].hash].number)
           /\ call[r].fromBlock <= saved + 1
           => TrueData("ldo")']_vars

(* The calculation of the cycle that executes has a balance for every      *)
(* burned member it counts, so it does not throw (vesting-calcs.service.ts *)
(* :48): without reorganisations whatever earlier calls still do to the    *)
(* shared sets, and with them as long as no call outlives its cycle.       *)
CurrentCycleHasBalances ==
  \A r \in Runs : executing = r /\ ReadyToCalculate(r) => ~ BalanceMissing(r)

(* known holds every member of the snapshot, and every member with a       *)
(* vesting event in a block that is final below the block of call r.       *)
KnowsFinalMembers(known, r) ==
  /\ snapshot.vestingMembers \subseteq known
  /\ \A n \in DOMAIN chain, f \in VestingFilters :
       n + MaxReorgDepth <= blocks[call[r].hash].number =>
         blocks[chain[n]].events[f] \subseteq known

(* No member is left out of a result: when a call has calculated, every    *)
(* member with a vesting event in a block that is final below the block of *)
(* the call has its vestings in the cache the sum is over, whatever calls  *)
(* failed or overlapped before ("members loaded from the snapshot, or new  *)
(* members whose first fetch failed", vesting-vestings.service.ts:25).     *)
CalculatedCoversMembers ==
  \A r \in Runs : call[r].locked # None => KnowsFinalMembers(Cached, r)

(* The inductive strengthening of CalculatedCoversMembers: who is known on *)
(* the way of a call to its result, and that its members scan is its own.  *)
SnapshotInv ==
  membersLastFetchedBlock # None \/ (\E r \in Runs : MembersService!Scanning(r)) =>
    snapshot.vestingMembers \subseteq membersAddresses

CallOK(r) ==
  /\ call[r].toFetch \subseteq Members
  /\ call[r].running # {} \/ call[r].locked # None => call[r].hash \in DOMAIN blocks
  /\ MembersService!Scanning(r) =>
       Running(r, "members") /\ membersScan[r].toBlock = blocks[call[r].hash].number
  /\ Running(r, "members") => call[r].holders = None
  /\ Running(r, "locked") /\ ~ Running(r, "members") =>
       KnowsFinalMembers(membersAddresses, r)
  /\ Running(r, "locked") /\ call[r].holders # None =>
       KnowsFinalMembers(
         Cached \cup (IF Running(r, "vestings") THEN call[r].toFetch ELSE {}), r)
  /\ call[r].locked # None => KnowsFinalMembers(Cached, r)

CallInv == \A r \in Runs : CallOK(r)

(* The block of the data served of a token never gets older ("Checks if    *)
(* the block is newer than the cached one", worker.service.ts:74).         *)
ServedNeverOlder ==
  [][\A t \in Tokens : tokensData[t] # None =>
       tokensData[t].block.number <= tokensData'[t].block.number]_vars

(* Every cycle ends, well or not, so the next call of the cron job is not  *)
(* dropped by @OneAtTime for ever.                                         *)
CycleTerminates ==
  \A r \in Runs : executing = r ~> executing # r

(* Requests stop failing at some point (MaxFailures): from then on the     *)
(* service catches up and stays with the head of the chain.  Only while a  *)
(* new branch, or the branch of a node that lags, is shorter than the one  *)
(* that is served does it stay with the old one (worker.service.ts:92).    *)
EventuallyServesHead ==
  <>[](\A t \in Tokens :
         /\ tokensData[t] # None
         /\ \/ tokensData[t].block = BlockInfo(head)
            \/ Len(chain) < tokensData[t].block.number)

-----------------------------------------------------------------------------
(* Under reorganisations.                                                  *)

(* In the service, both scans are what AddressScan says of one scan alone, *)
(* so that its theorems hold of them: no final address is missed by either *)
(* (ldo.service.ts:30, vesting.service.ts:27).                             *)
ScansAreScans == MembersService!Spec /\ BurnsService!Spec

(* Data served with a block that is on the chain is true.                  *)
SavedOnChainIsTrue ==
  \A t \in Tokens :
    tokensData[t] # None /\ OnChain(tokensData[t].block.hash) => TrueData(t)

NoVestingDropped ==
  \A h \in DOMAIN blocks : ~ OnChain(h) =>
    \A f \in VestingFilters : blocks[h].events[f] = {}

(* Reorganisations that drop no vesting event leave the served data true,  *)
(* also those that drop burns: a holder who counts as burned by mistake is *)
(* capped by a balance that covers what is not vested.                     *)
TrueUnlessVestingDropped == NoVestingDropped => SavedOnChainIsTrue
=============================================================================
