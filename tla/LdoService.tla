----------------------------- MODULE LdoService -----------------------------
(***************************************************************************)
(* LdoService and the services under it: one call of getTokenInfo per slot *)
(* r, from the first read to the locked amount.                            *)
(*                                                                         *)
(*   supply    totalSupply, decimals and the treasury balance              *)
(*   members   collectMembersAddresses      burns     collectBurnsAddresses *)
(*   vestings  collectMembersVestings       balances  fetchHoldersBalances  *)
(*                                                                         *)
(* supply, members and burns start together; vestings and balances start   *)
(* together when members and burns are both in; the locked amount is       *)
(* calculated when vestings and balances are both in.  All of them are     *)
(* joined with Promise.all, so when one fails the call has failed, while   *)
(* the others run on and still change the state all calls share:           *)
(* membersAddresses, burnsAddresses, their cursors, and membersVestings.   *)
(*                                                                         *)
(* Reads by block hash give what the block holds, whenever they are        *)
(* answered: the reads of supply are not kept apart from their block, and  *)
(* the vestings and balances of a call are those of its block.  Events are *)
(* read by block number (AddressScan).                                     *)
(***************************************************************************)
EXTENDS EthChain, Functions

CONSTANTS
  Runs,                    \* slots of getTokenInfo calls in flight
  OverlappingReorgOffset,
  LogsFetchChunkSize,
  None                     \* no block, no cursor, no result, nothing cached

ASSUME LdoServiceAssumption ==
  /\ OverlappingReorgOffset \in Nat
  /\ LogsFetchChunkSize \in Nat \ {0}
  /\ MaxReorgDepth <= OverlappingReorgOffset + 1
  /\ None \notin Int
  /\ \A s \in SUBSET Members : s # None

VARIABLES
  snapshot,          \* LDO_EVENTS_SNAPSHOTS of the chain
  membersAddresses, membersLastFetchedBlock, membersScan,
  burnsAddresses, burnsLastFetchedBlock, burnsScan,
  membersVestings,   \* cache: amount not vested of a member, or None
  call               \* call[r]: the getTokenInfo call of slot r

membersVars == <<membersAddresses, membersLastFetchedBlock, membersScan>>
burnsVars == <<burnsAddresses, burnsLastFetchedBlock, burnsScan>>
ldoVars == <<snapshot, membersAddresses, membersLastFetchedBlock, membersScan,
             burnsAddresses, burnsLastFetchedBlock, burnsScan, membersVestings, call>>

MembersService == INSTANCE AddressScan WITH
  Addresses <- Members, Filters <- VestingFilters, MaxBlock <- MaxMined,
  NoNumber <- None,
  log <- EventLog(VestingFilters),
  snapshot <- [toBlock |-> snapshot.toBlock, addresses |-> snapshot.vestingMembers],
  addresses <- membersAddresses,
  lastFetchedBlock <- membersLastFetchedBlock,
  scan <- membersScan

BurnsService == INSTANCE AddressScan WITH
  Addresses <- Members, Filters <- BurnFilters, MaxBlock <- MaxMined,
  NoNumber <- None,
  log <- EventLog(BurnFilters),
  snapshot <- [toBlock |-> snapshot.toBlock, addresses |-> snapshot.burnsAddresses],
  addresses <- burnsAddresses,
  lastFetchedBlock <- burnsLastFetchedBlock,
  scan <- burnsScan

-----------------------------------------------------------------------------
(* A call: the hash of its block, the parts still running, whether a part  *)
(* failed, and what one part hands to the next.  "locked" is the part that *)
(* waits for others: collectLockedAmount.  holders is None until it goes   *)
(* on after both scans.                                                    *)

Parts == {"supply", "locked", "members", "burns", "vestings", "balances"}

NoCall == [hash |-> None, running |-> {}, rejected |-> FALSE, fromBlock |-> None,
           toFetch |-> {}, holders |-> None, locked |-> None]

Running(r, part) == part \in call[r].running

(* No request of the call is left.                                         *)
Drained(r) == call[r].running = {}

Resolved(r) == call[r].hash # None /\ Drained(r) /\ ~ call[r].rejected

(* A part ends; the others run on.                                         *)
End(r, parts) ==
  call' = [call EXCEPT ![r].running = @ \ parts]

(* A part fails, and with it the parts that wait for it.                   *)
Fail(r, part) ==
  /\ Running(r, part)
  /\ call' = [call EXCEPT ![r].running = @ \ (IF part = "supply" THEN {part}
                                              ELSE {part, "locked"}),
                          ![r].rejected = TRUE]

-----------------------------------------------------------------------------
(* Mutant: the scans ask for one block more than the block of the call.    *)
StartCallPastBlock(r, h) ==
  /\ Drained(r)
  /\ MembersService!StartScan(r, blocks[h].number + 1)
  /\ BurnsService!StartScan(r, blocks[h].number + 1)
  /\ call' = [call EXCEPT ![r] =
                [NoCall EXCEPT !.hash = h,
                               !.running = {"supply", "locked", "members", "burns"},
                               !.fromBlock = MembersService!FirstBlock]]
  /\ UNCHANGED <<snapshot, membersVestings>>

(* getTokenInfo up to its first await: the reads of supply start, and both *)
(* scans start.                                                            *)
StartCall(r, h) ==
  /\ Drained(r)
  /\ MembersService!StartScan(r, blocks[h].number)
  /\ BurnsService!StartScan(r, blocks[h].number)
  /\ call' = [call EXCEPT ![r] =
                [NoCall EXCEPT !.hash = h,
                               !.running = {"supply", "locked", "members", "burns"},
                               !.fromBlock = MembersService!FirstBlock]]
  /\ UNCHANGED <<snapshot, membersVestings>>

ServeSupply(r) ==
  /\ Running(r, "supply")
  /\ End(r, {"supply"})
  /\ UNCHANGED <<snapshot, membersVars, burnsVars, membersVestings>>

ServeMembersQuery(r) ==
  /\ \E q \in membersScan[r].queries : MembersService!ServeQuery(r, q)
  /\ UNCHANGED <<snapshot, burnsVars, membersVestings, call>>

ServeBurnsQuery(r) ==
  /\ \E q \in burnsScan[r].queries : BurnsService!ServeQuery(r, q)
  /\ UNCHANGED <<snapshot, membersVars, membersVestings, call>>

(* updatedAddresses of the scan is what vestings are fetched of.           *)
CompleteMembers(r) ==
  /\ MembersService!CompleteScan(r)
  /\ call' = [call EXCEPT ![r].running = @ \ {"members"},
                          ![r].toFetch = membersScan[r].found]
  /\ UNCHANGED <<snapshot, burnsVars, membersVestings>>

CompleteBurns(r) ==
  /\ BurnsService!CompleteScan(r)
  /\ End(r, {"burns"})
  /\ UNCHANGED <<snapshot, membersVars, membersVestings>>

(* Mutant: only members with new events are fetched.                       *)
MembersToFetchUpdatedOnly(r) == call[r].toFetch

(* Mutant: a member is fetched once, its later events are not followed.    *)
MembersToFetchNewOnly(r) == { m \in membersAddresses : membersVestings[m] = None }

(* Updated members, and members with no vestings cached yet.               *)
MembersToFetch(r) ==
  call[r].toFetch \cup { m \in membersAddresses : membersVestings[m] = None }

(* Mutant: the burned holders are not waited for.                          *)
ScansDoneButBurns(r) == ~ Running(r, "members")

ScansDone(r) == ~ Running(r, "members") /\ ~ Running(r, "burns")

(* collectLockedAmount goes on after both scans: collectMembersVestings    *)
(* and fetchHoldersBalances start, each over the addresses it sees now.    *)
(* With nobody to fetch they are done at once.                             *)
StartFetches(r) ==
  /\ Running(r, "locked")
  /\ call[r].holders = None
  /\ ScansDone(r)
  /\ call' = [call EXCEPT
       ![r].running = @ \cup (IF MembersToFetch(r) = {} THEN {} ELSE {"vestings"})
                        \cup (IF burnsAddresses = {} THEN {} ELSE {"balances"}),
       ![r].toFetch = MembersToFetch(r),
       ![r].holders = burnsAddresses]
  /\ UNCHANGED <<snapshot, membersVars, burnsVars, membersVestings>>

(* All vestings to fetch are in: mergeVestings sets them in the cache.     *)
MergeVestings(r) ==
  /\ Running(r, "vestings")
  /\ membersVestings' = [m \in Members |->
       IF m \in call[r].toFetch THEN blocks[call[r].hash].nonVested[m]
                                ELSE membersVestings[m]]
  /\ End(r, {"vestings"})
  /\ UNCHANGED <<snapshot, membersVars, burnsVars>>

ServeBalances(r) ==
  /\ Running(r, "balances")
  /\ End(r, {"balances"})
  /\ UNCHANGED <<snapshot, membersVars, burnsVars, membersVestings>>

-----------------------------------------------------------------------------
(* calculateLockedTokens, over the shared cache and the shared set of      *)
(* burned holders as they are now, and the balances of this call.          *)

Cached == { m \in Members : membersVestings[m] # None }

(* A counted member burned tokens, and the call has no balance of it:      *)
(* subtractBurnedTokens throws "Balance can't be null".                    *)
BalanceMissing(r) == ~ Cached \cap burnsAddresses \subseteq call[r].holders

(* Mutant: burned tokens are not subtracted.                               *)
MemberLockedUncapped(r, m) == membersVestings[m]

MemberLocked(r, m) ==
  LET nonVested == membersVestings[m]
      balance == blocks[call[r].hash].balance[m]
  IN  IF m \in burnsAddresses /\ balance < nonVested THEN balance ELSE nonVested

LockedSum(r) == SumFunction([m \in Cached |-> MemberLocked(r, m)])

ReadyToCalculate(r) ==
  /\ Running(r, "locked")
  /\ call[r].holders # None
  /\ ~ Running(r, "vestings") /\ ~ Running(r, "balances")

Calculate(r) ==
  /\ ReadyToCalculate(r)
  /\ \/ /\ BalanceMissing(r)
        /\ call' = [call EXCEPT ![r].running = @ \ {"locked"}, ![r].rejected = TRUE]
     \/ /\ ~ BalanceMissing(r)
        /\ call' = [call EXCEPT ![r].running = @ \ {"locked"}, ![r].toFetch = {},
                                ![r].holders = {}, ![r].locked = LockedSum(r)]
  /\ UNCHANGED <<snapshot, membersVars, burnsVars, membersVestings>>

-----------------------------------------------------------------------------
(* A request of one part fails.                                            *)

FailMembers(r) ==
  /\ MembersService!FailScan(r)
  /\ Fail(r, "members")
  /\ UNCHANGED <<snapshot, burnsVars, membersVestings>>

FailBurns(r) ==
  /\ BurnsService!FailScan(r)
  /\ Fail(r, "burns")
  /\ UNCHANGED <<snapshot, membersVars, membersVestings>>

FailRead(r) ==
  /\ \E part \in {"supply", "vestings", "balances"} : Fail(r, part)
  /\ UNCHANGED <<snapshot, membersVars, burnsVars, membersVestings>>

-----------------------------------------------------------------------------
(* Answers, and what follows them in the service.                          *)
LdoProgress(r) ==
  \/ ServeSupply(r)
  \/ ServeMembersQuery(r)
  \/ ServeBurnsQuery(r)
  \/ CompleteMembers(r)
  \/ CompleteBurns(r)
  \/ StartFetches(r)
  \/ MergeVestings(r)
  \/ ServeBalances(r)
  \/ Calculate(r)

LdoFailure(r) == FailMembers(r) \/ FailBurns(r) \/ FailRead(r)

(* The snapshot knows every member with vestings, and every holder that    *)
(* burns left with less than that; it may know more.                       *)
LdoInit ==
  /\ snapshot \in [toBlock : {1}, vestingMembers : SUBSET Members,
                   burnsAddresses : SUBSET Members]
  /\ \A m \in Members :
       /\ blocks[1].nonVested[m] > 0 => m \in snapshot.vestingMembers
       /\ blocks[1].balance[m] < blocks[1].nonVested[m] => m \in snapshot.burnsAddresses
  /\ membersAddresses = {} /\ burnsAddresses = {}
  /\ membersLastFetchedBlock = None /\ burnsLastFetchedBlock = None
  /\ membersScan = [r \in Runs |-> MembersService!NoScan]
  /\ burnsScan = [r \in Runs |-> BurnsService!NoScan]
  /\ membersVestings = [m \in Members |-> None]
  /\ call = [r \in Runs |-> NoCall]

CallType ==
  [hash : DOMAIN blocks \cup {None}, running : SUBSET Parts, rejected : BOOLEAN,
   fromBlock : Int \cup {None}, toFetch : SUBSET Members,
   holders : (SUBSET Members) \cup {None}, locked : Nat \cup {None}]

(* The type invariant of the service's shared state and of its calls.      *)
LdoTypeOK ==
  /\ membersAddresses \subseteq Members /\ burnsAddresses \subseteq Members
  /\ membersLastFetchedBlock \in Int \cup {None}
  /\ burnsLastFetchedBlock \in Int \cup {None}
  /\ membersScan \in [Runs -> MembersService!ScanType]
  /\ burnsScan \in [Runs -> BurnsService!ScanType]
  /\ membersVestings \in [Members -> Nat \cup {None}]
  /\ call \in [Runs -> CallType]
=============================================================================
