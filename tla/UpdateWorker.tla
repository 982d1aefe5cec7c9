---------------------------- MODULE UpdateWorker ----------------------------
(***************************************************************************)
(* WorkerService and the storage it fills.  A cycle takes the latest block *)
(* from the node, asks every token service for its data of that block, and *)
(* saves the data of each token when it arrives.  When all are saved the   *)
(* block is remembered as lastBlock.                                       *)
(*                                                                         *)
(* One cycle runs at a time (@OneAtTime drops a call that finds a cycle    *)
(* executing).  But when one token fails the cycle ends at once, and the   *)
(* requests it made for the other tokens go on: nothing cancels them, and  *)
(* each still saves its data when it arrives.  Runs is the set of slots    *)
(* for a cycle and the requests it leaves behind: with one slot a cycle    *)
(* starts when nothing is left of the one before.                          *)
(*                                                                         *)
(* What a token service does between the request and its data is opaque    *)
(* here; CircSupply composes this module with LdoService.                  *)
(***************************************************************************)
EXTENDS Integers

CONSTANTS
  Tokens,      \* tokenName of every service in servicesList
  Runs,        \* slots of cycles with requests in flight
  Hashes,      \* block hashes
  MaxNumber,   \* bound: highest block number
  Infos,       \* what a token service may answer
  None         \* no block, no cycle, no data

ASSUME UpdateWorkerAssumption ==
  /\ MaxNumber \in Nat
  /\ None \notin Runs
  /\ None \notin [number : Nat, hash : Hashes]
  /\ None \notin [block : [number : Nat, hash : Hashes], info : Infos]

VARIABLES
  executing,  \* the slot of the cycle that executes, None between cycles
  lastBlock,  \* block of the last cycle that saved every token, None at start
  cycle,      \* cycle[r]: block the cycle of slot r works on, None if unused
  request,    \* request[r][t]: "none", "pending", "saved" or "failed"
  tokensData  \* StorageService: data of each token and the block it is of

workerVars == <<executing, lastBlock, cycle, request, tokensData>>

BlockInfo == [number : Nat, hash : Hashes]
TokenData == [block : BlockInfo, info : Infos]

-----------------------------------------------------------------------------
(* Mutant: a block of the same number is taken for the same block, and an  *)
(* older one is accepted.                                                  *)
IsNewBlockByNumber(b) ==
  lastBlock # None => b.number # lastBlock.number

IsNewBlock(b) ==
  lastBlock # None => /\ b.hash # lastBlock.hash
                      /\ ~ b.number < lastBlock.number

(* A slot is free when its cycle has ended and left nothing running.       *)
Free(r) ==
  /\ executing # r
  /\ \A t \in Tokens : request[r][t] # "pending"

(* runTokensUpdateCycle up to the token requests.  When the block is not   *)
(* new, or getBlock fails, the cycle ends with nothing changed.            *)
StartCycle(r, b) ==
  /\ executing = None
  /\ Free(r)
  /\ IsNewBlock(b)
  /\ executing' = r
  /\ cycle' = [cycle EXCEPT ![r] = b]
  /\ request' = [request EXCEPT ![r] = [t \in Tokens |-> "pending"]]
  /\ UNCHANGED <<lastBlock, tokensData>>

(* getTokenInfo of one token resolves: saveTokenData, whether or not the   *)
(* cycle that asked for it still executes.                                 *)
SaveTokenData(r, t, info) ==
  /\ request[r][t] = "pending"
  /\ request' = [request EXCEPT ![r][t] = "saved"]
  /\ tokensData' = [tokensData EXCEPT ![t] = [block |-> cycle[r], info |-> info]]
  /\ UNCHANGED <<executing, lastBlock, cycle>>

(* Mutant: the flag of @OneAtTime is not released when a cycle fails.      *)
FailTokenKeepsExecuting(r, t) ==
  /\ request[r][t] = "pending"
  /\ request' = [request EXCEPT ![r][t] = "failed"]
  /\ UNCHANGED <<executing, lastBlock, cycle, tokensData>>

(* Mutant: the block counts as done when its cycle fails too.              *)
FailTokenSetsLastBlock(r, t) ==
  /\ request[r][t] = "pending"
  /\ request' = [request EXCEPT ![r][t] = "failed"]
  /\ executing' = IF executing = r THEN None ELSE executing
  /\ lastBlock' = cycle[r]
  /\ UNCHANGED <<cycle, tokensData>>

(* getTokenInfo of one token rejects.  The first one to reject rejects the *)
(* Promise.all of the cycle that executes; the catch logs and the cycle    *)
(* ends, without lastBlock.                                                *)
FailToken(r, t) ==
  /\ request[r][t] = "pending"
  /\ request' = [request EXCEPT ![r][t] = "failed"]
  /\ executing' = IF executing = r THEN None ELSE executing
  /\ UNCHANGED <<lastBlock, cycle, tokensData>>

(* Mutant: the cycle ends as if all had been saved when one token is.      *)
EndCycleEarly(r) ==
  /\ executing = r
  /\ \E t \in Tokens : request[r][t] = "saved"
  /\ executing' = None
  /\ lastBlock' = cycle[r]
  /\ UNCHANGED <<cycle, request, tokensData>>

(* Mutant: only the hash of the block is remembered.                       *)
EndCycleHashOnly(r) ==
  /\ executing = r
  /\ \A t \in Tokens : request[r][t] = "saved"
  /\ executing' = None
  /\ lastBlock' = cycle[r].hash
  /\ UNCHANGED <<cycle, request, tokensData>>

(* Every token of the cycle is saved.                                      *)
EndCycle(r) ==
  /\ executing = r
  /\ \A t \in Tokens : request[r][t] = "saved"
  /\ executing' = None
  /\ lastBlock' = cycle[r]
  /\ UNCHANGED <<cycle, request, tokensData>>

-----------------------------------------------------------------------------
WorkerInit ==
  /\ executing = None
  /\ lastBlock = None
  /\ cycle = [r \in Runs |-> None]
  /\ request = [r \in Runs |-> [t \in Tokens |-> "none"]]
  /\ tokensData = [t \in Tokens |-> None]

WorkerStep(r) ==
  \/ \E b \in [number : 0 .. MaxNumber, hash : Hashes] : StartCycle(r, b)
  \/ \E t \in Tokens, info \in Infos : SaveTokenData(r, t, info)
  \/ \E t \in Tokens : FailToken(r, t)
  \/ EndCycle(r)

WorkerNext == \E r \in Runs : WorkerStep(r)

WorkerSpec == WorkerInit /\ [][WorkerNext]_workerVars

-----------------------------------------------------------------------------
(* The type invariant.                                                     *)
WorkerTypeOK ==
  /\ executing \in Runs \cup {None}
  /\ lastBlock \in BlockInfo \cup {None}
  /\ cycle \in [Runs -> BlockInfo \cup {None}]
  /\ request \in [Runs -> [Tokens -> {"none", "pending", "saved", "failed"}]]
  /\ tokensData \in [Tokens -> TokenData \cup {None}]

(* Readiness: once a cycle has ended well every token has data, and keeps  *)
(* it, so a ready service never answers 503 again (the storage "is empty   *)
(* until the first update cycle completes", tokens.service.ts:47).         *)
LastBlockMeansAllSaved ==
  lastBlock # None => \A t \in Tokens : tokensData[t] # None

(* The block of the last complete cycle never gets older, whatever blocks  *)
(* the node reports and whatever the requests of failed cycles still do    *)
(* (isNewBlock, worker.service.ts:76).                                     *)
LastBlockNeverOlder ==
  [][lastBlock # None =>
       /\ lastBlock' # None
       /\ lastBlock.number <= lastBlock'.number]_workerVars

(* The data of t is what a request saved whose cycle had failed, or failed *)
(* since.                                                                  *)
SavedByLeftOver(t) ==
  \E r \in Runs :
    /\ request[r][t] = "saved" /\ \E u \in Tokens : request[r][u] = "failed"
    /\ tokensData[t].block = cycle[r]

(* When a cycle ends well, the data of every token is of the block it took. *)
(* The only exception is a token that a request of an earlier, failed cycle *)
(* has saved after this cycle did: nothing else that happened before or     *)
(* meanwhile leaves data of another block (worker.service.ts:56).           *)
ServedTokensAgree ==
  [][lastBlock' # lastBlock =>
       \A t \in Tokens :
         /\ tokensData[t] # None
         /\ tokensData[t].block = lastBlock' \/ SavedByLeftOver(t)]_workerVars

-----------------------------------------------------------------------------
(* The inductive strengthening of the properties.                          *)

(* A request belongs to a cycle that took a block.                         *)
RequestsHaveBlocks ==
  \A r \in Runs : executing = r \/ (\E t \in Tokens : request[r][t] # "none")
                    => cycle[r] # None

(* The cycle that executes works on a block that is still new.             *)
ExecutingIsNotOlder ==
  \A r \in Runs : executing = r /\ lastBlock # None => lastBlock.number <= cycle[r].number

(* What the cycle that executes has saved is in the storage.               *)
SavedIsStored ==
  \A r \in Runs, t \in Tokens :
    executing = r /\ request[r][t] = "saved" => tokensData[t] # None

(* Only a cycle that failed leaves requests behind.                        *)
PendingIsExecuting ==
  \A r \in Runs, t \in Tokens :
    request[r][t] = "pending" /\ executing # r => \E u \in Tokens : request[r][u] = "failed"

(* What the cycle that executes has saved is of its block, unless a        *)
(* request that was left behind has saved since.                           *)
SavedIsOfBlock ==
  \A r \in Runs, t \in Tokens :
    executing = r /\ request[r][t] = "saved" =>
      tokensData[t].block = cycle[r] \/ SavedByLeftOver(t)

WorkerInv ==
  /\ WorkerTypeOK
  /\ RequestsHaveBlocks
  /\ ExecutingIsNotOlder
  /\ SavedIsStored
  /\ LastBlockMeansAllSaved
  /\ PendingIsExecuting
  /\ SavedIsOfBlock
=============================================================================
