------------------------- MODULE UpdateWorkerProofs -------------------------
(***************************************************************************)
(* Proofs about UpdateWorker, for any tokens, any number of cycles whose   *)
(* requests overlap, any blocks the node reports in any order, and any     *)
(* failures: the type invariant, readiness, the order of lastBlock, and of *)
(* what block the data of every token is when a cycle ends well.           *)
(***************************************************************************)
EXTENDS UpdateWorker, TLAPS

(* At start no cycle executes and no request is in flight.                 *)
LEMMA InitWorkerInv == WorkerInit => WorkerInv
<1> SUFFICES ASSUME WorkerInit PROVE WorkerInv
  OBVIOUS
<1>1. WorkerTypeOK
  BY DEF WorkerInit, WorkerTypeOK
<1>2. \A r \in Runs : executing # r /\ (\A t \in Tokens : request[r][t] = "none")
  BY UpdateWorkerAssumption DEF WorkerInit
<1>3. RequestsHaveBlocks
  BY <1>2 DEF RequestsHaveBlocks
<1>4. ExecutingIsNotOlder /\ SavedIsStored
  BY <1>2 DEF ExecutingIsNotOlder, SavedIsStored
<1>5. LastBlockMeansAllSaved
  BY DEF WorkerInit, LastBlockMeansAllSaved
<1>6. PendingIsExecuting /\ SavedIsOfBlock
  BY <1>2 DEF PendingIsExecuting, SavedIsOfBlock
<1> QED
  BY <1>1, <1>3, <1>4, <1>5, <1>6 DEF WorkerInv

(* A block that passes isNewBlock is a block, and not older than lastBlock. *)
LEMMA StartCycleInv ==
  ASSUME WorkerInv, NEW r \in Runs, NEW b \in BlockInfo, StartCycle(r, b)
  PROVE  WorkerInv'
<1> USE UpdateWorkerAssumption DEF WorkerInv
<1>1. /\ executing = None /\ executing' = r
      /\ cycle' = [cycle EXCEPT ![r] = b]
      /\ request' = [request EXCEPT ![r] = [t \in Tokens |-> "pending"]]
      /\ UNCHANGED <<lastBlock, tokensData>>
  BY DEF StartCycle
<1>2. WorkerTypeOK'
  BY <1>1 DEF WorkerTypeOK
<1>3. b # None /\ cycle'[r] = b
  BY <1>1 DEF WorkerTypeOK, BlockInfo
<1>4. RequestsHaveBlocks'
  BY <1>1, <1>3 DEF RequestsHaveBlocks, WorkerTypeOK
<1>5. ExecutingIsNotOlder'
  BY <1>1, <1>3 DEF ExecutingIsNotOlder, StartCycle, IsNewBlock, BlockInfo, WorkerTypeOK
<1>6. SavedIsStored'
  BY <1>1 DEF SavedIsStored, WorkerTypeOK
<1>7. LastBlockMeansAllSaved'
  BY <1>1 DEF LastBlockMeansAllSaved
<1>8. PendingIsExecuting'
  BY <1>1 DEF PendingIsExecuting, WorkerTypeOK
<1>9. SavedIsOfBlock'
  BY <1>1 DEF SavedIsOfBlock, WorkerTypeOK
<1> QED
  BY <1>2, <1>4, <1>5, <1>6, <1>7, <1>8, <1>9

(* Data is stored for the block of the cycle that asked for it.            *)
LEMMA SaveTokenDataInv ==
  ASSUME WorkerInv, NEW r \in Runs, NEW t \in Tokens, NEW info \in Infos,
         SaveTokenData(r, t, info)
  PROVE  WorkerInv'
<1> USE UpdateWorkerAssumption DEF WorkerInv
<1> DEFINE data == [block |-> cycle[r], info |-> info]
<1>1. /\ request[r][t] = "pending"
      /\ request' = [request EXCEPT ![r][t] = "saved"]
      /\ tokensData' = [tokensData EXCEPT ![t] = data]
      /\ UNCHANGED <<executing, lastBlock, cycle>>
  BY DEF SaveTokenData
<1>2. cycle[r] \in BlockInfo
  BY <1>1 DEF RequestsHaveBlocks, WorkerTypeOK
<1>3. data \in TokenData /\ data # None
  BY <1>2 DEF TokenData, BlockInfo
<1> HIDE DEF data
<1>4. /\ request' \in [Runs -> [Tokens -> {"none", "pending", "saved", "failed"}]]
      /\ tokensData' \in [Tokens -> TokenData \cup {None}]
      /\ \A x \in Tokens : tokensData[x] # None => tokensData'[x] # None
      /\ tokensData'[t] # None
  BY <1>1, <1>3 DEF WorkerTypeOK
<1>5. \A s \in Runs, x \in Tokens :
         request'[s][x] = request[s][x] \/ (s = r /\ x = t)
  BY <1>1 DEF WorkerTypeOK
<1>6. WorkerTypeOK'
  BY <1>1, <1>4 DEF WorkerTypeOK
<1>7. RequestsHaveBlocks'
  BY <1>1, <1>2, <1>5, <1>4 DEF RequestsHaveBlocks, WorkerTypeOK
<1>8. ExecutingIsNotOlder'
  BY <1>1 DEF ExecutingIsNotOlder
<1>9. SavedIsStored'
  BY <1>1, <1>4, <1>5 DEF SavedIsStored
<1>10. LastBlockMeansAllSaved'
  BY <1>1, <1>4 DEF LastBlockMeansAllSaved
<1>11. PendingIsExecuting'
  BY <1>1, <1>5 DEF PendingIsExecuting, WorkerTypeOK
<1>12. ASSUME NEW s \in Runs, NEW x \in Tokens, executing' = s, request'[s][x] = "saved"
       PROVE  tokensData'[x].block = cycle'[s] \/ SavedByLeftOver(x)'
  <2>1. data.block = cycle[r]
    BY DEF data
  <2>2. CASE x = t /\ s = r
    BY <1>1, <2>1, <2>2 DEF WorkerTypeOK
  <2>3. CASE x = t /\ s # r
    <3>1. PICK u \in Tokens : request[r][u] = "failed"
      BY <1>1, <1>12, <2>3 DEF PendingIsExecuting
    <3>2. request'[r][u] = "failed" /\ request'[r][t] = "saved" /\ tokensData'[t] = data
      BY <1>1, <3>1 DEF WorkerTypeOK
    <3> QED
      BY <1>1, <2>1, <2>3, <3>2 DEF SavedByLeftOver
  <2>4. CASE x # t
    <3>1. request[s][x] = "saved" /\ tokensData'[x] = tokensData[x] /\ cycle' = cycle
      BY <1>1, <1>5, <1>12, <2>4 DEF WorkerTypeOK
    <3>2. tokensData[x].block = cycle[s] \/ SavedByLeftOver(x)
      BY <1>1, <1>12, <3>1 DEF SavedIsOfBlock
    <3>3. ASSUME SavedByLeftOver(x) PROVE SavedByLeftOver(x)'
      <4>1. PICK y \in Runs : /\ request[y][x] = "saved" /\ tokensData[x].block = cycle[y]
                              /\ \E u \in Tokens : request[y][u] = "failed"
        BY <3>3 DEF SavedByLeftOver
      <4>2. PICK u \in Tokens : request[y][u] = "failed"
        BY <4>1
      <4>3. request'[y][x] = "saved" /\ request'[y][u] = "failed"
        BY <1>1, <1>5, <4>1, <4>2
      <4> QED
        BY <3>1, <4>1, <4>3 DEF SavedByLeftOver
    <3> QED
      BY <3>1, <3>2, <3>3
  <2> QED
    BY <2>2, <2>3, <2>4
<1>13. SavedIsOfBlock'
  BY <1>12 DEF SavedIsOfBlock
<1> QED
  BY <1>6, <1>7, <1>8, <1>9, <1>10, <1>11, <1>13

(* A failure ends the cycle it belongs to and leaves the others alone.     *)
LEMMA FailTokenInv ==
  ASSUME WorkerInv, NEW r \in Runs, NEW t \in Tokens, FailToken(r, t)
  PROVE  WorkerInv'
<1> USE UpdateWorkerAssumption DEF WorkerInv
<1>1. /\ request[r][t] = "pending"
      /\ request' = [request EXCEPT ![r][t] = "failed"]
      /\ executing' = IF executing = r THEN None ELSE executing
      /\ UNCHANGED <<lastBlock, cycle, tokensData>>
  BY DEF FailToken
<1>2. /\ request' \in [Runs -> [Tokens -> {"none", "pending", "saved", "failed"}]]
      /\ \A s \in Runs, x \in Tokens : s # r => request'[s][x] = request[s][x]
      /\ cycle[r] # None
  BY <1>1 DEF WorkerTypeOK, RequestsHaveBlocks
<1>3. \A s \in Runs : executing' = s => executing = s /\ s # r
  BY <1>1
<1>4. WorkerTypeOK'
  BY <1>1, <1>2 DEF WorkerTypeOK
<1>5. RequestsHaveBlocks'
  BY <1>1, <1>2, <1>3 DEF RequestsHaveBlocks
<1>6. ExecutingIsNotOlder' /\ LastBlockMeansAllSaved'
  BY <1>1, <1>3 DEF ExecutingIsNotOlder, LastBlockMeansAllSaved
<1>7. SavedIsStored'
  BY <1>1, <1>2, <1>3 DEF SavedIsStored
<1>8. request'[r][t] = "failed"
  BY <1>1 DEF WorkerTypeOK
<1>9. SavedIsOfBlock'
  <2> SUFFICES ASSUME NEW s \in Runs, NEW x \in Tokens, executing' = s,
                      request'[s][x] = "saved"
               PROVE  tokensData'[x].block = cycle'[s] \/ SavedByLeftOver(x)'
    BY DEF SavedIsOfBlock
  <2>1. executing = s /\ request[s][x] = "saved"
    BY <1>2, <1>3
  <2>2. tokensData[x].block = cycle[s] \/ SavedByLeftOver(x)
    BY <2>1 DEF SavedIsOfBlock
  <2>3. ASSUME SavedByLeftOver(x) PROVE SavedByLeftOver(x)'
    <3>1. PICK y \in Runs : /\ request[y][x] = "saved" /\ tokensData[x].block = cycle[y]
                            /\ \E u \in Tokens : request[y][u] = "failed"
      BY <2>3 DEF SavedByLeftOver
    <3>2. PICK u \in Tokens : request[y][u] = "failed"
      BY <3>1
    <3>3. request'[y][x] = "saved" /\ request'[y][u] = "failed"
      BY <1>1, <3>1, <3>2 DEF WorkerTypeOK
    <3> QED
      BY <1>1, <3>1, <3>3 DEF SavedByLeftOver
  <2> QED
    BY <1>1, <2>2, <2>3
<1>10. PendingIsExecuting'
  BY <1>1, <1>2, <1>8 DEF PendingIsExecuting
<1> QED
  BY <1>4, <1>5, <1>6, <1>7, <1>9, <1>10

(* lastBlock moves only here, to a block whose tokens are all stored.      *)
LEMMA EndCycleInv ==
  ASSUME WorkerInv, NEW r \in Runs, EndCycle(r)
  PROVE  WorkerInv'
<1> USE UpdateWorkerAssumption DEF WorkerInv
<1>1. /\ executing = r /\ executing' = None
      /\ \A t \in Tokens : request[r][t] = "saved"
      /\ lastBlock' = cycle[r]
      /\ UNCHANGED <<cycle, request, tokensData>>
  BY DEF EndCycle
<1>2. WorkerTypeOK'
  BY <1>1 DEF WorkerTypeOK
<1>3. RequestsHaveBlocks' /\ ExecutingIsNotOlder' /\ SavedIsStored'
  BY <1>1 DEF RequestsHaveBlocks, ExecutingIsNotOlder, SavedIsStored
<1>4. LastBlockMeansAllSaved'
  BY <1>1 DEF LastBlockMeansAllSaved, SavedIsStored
<1>5. PendingIsExecuting' /\ SavedIsOfBlock'
  BY <1>1 DEF PendingIsExecuting, SavedIsOfBlock
<1> QED
  BY <1>2, <1>3, <1>4, <1>5

(* Every step keeps the invariant.                                         *)
LEMMA NextWorkerInv == WorkerInv /\ [WorkerNext]_workerVars => WorkerInv'
<1> SUFFICES ASSUME WorkerInv, [WorkerNext]_workerVars PROVE WorkerInv'
  OBVIOUS
<1>1. ASSUME NEW r \in Runs, WorkerStep(r) PROVE WorkerInv'
  <2>1. ASSUME NEW b \in [number : 0 .. MaxNumber, hash : Hashes], StartCycle(r, b)
        PROVE  WorkerInv'
    <3>1. b \in BlockInfo
      BY <2>1, UpdateWorkerAssumption DEF BlockInfo
    <3> QED
      BY <2>1, <3>1, StartCycleInv
  <2> QED
    BY <1>1, <2>1, SaveTokenDataInv, FailTokenInv, EndCycleInv DEF WorkerStep
<1>2. CASE UNCHANGED workerVars
  BY <1>2 DEF workerVars, WorkerInv, WorkerTypeOK, RequestsHaveBlocks,
              ExecutingIsNotOlder, SavedIsStored, LastBlockMeansAllSaved,
              PendingIsExecuting, SavedIsOfBlock, SavedByLeftOver
<1> QED
  BY <1>1, <1>2 DEF WorkerNext

(* WorkerInv holds always.                                                 *)
LEMMA WorkerInvariance == WorkerSpec => []WorkerInv
BY InitWorkerInv, NextWorkerInv, PTL DEF WorkerSpec

(* The worker's fields and the storage hold what their types say.          *)
THEOREM WorkerTypeCorrect == WorkerSpec => []WorkerTypeOK
<1>1. WorkerInv => WorkerTypeOK
  BY DEF WorkerInv
<1> QED
  BY <1>1, WorkerInvariance, PTL

(* Once one cycle has ended well, every token is served, for ever.         *)
THEOREM ReadyForEver == WorkerSpec => []LastBlockMeansAllSaved
<1>1. WorkerInv => LastBlockMeansAllSaved
  BY DEF WorkerInv
<1> QED
  BY <1>1, WorkerInvariance, PTL

(* When a cycle ends well every token is stored with data of its block, or *)
(* of that of a failed cycle whose request saved after it: whatever failed *)
(* before, and however many requests outlived their cycles.                *)
THEOREM TokensAgree == WorkerSpec => ServedTokensAgree
<1> DEFINE Agree == lastBlock' # lastBlock =>
                      \A t \in Tokens :
                        /\ tokensData[t] # None
                        /\ tokensData[t].block = lastBlock' \/ SavedByLeftOver(t)
<1>1. WorkerInv /\ [WorkerNext]_workerVars => [Agree]_workerVars
  <2> SUFFICES ASSUME WorkerInv, WorkerNext, lastBlock' # lastBlock, NEW t \in Tokens
               PROVE  /\ tokensData[t] # None
                      /\ tokensData[t].block = lastBlock' \/ SavedByLeftOver(t)
    BY DEF workerVars
  <2>1. PICK r \in Runs : EndCycle(r)
    BY DEF WorkerNext, WorkerStep, StartCycle, SaveTokenData, FailToken
  <2>2. executing = r /\ request[r][t] = "saved" /\ lastBlock' = cycle[r]
    BY <2>1 DEF EndCycle
  <2> QED
    BY <2>2 DEF WorkerInv, SavedIsStored, SavedIsOfBlock
<1> QED
  BY <1>1, WorkerInvariance, PTL DEF WorkerSpec, ServedTokensAgree

(* lastBlock never gets older, although the node may report older blocks   *)
(* and failed cycles leave requests behind that still save data.           *)
THEOREM LastBlockOrder == WorkerSpec => LastBlockNeverOlder
<1> DEFINE Ordered == lastBlock # None =>
                        lastBlock' # None /\ lastBlock.number <= lastBlock'.number
<1>1. WorkerInv /\ [WorkerNext]_workerVars => [Ordered]_workerVars
  <2> SUFFICES ASSUME WorkerInv, WorkerNext, lastBlock # None
               PROVE  lastBlock' # None /\ lastBlock.number <= lastBlock'.number
    BY DEF workerVars
  <2>1. lastBlock.number \in Nat
    BY DEF WorkerInv, WorkerTypeOK, BlockInfo
  <2>2. CASE UNCHANGED lastBlock
    BY <2>1, <2>2
  <2>3. ASSUME NEW r \in Runs, EndCycle(r)
        PROVE  lastBlock' # None /\ lastBlock.number <= lastBlock'.number
    BY <2>3 DEF EndCycle, WorkerInv, RequestsHaveBlocks, ExecutingIsNotOlder
  <2> QED
    BY <2>2, <2>3 DEF WorkerNext, WorkerStep, StartCycle, SaveTokenData, FailToken
<1> QED
  BY <1>1, WorkerInvariance, PTL DEF WorkerSpec, LastBlockNeverOlder
=============================================================================
