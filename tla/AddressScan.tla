---------------------------- MODULE AddressScan ----------------------------
(***************************************************************************)
(* One address-collecting service of the LDO token: LdoBurnsService or     *)
(* LdoVestingMembersService, which have the same shape.  The service keeps *)
(* the set of addresses it has seen in contract events and the number of   *)
(* the last block it scanned.  Each call scans eth_getLogs from a few      *)
(* blocks before that number up to the block of the calling update cycle,  *)
(* in chunks, merges what it found and moves the cursor.                   *)
(*                                                                         *)
(* Calls may overlap: when an update cycle fails, the calls it started are *)
(* not cancelled, so the scan of a failed cycle can still be running, and  *)
(* can still complete, while the scan of a later cycle runs.  Runs is the  *)
(* set of calls that may be in flight together.                            *)
(*                                                                         *)
(* The Ethereum node is external.  log[n][f] is the set of addresses in    *)
(* the events that filter f matches in block n of the chain the node       *)
(* follows now.  eth_getLogs selects by block NUMBER, so a chunk reads     *)
(* whatever branch the node follows at that moment.  Block 1 stands for    *)
(* the deploy block of the contract (LDO_DEPLOY_BLOCK), which is far from  *)
(* 0: a first block below 1 is a real block without events.                *)
(***************************************************************************)
EXTENDS Integers, Sequences

CONSTANTS
  Addresses,               \* holders that occur in events
  Filters,                 \* event filters this service scans
  Runs,                    \* calls that may be in flight together
  OverlappingReorgOffset,  \* blocks read again before the cursor
  LogsFetchChunkSize,      \* blocks in one eth_getLogs query
  MaxReorgDepth,           \* environment: blocks a reorganisation may replace
  MaxBlock,                \* bound: highest block number
  NoNumber                 \* null of lastFetchedBlock

ASSUME AddressScanAssumption ==
  /\ OverlappingReorgOffset \in Nat
  /\ LogsFetchChunkSize \in Nat \ {0}
  /\ MaxReorgDepth \in Nat
  /\ MaxReorgDepth <= OverlappingReorgOffset + 1
  /\ MaxBlock \in Nat
  /\ NoNumber \notin Int

VARIABLES
  log,               \* external: events of the chain the node follows
  highest,           \* external: highest block number the node ever had
  snapshot,          \* addresses known up to snapshot.toBlock at start
  addresses,         \* burnsAddresses / membersAddresses
  lastFetchedBlock,  \* cursor, NoNumber before the first scan
  scan               \* scan[r]: the scan of call r

chainVars == <<log, highest>>
serviceVars == <<addresses, lastFetchedBlock, scan>>
vars == <<log, highest, snapshot, addresses, lastFetchedBlock, scan>>

-----------------------------------------------------------------------------
(* Chunks: the ranges queryFilterInChunks cuts first..last into.           *)

(* Mutant: the next chunk skips the block after the last one read.         *)
ChunkStartGap(first, k) == first + k * (LogsFetchChunkSize + 1)

ChunkStart(first, k) == first + k * LogsFetchChunkSize

ChunkEnd(first, last, k) ==
  LET end == ChunkStart(first, k) + LogsFetchChunkSize - 1
  IN  IF end < last THEN end ELSE last

ChunkCount(first, last) ==
  IF first > last THEN 0 ELSE (last - first) \div LogsFetchChunkSize + 1

Chunks(first, last) ==
  { [from |-> ChunkStart(first, k), to |-> ChunkEnd(first, last, k)] :
      k \in 0 .. ChunkCount(first, last) - 1 }

-----------------------------------------------------------------------------
(* A scan: the block it ends at, the queries not answered yet, and the     *)
(* addresses found so far.                                                 *)

Query == [filter : Filters, from : Int, to : Int]

Queries(first, last) ==
  { [filter |-> f, from |-> c.from, to |-> c.to] :
      f \in Filters, c \in Chunks(first, last) }

NoScan == [toBlock |-> NoNumber, queries |-> {}, found |-> {}]

Scanning(r) == scan[r] # NoScan

(* Mutant: the matching events, without picking the address of each.       *)
AnswerEvents(q) ==
  { log[n][q.filter] : n \in DOMAIN log \cap (q.from .. q.to) }

(* What the node answers to query q at this moment.                        *)
Answer(q) ==
  UNION { log[n][q.filter] : n \in DOMAIN log \cap (q.from .. q.to) }

(* Mutant: the scan goes on right after the cursor, without the overlap.   *)
FirstBlockNoOverlap ==
  IF lastFetchedBlock = NoNumber
    THEN snapshot.toBlock + 1
    ELSE lastFetchedBlock + 1

FirstBlock ==
  IF lastFetchedBlock = NoNumber
    THEN snapshot.toBlock + 1
    ELSE lastFetchedBlock - OverlappingReorgOffset

-----------------------------------------------------------------------------
(* The service.                                                            *)

(* collectBurnsAddresses / collectMembersAddresses up to their first await *)
StartScan(r, toBlock) ==
  /\ ~ Scanning(r)
  /\ addresses' = IF lastFetchedBlock = NoNumber
                    THEN addresses \cup snapshot.addresses
                    ELSE addresses
  /\ scan' = [scan EXCEPT ![r] = [toBlock |-> toBlock,
                                  queries |-> Queries(FirstBlock, toBlock),
                                  found   |-> {}]]
  /\ UNCHANGED lastFetchedBlock

(* One eth_getLogs query of the scan is answered.                          *)
ServeQuery(r, q) ==
  /\ q \in scan[r].queries
  /\ scan' = [scan EXCEPT ![r] = [toBlock |-> @.toBlock,
                                  queries |-> @.queries \ {q},
                                  found   |-> @.found \cup Answer(q)]]
  /\ UNCHANGED <<addresses, lastFetchedBlock>>

(* The scan resolves: merge, then move the cursor, then return.            *)
CompleteScan(r) ==
  /\ Scanning(r)
  /\ scan[r].queries = {}
  /\ addresses' = addresses \cup scan[r].found
  /\ lastFetchedBlock' = scan[r].toBlock
  /\ scan' = [scan EXCEPT ![r] = NoScan]

(* A query fails: the scan rejects, what it found is dropped.              *)
FailScan(r) ==
  /\ Scanning(r)
  /\ scan[r].queries # {}
  /\ scan' = [scan EXCEPT ![r] = NoScan]
  /\ UNCHANGED <<addresses, lastFetchedBlock>>

-----------------------------------------------------------------------------
(* The node.                                                               *)

(* A block is added at the head.                                           *)
Mine(block) ==
  /\ Len(log) < MaxBlock
  /\ log' = Append(log, block)
  /\ highest' = IF highest < Len(log) + 1 THEN Len(log) + 1 ELSE highest

(* The head falls back to block n; the blocks above n are gone.  Later     *)
(* Mine steps build the new branch.  It also stands for a node that lags   *)
(* behind the one that served the head (a fallback RPC url).               *)
Reorg(n) ==
  /\ n < Len(log)
  /\ highest - MaxReorgDepth <= n
  /\ log' = SubSeq(log, 1, n)
  /\ UNCHANGED highest

ChainStep ==
  /\ \/ \E block \in [Filters -> SUBSET Addresses] : Mine(block)
     \/ \E n \in 1 .. MaxBlock : Reorg(n)
  /\ UNCHANGED <<snapshot, addresses, lastFetchedBlock, scan>>

-----------------------------------------------------------------------------
(* A block number no reorganisation reaches any more; 0 is no block.       *)
IsFinal(n) == n = 0 \/ n + MaxReorgDepth <= highest

(* s is right about the blocks it covers.                                  *)
Covers(s) ==
  \A n \in DOMAIN log, f \in Filters : n <= s.toBlock => log[n][f] \subseteq s.addresses

SnapshotCovers == Covers(snapshot)

Snapshots == [toBlock : 0 .. MaxBlock, addresses : SUBSET Addresses]

(* A process that starts knows nothing but the snapshot it is built with.  *)
StartProcess(s) ==
  /\ snapshot' = s
  /\ addresses' = {}
  /\ lastFetchedBlock' = NoNumber
  /\ scan' = [r \in Runs |-> NoScan]

(* The process crashes or is deployed anew, at any time: all the service   *)
(* knows is lost.  The new process may have another snapshot, whose blocks *)
(* are final and which is right about them (SnapshotScript shows why).     *)
Restart ==
  /\ \E s \in Snapshots : IsFinal(s.toBlock) /\ Covers(s) /\ StartProcess(s)
  /\ UNCHANGED <<log, highest>>

(* The service starts anywhere in the life of the chain: blocks that are   *)
(* final and blocks that are not may be there already.                     *)
Init ==
  /\ log \in UNION { [1 .. n -> [Filters -> SUBSET Addresses]] : n \in 1 .. MaxReorgDepth + 1 }
  /\ highest = Len(log)
  /\ snapshot \in Snapshots
  /\ IsFinal(snapshot.toBlock)
  /\ SnapshotCovers
  /\ addresses = {}
  /\ lastFetchedBlock = NoNumber
  /\ scan = [r \in Runs |-> NoScan]

(* A caller passes the number of a block the node has had.                 *)
ServiceStep(r) ==
  /\ \/ \E toBlock \in 1 .. highest : StartScan(r, toBlock)
     \/ \E q \in scan[r].queries : ServeQuery(r, q)
     \/ CompleteScan(r)
     \/ FailScan(r)
  /\ UNCHANGED <<log, highest, snapshot>>

Next ==
  \/ ChainStep
  \/ \E r \in Runs : ServiceStep(r)
  \/ Restart

Spec == Init /\ [][Next]_vars

-----------------------------------------------------------------------------
ScanType ==
  [toBlock : Int, queries : SUBSET Query, found : SUBSET Addresses]
    \cup {NoScan}

(* The type invariant: what the service's fields and its scans hold.       *)
TypeOK ==
  /\ log \in Seq([Filters -> SUBSET Addresses])
  /\ highest \in Nat
  /\ snapshot \in Snapshots
  /\ addresses \subseteq Addresses
  /\ lastFetchedBlock \in Int \cup {NoNumber}
  /\ scan \in [Runs -> ScanType]

(* Every address with an event in a block too deep below the cursor to be  *)
(* reorganised is collected.  The next scan starts above those blocks, so  *)
(* an address missed here would never be read again: neither a failed      *)
(* scan, nor scans that overlap and complete out of order, nor a           *)
(* reorganisation while a scan is half way may lose one                    *)
(* ("Updates data with some blocks overlap to avoid possible               *)
(* reorganizations", vesting-members.service.ts:34, ldo-burns.service.ts:31). *)
Coverage ==
  lastFetchedBlock # NoNumber =>
    \A n \in DOMAIN log, f \in Filters :
      n + MaxReorgDepth <= lastFetchedBlock => log[n][f] \subseteq addresses

-----------------------------------------------------------------------------
(* The inductive strengthening of Coverage.                                *)

(* The node never loses a block deeper than MaxReorgDepth.                 *)
NodeInv ==
  /\ Len(log) <= highest
  /\ highest - MaxReorgDepth <= Len(log)
  /\ IsFinal(snapshot.toBlock)

(* The cursor and the end of every scan are numbers of blocks the node had. *)
CursorInv ==
  /\ lastFetchedBlock # NoNumber => lastFetchedBlock <= highest
  /\ \A r \in Runs : Scanning(r) => scan[r].toBlock <= highest

(* A query the scan of r still waits for reads block n with filter f.      *)
Pending(r, f, n) ==
  \E q \in scan[r].queries : q.filter = f /\ n \in q.from .. q.to

(* Every event in a block too deep below the end of a running scan to be   *)
(* reorganised is collected already, found by the scan, or in a query the  *)
(* scan still waits for.  So a scan that completes after another one, after *)
(* the cursor moved, or across a reorganisation, still delivers what lies  *)
(* below its end (the chunk loop of query-filter-in-chunks.ts:38 and the   *)
(* merge before the cursor moves, vesting-members.service.ts:53).          *)
ScanInv ==
  \A r \in Runs : Scanning(r) =>
    \A n \in DOMAIN log, f \in Filters :
      n + MaxReorgDepth <= scan[r].toBlock =>
        \/ log[n][f] \subseteq addresses \cup scan[r].found
        \/ Pending(r, f, n)

IInv ==
  /\ TypeOK
  /\ NodeInv
  /\ SnapshotCovers
  /\ CursorInv
  /\ ScanInv
  /\ Coverage
=============================================================================
