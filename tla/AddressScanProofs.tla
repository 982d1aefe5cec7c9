------------------------- MODULE AddressScanProofs -------------------------
(***************************************************************************)
(* Proofs about AddressScan: the chunks tile the range they are cut from,  *)
(* the type invariant, and Coverage: the collected set misses no address   *)
(* in a block that can no longer be reorganised.                           *)
(***************************************************************************)
EXTENDS AddressScan, TLAPS

-----------------------------------------------------------------------------
(* Chunk arithmetic.                                                       *)

(* Division with a positive divisor, the only nonlinear fact needed: block *)
(* d of a range lies in the chunk d \div s and not beyond it.              *)
LEMMA DivisionBounds ==
  ASSUME NEW d \in Nat, NEW s \in Nat \ {0}
  PROVE  /\ d \div s \in Nat
         /\ (d \div s) * s <= d
         /\ d <= (d \div s) * s + s - 1
BY SMT

(* Division is monotone: a block before the last one lies in a chunk that  *)
(* is not after the last chunk.                                            *)
LEMMA DivisionMonotone ==
  ASSUME NEW d \in Nat, NEW e \in Nat, NEW s \in Nat \ {0}, d <= e
  PROVE  d \div s <= e \div s
BY SMT

(* Chunk k of a range of last - first + 1 blocks starts inside the range.  *)
LEMMA ChunkStartBounds ==
  ASSUME NEW first \in Int, NEW last \in Int, first <= last,
         NEW k \in 0 .. ChunkCount(first, last) - 1
  PROVE  /\ k \in Nat
         /\ k * LogsFetchChunkSize \in Nat
         /\ first + k * LogsFetchChunkSize <= last
<1> DEFINE d == last - first
           s == LogsFetchChunkSize
<1>1. d \in Nat /\ s \in Nat \ {0}
  BY AddressScanAssumption
<1>2. /\ d \div s \in Nat
      /\ (d \div s) * s <= d
  BY <1>1, DivisionBounds
<1>3. k \in Nat /\ k <= d \div s
  BY <1>2 DEF ChunkCount
<1> HIDE DEF d, s
<1>4. k * s \in Nat /\ k * s <= (d \div s) * s
  BY <1>1, <1>2, <1>3
<1>5. k * s \in Nat /\ k * s <= d
  BY <1>1, <1>2, <1>4
<1> QED
  BY <1>3, <1>5 DEF d, s

(* queryFilterInChunks asks for nothing outside the range, never for an    *)
(* empty chunk, and never for more blocks than the provider's limit.       *)
THEOREM ChunksWithinRange ==
  ASSUME NEW first \in Int, NEW last \in Int,
         NEW c \in Chunks(first, last)
  PROVE  /\ c.from \in Int /\ c.to \in Int
         /\ first <= c.from /\ c.from <= c.to /\ c.to <= last
         /\ c.to - c.from + 1 <= LogsFetchChunkSize
<1>1. PICK k \in 0 .. ChunkCount(first, last) - 1 :
        c = [from |-> ChunkStart(first, k), to |-> ChunkEnd(first, last, k)]
  BY DEF Chunks
<1>2. first <= last
  BY <1>1 DEF ChunkCount
<1>3. /\ k * LogsFetchChunkSize \in Nat
      /\ first + k * LogsFetchChunkSize <= last
  BY <1>2, ChunkStartBounds
<1> DEFINE o == k * LogsFetchChunkSize
<1>4. /\ c.from = first + o
      /\ c.to = IF first + o + LogsFetchChunkSize - 1 < last
                  THEN first + o + LogsFetchChunkSize - 1 ELSE last
  BY <1>1 DEF ChunkStart, ChunkEnd
<1> HIDE DEF o
<1>5. o \in Nat /\ first + o <= last
  BY <1>3 DEF o
<1> QED
  BY <1>4, <1>5, AddressScanAssumption

(* Every block of the range is in a chunk.                                 *)
THEOREM ChunksTile ==
  ASSUME NEW first \in Int, NEW last \in Int, NEW n \in first .. last
  PROVE  \E c \in Chunks(first, last) : n \in c.from .. c.to
<1> DEFINE d == n - first
           e == last - first
           s == LogsFetchChunkSize
           k == d \div s
           c == [from |-> ChunkStart(first, k), to |-> ChunkEnd(first, last, k)]
<1>1. d \in Nat /\ e \in Nat /\ s \in Nat \ {0} /\ d <= e
  BY AddressScanAssumption
<1>2. /\ k \in Nat
      /\ k * s <= d
      /\ d <= k * s + s - 1
  BY <1>1, DivisionBounds
<1>3. k <= e \div s
  BY <1>1, DivisionMonotone
<1>4. e \div s \in Nat
  BY <1>1, DivisionBounds
<1>5. ChunkCount(first, last) = e \div s + 1
  BY <1>1 DEF ChunkCount
<1>6. k \in 0 .. ChunkCount(first, last) - 1
  <2> HIDE DEF k
  <2> QED BY <1>2, <1>3, <1>4, <1>5
<1>7. c \in Chunks(first, last)
  BY <1>6 DEF Chunks
<1>8. n \in c.from .. c.to
  <2> DEFINE o == k * s
  <2>1. /\ c.from = first + o
        /\ c.to = IF first + o + s - 1 < last THEN first + o + s - 1 ELSE last
    BY DEF ChunkStart, ChunkEnd
  <2>2. o \in Int /\ o <= n - first /\ n - first <= o + s - 1
    <3> HIDE DEF k
    <3> QED BY <1>1, <1>2
  <2> HIDE DEF o, c
  <2> QED BY <2>1, <2>2, <1>1
<1> QED BY <1>7, <1>8
-----------------------------------------------------------------------------
(* The inductive invariant.                                                *)

(* Queries of a range of integers are queries.                             *)
LEMMA QueriesType ==
  ASSUME NEW first \in Int, NEW last \in Int
  PROVE  Queries(first, last) \subseteq Query
BY ChunksWithinRange DEF Queries, Query

(* A new scan has a query for every filter and every block of its range.   *)
LEMMA QueriesTile ==
  ASSUME NEW first \in Int, NEW last \in Int, NEW n \in first .. last,
         NEW f \in Filters
  PROVE  \E q \in Queries(first, last) : q.filter = f /\ n \in q.from .. q.to
<1>1. PICK c \in Chunks(first, last) : n \in c.from .. c.to
  BY ChunksTile
<1> DEFINE q == [filter |-> f, from |-> c.from, to |-> c.to]
<1>2. q \in Queries(first, last)
  BY DEF Queries
<1>3. q.filter = f /\ n \in q.from .. q.to
  BY <1>1
<1> QED
  BY <1>2, <1>3
(* At start the snapshot covers what is final, and nothing is scanned.     *)
LEMMA InitIInv == Init => IInv
<1> SUFFICES ASSUME Init PROVE IInv
  OBVIOUS
<1>1. PICK n \in 1 .. MaxReorgDepth + 1 : log \in [1 .. n -> [Filters -> SUBSET Addresses]]
  BY DEF Init
<1>2. n \in Nat /\ n <= MaxReorgDepth + 1 /\ MaxReorgDepth \in Nat
  BY <1>1, AddressScanAssumption
<1>3. log \in Seq([Filters -> SUBSET Addresses]) /\ Len(log) = n /\ highest = n
  BY <1>1, <1>2 DEF Init
<1>4. \A r \in Runs : ~ Scanning(r)
  BY DEF Init, Scanning
<1>5. TypeOK
  BY <1>2, <1>3, AddressScanAssumption DEF Init, TypeOK, ScanType, Snapshots
<1>6. NodeInv
  BY <1>2, <1>3 DEF NodeInv, Init
<1> QED
  BY <1>4, <1>5, <1>6 DEF Init, IInv, CursorInv, ScanInv, Coverage

(* A new block is above everything a scan or the cursor answers for.       *)
LEMMA MineIInv ==
  ASSUME IInv, NEW block \in [Filters -> SUBSET Addresses], Mine(block),
         UNCHANGED <<snapshot, addresses, lastFetchedBlock, scan>>
  PROVE  IInv'
<1> USE AddressScanAssumption DEF IInv
<1>1. /\ log \in Seq([Filters -> SUBSET Addresses])
      /\ highest \in Nat
      /\ log' = Append(log, block)
      /\ highest' = IF highest < Len(log) + 1 THEN Len(log) + 1 ELSE highest
  BY DEF TypeOK, Mine
<1>2. /\ log' \in Seq([Filters -> SUBSET Addresses])
      /\ Len(log') = Len(log) + 1
      /\ \A n \in DOMAIN log' : n <= Len(log) => n \in DOMAIN log /\ log'[n] = log[n]
      /\ DOMAIN log' = 1 .. Len(log')
  BY <1>1
<1>3. TypeOK'
  BY <1>1, <1>2 DEF TypeOK
<1>4. NodeInv'
  BY <1>1, <1>2 DEF NodeInv, TypeOK, Snapshots, IsFinal
<1>5. \A n \in DOMAIN log' : n > Len(log) => highest < n + MaxReorgDepth
  BY <1>1, <1>2 DEF NodeInv
<1>6. SnapshotCovers'
  BY <1>1, <1>2, <1>5 DEF SnapshotCovers, Covers, NodeInv, TypeOK, Snapshots, IsFinal
<1>7. CursorInv'
  BY <1>1 DEF CursorInv, Scanning, TypeOK, ScanType, NoScan
<1>8. ScanInv'
  <2> SUFFICES ASSUME NEW r \in Runs, Scanning(r),
                      NEW n \in DOMAIN log', NEW f \in Filters,
                      n + MaxReorgDepth <= scan[r].toBlock
               PROVE  \/ log'[n][f] \subseteq addresses \cup scan[r].found
                      \/ Pending(r, f, n)
    BY DEF ScanInv, Scanning, Pending
  <2>1. scan[r].toBlock \in Int /\ scan[r].toBlock <= highest
    BY DEF CursorInv, TypeOK, ScanType, Scanning
  <2>2. n <= Len(log)
    BY <1>1, <1>2, <1>5, <2>1
  <2> QED
    BY <1>2, <2>2 DEF ScanInv
<1>9. Coverage'
  BY <1>1, <1>2, <1>5 DEF Coverage, CursorInv, TypeOK
<1> QED
  BY <1>3, <1>4, <1>6, <1>7, <1>8, <1>9

(* A reorganisation only takes blocks away.                                *)
LEMMA ReorgIInv ==
  ASSUME IInv, NEW m \in 1 .. MaxBlock, Reorg(m),
         UNCHANGED <<snapshot, addresses, lastFetchedBlock, scan>>
  PROVE  IInv'
<1> USE AddressScanAssumption DEF IInv
<1>1. /\ log \in Seq([Filters -> SUBSET Addresses])
      /\ highest \in Nat /\ highest' = highest
      /\ m < Len(log) /\ highest - MaxReorgDepth <= m
      /\ log' = SubSeq(log, 1, m)
  BY DEF TypeOK, Reorg
<1>2. /\ log' \in Seq([Filters -> SUBSET Addresses])
      /\ Len(log') = m
      /\ \A n \in DOMAIN log' : n \in DOMAIN log /\ log'[n] = log[n]
  BY <1>1
<1>3. TypeOK'
  BY <1>1, <1>2 DEF TypeOK
<1>4. NodeInv'
  BY <1>1, <1>2 DEF NodeInv, TypeOK, Snapshots, IsFinal
<1>5. SnapshotCovers' /\ CursorInv'
  BY <1>1, <1>2 DEF SnapshotCovers, Covers, CursorInv, Scanning
<1>6. ScanInv' /\ Coverage'
  BY <1>2 DEF ScanInv, Coverage, Scanning, Pending
<1> QED
  BY <1>3, <1>4, <1>5, <1>6
(* What a starting scan does not read is collected: below the first block  *)
(* there is the snapshot, or what Coverage already promises.               *)
LEMMA StartScanIInv ==
  ASSUME IInv, NEW r \in Runs, NEW toBlock \in 1 .. highest,
         StartScan(r, toBlock), UNCHANGED <<log, highest, snapshot>>
  PROVE  IInv'
<1> USE AddressScanAssumption DEF IInv
<1> DEFINE new == [toBlock |-> toBlock, queries |-> Queries(FirstBlock, toBlock),
                   found |-> {}]
<1>1. /\ addresses' = IF lastFetchedBlock = NoNumber
                         THEN addresses \cup snapshot.addresses ELSE addresses
      /\ scan' = [scan EXCEPT ![r] = new]
      /\ UNCHANGED lastFetchedBlock
      /\ toBlock \in Int /\ toBlock <= highest
      /\ highest \in Nat /\ log \in Seq([Filters -> SUBSET Addresses])
  BY DEF StartScan, TypeOK
<1>2. addresses \subseteq addresses' /\ addresses' \subseteq Addresses
  BY <1>1 DEF TypeOK
<1>3. FirstBlock \in Int
  BY DEF FirstBlock, TypeOK, Snapshots
<1>4. new \in ScanType /\ new # NoScan
  BY <1>1, <1>3, QueriesType DEF ScanType, NoScan
<1>5. /\ scan \in [Runs -> ScanType]
      /\ scan' \in [Runs -> ScanType]
      /\ scan'[r] = new
      /\ \A t \in Runs \ {r} : scan'[t] = scan[t]
  <2> HIDE DEF new
  <2> QED BY <1>1, <1>4 DEF TypeOK
<1>6. TypeOK'
  BY <1>1, <1>2, <1>5 DEF TypeOK
<1>7. NodeInv'
  BY DEF NodeInv, IsFinal
<1>8. SnapshotCovers'
  BY DEF SnapshotCovers, Covers
<1>9. CursorInv'
  <2>1. lastFetchedBlock' # NoNumber => lastFetchedBlock' <= highest'
    BY <1>1 DEF CursorInv
  <2>2. ASSUME NEW t \in Runs, Scanning(t)'
        PROVE  scan'[t].toBlock <= highest'
    BY <2>2, <1>1, <1>5 DEF CursorInv, Scanning
  <2> QED
    BY <2>1, <2>2 DEF CursorInv
<1>10. Coverage'
  BY <1>1, <1>2 DEF Coverage
<1>11. ScanInv'
  <2> SUFFICES ASSUME NEW t \in Runs, Scanning(t)',
                      NEW n \in DOMAIN log, NEW f \in Filters,
                      n + MaxReorgDepth <= scan'[t].toBlock
               PROVE  \/ log[n][f] \subseteq addresses' \cup scan'[t].found
                      \/ Pending(t, f, n)'
    BY DEF ScanInv
  <2>1. CASE t # r
    BY <2>1, <1>2, <1>5 DEF ScanInv, Scanning, Pending
  <2>2. CASE t = r
    <3>1. n \in Nat /\ n <= toBlock
      BY <2>2, <1>1, <1>5
    <3>2. CASE n >= FirstBlock
      <4>1. n \in FirstBlock .. toBlock
        BY <3>1, <3>2, <1>1, <1>3
      <4>2. \E q \in Queries(FirstBlock, toBlock) :
               q.filter = f /\ n \in q.from .. q.to
        BY <4>1, <1>1, <1>3, QueriesTile
      <4> QED
        BY <4>2, <2>2, <1>5 DEF Pending
    <3>3. CASE n < FirstBlock /\ lastFetchedBlock = NoNumber
      <4>1. n <= snapshot.toBlock
        BY <3>1, <3>3 DEF FirstBlock, TypeOK, Snapshots
      <4> QED
        BY <4>1, <3>3, <1>1 DEF SnapshotCovers, Covers
    <3>4. CASE n < FirstBlock /\ lastFetchedBlock # NoNumber
      <4>1. n + MaxReorgDepth <= lastFetchedBlock
        BY <3>1, <3>4 DEF FirstBlock, TypeOK, Snapshots
      <4> QED
        BY <4>1, <3>4, <1>2 DEF Coverage
    <3> QED
      BY <3>1, <3>2, <3>3, <3>4, <1>3
  <2> QED
    BY <2>1, <2>2
<1> QED
  BY <1>6, <1>7, <1>8, <1>9, <1>10, <1>11

(* An answered query moves its blocks from pending to found.               *)
LEMMA ServeQueryIInv ==
  ASSUME IInv, NEW r \in Runs, NEW q \in scan[r].queries,
         ServeQuery(r, q), UNCHANGED <<log, highest, snapshot>>
  PROVE  IInv'
<1> USE DEF IInv
<1> DEFINE new == [toBlock |-> scan[r].toBlock,
                   queries |-> scan[r].queries \ {q},
                   found   |-> scan[r].found \cup Answer(q)]
<1>1. UNCHANGED <<addresses, lastFetchedBlock>>
  BY DEF ServeQuery
<1>2. /\ scan[r] \in [toBlock : Int, queries : SUBSET Query, found : SUBSET Addresses]
      /\ Scanning(r)
      /\ scan \in [Runs -> ScanType]
      /\ q \in Query
  BY DEF TypeOK, ScanType, NoScan, Scanning
<1>3. Answer(q) \subseteq Addresses
  BY <1>2 DEF Answer, TypeOK, Query
<1>4. /\ new \in [toBlock : Int, queries : SUBSET Query, found : SUBSET Addresses]
      /\ new.toBlock = scan[r].toBlock
      /\ new.queries = scan[r].queries \ {q}
      /\ new.found = scan[r].found \cup Answer(q)
  BY <1>2, <1>3
<1>5. /\ scan' \in [Runs -> ScanType]
      /\ scan'[r] = new
      /\ \A t \in Runs \ {r} : scan'[t] = scan[t]
  <2>1. scan' = [scan EXCEPT ![r] = new]
    BY <1>2 DEF ServeQuery
  <2> HIDE DEF new
  <2> QED
    BY <2>1, <1>2, <1>4 DEF ScanType
<1> HIDE DEF new
<1>6. TypeOK'
  BY <1>1, <1>5 DEF TypeOK
<1>7. NodeInv' /\ SnapshotCovers' /\ Coverage'
  BY <1>1 DEF NodeInv, IsFinal, SnapshotCovers, Covers, Coverage
<1>8. CursorInv'
  BY <1>1, <1>2, <1>4, <1>5 DEF CursorInv, Scanning
<1>9. ScanInv'
  <2> SUFFICES ASSUME NEW t \in Runs, Scanning(t)',
                      NEW n \in DOMAIN log, NEW f \in Filters,
                      n + MaxReorgDepth <= scan'[t].toBlock
               PROVE  \/ log[n][f] \subseteq addresses \cup scan'[t].found
                      \/ Pending(t, f, n)'
    BY <1>1 DEF ScanInv
  <2>1. CASE t # r
    BY <2>1, <1>5 DEF ScanInv, Scanning, Pending
  <2>2. CASE t = r
    <3>1. \/ log[n][f] \subseteq addresses \cup scan[r].found
          \/ Pending(r, f, n)
      BY <2>2, <1>2, <1>4, <1>5 DEF ScanInv
    <3>2. CASE log[n][f] \subseteq addresses \cup scan[r].found
      BY <3>2, <2>2, <1>4, <1>5
    <3>3. CASE Pending(r, f, n)
      <4>1. PICK p \in scan[r].queries : p.filter = f /\ n \in p.from .. p.to
        BY <3>3 DEF Pending
      <4>2. CASE p = q
        <5>1. log[n][f] \subseteq Answer(q)
          BY <4>1, <4>2 DEF Answer
        <5> QED
          BY <5>1, <2>2, <1>4, <1>5
      <4>3. CASE p # q
        BY <4>1, <4>3, <2>2, <1>4, <1>5 DEF Pending
      <4> QED
        BY <4>2, <4>3
    <3> QED
      BY <3>1, <3>2, <3>3
  <2> QED
    BY <2>1, <2>2
<1> QED
  BY <1>6, <1>7, <1>8, <1>9

(* When no query is pending, all the scan answers for is merged.           *)
LEMMA CompleteScanIInv ==
  ASSUME IInv, NEW r \in Runs,
         CompleteScan(r), UNCHANGED <<log, highest, snapshot>>
  PROVE  IInv'
<1> USE DEF IInv
<1>1. /\ scan[r].queries = {}
      /\ addresses' = addresses \cup scan[r].found
      /\ lastFetchedBlock' = scan[r].toBlock
      /\ scan' = [scan EXCEPT ![r] = NoScan]
      /\ Scanning(r)
  BY DEF CompleteScan
<1>2. /\ scan[r] \in [toBlock : Int, queries : SUBSET Query, found : SUBSET Addresses]
      /\ scan \in [Runs -> ScanType]
  BY <1>1 DEF TypeOK, ScanType, Scanning
<1>3. /\ scan' \in [Runs -> ScanType]
      /\ scan'[r] = NoScan
      /\ \A t \in Runs \ {r} : scan'[t] = scan[t]
  BY <1>1, <1>2 DEF ScanType
<1>4. addresses' \subseteq Addresses
  BY <1>1, <1>2 DEF TypeOK
<1>5. TypeOK'
  BY <1>1, <1>2, <1>3, <1>4 DEF TypeOK
<1>6. NodeInv' /\ SnapshotCovers'
  BY DEF NodeInv, IsFinal, SnapshotCovers, Covers
<1>7. CursorInv'
  BY <1>1, <1>3 DEF CursorInv, Scanning
<1>8. ScanInv'
  <2> SUFFICES ASSUME NEW t \in Runs, Scanning(t)',
                      NEW n \in DOMAIN log, NEW f \in Filters,
                      n + MaxReorgDepth <= scan'[t].toBlock
               PROVE  \/ log[n][f] \subseteq addresses' \cup scan'[t].found
                      \/ Pending(t, f, n)'
    BY DEF ScanInv
  <2>1. t # r
    BY <1>3 DEF Scanning
  <2> QED
    BY <2>1, <1>1, <1>3 DEF ScanInv, Scanning, Pending
<1>9. Coverage'
  <2> SUFFICES ASSUME NEW n \in DOMAIN log, NEW f \in Filters,
                      n + MaxReorgDepth <= scan[r].toBlock
               PROVE  log[n][f] \subseteq addresses'
    BY <1>1 DEF Coverage
  <2>1. ~ Pending(r, f, n)
    BY <1>1 DEF Pending
  <2> QED
    BY <2>1, <1>1 DEF ScanInv
<1> QED
  BY <1>5, <1>6, <1>7, <1>8, <1>9

(* A failed scan leaves the set and the cursor as they were.               *)
LEMMA FailScanIInv ==
  ASSUME IInv, NEW r \in Runs,
         FailScan(r), UNCHANGED <<log, highest, snapshot>>
  PROVE  IInv'
<1> USE DEF IInv
<1>1. /\ scan \in [Runs -> ScanType]
      /\ scan' \in [Runs -> ScanType]
      /\ scan'[r] = NoScan
      /\ \A t \in Runs \ {r} : scan'[t] = scan[t]
      /\ UNCHANGED <<addresses, lastFetchedBlock>>
  BY DEF FailScan, TypeOK, ScanType
<1>2. TypeOK'
  BY <1>1 DEF TypeOK
<1>3. NodeInv' /\ SnapshotCovers' /\ Coverage'
  BY <1>1 DEF NodeInv, IsFinal, SnapshotCovers, Covers, Coverage
<1>4. CursorInv'
  BY <1>1 DEF CursorInv, Scanning
<1>5. ScanInv'
  BY <1>1 DEF ScanInv, Scanning, Pending
<1> QED
  BY <1>2, <1>3, <1>4, <1>5

(* A new process has no scan and no cursor, only a snapshot that is right.  *)
LEMMA RestartIInv ==
  ASSUME IInv, Restart
  PROVE  IInv'
<1> USE DEF IInv
<1>1. PICK s \in Snapshots : IsFinal(s.toBlock) /\ Covers(s) /\ StartProcess(s)
  BY DEF Restart
<1>2. /\ snapshot' = s /\ addresses' = {} /\ lastFetchedBlock' = NoNumber
      /\ scan' = [r \in Runs |-> NoScan]
      /\ UNCHANGED <<log, highest>>
  BY <1>1 DEF Restart, StartProcess
<1>3. TypeOK'
  BY <1>2, AddressScanAssumption DEF TypeOK, ScanType, Snapshots
<1>4. NodeInv' /\ SnapshotCovers'
  BY <1>1, <1>2 DEF NodeInv, IsFinal, SnapshotCovers, Covers
<1>5. CursorInv' /\ ScanInv' /\ Coverage'
  BY <1>2 DEF CursorInv, ScanInv, Coverage, Scanning
<1> QED
  BY <1>3, <1>4, <1>5

(* Every step, of the node or of a call, keeps the invariant.              *)
LEMMA NextIInv == IInv /\ [Next]_vars => IInv'
<1> SUFFICES ASSUME IInv, [Next]_vars PROVE IInv'
  OBVIOUS
<1>1. CASE ChainStep
  BY <1>1, MineIInv, ReorgIInv DEF ChainStep
<1>2. ASSUME NEW r \in Runs, ServiceStep(r) PROVE IInv'
  BY <1>2, StartScanIInv, ServeQueryIInv, CompleteScanIInv, FailScanIInv DEF ServiceStep
<1>3. CASE Restart
  BY <1>3, RestartIInv
<1>4. CASE UNCHANGED vars
  BY <1>4 DEF vars, IInv, TypeOK, NodeInv, IsFinal, SnapshotCovers, Covers, CursorInv,
              ScanInv, Coverage, Scanning, Pending
<1> QED
  BY <1>1, <1>2, <1>3, <1>4 DEF Next

(* IInv holds always: the one temporal argument of this module.            *)
THEOREM Invariance == Spec => []IInv
BY InitIInv, NextIInv, PTL DEF Spec

(* The fields of the service and the scans in flight hold what their types *)
(* say, whatever the number of overlapping calls.                          *)
THEOREM TypeCorrect == Spec => []TypeOK
<1>1. IInv => TypeOK
  BY DEF IInv
<1> QED
  BY <1>1, Invariance, PTL

(* No address in a block that can no longer be reorganised is lost, for    *)
(* every overlap, chunk size, number of overlapping calls, and schedule of *)
(* failures, restarts and later snapshots, as long as reorganisations are  *)
(* at most one block deeper than the overlap.                              *)
THEOREM CoverageCorrect == Spec => []Coverage
<1>1. IInv => Coverage
  BY DEF IInv
<1> QED
  BY <1>1, Invariance, PTL

(* What lies final below the end of a running scan is collected, found, or *)
(* in a query the scan still waits for.                                    *)
THEOREM ScanCorrect == Spec => []ScanInv
<1>1. IInv => ScanInv
  BY DEF IInv
<1> QED
  BY <1>1, Invariance, PTL
=============================================================================
