------------------------ MODULE SnapshotScriptProofs ------------------------
(***************************************************************************)
(* Proofs about SnapshotScript: a vetted file is exact, a run is not given *)
(* up early, and crashes and deployments are restarts of AddressScan, so   *)
(* that Coverage holds across them.                                        *)
(***************************************************************************)
EXTENDS SnapshotScript, AddressScanProofs

-----------------------------------------------------------------------------
(* The final part of the chain.                                            *)

(* Final blocks are on the chain, and a smaller number is final too.       *)
LEMMA FinalIsOnChain ==
  ASSUME IInv, NEW t \in Nat, IsFinal(t), NEW m \in 0 .. t
  PROVE  /\ t <= Len(log)
         /\ IsFinal(m)
BY AddressScanAssumption DEF IInv, TypeOK, NodeInv, IsFinal

(* No step changes the events of final blocks, or makes them not final.    *)
LEMMA FinalIsStable ==
  ASSUME IInv, ChainStep \/ UNCHANGED <<log, highest>>, NEW t \in Nat, IsFinal(t)
  PROVE  /\ IsFinal(t)'
         /\ \A n \in DOMAIN log' : n <= t => n \in DOMAIN log /\ log'[n] = log[n]
         /\ \A n \in DOMAIN log : n <= t => n \in DOMAIN log' /\ log'[n] = log[n]
<1> USE AddressScanAssumption
<1>1. /\ log \in Seq([Filters -> SUBSET Addresses]) /\ highest \in Nat
      /\ t <= Len(log) /\ (t = 0 \/ t <= highest - MaxReorgDepth)
      /\ Len(log) <= highest
  BY FinalIsOnChain DEF IInv, TypeOK, NodeInv, IsFinal
<1>2. CASE UNCHANGED <<log, highest>>
  BY <1>2 DEF IsFinal
<1>3. ASSUME NEW block \in [Filters -> SUBSET Addresses], Mine(block)
      PROVE  /\ IsFinal(t)'
             /\ \A n \in DOMAIN log' : n <= t => n \in DOMAIN log /\ log'[n] = log[n]
             /\ \A n \in DOMAIN log : n <= t => n \in DOMAIN log' /\ log'[n] = log[n]
  <2>1. /\ log' = Append(log, block)
        /\ highest' \in Nat /\ highest <= highest'
    BY <1>1, <1>3 DEF Mine
  <2>2. /\ Len(log') = Len(log) + 1
        /\ \A n \in 1 .. Len(log) : log'[n] = log[n]
    BY <1>1, <2>1
  <2>3. IsFinal(t)'
    BY <1>1, <2>1 DEF IsFinal
  <2>4. DOMAIN log = 1 .. Len(log) /\ DOMAIN log' = 1 .. Len(log')
    BY <1>1, <2>1
  <2> QED
    BY <1>1, <2>2, <2>3, <2>4
<1>4. ASSUME NEW m \in 1 .. MaxBlock, Reorg(m)
      PROVE  /\ IsFinal(t)'
             /\ \A n \in DOMAIN log' : n <= t => n \in DOMAIN log /\ log'[n] = log[n]
             /\ \A n \in DOMAIN log : n <= t => n \in DOMAIN log' /\ log'[n] = log[n]
  <2>1. /\ log' = SubSeq(log, 1, m) /\ highest' = highest
        /\ m \in Nat /\ m < Len(log) /\ t <= m
    BY <1>1, <1>4 DEF Reorg
  <2>2. /\ DOMAIN log' = 1 .. m /\ DOMAIN log = 1 .. Len(log)
        /\ \A n \in 1 .. m : log'[n] = log[n]
    BY <1>1, <2>1
  <2>3. IsFinal(t)'
    BY <2>1 DEF IsFinal
  <2>4. \A n \in 1 .. m : n \in 1 .. Len(log)
    BY <1>1, <2>1
  <2>5. \A n \in 1 .. Len(log) : n <= t => n \in 1 .. m
    BY <1>1, <2>1
  <2> QED
    BY <2>2, <2>3, <2>4, <2>5
<1> QED
  BY <1>2, <1>3, <1>4 DEF ChainStep

(* So the events up to a final block stay what they are.                   *)
LEMMA FinalEventsAreStable ==
  ASSUME IInv, ChainStep \/ UNCHANGED <<log, highest>>, NEW t \in Nat, IsFinal(t)
  PROVE  EventsUpTo(t)' = EventsUpTo(t)
<1>1. {m \in DOMAIN log' : m <= t} = {m \in DOMAIN log : m <= t}
  BY FinalIsStable
<1>2. \A m \in {m \in DOMAIN log : m <= t} : log'[m] = log[m]
  BY FinalIsStable
<1> QED
  BY <1>1, <1>2 DEF EventsUpTo

-----------------------------------------------------------------------------
(* A file with exactly the events up to its block covers them.             *)
LEMMA ExactCovers ==
  ASSUME NEW s, s.addresses = EventsUpTo(s.toBlock)
  PROVE  Covers(s)
BY DEF EventsUpTo, Covers

(* What a process starts with is always a snapshot AddressScan admits.     *)
LEMMA StartsAreRestarts ==
  ASSUME IInv, ScriptInv, Crash \/ Deploy, UNCHANGED <<log, highest>>
  PROVE  Restart
<1>1. CASE Crash
  BY <1>1 DEF Crash, Restart, IInv, TypeOK, NodeInv, SnapshotCovers
<1>2. CASE Deploy
  BY <1>2, ExactCovers DEF Deploy, Restart, ScriptInv, ScriptTypeOK, VettedIsExact
<1> QED
  BY <1>1, <1>2

-----------------------------------------------------------------------------
(* The inductive invariant of the script.                                  *)

LEMMA ScriptInitInv == ScriptInit => ScriptInv
<1> SUFFICES ASSUME ScriptInit PROVE ScriptInv
  OBVIOUS
<1>1. /\ run.attempt = [q \in {} |-> 1]
      /\ DOMAIN run.attempt = {}
      /\ run = Over("done")
  BY DEF ScriptInit, Over, FirstAttempts
<1>2. ScriptTypeOK
  <2>1. run.attempt \in [DOMAIN run.attempt -> 1 .. RpcAttempts]
    BY <1>1
  <2>2. run = [command |-> "check", phase |-> "done", toBlock |-> NoNumber,
               attempt |-> run.attempt, found |-> {}]
    BY <1>1 DEF Over
  <2>3. run \in [command : {"update", "check"},
                phase   : {"finalized", "build", "done", "mismatch", "refused", "gaveUp"},
                toBlock : 0 .. MaxBlock \cup {NoNumber, NotInteger},
                attempt : [DOMAIN run.attempt -> 1 .. RpcAttempts],
                found   : SUBSET Addresses]
    BY <2>1, <2>2
  <2>4. file \in Snapshots /\ errors \in 0 .. RpcAttempts
    BY SnapshotScriptAssumption DEF ScriptInit
  <2>5. vetted \in BOOLEAN
    BY DEF ScriptInit
  <2>6. DOMAIN run.attempt \subseteq (IF run.phase = "finalized" THEN {Finalized} ELSE Query)
    BY <1>1
  <2> QED
    BY <2>3, <2>4, <2>5, <2>6 DEF ScriptTypeOK
<1> QED
  BY <1>1, <1>2 DEF ScriptInit, ScriptInv, VettedIsExact, FewErrorsDoNotFail, BuildInv,
              AttemptsCounted, Over, FirstAttempts

(* The run that starts waits for its first request.                        *)
LEMMA StartRunInv ==
  ASSUME IInv, ScriptInv, NEW command \in {"update", "check"},
         NEW toBlock \in 0 .. MaxBlock \cup {NoNumber, NotInteger},
         StartRun(command, toBlock), UNCHANGED vars
  PROVE  ScriptInv'
<1>1. ScriptTypeOK'
  BY SnapshotScriptAssumption DEF ScriptInv, ScriptTypeOK, StartRun, FirstAttempts
<1>2. VettedIsExact'
  BY DEF ScriptInv, VettedIsExact, StartRun, vars, IsFinal, EventsUpTo
<1> QED
  BY <1>1, <1>2 DEF ScriptInv, FewErrorsDoNotFail, BuildInv, AttemptsCounted,
                    StartRun, FirstAttempts

(* A run that is over leaves nothing to say of it but why.                 *)
LEMMA OverInv ==
  ASSUME ScriptInv, UNCHANGED <<vars, file, vetted>>, errors' \in 0 .. RpcAttempts,
         NEW phase \in {"done", "mismatch", "refused", "gaveUp"}, run' = Over(phase),
         phase = "gaveUp" => errors' >= RpcAttempts
  PROVE  ScriptInv'
<1>1. ScriptTypeOK'
  BY DEF ScriptInv, ScriptTypeOK, Over, FirstAttempts
<1>2. VettedIsExact'
  BY DEF ScriptInv, VettedIsExact, vars, IsFinal, EventsUpTo
<1> QED
  BY <1>1, <1>2 DEF ScriptInv, FewErrorsDoNotFail, BuildInv, AttemptsCounted,
                    Over, FirstAttempts

(* The queries of a build leave out no block of it.                        *)
LEMMA ServeFinalizedInv ==
  ASSUME IInv, ScriptInv, NEW m \in 0 .. MaxBlock, IsFinal(m), ServeFinalized(m),
         UNCHANGED vars
  PROVE  ScriptInv'
<1>1. CASE run' = Over("refused") /\ UNCHANGED <<file, vetted, errors>>
  BY <1>1, OverInv DEF ScriptInv, ScriptTypeOK
<1>2. ASSUME Accepts(Target(m), m), UNCHANGED <<file, vetted, errors>>,
             run' = [run EXCEPT !.phase = "build", !.toBlock = Target(m),
                                !.attempt = FirstAttempts(Queries(1, Target(m)))]
      PROVE  ScriptInv'
  <2> DEFINE t == Target(m)
             b == FirstAttempts(Queries(1, t))
  <2>1. t \in 0 .. MaxBlock /\ t <= m
    <3>1. t \in 0 .. MaxBlock \cup {NoNumber, NotInteger}
      BY DEF Target, ScriptInv, ScriptTypeOK, Snapshots
    <3> QED
      BY <3>1, <1>2, AddressScanAssumption, SnapshotScriptAssumption DEF Accepts
  <2>2. IsFinal(t)
    BY <2>1, FinalIsOnChain, AddressScanAssumption
  <2>3. DOMAIN b = Queries(1, t) /\ \A q \in DOMAIN b : b[q] = 1
    BY DEF FirstAttempts
  <2>4. Queries(1, t) \subseteq Query
    BY <2>1, QueriesType, AddressScanAssumption
  <2>5. b \in [Queries(1, t) -> 1 .. RpcAttempts]
    BY SnapshotScriptAssumption DEF FirstAttempts
  <2>6. /\ run'.phase = "build" /\ run'.toBlock = t /\ run'.attempt = b
        /\ run'.found = run.found /\ run'.command = run.command
        /\ run' = [command |-> run.command, phase |-> "build", toBlock |-> t,
                   attempt |-> b, found |-> run.found]
    BY <1>2 DEF ScriptInv, ScriptTypeOK
  <2>7. ASSUME NEW n \in DOMAIN log, NEW f \in Filters, n <= t
        PROVE  \E q \in Queries(1, t) : q.filter = f /\ n \in q.from .. q.to
    <3>1. n \in 1 .. t
      BY <2>1, <2>7 DEF IInv, TypeOK
    <3> QED
      BY <3>1, <2>1, QueriesTile, AddressScanAssumption
  <2>8. \A q \in Queries(1, t) : q.to <= t
    BY <2>1, ChunksWithinRange, AddressScanAssumption DEF Queries
  <2> HIDE DEF t, b
  <2>9. ScriptTypeOK'
    BY <1>2, <2>1, <2>3, <2>4, <2>5, <2>6 DEF ScriptInv, ScriptTypeOK
  <2>10. VettedIsExact' /\ FewErrorsDoNotFail'
    BY <1>2, <2>6 DEF ScriptInv, VettedIsExact, FewErrorsDoNotFail, vars, IsFinal, EventsUpTo
  <2>11. AttemptsCounted'
    BY <1>2, <2>3, <2>6 DEF ScriptInv, ScriptTypeOK, AttemptsCounted
  <2>12. BuildInv'
    <3>1. run.found = {}
      BY DEF ScriptInv, BuildInv, ServeFinalized
    <3> QED
      BY <3>1, <1>2, <2>1, <2>2, <2>3, <2>6, <2>7, <2>8 DEF BuildInv, vars, IsFinal, Target, t
  <2> QED
    BY <2>9, <2>10, <2>11, <2>12 DEF ScriptInv
<1> QED
  BY <1>1, <1>2 DEF ServeFinalized

(* An answer moves its blocks from the requests to what is found.          *)
LEMMA ServeBuildQueryInv ==
  ASSUME IInv, ScriptInv, NEW q, ServeBuildQuery(q), UNCHANGED vars
  PROVE  ScriptInv'
<1> DEFINE b == [p \in DOMAIN run.attempt \ {q} |-> run.attempt[p]]
           g == run.found \cup Answer(q)
<1>1. /\ run.phase = "build" /\ q \in DOMAIN run.attempt
      /\ q \in Query /\ q.to <= run.toBlock
      /\ UNCHANGED <<file, vetted, errors>>
  BY DEF ScriptInv, ScriptTypeOK, BuildInv, ServeBuildQuery
<1>2. /\ run' = [command |-> run.command, phase |-> "build", toBlock |-> run.toBlock,
                 attempt |-> b, found |-> g]
  BY <1>1 DEF ServeBuildQuery, ScriptInv, ScriptTypeOK
<1>3. /\ DOMAIN b = DOMAIN run.attempt \ {q}
      /\ \A p \in DOMAIN b : b[p] = run.attempt[p]
      /\ b \in [DOMAIN b -> 1 .. RpcAttempts]
  BY DEF ScriptInv, ScriptTypeOK
<1>4. Answer(q) \subseteq Addresses /\ Answer(q) \subseteq EventsUpTo(run.toBlock)
  <2>1. /\ q.filter \in Filters /\ q.from \in Int /\ q.to \in Int
        /\ run.toBlock \in 0 .. MaxBlock
        /\ log \in Seq([Filters -> SUBSET Addresses])
    BY <1>1 DEF IInv, TypeOK, Query, ScriptInv, BuildInv
  <2>2. \A n \in DOMAIN log \cap (q.from .. q.to) :
           n <= run.toBlock /\ log[n][q.filter] \subseteq Addresses
    BY <1>1, <2>1, AddressScanAssumption
  <2> QED
    BY <2>1, <2>2 DEF Answer, EventsUpTo
<1>5. ASSUME NEW n \in DOMAIN log, NEW f \in Filters, n <= run.toBlock
      PROVE  \/ log[n][f] \subseteq g
             \/ \E p \in DOMAIN b : p.filter = f /\ n \in p.from .. p.to
  <2>1. CASE log[n][f] \subseteq run.found
    BY <2>1
  <2>2. ASSUME NEW p \in DOMAIN run.attempt, p.filter = f /\ n \in p.from .. p.to
        PROVE  \/ log[n][f] \subseteq g
               \/ \E o \in DOMAIN b : o.filter = f /\ n \in o.from .. o.to
    <3>1. CASE p = q
      BY <2>2, <3>1 DEF Answer
    <3>2. CASE p # q
      BY <2>2, <3>2, <1>3
    <3> QED
      BY <3>1, <3>2
  <2> QED
    BY <1>1, <1>5, <2>1, <2>2 DEF ScriptInv, BuildInv
<1> HIDE DEF b, g
<1>6. /\ run'.phase = "build" /\ run'.toBlock = run.toBlock /\ run'.attempt = b
      /\ run'.found = g /\ run'.command = run.command
  BY <1>2
<1>7. ScriptTypeOK'
  BY <1>1, <1>2, <1>3, <1>4, <1>6 DEF ScriptInv, ScriptTypeOK, g
<1>8. VettedIsExact' /\ FewErrorsDoNotFail'
  BY <1>1, <1>6 DEF ScriptInv, VettedIsExact, FewErrorsDoNotFail, vars, IsFinal, EventsUpTo
<1>9. AttemptsCounted'
  BY <1>1, <1>3, <1>6 DEF ScriptInv, AttemptsCounted
<1>10. g \subseteq EventsUpTo(run.toBlock)
  BY <1>1, <1>4 DEF g, ScriptInv, BuildInv
<1>11. BuildInv'
  BY <1>1, <1>3, <1>5, <1>6, <1>10 DEF ScriptInv, BuildInv, vars, IsFinal, EventsUpTo
<1> QED
  BY <1>7, <1>8, <1>9, <1>11 DEF ScriptInv

(* A failure counts as one more attempt, until the run is given up.        *)
LEMMA FailRequestInv ==
  ASSUME IInv, ScriptInv, NEW q, FailRequest(q), UNCHANGED vars
  PROVE  ScriptInv'
<1>1. /\ q \in DOMAIN run.attempt /\ run.attempt[q] \in 1 .. RpcAttempts
      /\ errors \in 0 .. RpcAttempts /\ run.attempt[q] <= errors + 1
      /\ errors' \in 0 .. RpcAttempts /\ errors <= errors'
      /\ errors < RpcAttempts => errors' = errors + 1
      /\ errors = RpcAttempts => errors' = RpcAttempts
      /\ UNCHANGED <<vars, file, vetted>>
      /\ run.phase \in {"finalized", "build"}
  BY SnapshotScriptAssumption DEF FailRequest, Executing, ScriptInv, ScriptTypeOK, AttemptsCounted
<1>2. CASE run.attempt[q] >= RpcAttempts
  <2>1. errors' >= RpcAttempts
    BY <1>1, <1>2, SnapshotScriptAssumption
  <2> QED
    BY <1>1, <1>2, <2>1, OverInv DEF FailRequest
<1>3. CASE ~ run.attempt[q] >= RpcAttempts
  <2> DEFINE b == [run.attempt EXCEPT ![q] = @ + 1]
  <2>1. run' = [command |-> run.command, phase |-> run.phase, toBlock |-> run.toBlock,
                attempt |-> b, found |-> run.found]
    BY <1>3 DEF FailRequest, ScriptInv, ScriptTypeOK
  <2>2. /\ DOMAIN b = DOMAIN run.attempt
        /\ b \in [DOMAIN b -> 1 .. RpcAttempts]
        /\ \A p \in DOMAIN b : b[p] <= errors' + 1
    <3>1. b[q] = run.attempt[q] + 1 /\ \A p \in DOMAIN b \ {q} : b[p] = run.attempt[p]
      BY <1>1
    <3>2. \A p \in DOMAIN run.attempt : run.attempt[p] \in 1 .. RpcAttempts
                                        /\ run.attempt[p] <= errors + 1
      BY DEF ScriptInv, ScriptTypeOK, AttemptsCounted
    <3>3. DOMAIN b = DOMAIN run.attempt /\ b \in [DOMAIN b -> {b[p] : p \in DOMAIN b}]
      OBVIOUS
    <3>4. \A p \in DOMAIN b : b[p] \in 1 .. RpcAttempts /\ b[p] <= errors' + 1
      <4> HIDE DEF b
      <4> QED BY <1>1, <1>3, <3>1, <3>2, <3>3, SnapshotScriptAssumption
    <3> QED
      BY <3>3, <3>4
  <2> HIDE DEF b
  <2>3. /\ run'.phase = run.phase /\ run'.toBlock = run.toBlock /\ run'.attempt = b
        /\ run'.found = run.found /\ run'.command = run.command
    BY <2>1
  <2>4. ScriptTypeOK'
    BY <1>1, <2>1, <2>2, <2>3 DEF ScriptInv, ScriptTypeOK
  <2>5. VettedIsExact' /\ FewErrorsDoNotFail'
    BY <1>1, <2>3 DEF ScriptInv, VettedIsExact, FewErrorsDoNotFail, vars, IsFinal, EventsUpTo
  <2>6. AttemptsCounted'
    BY <2>2, <2>3 DEF AttemptsCounted
  <2>7. BuildInv'
    BY <1>1, <2>2, <2>3 DEF ScriptInv, BuildInv, vars, IsFinal, EventsUpTo
  <2> QED
    BY <2>4, <2>5, <2>6, <2>7 DEF ScriptInv
<1> QED
  BY <1>2, <1>3

(* A build with no request left has found exactly the events.              *)
LEMMA BuiltIsExact ==
  ASSUME ScriptInv, Built
  PROVE  run.found = EventsUpTo(run.toBlock) /\ IsFinal(run.toBlock)
<1>1. DOMAIN run.attempt = {} /\ run.phase = "build"
  BY DEF Built, FirstAttempts
<1>2. \A n \in DOMAIN log, f \in Filters : n <= run.toBlock => log[n][f] \subseteq run.found
  BY <1>1 DEF ScriptInv, BuildInv
<1>3. EventsUpTo(run.toBlock) \subseteq run.found
  BY <1>2 DEF EventsUpTo
<1> QED
  BY <1>1, <1>3 DEF ScriptInv, BuildInv

LEMMA FinishUpdateInv ==
  ASSUME IInv, ScriptInv, FinishUpdate, UNCHANGED vars
  PROVE  ScriptInv'
<1>1. run.found = EventsUpTo(run.toBlock) /\ IsFinal(run.toBlock)
  BY BuiltIsExact DEF FinishUpdate
<1>2. /\ file' = [toBlock |-> run.toBlock, addresses |-> run.found]
      /\ vetted' = TRUE /\ errors' = errors
      /\ run' = Over("done")
  BY DEF FinishUpdate
<1>3. run.toBlock \in 0 .. MaxBlock
  BY DEF FinishUpdate, Built, ScriptInv, BuildInv
<1>4. ScriptTypeOK'
  BY <1>2, <1>3 DEF ScriptInv, ScriptTypeOK, Snapshots, Over, FirstAttempts
<1>5. VettedIsExact'
  BY <1>1, <1>2 DEF VettedIsExact, vars, IsFinal, EventsUpTo
<1> QED
  BY <1>2, <1>4, <1>5 DEF ScriptInv, FewErrorsDoNotFail, BuildInv, AttemptsCounted,
                          Over, FirstAttempts

(* A check changes nothing but its verdict.                                *)
LEMMA FinishCheckInv ==
  ASSUME IInv, ScriptInv, FinishCheck, UNCHANGED vars
  PROVE  ScriptInv'
<1>1. /\ run.found = EventsUpTo(run.toBlock) /\ IsFinal(run.toBlock)
      /\ run.toBlock = file.toBlock
  BY BuiltIsExact DEF FinishCheck, Built, ScriptInv, BuildInv
<1>2. /\ vetted' = (vetted \/ Matches)
      /\ file' = file /\ errors' = errors
      /\ \E phase \in {"done", "mismatch"} : run' = Over(phase)
  BY DEF FinishCheck
<1>3. VettedIsExact'
  <2>1. UNCHANGED <<log, highest, file>>
    BY <1>2 DEF vars
  <2>2. vetted' => IsFinal(file.toBlock) /\ file.addresses = EventsUpTo(file.toBlock)
    BY <1>1, <1>2 DEF VettedIsExact, ScriptInv, Matches
  <2> QED
    BY <2>1, <2>2 DEF VettedIsExact, IsFinal, EventsUpTo
<1>4. vetted' \in BOOLEAN
  BY <1>2 DEF Matches, ScriptInv, ScriptTypeOK
<1>5. ScriptTypeOK'
  BY <1>2, <1>4 DEF ScriptInv, ScriptTypeOK, Over, FirstAttempts
<1> QED
  BY <1>2, <1>3, <1>5 DEF ScriptInv, FewErrorsDoNotFail, BuildInv, AttemptsCounted,
                          Over, FirstAttempts

(* The chain and the service leave the script alone, and what its file and *)
(* its run say of final blocks stays true.                                 *)
LEMMA ChainScriptInv ==
  ASSUME IInv, ScriptInv, ChainStep \/ UNCHANGED <<log, highest>>, UNCHANGED scriptVars
  PROVE  ScriptInv'
<1>1. file' = file /\ vetted' = vetted /\ run' = run /\ errors' = errors
  BY DEF scriptVars
<1>2. ScriptTypeOK' /\ FewErrorsDoNotFail' /\ AttemptsCounted'
  BY <1>1 DEF ScriptInv, ScriptTypeOK, FewErrorsDoNotFail, AttemptsCounted
<1>3. VettedIsExact'
  <2> SUFFICES ASSUME vetted
               PROVE  IsFinal(file.toBlock)' /\ file.addresses = EventsUpTo(file.toBlock)'
    BY <1>1 DEF VettedIsExact
  <2>1. /\ file.toBlock \in Nat /\ IsFinal(file.toBlock)
        /\ file.addresses = EventsUpTo(file.toBlock)
    BY AddressScanAssumption DEF ScriptInv, ScriptTypeOK, Snapshots, VettedIsExact
  <2>2. IsFinal(file.toBlock)'
    BY <1>1, <2>1, FinalIsStable DEF IsFinal
  <2>3. EventsUpTo(file.toBlock)' = EventsUpTo(file.toBlock)
    BY <1>1, <2>1, FinalEventsAreStable DEF EventsUpTo
  <2> QED
    BY <1>1, <2>1, <2>2, <2>3
<1>4. BuildInv'
  <2>1. CASE run.phase # "build"
    BY <1>1, <2>1 DEF ScriptInv, BuildInv
  <2>2. CASE run.phase = "build"
    <3>1. run.toBlock \in 0 .. MaxBlock /\ run.toBlock \in Nat /\ IsFinal(run.toBlock)
      BY <2>2, AddressScanAssumption DEF ScriptInv, BuildInv
    <3>2. IsFinal(run.toBlock)'
      BY <1>1, <3>1, FinalIsStable DEF IsFinal
    <3>3. \A n \in DOMAIN log' : n <= run.toBlock => n \in DOMAIN log /\ log'[n] = log[n]
      BY <3>1, FinalIsStable
    <3>4. EventsUpTo(run.toBlock)' = EventsUpTo(run.toBlock)
      BY <1>1, <3>1, FinalEventsAreStable DEF EventsUpTo
    <3>5. /\ run.command = "check" => run.toBlock = file.toBlock
          /\ \A q \in DOMAIN run.attempt : q.to <= run.toBlock
          /\ run.found \subseteq EventsUpTo(run.toBlock)
          /\ \A n \in DOMAIN log, f \in Filters : n <= run.toBlock =>
               \/ log[n][f] \subseteq run.found
               \/ \E q \in DOMAIN run.attempt : q.filter = f /\ n \in q.from .. q.to
      BY <2>2 DEF ScriptInv, BuildInv
    <3>6. \A n \in DOMAIN log', f \in Filters : n <= run.toBlock =>
               \/ log'[n][f] \subseteq run.found
               \/ \E q \in DOMAIN run.attempt : q.filter = f /\ n \in q.from .. q.to
      BY <3>3, <3>5
    <3>7. (run.found \subseteq EventsUpTo(run.toBlock))'
      BY <1>1, <3>4, <3>5
    <3> QED
      BY <1>1, <2>2, <3>1, <3>2, <3>5, <3>6, <3>7 DEF BuildInv
  <2> QED
    BY <2>1, <2>2
<1> QED
  BY <1>2, <1>3, <1>4 DEF ScriptInv

(* A step of the script keeps its invariant, whatever the chain does.      *)
LEMMA ScriptStepInv ==
  ASSUME IInv, ScriptInv, ScriptStep
  PROVE  ScriptInv'
<1>1. ASSUME NEW toBlock \in 0 .. MaxBlock \cup {NoNumber, NotInteger},
             StartRun("update", toBlock) \/ StartRun("check", NoNumber)
      PROVE  ScriptInv'
  BY <1>1, StartRunInv DEF ScriptStep
<1>2. ASSUME NEW n \in 0 .. MaxBlock, IsFinal(n), ServeFinalized(n)
      PROVE  ScriptInv'
  BY <1>2, ServeFinalizedInv DEF ScriptStep
<1>3. ASSUME NEW q \in DOMAIN run.attempt, ServeBuildQuery(q) \/ FailRequest(q)
      PROVE  ScriptInv'
  BY <1>3, ServeBuildQueryInv, FailRequestInv DEF ScriptStep
<1>4. CASE FinishUpdate \/ FinishCheck
  BY <1>4, FinishUpdateInv, FinishCheckInv DEF ScriptStep
<1> QED
  BY <1>1, <1>2, <1>3, <1>4 DEF ScriptStep

(* Every step is a step of AddressScan or leaves it as it is.              *)
LEMMA ScriptNextIsNext ==
  ASSUME IInv, ScriptInv, [ScriptNext]_allVars
  PROVE  [Next]_vars
<1>1. CASE ScriptStep
  BY <1>1 DEF ScriptStep
<1>2. CASE ProcessStep
  BY <1>2, StartsAreRestarts DEF ProcessStep, Next
<1>3. CASE UNCHANGED allVars
  BY <1>3 DEF allVars
<1> QED
  BY <1>1, <1>2, <1>3 DEF ScriptNext

LEMMA ScriptNextInv == IInv /\ ScriptInv /\ [ScriptNext]_allVars => IInv' /\ ScriptInv'
<1> SUFFICES ASSUME IInv, ScriptInv, [ScriptNext]_allVars
             PROVE  IInv' /\ ScriptInv'
  OBVIOUS
<1>1. IInv'
  BY ScriptNextIsNext, NextIInv
<1>2. CASE ScriptStep
  BY <1>1, <1>2, ScriptStepInv
<1>3. CASE ProcessStep
  <2>1. ChainStep \/ UNCHANGED <<log, highest>>
    BY <1>3 DEF ProcessStep, ServiceStep
  <2> QED
    BY <1>1, <1>3, <2>1, ChainScriptInv DEF ProcessStep
<1>4. CASE UNCHANGED allVars
  BY <1>1, <1>4, ChainScriptInv DEF allVars, vars
<1> QED
  BY <1>1, <1>2, <1>3, <1>4 DEF ScriptNext

LEMMA ScriptInitBoth == ScriptInit => IInv /\ ScriptInv
BY InitIInv, ScriptInitInv DEF ScriptInit

(* Both invariants hold always; neither is inductive without the other: a  *)
(* deployment needs a right file, and a build needs that final blocks stay. *)
THEOREM ScriptInvariance == ScriptSpec => [](IInv /\ ScriptInv)
BY ScriptInitBoth, ScriptNextInv, PTL DEF ScriptSpec

(* The run, the file and the attempts of the requests hold what their      *)
(* types say: no request is tried more often than RpcAttempts, and only    *)
(* the requests of the phase the run is in are in flight.                  *)
THEOREM ScriptTypeCorrect == ScriptSpec => []ScriptTypeOK
<1>1. IInv /\ ScriptInv => ScriptTypeOK
  BY DEF ScriptInv
<1> QED
  BY <1>1, ScriptInvariance, PTL

(* A file the script wrote or matched is exact and final, for any chain,   *)
(* chunk size, number of attempts and schedule of failures.                *)
THEOREM VettedCorrect == ScriptSpec => []VettedIsExact
<1>1. IInv /\ ScriptInv => VettedIsExact
  BY DEF ScriptInv
<1> QED
  BY <1>1, ScriptInvariance, PTL

(* The script gives up only after RpcAttempts failures.                    *)
THEOREM GivesUpLate == ScriptSpec => []FewErrorsDoNotFail
<1>1. IInv /\ ScriptInv => FewErrorsDoNotFail
  BY DEF ScriptInv
<1> QED
  BY <1>1, ScriptInvariance, PTL

(* The service with deployments and crashes implements AddressScan.        *)
THEOREM DeploymentsRefine == ScriptSpec => DeploymentsAreRestarts
<1>1. ScriptInit => Init
  BY DEF ScriptInit
<1>2. IInv /\ ScriptInv /\ [ScriptNext]_allVars => [Next]_vars
  BY ScriptNextIsNext
<1> QED
  BY <1>1, <1>2, ScriptInvariance, PTL DEF ScriptSpec, Spec, DeploymentsAreRestarts

(* So no final address is lost across crashes and new snapshots.           *)
THEOREM CoverageAcrossDeployments == ScriptSpec => []Coverage
BY DeploymentsRefine, CoverageCorrect, PTL DEF DeploymentsAreRestarts
=============================================================================
