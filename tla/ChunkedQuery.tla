---------------------------- MODULE ChunkedQuery ----------------------------
(***************************************************************************)
(* queryFilterInChunks: the calls of it that are in flight, their workers, *)
(* and the permits all calls of the process share.                         *)
(*                                                                         *)
(* A call cuts its range into chunks and starts up to                      *)
(* LOGS_FETCH_CONCURRENCY workers.  A worker claims the next chunk, waits  *)
(* for a permit, queries, hands the permit on, and loops.  The first query *)
(* to fail rejects the call; its other workers stop when they come to look *)
(* at isFailed, those that wait for a permit only when they have it.       *)
(*                                                                         *)
(* An action is what runs between two awaits: from an answer to the next   *)
(* permit asked for there is no await in between.                          *)
(***************************************************************************)
EXTENDS Integers, Sequences, FiniteSets

CONSTANTS
  Calls,                  \* calls of queryFilterInChunks, each made once
  ChunkCount,             \* ChunkCount[c]: chunks of the range of call c
  LogsFetchConcurrency    \* LOGS_FETCH_CONCURRENCY

ASSUME ChunkedQueryAssumption ==
  /\ ChunkCount \in [Calls -> Nat]
  /\ LogsFetchConcurrency \in Nat \ {0}

VARIABLES
  inFlightQueriesCount,  \* permits given out
  permitWaiters,         \* workers that wait for a permit, first come first
  nextChunk,             \* nextChunk[c]: next chunk of c to claim
  isFailed,              \* isFailed[c]
  fetched,               \* fetched[c]: chunks whose events are in eventsByChunk
  worker,                \* worker[<<c, w>>]: where the worker is, and its chunk
  result                 \* result[c]: "none", "pending", "resolved" or "rejected"

vars == <<inFlightQueriesCount, permitWaiters, nextChunk, isFailed, fetched,
          worker, result>>

MinOf(a, b) == IF a < b THEN a ELSE b

(* The workers call c starts; the slots above stay as they are.            *)
WorkersCount(c) == MinOf(LogsFetchConcurrency, ChunkCount[c])

Workers == 1 .. LogsFetchConcurrency

AllWorkers == Calls \X Workers

At(c, w, pc) == worker[<<c, w>>].pc = pc

(* The workers that hold a permit.                                         *)
Holders == { cw \in AllWorkers : worker[cw].pc \in {"granted", "querying"} }

Stopped == [pc |-> "stopped", chunk |-> 0]

-----------------------------------------------------------------------------
(* The permits.  A waiter the permit is handed to runs on with "granted".  *)

Granted(ws, cw) == [ws EXCEPT ![cw].pc = "granted"]

(* Mutant: the count goes down although the permit is handed over.         *)
ReleasePermitTwice(count, waiters, ws) ==
  [count |-> count - 1,
   waiters |-> IF waiters = <<>> THEN waiters ELSE Tail(waiters),
   workers |-> IF waiters = <<>> THEN ws ELSE Granted(ws, Head(waiters))]

(* Mutant: a waiter is left in the queue when the permit goes back.        *)
ReleasePermitNoHandover(count, waiters, ws) ==
  [count |-> count - 1, waiters |-> waiters, workers |-> ws]

ReleasePermit(count, waiters, ws) ==
  IF waiters # <<>>
    THEN [count |-> count, waiters |-> Tail(waiters),
          workers |-> Granted(ws, Head(waiters))]
    ELSE [count |-> count - 1, waiters |-> waiters, workers |-> ws]

(* Mutant: one query too many may be in flight.                            *)
AcquirePermitOneTooMany(c, w, chunk, p) ==
  IF p.count <= LogsFetchConcurrency
    THEN [count |-> p.count + 1, waiters |-> p.waiters,
          workers |-> [p.workers EXCEPT ![<<c, w>>] = [pc |-> "granted", chunk |-> chunk]]]
    ELSE [count |-> p.count, waiters |-> Append(p.waiters, <<c, w>>),
          workers |-> [p.workers EXCEPT ![<<c, w>>] = [pc |-> "waiting", chunk |-> chunk]]]

(* acquirePermit of worker w of c for a chunk, given the permits p.        *)
AcquirePermit(c, w, chunk, p) ==
  IF p.count < LogsFetchConcurrency
    THEN [count |-> p.count + 1, waiters |-> p.waiters,
          workers |-> [p.workers EXCEPT ![<<c, w>>] = [pc |-> "granted", chunk |-> chunk]]]
    ELSE [count |-> p.count, waiters |-> Append(p.waiters, <<c, w>>),
          workers |-> [p.workers EXCEPT ![<<c, w>>] = [pc |-> "waiting", chunk |-> chunk]]]

SetPermits(p) ==
  /\ inFlightQueriesCount' = p.count
  /\ permitWaiters' = p.waiters
  /\ worker' = p.workers

(* A worker stops; p is what releasing its permit left.                    *)
SetStopped(c, w, p) ==
  /\ inFlightQueriesCount' = p.count
  /\ permitWaiters' = p.waiters
  /\ worker' = [p.workers EXCEPT ![<<c, w>>] = Stopped]

-----------------------------------------------------------------------------
(* Mutant: the last chunk claimed at the start is claimed again.           *)
FirstUnclaimedOffByOne(c) == WorkersCount(c)

(* What is left of the chunks when every worker has claimed its first.     *)
FirstUnclaimed(c) == WorkersCount(c) + 1

(* The call: every worker claims a chunk and asks for a permit, in turn.   *)
Start(c) ==
  LET free == LogsFetchConcurrency - inFlightQueriesCount
      started == WorkersCount(c)
  IN  /\ result[c] = "none"
      /\ result' = [result EXCEPT ![c] = IF ChunkCount[c] = 0 THEN "resolved" ELSE "pending"]
      /\ nextChunk' = [nextChunk EXCEPT ![c] = FirstUnclaimed(c)]
      /\ inFlightQueriesCount' = inFlightQueriesCount + MinOf(free, started)
      /\ permitWaiters' = permitWaiters \o
           [i \in 1 .. started - MinOf(free, started) |-> <<c, MinOf(free, started) + i>>]
      /\ worker' = [cw \in AllWorkers |->
           IF cw[1] # c \/ cw[2] > started THEN worker[cw]
           ELSE [pc |-> IF cw[2] <= free THEN "granted" ELSE "waiting", chunk |-> cw[2]]]
      /\ UNCHANGED <<isFailed, fetched>>

(* A worker is through; the call resolves with the last of its workers,    *)
(* unless it has been rejected.                                            *)
Stop(c, w, p) ==
  /\ SetStopped(c, w, p)
  /\ result' = [result EXCEPT ![c] =
       IF @ = "pending" /\ \A v \in Workers \ {w} : At(c, v, "stopped")
         THEN "resolved" ELSE @]

(* Mutant: the worker does not look at isFailed again.                     *)
UsePermitUnchecked(c, w) ==
  /\ At(c, w, "granted")
  /\ worker' = [worker EXCEPT ![<<c, w>>].pc = "querying"]
  /\ UNCHANGED <<inFlightQueriesCount, permitWaiters, nextChunk, isFailed, fetched, result>>

(* A worker comes to have its permit: it looks at isFailed again.          *)
UsePermit(c, w) ==
  /\ At(c, w, "granted")
  /\ IF isFailed[c]
       THEN Stop(c, w, ReleasePermit(inFlightQueriesCount, permitWaiters, worker))
       ELSE /\ worker' = [worker EXCEPT ![<<c, w>>].pc = "querying"]
            /\ UNCHANGED <<inFlightQueriesCount, permitWaiters, result>>
  /\ UNCHANGED <<nextChunk, isFailed, fetched>>

(* Mutant: the last chunk is never claimed.                                *)
MoreChunksButLast(c) == ~ isFailed[c] /\ nextChunk[c] < ChunkCount[c]

MoreChunks(c) == ~ isFailed[c] /\ nextChunk[c] <= ChunkCount[c]

(* A query is answered: its events are kept, the permit is released, and   *)
(* the loop claims the next chunk, if there is one, and asks for a permit. *)
Answered(c, w) ==
  LET released == ReleasePermit(inFlightQueriesCount, permitWaiters, worker)
  IN  /\ At(c, w, "querying")
      /\ fetched' = [fetched EXCEPT ![c] = @ \cup {worker[<<c, w>>].chunk}]
      /\ IF MoreChunks(c)
           THEN /\ SetPermits(AcquirePermit(c, w, nextChunk[c], released))
                /\ nextChunk' = [nextChunk EXCEPT ![c] = @ + 1]
                /\ UNCHANGED result
           ELSE /\ Stop(c, w, released)
                /\ UNCHANGED nextChunk
      /\ UNCHANGED isFailed

(* A query fails: the call is rejected, the permit is released.            *)
Failed(c, w) ==
  /\ At(c, w, "querying")
  /\ isFailed' = [isFailed EXCEPT ![c] = TRUE]
  /\ SetStopped(c, w, ReleasePermit(inFlightQueriesCount, permitWaiters, worker))
  /\ result' = [result EXCEPT ![c] = "rejected"]
  /\ UNCHANGED <<nextChunk, fetched>>

-----------------------------------------------------------------------------
Init ==
  /\ inFlightQueriesCount = 0
  /\ permitWaiters = <<>>
  /\ nextChunk = [c \in Calls |-> 1]
  /\ isFailed = [c \in Calls |-> FALSE]
  /\ fetched = [c \in Calls |-> {}]
  /\ worker = [cw \in AllWorkers |-> Stopped]
  /\ result = [c \in Calls |-> "none"]

WorkerStep(c, w) == UsePermit(c, w) \/ Answered(c, w) \/ Failed(c, w)

Next == \E c \in Calls : Start(c) \/ \E w \in Workers : WorkerStep(c, w)

Spec == Init /\ [][Next]_vars

(* A granted worker is the next to run, and the node answers every query   *)
(* or the provider's timeout fails it.                                     *)
Fairness == \A c \in Calls : \A w \in Workers : WF_vars(WorkerStep(c, w))

FairSpec == Spec /\ Fairness

-----------------------------------------------------------------------------
(* The type invariant.                                                     *)
TypeOK ==
  /\ inFlightQueriesCount \in 0 .. LogsFetchConcurrency
  /\ permitWaiters \in Seq(AllWorkers)
  /\ nextChunk \in [Calls -> Nat]
  /\ isFailed \in [Calls -> BOOLEAN]
  /\ fetched \in [Calls -> SUBSET Nat]
  /\ worker \in [AllWorkers ->
       [pc : {"stopped", "waiting", "granted", "querying"}, chunk : Nat]]
  /\ result \in [Calls -> {"none", "pending", "resolved", "rejected"}]

(* No permit leaks and none is made up: the count is the number of workers *)
(* that hold one ("the permit is handed over to the waiter, so the counter *)
(* stays unchanged", query-filter-in-chunks.ts:18), in every interleaving  *)
(* of calls, also of failed ones.                                          *)
PermitsAreCounted == inFlightQueriesCount = Cardinality(Holders)

(* Nobody waits while a permit is free, and who waits is in the queue once. *)
NoIdlePermit ==
  /\ permitWaiters # <<>> => inFlightQueriesCount = LogsFetchConcurrency
  /\ \A i, j \in DOMAIN permitWaiters : permitWaiters[i] = permitWaiters[j] => i = j
  /\ \A c \in Calls : \A w \in Workers :
       At(c, w, "waiting") <=> \E i \in DOMAIN permitWaiters : permitWaiters[i] = <<c, w>>

(* A call that resolves has the events of every chunk, so the reduce at    *)
(* query-filter-in-chunks.ts:76 finds no hole in eventsByChunk.            *)
ResolvedIsComplete ==
  \A c \in Calls : result[c] = "resolved" => fetched[c] = 1 .. ChunkCount[c]

(* No chunk is asked twice, and none is passed over: what is claimed is    *)
(* fetched or in the hands of one worker, unless the call failed.          *)
ChunksClaimedOnce ==
  \A c \in Calls :
    LET held == { w \in Workers : ~ At(c, w, "stopped") }
        inHand == { worker[<<c, w>>].chunk : w \in held }
    IN  /\ \A v, w \in held : worker[<<c, v>>].chunk = worker[<<c, w>>].chunk => v = w
        /\ inHand \cap fetched[c] = {}
        /\ ~ isFailed[c] => inHand \cup fetched[c] = 1 .. nextChunk[c] - 1

(* Once a query of a call has failed no further query of it is sent.       *)
NoQueryAfterFailure ==
  [][\A c \in Calls : isFailed[c] =>
       \A w \in Workers :
         At(c, w, "querying")' => At(c, w, "querying") /\ UNCHANGED worker[<<c, w>>]]_vars

(* Every call settles and every worker stops, so a failed call does not    *)
(* keep permits from the others for ever.                                  *)
EveryCallDrains ==
  \A c \in Calls : result[c] = "pending" ~>
    result[c] # "pending" /\ \A w \in Workers : At(c, w, "stopped")

(* Whoever calls need not know of workers and permits: in every            *)
(* interleaving a call behaves as QuerySet says (query-filter-in-chunks.ts *)
(* :27), as AddressScan assumes of its queries.                            *)
Set == INSTANCE QuerySet WITH
  left <- [c \in Calls |-> IF result[c] = "pending" THEN (1 .. ChunkCount[c]) \ fetched[c]
                                                    ELSE {}],
  outcome <- result

CallsAreQuerySets == Set!Spec

-----------------------------------------------------------------------------
(* The inductive strengthening of the properties.                          *)

(* How far the workers of a call have come: claims go up to nextChunk, a   *)
(* worker stops only when there is nothing left to claim or the call has   *)
(* failed, and the call settles with its last worker or its first failure. *)
CallOK(c) ==
  LET held == { w \in Workers : ~ At(c, w, "stopped") }
  IN  /\ nextChunk[c] \in 1 .. ChunkCount[c] + 1
      /\ fetched[c] \subseteq 1 .. nextChunk[c] - 1
      /\ \A w \in held : worker[<<c, w>>].chunk \in (1 .. nextChunk[c] - 1) \ fetched[c]
      /\ \A v, w \in held : worker[<<c, v>>].chunk = worker[<<c, w>>].chunk => v = w
      /\ result[c] = "none" => held = {} /\ nextChunk[c] = 1
      /\ isFailed[c] <=> result[c] = "rejected"
      /\ ~ isFailed[c] => \A k \in (1 .. nextChunk[c] - 1) \ fetched[c] :
                            \E w \in held : worker[<<c, w>>].chunk = k
      /\ result[c] \in {"pending", "resolved"} /\ held # Workers =>
           nextChunk[c] = ChunkCount[c] + 1
      /\ result[c] = "resolved" => held = {}

QueryInv ==
  /\ TypeOK
  /\ IsFiniteSet(Holders)
  /\ PermitsAreCounted
  /\ NoIdlePermit
  /\ \A c \in Calls : CallOK(c)
=============================================================================
