------------------------- MODULE ChunkedQueryProofs -------------------------
(* That QueryInv is inductive, and what follows from it: permits, chunks,  *)
(* and the refinement of QuerySet, for any calls and any concurrency.      *)
EXTENDS ChunkedQuery, FiniteSetTheorems, SequenceTheorems, TLAPS

WorkerStates == [pc : {"stopped", "waiting", "granted", "querying"}, chunk : Nat]

Distinct(s) == \A i, j \in DOMAIN s : s[i] = s[j] => i = j
Queued(s, x) == \E i \in DOMAIN s : s[i] = x

(* What QueryInv says of the permits, apart from the calls.                *)
PermitInv ==
  /\ inFlightQueriesCount \in 0 .. LogsFetchConcurrency
  /\ permitWaiters \in Seq(AllWorkers)
  /\ worker \in [AllWorkers -> WorkerStates]
  /\ IsFiniteSet(Holders)
  /\ PermitsAreCounted
  /\ permitWaiters # <<>> => inFlightQueriesCount = LogsFetchConcurrency
  /\ Distinct(permitWaiters)
  /\ \A x \in AllWorkers : worker[x].pc = "waiting" <=> Queued(permitWaiters, x)

-----------------------------------------------------------------------------
(* Queues without duplicates.                                              *)

LEMMA TailQueue ==
  ASSUME NEW S, NEW s \in Seq(S), s # <<>>, Distinct(s)
  PROVE  /\ Head(s) \in S
         /\ Queued(s, Head(s))
         /\ Tail(s) \in Seq(S)
         /\ Distinct(Tail(s))
         /\ \A x : Queued(Tail(s), x) <=> Queued(s, x) /\ x # Head(s)
<1>1. /\ Head(s) \in S /\ Tail(s) \in Seq(S) /\ Len(Tail(s)) = Len(s) - 1
      /\ \A i \in 1 .. Len(Tail(s)) : Tail(s)[i] = s[i + 1]
  BY HeadTailProperties
<1>2. /\ DOMAIN s = 1 .. Len(s) /\ Len(s) \in Nat \ {0} /\ Head(s) = s[1]
      /\ DOMAIN Tail(s) = 1 .. Len(s) - 1
  BY <1>1
<1> DEFINE t == Tail(s)
           n == Len(s)
<1>3. /\ n \in Nat \ {0} /\ DOMAIN s = 1 .. n /\ Head(s) = s[1] /\ DOMAIN t = 1 .. n - 1
      /\ \A i \in 1 .. n - 1 : t[i] = s[i + 1]
  BY <1>1, <1>2
<1> HIDE DEF t, n
<1>4. Distinct(t)
  BY <1>3 DEF Distinct
<1>5. ASSUME NEW x
      PROVE  Queued(t, x) <=> Queued(s, x) /\ x # s[1]
  <2>1. ASSUME Queued(t, x) PROVE Queued(s, x) /\ x # s[1]
    <3>1. PICK i \in 1 .. n - 1 : t[i] = x
      BY <1>3, <2>1 DEF Queued
    <3>2. i + 1 \in DOMAIN s /\ 1 \in DOMAIN s /\ i + 1 # 1 /\ s[i + 1] = x
      BY <1>3, <3>1
    <3> QED
      BY <3>2 DEF Queued, Distinct
  <2>2. ASSUME Queued(s, x), x # s[1] PROVE Queued(t, x)
    <3>1. PICK i \in 1 .. n : s[i] = x
      BY <1>3, <2>2 DEF Queued
    <3>2. i - 1 \in 1 .. n - 1 /\ t[i - 1] = x
      BY <1>3, <2>2, <3>1
    <3> QED
      BY <1>3, <3>2 DEF Queued
  <2> QED
    BY <2>1, <2>2
<1>6. Queued(s, s[1])
  BY <1>3 DEF Queued
<1> QED
  BY <1>1, <1>3, <1>4, <1>5, <1>6 DEF t

LEMMA AppendQueue ==
  ASSUME NEW S, NEW s \in Seq(S), NEW e \in S, Distinct(s), ~ Queued(s, e)
  PROVE  /\ Append(s, e) \in Seq(S)
         /\ Append(s, e) # <<>>
         /\ Distinct(Append(s, e))
         /\ \A x : Queued(Append(s, e), x) <=> Queued(s, x) \/ x = e
<1> DEFINE t == Append(s, e)
           n == Len(s)
<1>1. /\ n \in Nat /\ DOMAIN s = 1 .. n /\ DOMAIN t = 1 .. n + 1
      /\ t[n + 1] = e /\ t \in Seq(S) /\ t # <<>>
      /\ \A i \in 1 .. n : t[i] = s[i]
  OBVIOUS
<1> HIDE DEF t, n
<1>2. \A i \in DOMAIN s : s[i] # e
  BY DEF Queued
<1>3. Distinct(t)
  BY <1>1, <1>2 DEF Distinct
<1>4. ASSUME NEW x
      PROVE  Queued(t, x) <=> Queued(s, x) \/ x = e
  <2>1. n + 1 \in DOMAIN t
    BY <1>1
  <2>2. \A i \in DOMAIN t : i \in DOMAIN s \/ i = n + 1
    BY <1>1
  <2>3. \A i \in DOMAIN s : i \in DOMAIN t
    BY <1>1
  <2> QED
    BY <1>1, <2>1, <2>2, <2>3 DEF Queued
<1> QED
  BY <1>1, <1>3, <1>4 DEF t

LEMMA ConcatQueue ==
  ASSUME NEW S, NEW s \in Seq(S), NEW u \in Seq(S), Distinct(s), Distinct(u),
         \A x : ~ (Queued(s, x) /\ Queued(u, x))
  PROVE  /\ s \o u \in Seq(S)
         /\ s \o u # <<>> => s # <<>> \/ u # <<>>
         /\ Distinct(s \o u)
         /\ \A x : Queued(s \o u, x) <=> Queued(s, x) \/ Queued(u, x)
<1> DEFINE t == s \o u
           n == Len(s)
           m == Len(u)
<1>1. /\ n \in Nat /\ m \in Nat /\ DOMAIN s = 1 .. n /\ DOMAIN u = 1 .. m
      /\ t \in Seq(S) /\ DOMAIN t = 1 .. n + m
      /\ \A i \in 1 .. n + m : t[i] = IF i <= n THEN s[i] ELSE u[i - n]
  BY ConcatProperties
<1>2. s = <<>> /\ u = <<>> => t = <<>>
  BY ConcatEmptySeq
<1> HIDE DEF t, n, m
<1>3. ASSUME NEW i \in DOMAIN t
      PROVE  \/ i \in DOMAIN s /\ t[i] = s[i]
             \/ i - n \in DOMAIN u /\ i \notin DOMAIN s /\ t[i] = u[i - n]
  BY <1>1
<1>4. /\ \A i \in DOMAIN s : i \in DOMAIN t /\ t[i] = s[i]
      /\ \A i \in DOMAIN u : i + n \in DOMAIN t /\ t[i + n] = u[i]
  BY <1>1
<1>5. ASSUME NEW x
      PROVE  Queued(t, x) <=> Queued(s, x) \/ Queued(u, x)
  BY <1>3, <1>4 DEF Queued
<1>6. Distinct(t)
  <2> SUFFICES ASSUME NEW i \in DOMAIN t, NEW j \in DOMAIN t, t[i] = t[j] PROVE i = j
    BY DEF Distinct
  <2>1. CASE i \in DOMAIN s /\ j \in DOMAIN s
    BY <1>4, <2>1 DEF Distinct
  <2>2. CASE i \notin DOMAIN s /\ j \notin DOMAIN s
    <3>1. i - n \in DOMAIN u /\ j - n \in DOMAIN u /\ u[i - n] = u[j - n]
      BY <1>3, <2>2
    <3>2. i - n = j - n
      BY <3>1 DEF Distinct
    <3> QED
      BY <1>1, <3>2
  <2>3. CASE i \in DOMAIN s /\ j \notin DOMAIN s
    BY <1>3, <1>4, <2>3 DEF Queued
  <2>4. CASE i \notin DOMAIN s /\ j \in DOMAIN s
    BY <1>3, <1>4, <2>4 DEF Queued
  <2> QED
    BY <2>1, <2>2, <2>3, <2>4
<1> QED
  BY <1>1, <1>2, <1>5, <1>6 DEF t
-----------------------------------------------------------------------------
(* What becomes of the permits when a worker lets its permit go.           *)

(* A step of worker cw leaves the chunks of all others alone, and stops or *)
(* starts none of them: at most a waiting one is granted a permit.         *)
OthersKeepOn(cw) ==
  \A x \in AllWorkers \ {cw} :
    /\ worker'[x].chunk = worker[x].chunk
    /\ \/ worker'[x].pc = worker[x].pc
       \/ worker[x].pc = "waiting" /\ worker'[x].pc = "granted"

LEMMA ReleaseCases ==
  ASSUME PermitInv, NEW cw \in AllWorkers, worker[cw].pc \in {"granted", "querying"},
         NEW p, p = ReleasePermit(inFlightQueriesCount, permitWaiters, worker)
  PROVE  \/ /\ permitWaiters = <<>>
            /\ inFlightQueriesCount >= 1
            /\ p.count = inFlightQueriesCount - 1
            /\ p.waiters = permitWaiters
            /\ p.workers = worker
         \/ /\ permitWaiters # <<>>
            /\ inFlightQueriesCount = LogsFetchConcurrency
            /\ p.count = inFlightQueriesCount
            /\ p.waiters = Tail(permitWaiters)
            /\ \E h \in AllWorkers :
                 /\ h = Head(permitWaiters)
                 /\ worker[h].pc = "waiting"
                 /\ p.workers = [worker EXCEPT ![h].pc = "granted"]
<1>1. CASE permitWaiters = <<>>
  <2>1. cw \in Holders
    BY DEF Holders
  <2>2. inFlightQueriesCount # 0
    BY <2>1, FS_EmptySet DEF PermitInv, PermitsAreCounted
  <2> QED
    BY <1>1, <2>2, ChunkedQueryAssumption DEF ReleasePermit, PermitInv
<1>2. CASE permitWaiters # <<>>
  <2>1. Head(permitWaiters) \in AllWorkers /\ Queued(permitWaiters, Head(permitWaiters))
    BY <1>2, TailQueue DEF PermitInv
  <2>2. worker[Head(permitWaiters)].pc = "waiting"
    BY <2>1 DEF PermitInv
  <2>3. inFlightQueriesCount = LogsFetchConcurrency
    BY <1>2 DEF PermitInv
  <2> QED
    BY <1>2, <2>1, <2>2, <2>3 DEF ReleasePermit, Granted
<1> QED
  BY <1>1, <1>2

LEMMA GrantWaiter ==
  ASSUME PermitInv, NEW h \in AllWorkers
  PROVE  \E state \in WorkerStates :
           /\ state.pc = "granted" /\ state.chunk = worker[h].chunk
           /\ [worker EXCEPT ![h].pc = "granted"] = [worker EXCEPT ![h] = state]
<1>1. worker \in [AllWorkers -> WorkerStates]
  BY DEF PermitInv
<1>2. /\ [worker[h] EXCEPT !.pc = "granted"] \in WorkerStates
      /\ [worker[h] EXCEPT !.pc = "granted"].pc = "granted"
      /\ [worker[h] EXCEPT !.pc = "granted"].chunk = worker[h].chunk
  BY <1>1 DEF WorkerStates
<1>3. [worker EXCEPT ![h].pc = "granted"] =
        [worker EXCEPT ![h] = [worker[h] EXCEPT !.pc = "granted"]]
  OBVIOUS
<1> QED
  BY <1>2, <1>3

LEMMA StopPermits ==
  ASSUME PermitInv, NEW c \in Calls, NEW w \in Workers,
         worker[<<c, w>>].pc \in {"granted", "querying"},
         SetStopped(c, w, ReleasePermit(inFlightQueriesCount, permitWaiters, worker))
  PROVE  PermitInv' /\ worker'[<<c, w>>] = Stopped /\ OthersKeepOn(<<c, w>>)
<1> DEFINE cw == <<c, w>>
           p == ReleasePermit(inFlightQueriesCount, permitWaiters, worker)
<1>1. /\ cw \in AllWorkers
      /\ inFlightQueriesCount' = p.count
      /\ permitWaiters' = p.waiters
      /\ worker' = [p.workers EXCEPT ![cw] = Stopped]
  BY DEF SetStopped, AllWorkers
<1>2. Stopped \in WorkerStates /\ Stopped.pc = "stopped"
  BY DEF Stopped, WorkerStates
<1>3. worker[cw].pc \in {"granted", "querying"}
  OBVIOUS
<1>4. cw \in Holders /\ IsFiniteSet(Holders) /\ Cardinality(Holders) = inFlightQueriesCount
  BY <1>1, <1>3 DEF Holders, PermitInv, PermitsAreCounted
<1>5. inFlightQueriesCount \in 0 .. LogsFetchConcurrency /\ LogsFetchConcurrency \in Nat \ {0}
  BY ChunkedQueryAssumption DEF PermitInv
<1>6. /\ IsFiniteSet(Holders \ {cw})
      /\ Cardinality(Holders \ {cw}) = inFlightQueriesCount - 1
  BY <1>4, FS_RemoveElement
<1> HIDE DEF cw
<1>7. CASE /\ permitWaiters = <<>> /\ inFlightQueriesCount >= 1
           /\ p.count = inFlightQueriesCount - 1
           /\ p.waiters = permitWaiters
           /\ p.workers = worker
  <2>1. /\ inFlightQueriesCount' = inFlightQueriesCount - 1
        /\ permitWaiters' = permitWaiters
        /\ worker' = [worker EXCEPT ![cw] = Stopped]
    BY <1>1, <1>7
  <2> HIDE DEF p
  <2>2. worker' \in [AllWorkers -> WorkerStates] /\ worker'[cw] = Stopped
        /\ \A x \in AllWorkers \ {cw} : worker'[x] = worker[x]
    BY <1>1, <1>2, <2>1 DEF PermitInv
  <2>3. Holders' = Holders \ {cw}
    BY <1>1, <1>2, <2>2 DEF Holders
  <2>4. IsFiniteSet(Holders)' /\ PermitsAreCounted'
    BY <1>6, <2>1, <2>3 DEF PermitsAreCounted
  <2>5. \A x \in AllWorkers : worker'[x].pc = "waiting" <=> Queued(permitWaiters', x)
    BY <1>2, <1>3, <2>1, <2>2 DEF PermitInv
  <2>6. PermitInv'
    BY <1>5, <1>7, <2>1, <2>2, <2>4, <2>5 DEF PermitInv, Distinct
  <2> QED
    BY <2>2, <2>6 DEF OthersKeepOn, cw
<1>8. CASE /\ permitWaiters # <<>>
           /\ inFlightQueriesCount = LogsFetchConcurrency
           /\ p.count = inFlightQueriesCount
           /\ p.waiters = Tail(permitWaiters)
           /\ \E h \in AllWorkers :
                 /\ h = Head(permitWaiters)
                 /\ worker[h].pc = "waiting"
                 /\ p.workers = [worker EXCEPT ![h].pc = "granted"]
  <2>1. PICK h \in AllWorkers :
             /\ h = Head(permitWaiters)
             /\ worker[h].pc = "waiting"
             /\ p.workers = [worker EXCEPT ![h].pc = "granted"]
    BY <1>8
  <2>2. /\ inFlightQueriesCount' = inFlightQueriesCount
        /\ permitWaiters' = Tail(permitWaiters)
        /\ worker' = [[worker EXCEPT ![h].pc = "granted"] EXCEPT ![cw] = Stopped]
    BY <1>1, <1>8, <2>1
  <2> HIDE DEF p
  <2>3. h # cw
    BY <1>3, <2>1
  <2>4. /\ worker' \in [AllWorkers -> WorkerStates] /\ worker'[cw] = Stopped
        /\ worker'[h].pc = "granted" /\ worker'[h].chunk = worker[h].chunk
        /\ \A x \in AllWorkers \ {cw, h} : worker'[x] = worker[x]
    <3>1. PICK state \in WorkerStates :
               /\ state.pc = "granted" /\ state.chunk = worker[h].chunk
               /\ [worker EXCEPT ![h].pc = "granted"] = [worker EXCEPT ![h] = state]
      BY GrantWaiter
    <3>2. worker' = [[worker EXCEPT ![h] = state] EXCEPT ![cw] = Stopped]
      BY <2>2, <3>1
    <3>3. worker \in [AllWorkers -> WorkerStates]
      BY DEF PermitInv
    <3> QED
      BY <1>1, <1>2, <2>3, <3>1, <3>2, <3>3
  <2>5. h \notin Holders
    BY <2>1 DEF Holders
  <2>6. Holders' = (Holders \ {cw}) \cup {h}
    BY <1>1, <1>2, <2>1, <2>3, <2>4 DEF Holders
  <2>7. /\ IsFiniteSet((Holders \ {cw}) \cup {h})
        /\ Cardinality((Holders \ {cw}) \cup {h}) = Cardinality(Holders \ {cw}) + 1
    BY <1>6, <2>5, FS_AddElement
  <2>8. IsFiniteSet(Holders)' /\ PermitsAreCounted'
    BY <1>5, <1>6, <2>2, <2>6, <2>7 DEF PermitsAreCounted
  <2>9. /\ Tail(permitWaiters) \in Seq(AllWorkers) /\ Distinct(Tail(permitWaiters))
        /\ \A x : Queued(Tail(permitWaiters), x) <=> Queued(permitWaiters, x) /\ x # h
    BY <1>8, <2>1, TailQueue DEF PermitInv
  <2>10. \A x \in AllWorkers : worker'[x].pc = "waiting" <=> Queued(permitWaiters', x)
    <3> SUFFICES ASSUME NEW x \in AllWorkers
                 PROVE  worker'[x].pc = "waiting" <=> Queued(permitWaiters', x)
      OBVIOUS
    <3>1. worker[x].pc = "waiting" <=> Queued(permitWaiters, x)
      BY DEF PermitInv
    <3>2. Queued(permitWaiters', x) <=> Queued(permitWaiters, x) /\ x # h
      BY <2>2, <2>9
    <3> QED
      BY <1>2, <1>3, <2>4, <3>1, <3>2
  <2>11. PermitInv'
    BY <1>5, <1>8, <2>2, <2>4, <2>8, <2>9, <2>10 DEF PermitInv
  <2> QED
    BY <2>1, <2>4, <2>11 DEF OthersKeepOn, cw
<1> QED
  BY <1>1, <1>3, <1>7, <1>8, ReleaseCases

LEMMA NextPermits ==
  ASSUME PermitInv, NEW c \in Calls, NEW w \in Workers, NEW k \in Nat,
         worker[<<c, w>>].pc \in {"granted", "querying"},
         SetPermits(AcquirePermit(c, w, k,
           ReleasePermit(inFlightQueriesCount, permitWaiters, worker)))
  PROVE  /\ PermitInv'
         /\ worker'[<<c, w>>].chunk = k
         /\ worker'[<<c, w>>].pc \in {"granted", "waiting"}
         /\ OthersKeepOn(<<c, w>>)
<1> DEFINE cw == <<c, w>>
           p == ReleasePermit(inFlightQueriesCount, permitWaiters, worker)
           granted == [pc |-> "granted", chunk |-> k]
           waiting == [pc |-> "waiting", chunk |-> k]
<1>1. cw \in AllWorkers /\ worker[cw].pc \in {"granted", "querying"}
  BY DEF AllWorkers
<1>2. /\ granted \in WorkerStates /\ granted.pc = "granted" /\ granted.chunk = k
      /\ waiting \in WorkerStates /\ waiting.pc = "waiting" /\ waiting.chunk = k
  BY DEF WorkerStates
<1>3. cw \in Holders /\ IsFiniteSet(Holders) /\ Cardinality(Holders) = inFlightQueriesCount
  BY <1>1 DEF Holders, PermitInv, PermitsAreCounted
<1>4. inFlightQueriesCount \in 0 .. LogsFetchConcurrency /\ LogsFetchConcurrency \in Nat \ {0}
  BY ChunkedQueryAssumption DEF PermitInv
<1>5. CASE /\ permitWaiters = <<>> /\ inFlightQueriesCount >= 1
           /\ p.count = inFlightQueriesCount - 1
           /\ p.waiters = permitWaiters
           /\ p.workers = worker
  <2>1. p.count < LogsFetchConcurrency
    BY <1>4, <1>5
  <2>2. /\ inFlightQueriesCount' = p.count + 1
        /\ permitWaiters' = p.waiters
        /\ worker' = [p.workers EXCEPT ![cw] = granted]
    BY <2>1 DEF SetPermits, AcquirePermit
  <2>3. /\ inFlightQueriesCount' = inFlightQueriesCount
        /\ permitWaiters' = permitWaiters
        /\ worker' = [worker EXCEPT ![cw] = granted]
    BY <1>4, <1>5, <2>2
  <2> HIDE DEF p, granted, waiting, cw
  <2>4. worker' \in [AllWorkers -> WorkerStates] /\ worker'[cw] = granted
        /\ \A x \in AllWorkers \ {cw} : worker'[x] = worker[x]
    BY <1>1, <1>2, <2>3 DEF PermitInv
  <2>5. Holders' = Holders
    BY <1>1, <1>2, <2>4 DEF Holders
  <2>6. \A x \in AllWorkers : worker'[x].pc = "waiting" <=> Queued(permitWaiters', x)
    BY <1>1, <1>2, <2>3, <2>4 DEF PermitInv
  <2>7. PermitInv'
    BY <1>3, <2>3, <2>4, <2>5, <2>6 DEF PermitInv, Distinct, PermitsAreCounted
  <2> QED
    BY <1>2, <2>4, <2>7 DEF OthersKeepOn, cw
<1>6. CASE /\ permitWaiters # <<>>
           /\ inFlightQueriesCount = LogsFetchConcurrency
           /\ p.count = inFlightQueriesCount
           /\ p.waiters = Tail(permitWaiters)
           /\ \E h \in AllWorkers :
                 /\ h = Head(permitWaiters)
                 /\ worker[h].pc = "waiting"
                 /\ p.workers = [worker EXCEPT ![h].pc = "granted"]
  <2>1. PICK h \in AllWorkers :
             /\ h = Head(permitWaiters)
             /\ worker[h].pc = "waiting"
             /\ p.workers = [worker EXCEPT ![h].pc = "granted"]
    BY <1>6
  <2>2. ~ p.count < LogsFetchConcurrency
    BY <1>4, <1>6
  <2>3. /\ inFlightQueriesCount' = p.count
        /\ permitWaiters' = Append(p.waiters, cw)
        /\ worker' = [p.workers EXCEPT ![cw] = waiting]
    BY <2>2 DEF SetPermits, AcquirePermit
  <2>4. /\ inFlightQueriesCount' = inFlightQueriesCount
        /\ permitWaiters' = Append(Tail(permitWaiters), cw)
        /\ worker' = [[worker EXCEPT ![h].pc = "granted"] EXCEPT ![cw] = waiting]
    BY <1>6, <2>1, <2>3
  <2> HIDE DEF p, granted, waiting, cw
  <2>5. h # cw
    BY <1>1, <2>1
  <2>6. /\ worker' \in [AllWorkers -> WorkerStates] /\ worker'[cw] = waiting
        /\ worker'[h].pc = "granted" /\ worker'[h].chunk = worker[h].chunk
        /\ \A x \in AllWorkers \ {cw, h} : worker'[x] = worker[x]
    <3>1. PICK state \in WorkerStates :
               /\ state.pc = "granted" /\ state.chunk = worker[h].chunk
               /\ [worker EXCEPT ![h].pc = "granted"] = [worker EXCEPT ![h] = state]
      BY GrantWaiter
    <3>2. worker' = [[worker EXCEPT ![h] = state] EXCEPT ![cw] = waiting]
      BY <2>4, <3>1
    <3>3. worker \in [AllWorkers -> WorkerStates]
      BY DEF PermitInv
    <3> QED
      BY <1>1, <1>2, <2>5, <3>1, <3>2, <3>3
  <2>7. h \notin Holders
    BY <2>1 DEF Holders
  <2>8. Holders' = (Holders \ {cw}) \cup {h}
    BY <1>1, <1>2, <2>1, <2>5, <2>6 DEF Holders
  <2>9. /\ IsFiniteSet(Holders \ {cw})
        /\ Cardinality(Holders \ {cw}) = inFlightQueriesCount - 1
    BY <1>3, FS_RemoveElement
  <2>10. /\ IsFiniteSet((Holders \ {cw}) \cup {h})
         /\ Cardinality((Holders \ {cw}) \cup {h}) = Cardinality(Holders \ {cw}) + 1
    BY <2>7, <2>9, FS_AddElement
  <2>11. IsFiniteSet(Holders)' /\ PermitsAreCounted'
    BY <1>4, <2>4, <2>8, <2>9, <2>10 DEF PermitsAreCounted
  <2>12. /\ Tail(permitWaiters) \in Seq(AllWorkers) /\ Distinct(Tail(permitWaiters))
         /\ \A x : Queued(Tail(permitWaiters), x) <=> Queued(permitWaiters, x) /\ x # h
    BY <1>6, <2>1, TailQueue DEF PermitInv
  <2>13. ~ Queued(Tail(permitWaiters), cw)
    BY <1>1, <2>12 DEF PermitInv
  <2>14. /\ permitWaiters' \in Seq(AllWorkers) /\ Distinct(permitWaiters')
         /\ \A x : Queued(permitWaiters', x) <=> Queued(Tail(permitWaiters), x) \/ x = cw
    BY <1>1, <2>4, <2>12, <2>13, AppendQueue
  <2>15. \A x \in AllWorkers : worker'[x].pc = "waiting" <=> Queued(permitWaiters', x)
    <3> SUFFICES ASSUME NEW x \in AllWorkers
                 PROVE  worker'[x].pc = "waiting" <=> Queued(permitWaiters', x)
      OBVIOUS
    <3>1. worker[x].pc = "waiting" <=> Queued(permitWaiters, x)
      BY DEF PermitInv
    <3>2. Queued(permitWaiters', x) <=> (Queued(permitWaiters, x) /\ x # h) \/ x = cw
      BY <2>12, <2>14
    <3> QED
      BY <1>2, <2>6, <3>1, <3>2
  <2>16. PermitInv'
    BY <1>4, <1>6, <2>4, <2>6, <2>11, <2>14, <2>15 DEF PermitInv
  <2> QED
    BY <1>2, <2>1, <2>6, <2>16 DEF OthersKeepOn, cw
<1> QED
  BY <1>1, <1>5, <1>6, ReleaseCases

LEMMA UsePermits ==
  ASSUME PermitInv, NEW c \in Calls, NEW w \in Workers,
         worker[<<c, w>>].pc = "granted",
         worker' = [worker EXCEPT ![<<c, w>>].pc = "querying"],
         UNCHANGED <<inFlightQueriesCount, permitWaiters>>
  PROVE  /\ PermitInv'
         /\ worker'[<<c, w>>].chunk = worker[<<c, w>>].chunk
         /\ worker'[<<c, w>>].pc = "querying"
         /\ OthersKeepOn(<<c, w>>)
<1> DEFINE cw == <<c, w>>
           state == [worker[cw] EXCEPT !.pc = "querying"]
<1>1. cw \in AllWorkers /\ worker[cw].pc = "granted"
  BY DEF AllWorkers
<1>2. worker \in [AllWorkers -> WorkerStates]
  BY DEF PermitInv
<1>3. state \in WorkerStates /\ state.pc = "querying" /\ state.chunk = worker[cw].chunk
  BY <1>1, <1>2 DEF WorkerStates
<1>4. worker' = [worker EXCEPT ![cw] = state]
  OBVIOUS
<1> HIDE DEF cw, state
<1>5. /\ worker' \in [AllWorkers -> WorkerStates] /\ worker'[cw] = state
      /\ \A x \in AllWorkers \ {cw} : worker'[x] = worker[x]
  BY <1>1, <1>2, <1>3, <1>4
<1>6. Holders' = Holders
  BY <1>1, <1>3, <1>5 DEF Holders
<1>7. \A x \in AllWorkers : worker'[x].pc = "waiting" <=> Queued(permitWaiters', x)
  BY <1>1, <1>3, <1>5 DEF PermitInv
<1>8. PermitInv'
  BY <1>5, <1>6, <1>7 DEF PermitInv, Distinct, PermitsAreCounted
<1> QED
  BY <1>3, <1>5, <1>8 DEF OthersKeepOn, cw

LEMMA StartPermits ==
  ASSUME PermitInv, NEW c \in Calls, ChunkCount[c] \in Nat, Start(c),
         \A w \in Workers : worker[<<c, w>>].pc = "stopped"
  PROVE  /\ PermitInv'
         /\ \A w \in Workers :
              IF w <= WorkersCount(c)
                THEN worker'[<<c, w>>].chunk = w /\ worker'[<<c, w>>].pc # "stopped"
                ELSE worker'[<<c, w>>] = worker[<<c, w>>]
         /\ \A x \in AllWorkers : x[1] # c => worker'[x] = worker[x]
<1> DEFINE free == LogsFetchConcurrency - inFlightQueriesCount
           started == WorkersCount(c)
           now == MinOf(free, started)
           late == [i \in 1 .. started - now |-> <<c, now + i>>]
           state(w) == [pc |-> IF w <= free THEN "granted" ELSE "waiting", chunk |-> w]
           holding == {c} \X (1 .. now)
<1>1. /\ inFlightQueriesCount \in 0 .. LogsFetchConcurrency /\ LogsFetchConcurrency \in Nat \ {0}
      /\ free \in Nat /\ started \in 0 .. LogsFetchConcurrency
      /\ now \in Nat /\ now <= free /\ now <= started
      /\ now = free \/ now = started
  BY ChunkedQueryAssumption DEF PermitInv, WorkersCount, MinOf
<1>2. /\ inFlightQueriesCount' = inFlightQueriesCount + now
      /\ permitWaiters' = permitWaiters \o late
      /\ worker' = [x \in AllWorkers |->
           IF x[1] # c \/ x[2] > started THEN worker[x] ELSE state(x[2])]
  BY DEF Start
<1>3. \A w \in Workers :
        /\ state(w) \in WorkerStates /\ state(w).chunk = w
        /\ w <= free => state(w).pc = "granted"
        /\ ~ w <= free => state(w).pc = "waiting"
  BY DEF WorkerStates, Workers
<1>4. late \in Seq(AllWorkers) /\ DOMAIN late = 1 .. started - now
      /\ \A i \in DOMAIN late : late[i] = <<c, now + i>>
  <2>1. \A i \in 1 .. started - now : <<c, now + i>> \in AllWorkers
    BY <1>1 DEF AllWorkers, Workers
  <2>2. started - now \in Nat
    BY <1>1
  <2> QED
    BY <2>1, <2>2
<1>5. \A x : Queued(late, x) <=> \E w \in now + 1 .. started : x = <<c, w>>
  <2> SUFFICES ASSUME NEW x
               PROVE  Queued(late, x) <=> \E w \in now + 1 .. started : x = <<c, w>>
    OBVIOUS
  <2>1. ASSUME Queued(late, x) PROVE \E w \in now + 1 .. started : x = <<c, w>>
    <3> HIDE DEF now, started, late
    <3>1. PICK i \in 1 .. started - now : x = <<c, now + i>>
      BY <1>4, <2>1 DEF Queued
    <3>2. now + i \in now + 1 .. started
      BY <1>1
    <3> QED
      BY <3>1, <3>2
  <2>2. ASSUME NEW w \in now + 1 .. started, x = <<c, w>> PROVE Queued(late, x)
    <3> HIDE DEF now, started, late
    <3>1. w - now \in 1 .. started - now /\ now + (w - now) = w
      BY <1>1
    <3>2. w - now \in DOMAIN late /\ late[w - now] = x
      BY <1>4, <2>2, <3>1
    <3> QED
      BY <3>2 DEF Queued
  <2> QED
    BY <2>1, <2>2
<1>6. Distinct(late)
  <2> HIDE DEF now, started, late
  <2> QED
    BY <1>1, <1>4 DEF Distinct
<1> HIDE DEF free, started, now, late, state
<1>7. \A w \in Workers : ~ Queued(permitWaiters, <<c, w>>)
  BY DEF PermitInv, AllWorkers
<1>8. /\ permitWaiters' \in Seq(AllWorkers) /\ Distinct(permitWaiters')
      /\ permitWaiters' # <<>> => permitWaiters # <<>> \/ late # <<>>
      /\ \A x : Queued(permitWaiters', x) <=>
               Queued(permitWaiters, x) \/ \E w \in now + 1 .. started : x = <<c, w>>
  <2>1. \A w \in now + 1 .. started : w \in Workers
    BY <1>1 DEF Workers
  <2>2. \A x : ~ (Queued(permitWaiters, x) /\ Queued(late, x))
    BY <1>5, <1>7, <2>1
  <2>3. permitWaiters \in Seq(AllWorkers) /\ Distinct(permitWaiters)
    BY DEF PermitInv
  <2> HIDE DEF Distinct, Queued
  <2>4. /\ permitWaiters \o late \in Seq(AllWorkers)
        /\ permitWaiters \o late # <<>> => permitWaiters # <<>> \/ late # <<>>
        /\ Distinct(permitWaiters \o late)
        /\ \A x : Queued(permitWaiters \o late, x) <=>
                 Queued(permitWaiters, x) \/ Queued(late, x)
    BY <1>4, <1>6, <2>2, <2>3, ConcatQueue
  <2> QED
    BY <1>2, <1>5, <2>4
<1>9. /\ worker' \in [AllWorkers -> WorkerStates]
      /\ \A x \in AllWorkers : x[1] # c => worker'[x] = worker[x]
      /\ \A w \in Workers : worker'[<<c, w>>] =
           IF w <= started THEN state(w) ELSE worker[<<c, w>>]
  <2>1. worker \in [AllWorkers -> WorkerStates]
    BY DEF PermitInv
  <2>2. \A x \in AllWorkers : x[2] \in Workers
    BY DEF AllWorkers
  <2>3. \A w \in Workers : <<c, w>> \in AllWorkers /\ (w > started <=> ~ w <= started)
    BY <1>1 DEF AllWorkers, Workers
  <2> QED
    BY <1>2, <1>3, <2>1, <2>2, <2>3
<1>10. Holders' = Holders \cup holding
  <2>1. \A x \in AllWorkers : x \in holding <=> x[1] = c /\ x[2] <= now
    BY <1>1 DEF AllWorkers, Workers
  <2>2. holding \subseteq AllWorkers
    BY <1>1 DEF AllWorkers, Workers
  <2>3. ASSUME NEW x \in AllWorkers
        PROVE  worker'[x].pc \in {"granted", "querying"}
                 <=> worker[x].pc \in {"granted", "querying"} \/ x \in holding
    <3>1. CASE x[1] # c
      BY <1>9, <2>1, <3>1
    <3>2. CASE x[1] = c
      <4>1. x[2] \in Workers /\ x = <<c, x[2]>> /\ x[2] \in Nat
        BY <3>2 DEF AllWorkers, Workers
      <4>2. worker[x].pc = "stopped"
        BY <4>1
      <4>3. worker'[x] = IF x[2] <= started THEN state(x[2]) ELSE worker[x]
        BY <1>9, <4>1
      <4>4. x[2] <= now <=> x[2] <= started /\ x[2] <= free
        BY <1>1, <4>1
      <4> QED
        BY <1>3, <2>1, <3>2, <4>1, <4>2, <4>3, <4>4
    <3> QED
      BY <3>1, <3>2
  <2> QED
    BY <2>2, <2>3 DEF Holders
<1>11. IsFiniteSet(holding) /\ Cardinality(holding) = now
  <2>1. IsFiniteSet(1 .. now) /\ Cardinality(1 .. now) = now
    BY <1>1, FS_Interval
  <2>2. IsFiniteSet({c}) /\ Cardinality({c}) = 1
    BY FS_Singleton
  <2>3. IsFiniteSet({c} \X (1 .. now)) /\ Cardinality({c} \X (1 .. now)) = 1 * now
    BY <2>1, <2>2, FS_Product
  <2>4. 1 * now = now
    BY <1>1
  <2> QED
    BY <2>3, <2>4
<1>12. Holders \cap holding = {}
  BY <1>1 DEF Holders, Workers, AllWorkers
<1>13. IsFiniteSet(Holders)' /\ PermitsAreCounted'
  <2>1. IsFiniteSet(Holders) /\ Cardinality(Holders) = inFlightQueriesCount
    BY DEF PermitInv, PermitsAreCounted
  <2>2. /\ IsFiniteSet(Holders \cup holding)
        /\ Cardinality(Holders \cup holding) =
             Cardinality(Holders) + Cardinality(holding) - Cardinality(Holders \cap holding)
    BY <1>11, <2>1, FS_Union
  <2>3. Cardinality(Holders \cap holding) = 0
    BY <1>12, FS_EmptySet
  <2> QED
    BY <1>1, <1>2, <1>10, <1>11, <2>1, <2>2, <2>3 DEF PermitsAreCounted
<1>14. permitWaiters' # <<>> => inFlightQueriesCount' = LogsFetchConcurrency
  <2>1. CASE permitWaiters # <<>>
    <3>1. free = 0
      BY <1>1, <2>1 DEF PermitInv, free
    <3> QED
      BY <1>1, <1>2, <2>1, <3>1 DEF PermitInv
  <2>2. CASE late # <<>>
    <3>1. started - now # 0
      BY <1>1, <1>4, <2>2
    <3>2. now = free
      BY <1>1, <3>1
    <3> QED
      BY <1>1, <1>2, <3>2 DEF free
  <2> QED
    BY <1>8, <2>1, <2>2
<1>15. \A x \in AllWorkers : worker'[x].pc = "waiting" <=> Queued(permitWaiters', x)
  <2> SUFFICES ASSUME NEW x \in AllWorkers
               PROVE  worker'[x].pc = "waiting" <=> Queued(permitWaiters', x)
    OBVIOUS
  <2>1. worker[x].pc = "waiting" <=> Queued(permitWaiters, x)
    BY DEF PermitInv
  <2>2. CASE x[1] # c
    BY <1>8, <1>9, <2>1, <2>2
  <2>3. CASE x[1] = c
    <3>1. x[2] \in Workers /\ x = <<c, x[2]>> /\ x[2] \in Nat \ {0}
      BY <2>3 DEF AllWorkers, Workers
    <3>2. worker[x].pc = "stopped"
      BY <3>1
    <3>3. worker'[x] = IF x[2] <= started THEN state(x[2]) ELSE worker[x]
      BY <1>9, <3>1
    <3>4. x[2] \in now + 1 .. started <=> x[2] <= started /\ ~ x[2] <= free
      BY <1>1, <3>1
    <3>5. Queued(permitWaiters', x) <=> x[2] \in now + 1 .. started
      <4>1. (\E w \in now + 1 .. started : x = <<c, w>>) <=> x[2] \in now + 1 .. started
        BY <3>1
      <4> QED
        BY <1>8, <2>1, <3>2, <4>1
    <3> QED
      BY <1>3, <3>1, <3>2, <3>3, <3>4, <3>5
  <2> QED
    BY <2>2, <2>3
<1>16. inFlightQueriesCount' \in 0 .. LogsFetchConcurrency
  BY <1>1, <1>2 DEF free
<1>17. PermitInv'
  BY <1>8, <1>9, <1>13, <1>14, <1>15, <1>16 DEF PermitInv
<1>18. \A w \in Workers : state(w).pc # "stopped" /\ state(w).chunk = w
  BY <1>3
<1> QED
  BY <1>9, <1>17, <1>18 DEF started

-----------------------------------------------------------------------------
(* The calls.                                                              *)

CallType ==
  /\ nextChunk \in [Calls -> Nat]
  /\ isFailed \in [Calls -> BOOLEAN]
  /\ fetched \in [Calls -> SUBSET Nat]
  /\ result \in [Calls -> {"none", "pending", "resolved", "rejected"}]

LEMMA InvParts ==
  /\ QueryInv <=> PermitInv /\ CallType /\ \A c \in Calls : CallOK(c)
  /\ QueryInv' <=> PermitInv' /\ CallType' /\ \A c \in Calls : CallOK(c)'
<1>1. TypeOK <=> /\ inFlightQueriesCount \in 0 .. LogsFetchConcurrency
                 /\ permitWaiters \in Seq(AllWorkers)
                 /\ worker \in [AllWorkers -> WorkerStates]
                 /\ CallType
  BY DEF TypeOK, CallType, WorkerStates
<1>2. TypeOK' <=> /\ inFlightQueriesCount' \in 0 .. LogsFetchConcurrency
                  /\ permitWaiters' \in Seq(AllWorkers)
                  /\ worker' \in [AllWorkers -> WorkerStates]
                  /\ CallType'
  BY DEF TypeOK, CallType, WorkerStates
<1>3. NoIdlePermit <=>
        /\ permitWaiters # <<>> => inFlightQueriesCount = LogsFetchConcurrency
        /\ Distinct(permitWaiters)
        /\ \A x \in AllWorkers : worker[x].pc = "waiting" <=> Queued(permitWaiters, x)
  BY DEF NoIdlePermit, Distinct, Queued, At, AllWorkers
<1>4. NoIdlePermit' <=>
        /\ permitWaiters' # <<>> => inFlightQueriesCount' = LogsFetchConcurrency
        /\ Distinct(permitWaiters')
        /\ \A x \in AllWorkers : worker'[x].pc = "waiting" <=> Queued(permitWaiters', x)
  BY DEF NoIdlePermit, Distinct, Queued, At, AllWorkers
<1>5. QueryInv <=> PermitInv /\ CallType /\ \A c \in Calls : CallOK(c)
  BY <1>1, <1>3 DEF QueryInv, PermitInv
<1>6. QueryInv' <=> PermitInv' /\ CallType' /\ \A c \in Calls : CallOK(c)'
  BY <1>2, <1>4 DEF QueryInv, PermitInv, Distinct, Queued
<1> QED
  BY <1>5, <1>6

(* CallOK(c) speaks of the chunks of c's workers, and of which have stopped. *)
LEMMA SameCall ==
  ASSUME NEW c \in Calls, CallOK(c), CallType, PermitInv, PermitInv',
         nextChunk'[c] = nextChunk[c], fetched'[c] = fetched[c],
         isFailed'[c] = isFailed[c], result'[c] = result[c],
         \A w \in Workers :
           /\ worker'[<<c, w>>].chunk = worker[<<c, w>>].chunk
           /\ worker'[<<c, w>>].pc = "stopped" <=> worker[<<c, w>>].pc = "stopped"
  PROVE  CallOK(c)'
<1>1. { w \in Workers : ~ At(c, w, "stopped") }' = { w \in Workers : ~ At(c, w, "stopped") }
  BY DEF At
<1> QED
  BY <1>1 DEF CallOK

LEMMA OtherCalls ==
  ASSUME PermitInv, NEW c \in Calls, NEW w \in Workers, OthersKeepOn(<<c, w>>)
  PROVE  /\ \A d \in Calls \ {c} : \A v \in Workers :
              /\ worker'[<<d, v>>].chunk = worker[<<d, v>>].chunk
              /\ worker'[<<d, v>>].pc = "stopped" <=> worker[<<d, v>>].pc = "stopped"
         /\ \A v \in Workers \ {w} :
              /\ worker'[<<c, v>>].chunk = worker[<<c, v>>].chunk
              /\ worker'[<<c, v>>].pc = "stopped" <=> worker[<<c, v>>].pc = "stopped"
  BY DEF OthersKeepOn, AllWorkers

LEMMA OneLessHeld ==
  ASSUME PermitInv, NEW c \in Calls, NEW w \in Workers, OthersKeepOn(<<c, w>>),
         worker[<<c, w>>].pc # "stopped", worker'[<<c, w>>] = Stopped
  PROVE  { v \in Workers : ~ At(c, v, "stopped")' } =
           { v \in Workers : ~ At(c, v, "stopped") } \ {w}
<1>1. \A v \in Workers \ {w} :
        worker'[<<c, v>>].pc = "stopped" <=> worker[<<c, v>>].pc = "stopped"
  BY OtherCalls
<1>2. worker'[<<c, w>>].pc = "stopped"
  BY DEF Stopped
<1> QED
  BY <1>1, <1>2 DEF At

LEMMA StartInv ==
  ASSUME QueryInv, NEW c \in Calls, Start(c)
  PROVE  QueryInv'
<1>1. PermitInv /\ CallType /\ \A d \in Calls : CallOK(d)
  BY InvParts
<1>2. /\ result[c] = "none"
      /\ result' = [result EXCEPT ![c] = IF ChunkCount[c] = 0 THEN "resolved" ELSE "pending"]
      /\ nextChunk' = [nextChunk EXCEPT ![c] = WorkersCount(c) + 1]
      /\ UNCHANGED <<isFailed, fetched>>
  BY DEF Start, FirstUnclaimed
<1>3. /\ ChunkCount[c] \in Nat /\ LogsFetchConcurrency \in Nat \ {0}
      /\ WorkersCount(c) \in Nat
      /\ WorkersCount(c) <= ChunkCount[c] /\ WorkersCount(c) <= LogsFetchConcurrency
      /\ WorkersCount(c) = ChunkCount[c] \/ WorkersCount(c) = LogsFetchConcurrency
  BY ChunkedQueryAssumption DEF WorkersCount, MinOf
<1>4. /\ \A w \in Workers : worker[<<c, w>>].pc = "stopped"
      /\ nextChunk[c] = 1 /\ fetched[c] = {} /\ ~ isFailed[c]
  <2>1. CallOK(c)
    BY <1>1
  <2>2. { w \in Workers : ~ At(c, w, "stopped") } = {} /\ nextChunk[c] = 1
    BY <1>2, <2>1 DEF CallOK
  <2>3. \A w \in Workers : worker[<<c, w>>].pc = "stopped"
    BY <2>2 DEF At
  <2>4. fetched[c] \subseteq 1 .. 0
    BY <2>1, <2>2 DEF CallOK
  <2>5. isFailed[c] <=> result[c] = "rejected"
    BY <2>1 DEF CallOK
  <2> QED
    BY <1>2, <2>2, <2>3, <2>4, <2>5
<1>5. /\ PermitInv'
      /\ \A w \in Workers :
           IF w <= WorkersCount(c)
             THEN worker'[<<c, w>>].chunk = w /\ worker'[<<c, w>>].pc # "stopped"
             ELSE worker'[<<c, w>>] = worker[<<c, w>>]
      /\ \A x \in AllWorkers : x[1] # c => worker'[x] = worker[x]
  BY <1>1, <1>3, <1>4, StartPermits
<1>6. CallType'
  BY <1>1, <1>2, <1>3 DEF CallType
<1>7. ASSUME NEW d \in Calls, d # c PROVE CallOK(d)'
  <2>1. \A w \in Workers : worker'[<<d, w>>] = worker[<<d, w>>]
    BY <1>5, <1>7 DEF AllWorkers
  <2>2. /\ nextChunk'[d] = nextChunk[d] /\ fetched'[d] = fetched[d]
        /\ isFailed'[d] = isFailed[d] /\ result'[d] = result[d]
    BY <1>1, <1>2, <1>7 DEF CallType
  <2>3. CallOK(d)
    BY <1>1
  <2> QED
    BY <1>1, <1>5, <2>1, <2>2, <2>3, SameCall
<1>8. CallOK(c)'
  <2> DEFINE held == { w \in Workers : ~ At(c, w, "stopped")' }
  <2>1. held = 1 .. WorkersCount(c)
    BY <1>3, <1>4, <1>5 DEF Workers, At
  <2>2. \A w \in held : w \in Workers /\ worker'[<<c, w>>].chunk = w
    BY <1>3, <1>5, <2>1 DEF Workers
  <2>3. /\ nextChunk'[c] = WorkersCount(c) + 1 /\ fetched'[c] = {} /\ ~ isFailed'[c]
        /\ result'[c] = IF ChunkCount[c] = 0 THEN "resolved" ELSE "pending"
    BY <1>1, <1>2, <1>4 DEF CallType
  <2> HIDE DEF held
  <2>4. held # Workers => WorkersCount(c) = ChunkCount[c]
    BY <1>3, <2>1 DEF Workers
  <2>5. ChunkCount[c] = 0 => held = {}
    BY <1>3, <2>1
  <2>6. /\ nextChunk'[c] \in 1 .. ChunkCount[c] + 1
        /\ fetched'[c] \subseteq 1 .. nextChunk'[c] - 1
        /\ \A w \in held : worker'[<<c, w>>].chunk \in (1 .. nextChunk'[c] - 1) \ fetched'[c]
        /\ \A v, w \in held : worker'[<<c, v>>].chunk = worker'[<<c, w>>].chunk => v = w
        /\ result'[c] # "none" /\ result'[c] # "rejected"
        /\ \A k \in (1 .. nextChunk'[c] - 1) \ fetched'[c] :
              \E w \in held : worker'[<<c, w>>].chunk = k
        /\ held # Workers => nextChunk'[c] = ChunkCount[c] + 1
        /\ result'[c] = "resolved" => held = {}
    <3>1. /\ nextChunk'[c] \in 1 .. ChunkCount[c] + 1
          /\ fetched'[c] \subseteq 1 .. nextChunk'[c] - 1
          /\ held # Workers => nextChunk'[c] = ChunkCount[c] + 1
      BY <1>3, <2>3, <2>4
    <3>2. (1 .. nextChunk'[c] - 1) \ fetched'[c] = held
      BY <1>3, <2>1, <2>3
    <3>3. /\ result'[c] # "none" /\ result'[c] # "rejected"
          /\ result'[c] = "resolved" => held = {}
      BY <2>3, <2>5
    <3> QED
      BY <2>2, <3>1, <3>2, <3>3
  <2> QED
    BY <2>3, <2>6 DEF CallOK, held
<1> QED
  BY <1>5, <1>6, <1>7, <1>8, InvParts

LEMMA UsePermitInv ==
  ASSUME QueryInv, NEW c \in Calls, NEW w \in Workers, UsePermit(c, w)
  PROVE  QueryInv'
<1>1. PermitInv /\ CallType /\ \A d \in Calls : CallOK(d)
  BY InvParts
<1>2. worker[<<c, w>>].pc = "granted" /\ UNCHANGED <<nextChunk, isFailed, fetched>>
  BY DEF UsePermit, At
<1>3. CASE isFailed[c]
  <2>1. /\ SetStopped(c, w, ReleasePermit(inFlightQueriesCount, permitWaiters, worker))
        /\ result' = [result EXCEPT ![c] =
             IF @ = "pending" /\ \A v \in Workers \ {w} : At(c, v, "stopped")
               THEN "resolved" ELSE @]
    BY <1>3 DEF UsePermit, Stop
  <2>2. PermitInv' /\ worker'[<<c, w>>] = Stopped /\ OthersKeepOn(<<c, w>>)
    BY <1>1, <1>2, <2>1, StopPermits
  <2>3. result[c] = "rejected"
    BY <1>1, <1>3 DEF CallOK
  <2>4. UNCHANGED result
    BY <1>1, <2>1, <2>3 DEF CallType
  <2>5. \A d \in Calls \ {c} : CallOK(d)'
    BY <1>1, <1>2, <2>2, <2>4, OtherCalls, SameCall
  <2>6. CallOK(c)'
    <3>1. { v \in Workers : ~ At(c, v, "stopped")' } =
            { v \in Workers : ~ At(c, v, "stopped") } \ {w}
      BY <1>1, <1>2, <2>2, OneLessHeld
    <3>2. \A v \in Workers \ {w} : worker'[<<c, v>>].chunk = worker[<<c, v>>].chunk
      BY <1>1, <2>2, OtherCalls
    <3>3. CallOK(c) /\ isFailed[c] /\ isFailed'[c] /\ UNCHANGED <<nextChunk, fetched, result>>
      BY <1>1, <1>2, <1>3, <2>4
    <3> QED
      BY <2>3, <3>1, <3>2, <3>3 DEF CallOK
  <2> QED
    BY <1>1, <1>2, <2>2, <2>4, <2>5, <2>6, InvParts DEF CallType
<1>4. CASE ~ isFailed[c]
  <2>1. /\ worker' = [worker EXCEPT ![<<c, w>>].pc = "querying"]
        /\ UNCHANGED <<inFlightQueriesCount, permitWaiters, result>>
    BY <1>4 DEF UsePermit
  <2>2. /\ PermitInv'
        /\ worker'[<<c, w>>].chunk = worker[<<c, w>>].chunk
        /\ worker'[<<c, w>>].pc = "querying"
        /\ OthersKeepOn(<<c, w>>)
    BY <1>1, <1>2, <2>1, UsePermits
  <2>3. \A d \in Calls, v \in Workers :
          /\ worker'[<<d, v>>].chunk = worker[<<d, v>>].chunk
          /\ worker'[<<d, v>>].pc = "stopped" <=> worker[<<d, v>>].pc = "stopped"
    <3> SUFFICES ASSUME NEW d \in Calls, NEW v \in Workers
                 PROVE  /\ worker'[<<d, v>>].chunk = worker[<<d, v>>].chunk
                        /\ worker'[<<d, v>>].pc = "stopped" <=> worker[<<d, v>>].pc = "stopped"
      OBVIOUS
    <3>1. CASE d # c
      BY <1>1, <2>2, <3>1, OtherCalls
    <3>2. CASE d = c /\ v # w
      <4>1. /\ worker'[<<c, v>>].chunk = worker[<<c, v>>].chunk
            /\ worker'[<<c, v>>].pc = "stopped" <=> worker[<<c, v>>].pc = "stopped"
        BY <1>1, <2>2, <3>2, OtherCalls
      <4> QED
        BY <3>2, <4>1
    <3>3. CASE d = c /\ v = w
      BY <1>2, <2>2, <3>3
    <3> QED
      BY <3>1, <3>2, <3>3
  <2>4. \A d \in Calls : CallOK(d)'
    BY <1>1, <1>2, <2>1, <2>2, <2>3, SameCall
  <2> QED
    BY <1>1, <1>2, <2>1, <2>2, <2>4, InvParts DEF CallType
<1> QED
  BY <1>3, <1>4

LEMMA FailedInv ==
  ASSUME QueryInv, NEW c \in Calls, NEW w \in Workers, Failed(c, w)
  PROVE  QueryInv'
<1>1. PermitInv /\ CallType /\ \A d \in Calls : CallOK(d)
  BY InvParts
<1>2. /\ worker[<<c, w>>].pc = "querying"
      /\ isFailed' = [isFailed EXCEPT ![c] = TRUE]
      /\ SetStopped(c, w, ReleasePermit(inFlightQueriesCount, permitWaiters, worker))
      /\ result' = [result EXCEPT ![c] = "rejected"]
      /\ UNCHANGED <<nextChunk, fetched>>
  BY DEF Failed, At
<1>3. PermitInv' /\ worker'[<<c, w>>] = Stopped /\ OthersKeepOn(<<c, w>>)
  BY <1>1, <1>2, StopPermits
<1>4. CallType' /\ isFailed'[c] /\ result'[c] = "rejected"
      /\ \A d \in Calls \ {c} : isFailed'[d] = isFailed[d] /\ result'[d] = result[d]
  BY <1>1, <1>2 DEF CallType
<1>5. \A d \in Calls \ {c} : CallOK(d)'
  BY <1>1, <1>2, <1>3, <1>4, OtherCalls, SameCall
<1>6. CallOK(c)'
  <2>1. { v \in Workers : ~ At(c, v, "stopped")' } =
          { v \in Workers : ~ At(c, v, "stopped") } \ {w}
    BY <1>1, <1>2, <1>3, OneLessHeld
  <2>2. \A v \in Workers \ {w} : worker'[<<c, v>>].chunk = worker[<<c, v>>].chunk
    BY <1>1, <1>3, OtherCalls
  <2> QED
    BY <1>1, <1>2, <1>4, <2>1, <2>2 DEF CallOK
<1> QED
  BY <1>3, <1>4, <1>5, <1>6, InvParts

LEMMA AnsweredInv ==
  ASSUME QueryInv, NEW c \in Calls, NEW w \in Workers, Answered(c, w)
  PROVE  QueryInv'
<1> DEFINE held == { v \in Workers : ~ At(c, v, "stopped") }
           k == worker[<<c, w>>].chunk
<1>1. PermitInv /\ CallType /\ \A d \in Calls : CallOK(d)
  BY InvParts
<1>2. /\ worker[<<c, w>>].pc = "querying"
      /\ fetched' = [fetched EXCEPT ![c] = @ \cup {k}]
      /\ UNCHANGED isFailed
  BY DEF Answered, At
<1>3. /\ ChunkCount[c] \in Nat
      /\ nextChunk[c] \in 1 .. ChunkCount[c] + 1
      /\ fetched[c] \subseteq 1 .. nextChunk[c] - 1
      /\ \A v \in held : worker[<<c, v>>].chunk \in (1 .. nextChunk[c] - 1) \ fetched[c]
      /\ \A u, v \in held : worker[<<c, u>>].chunk = worker[<<c, v>>].chunk => u = v
      /\ result[c] = "none" => held = {} /\ nextChunk[c] = 1
      /\ isFailed[c] <=> result[c] = "rejected"
      /\ ~ isFailed[c] => \A j \in (1 .. nextChunk[c] - 1) \ fetched[c] :
                            \E v \in held : worker[<<c, v>>].chunk = j
      /\ result[c] \in {"pending", "resolved"} /\ held # Workers =>
           nextChunk[c] = ChunkCount[c] + 1
      /\ result[c] = "resolved" => held = {}
  BY <1>1, ChunkedQueryAssumption DEF CallOK
<1>4. w \in held
  BY <1>2 DEF At
<1>5. k \in (1 .. nextChunk[c] - 1) \ fetched[c] /\ result[c] \in {"pending", "rejected"}
  BY <1>1, <1>3, <1>4 DEF CallType
<1>6. /\ fetched'[c] = fetched[c] \cup {k}
      /\ \A d \in Calls \ {c} : fetched'[d] = fetched[d]
      /\ fetched' \in [Calls -> SUBSET Nat]
  BY <1>1, <1>2, <1>3, <1>5 DEF CallType
<1> DEFINE heldNow == { v \in Workers : ~ At(c, v, "stopped")' }
<1>7. CASE MoreChunks(c)
  <2>1. /\ SetPermits(AcquirePermit(c, w, nextChunk[c],
             ReleasePermit(inFlightQueriesCount, permitWaiters, worker)))
        /\ nextChunk' = [nextChunk EXCEPT ![c] = @ + 1]
        /\ UNCHANGED result
    BY <1>7 DEF Answered
  <2>2. ~ isFailed[c] /\ nextChunk[c] <= ChunkCount[c] /\ nextChunk[c] \in Nat
    BY <1>3, <1>7 DEF MoreChunks
  <2>3. /\ PermitInv'
        /\ worker'[<<c, w>>].chunk = nextChunk[c]
        /\ worker'[<<c, w>>].pc \in {"granted", "waiting"}
        /\ OthersKeepOn(<<c, w>>)
    BY <1>1, <1>2, <2>1, <2>2, NextPermits
  <2>4. /\ nextChunk' \in [Calls -> Nat] /\ nextChunk'[c] = nextChunk[c] + 1
        /\ \A d \in Calls \ {c} : nextChunk'[d] = nextChunk[d]
    BY <1>1, <2>1, <2>2 DEF CallType
  <2>5. CallType'
    BY <1>1, <1>2, <1>6, <2>1, <2>4 DEF CallType
  <2>6. \A d \in Calls \ {c} : CallOK(d)'
    BY <1>1, <1>2, <1>6, <2>1, <2>3, <2>4, OtherCalls, SameCall
  <2>7. heldNow = held
    BY <1>1, <1>2, <2>3, OtherCalls DEF At
  <2>8. \A v \in held : worker'[<<c, v>>].chunk =
          IF v = w THEN nextChunk[c] ELSE worker[<<c, v>>].chunk
    BY <1>1, <2>3, OtherCalls
  <2>9. result'[c] = "pending" /\ ~ isFailed'[c]
    BY <1>2, <1>3, <1>5, <2>1, <2>2
  <2>10. result[c] = "pending" /\ held = Workers
    BY <1>3, <1>5, <2>2
  <2> HIDE DEF held, heldNow, k
  <2>11. /\ nextChunk'[c] \in 1 .. ChunkCount[c] + 1
         /\ fetched'[c] \subseteq 1 .. nextChunk'[c] - 1
    BY <1>3, <1>5, <1>6, <2>2, <2>4
  <2>12. ASSUME NEW v \in held
         PROVE  worker'[<<c, v>>].chunk \in (1 .. nextChunk'[c] - 1) \ fetched'[c]
    <3>1. CASE v = w
      BY <1>3, <1>5, <1>6, <2>2, <2>4, <2>8, <3>1
    <3>2. CASE v # w
      <4>1. worker[<<c, v>>].chunk # k
        BY <1>3, <1>4, <3>2 DEF k
      <4> QED
        BY <1>3, <1>6, <2>2, <2>4, <2>8, <3>2, <4>1
    <3> QED
      BY <3>1, <3>2
  <2>13. ASSUME NEW u \in held, NEW v \in held,
                worker'[<<c, u>>].chunk = worker'[<<c, v>>].chunk
         PROVE  u = v
    <3>1. worker[<<c, u>>].chunk < nextChunk[c] /\ worker[<<c, v>>].chunk < nextChunk[c]
      BY <1>3, <2>2
    <3> QED
      BY <1>3, <2>8, <2>13, <3>1
  <2>14. ASSUME NEW j \in (1 .. nextChunk'[c] - 1) \ fetched'[c]
         PROVE  \E v \in held : worker'[<<c, v>>].chunk = j
    <3>1. CASE j = nextChunk[c]
      BY <1>4, <2>8, <3>1
    <3>2. CASE j # nextChunk[c]
      <4>1. j \in (1 .. nextChunk[c] - 1) \ fetched[c] /\ j # k
        BY <1>6, <2>2, <2>4, <3>2
      <4>2. PICK v \in held : worker[<<c, v>>].chunk = j
        BY <1>3, <2>2, <4>1
      <4>3. v # w
        BY <4>1, <4>2 DEF k
      <4> QED
        BY <2>8, <4>2, <4>3
    <3> QED
      BY <3>1, <3>2
  <2>15. CallOK(c)'
    BY <2>7, <2>9, <2>10, <2>11, <2>12, <2>13, <2>14 DEF CallOK, heldNow
  <2> QED
    BY <2>3, <2>5, <2>6, <2>15, InvParts
<1>8. CASE ~ MoreChunks(c)
  <2>1. /\ SetStopped(c, w, ReleasePermit(inFlightQueriesCount, permitWaiters, worker))
        /\ result' = [result EXCEPT ![c] =
             IF @ = "pending" /\ \A v \in Workers \ {w} : At(c, v, "stopped")
               THEN "resolved" ELSE @]
        /\ UNCHANGED nextChunk
    BY <1>8 DEF Answered, Stop
  <2>2. PermitInv' /\ worker'[<<c, w>>] = Stopped /\ OthersKeepOn(<<c, w>>)
    BY <1>1, <1>2, <2>1, StopPermits
  <2>3. heldNow = held \ {w}
    BY <1>1, <1>2, <2>2, OneLessHeld
  <2>4. \A v \in Workers \ {w} : worker'[<<c, v>>].chunk = worker[<<c, v>>].chunk
    BY <1>1, <2>2, OtherCalls
  <2>5. /\ result'[c] = IF result[c] = "pending" /\ held \ {w} = {}
                           THEN "resolved" ELSE result[c]
        /\ \A d \in Calls \ {c} : result'[d] = result[d]
        /\ result' \in [Calls -> {"none", "pending", "resolved", "rejected"}]
    BY <1>1, <2>1 DEF CallType
  <2>6. CallType'
    BY <1>1, <1>2, <1>6, <2>1, <2>5 DEF CallType
  <2>7. \A d \in Calls \ {c} : CallOK(d)'
    BY <1>1, <1>2, <1>6, <2>1, <2>2, <2>5, OtherCalls, SameCall
  <2>8. ~ isFailed[c] => nextChunk[c] = ChunkCount[c] + 1
    BY <1>3, <1>8 DEF MoreChunks
  <2> HIDE DEF held, heldNow, k
  <2>9. /\ nextChunk'[c] = nextChunk[c] /\ isFailed'[c] = isFailed[c]
        /\ fetched'[c] \subseteq 1 .. nextChunk[c] - 1
    BY <1>2, <1>3, <1>5, <1>6, <2>1
  <2>10. ASSUME NEW v \in heldNow
         PROVE  /\ worker'[<<c, v>>].chunk = worker[<<c, v>>].chunk
                /\ worker'[<<c, v>>].chunk \in (1 .. nextChunk[c] - 1) \ fetched'[c]
    <3>1. v \in held /\ v # w /\ v \in Workers
      BY <2>3 DEF held
    <3>2. worker[<<c, v>>].chunk # k
      BY <1>3, <1>4, <3>1 DEF k
    <3> QED
      BY <1>3, <1>6, <2>4, <3>1, <3>2
  <2>11. \A u, v \in heldNow : worker'[<<c, u>>].chunk = worker'[<<c, v>>].chunk => u = v
    BY <1>3, <2>3, <2>10
  <2>12. ASSUME ~ isFailed[c], NEW j \in (1 .. nextChunk[c] - 1) \ fetched'[c]
         PROVE  \E v \in heldNow : worker'[<<c, v>>].chunk = j
    <3>1. j \in (1 .. nextChunk[c] - 1) \ fetched[c] /\ j # k
      BY <1>6
    <3>2. PICK v \in held : worker[<<c, v>>].chunk = j
      BY <1>3, <2>12, <3>1
    <3>3. v # w
      BY <3>1, <3>2 DEF k
    <3>4. v \in heldNow
      BY <2>3, <3>2, <3>3
    <3> QED
      BY <2>10, <3>2, <3>4
  <2>13. /\ result'[c] # "none"
         /\ isFailed[c] <=> result'[c] = "rejected"
         /\ result'[c] = "resolved" => heldNow = {}
    BY <1>3, <1>5, <2>3, <2>5
  <2>14. CallOK(c)'
    BY <1>3, <2>8, <2>9, <2>10, <2>11, <2>12, <2>13 DEF CallOK, heldNow
  <2> QED
    BY <2>2, <2>6, <2>7, <2>14, InvParts
<1> QED
  BY <1>7, <1>8

-----------------------------------------------------------------------------
(* The invariant holds at first, and every step keeps it.                  *)

LEMMA InitInv == Init => QueryInv
<1> SUFFICES ASSUME Init PROVE QueryInv
  OBVIOUS
<1>1. /\ worker \in [AllWorkers -> WorkerStates]
      /\ \A x \in AllWorkers : worker[x].pc = "stopped"
  BY DEF Init, Stopped, WorkerStates
<1>2. Holders = {}
  BY <1>1 DEF Holders
<1>3. IsFiniteSet(Holders) /\ Cardinality(Holders) = 0
  BY <1>2, FS_EmptySet
<1>4. permitWaiters = <<>> /\ permitWaiters \in Seq(AllWorkers) /\ DOMAIN permitWaiters = {}
  BY DEF Init
<1>5. PermitInv
  BY <1>1, <1>3, <1>4, ChunkedQueryAssumption
     DEF PermitInv, PermitsAreCounted, Distinct, Queued, Init
<1>6. CallType
  BY DEF CallType, Init
<1>7. ASSUME NEW c \in Calls PROVE CallOK(c)
  <2>1. \A w \in Workers : At(c, w, "stopped")
    BY <1>1 DEF AllWorkers, At
  <2>2. { w \in Workers : ~ At(c, w, "stopped") } = {}
    BY <2>1
  <2>3. /\ nextChunk[c] = 1 /\ fetched[c] = {} /\ ~ isFailed[c] /\ result[c] = "none"
        /\ ChunkCount[c] \in Nat
    BY ChunkedQueryAssumption DEF Init
  <2> QED
    BY <2>2, <2>3 DEF CallOK
<1> QED
  BY <1>5, <1>6, <1>7, InvParts

LEMMA StepInv == QueryInv /\ [Next]_vars => QueryInv'
<1> SUFFICES ASSUME QueryInv, [Next]_vars PROVE QueryInv'
  OBVIOUS
<1>1. ASSUME NEW c \in Calls, Start(c) PROVE QueryInv'
  BY <1>1, StartInv
<1>2. ASSUME NEW c \in Calls, NEW w \in Workers, UsePermit(c, w) PROVE QueryInv'
  BY <1>2, UsePermitInv
<1>3. ASSUME NEW c \in Calls, NEW w \in Workers, Answered(c, w) PROVE QueryInv'
  BY <1>3, AnsweredInv
<1>4. ASSUME NEW c \in Calls, NEW w \in Workers, Failed(c, w) PROVE QueryInv'
  BY <1>4, FailedInv
<1>5. CASE UNCHANGED vars
  BY <1>5 DEF vars, QueryInv, TypeOK, Holders, PermitsAreCounted, NoIdlePermit, CallOK, At
<1> QED
  BY <1>1, <1>2, <1>3, <1>4, <1>5 DEF Next, WorkerStep

(* QueryInv holds in every reachable state, in every interleaving of calls *)
(* of queryFilterInChunks and their workers.                               *)
THEOREM QueryInvariance == Spec => []QueryInv
  BY InitInv, StepInv, PTL DEF Spec

(* Every variable keeps its type, so no more than LOGS_FETCH_CONCURRENCY   *)
(* queries of all calls together are ever in flight.                       *)
THEOREM TypeCorrect == Spec => []TypeOK
<1>1. QueryInv => TypeOK
  BY DEF QueryInv
<1> QED
  BY <1>1, QueryInvariance, PTL

(* acquirePermit and releasePermit neither leak nor invent a permit.       *)
THEOREM PermitsCounted == Spec => []PermitsAreCounted
<1>1. QueryInv => PermitsAreCounted
  BY DEF QueryInv
<1> QED
  BY <1>1, QueryInvariance, PTL

(* No worker waits in permitWaiters while a permit is free, and none waits *)
(* twice.                                                                  *)
THEOREM NoPermitIdle == Spec => []NoIdlePermit
<1>1. QueryInv => NoIdlePermit
  BY DEF QueryInv
<1> QED
  BY <1>1, QueryInvariance, PTL

(* A call that resolves has fetched every chunk of its range: the workers  *)
(* stop only when nothing is left to claim.                                *)
THEOREM ResolvedComplete == Spec => []ResolvedIsComplete
<1>1. ASSUME QueryInv PROVE ResolvedIsComplete
  <2> SUFFICES ASSUME NEW c \in Calls, result[c] = "resolved"
               PROVE  fetched[c] = 1 .. ChunkCount[c]
    BY DEF ResolvedIsComplete
  <2> DEFINE held == { w \in Workers : ~ At(c, w, "stopped") }
  <2>1. CallOK(c) /\ ChunkCount[c] \in Nat
    BY <1>1, ChunkedQueryAssumption DEF QueryInv
  <2>2. held = {} /\ ~ isFailed[c] /\ fetched[c] \subseteq 1 .. nextChunk[c] - 1
    BY <2>1 DEF CallOK
  <2>3. 1 \in Workers
    BY ChunkedQueryAssumption DEF Workers
  <2>4. nextChunk[c] = ChunkCount[c] + 1
    BY <2>1, <2>2, <2>3 DEF CallOK
  <2>5. (1 .. nextChunk[c] - 1) \ fetched[c] = {}
    BY <2>1, <2>2 DEF CallOK
  <2>6. nextChunk[c] - 1 = ChunkCount[c]
    BY <2>1, <2>4
  <2>7. fetched[c] = 1 .. nextChunk[c] - 1
    BY <2>2, <2>5
  <2> QED
    BY <2>6, <2>7
<1> QED
  BY <1>1, QueryInvariance, PTL

(* Two workers of a call never hold one chunk, and every chunk claimed is  *)
(* fetched or held, as long as the call has not failed.                    *)
THEOREM ClaimedOnce == Spec => []ChunksClaimedOnce
<1>1. ASSUME QueryInv PROVE ChunksClaimedOnce
  <2> SUFFICES ASSUME NEW c \in Calls
               PROVE  LET held == { w \in Workers : ~ At(c, w, "stopped") }
                          inHand == { worker[<<c, w>>].chunk : w \in held }
                      IN  /\ \A v, w \in held :
                               worker[<<c, v>>].chunk = worker[<<c, w>>].chunk => v = w
                          /\ inHand \cap fetched[c] = {}
                          /\ ~ isFailed[c] =>
                               inHand \cup fetched[c] = 1 .. nextChunk[c] - 1
    BY DEF ChunksClaimedOnce
  <2> DEFINE held == { w \in Workers : ~ At(c, w, "stopped") }
             inHand == { worker[<<c, w>>].chunk : w \in held }
             claimed == 1 .. nextChunk[c] - 1
  <2>1. CallOK(c)
    BY <1>1 DEF QueryInv
  <2>2. /\ fetched[c] \subseteq claimed
        /\ \A w \in held : worker[<<c, w>>].chunk \in claimed \ fetched[c]
        /\ \A v, w \in held : worker[<<c, v>>].chunk = worker[<<c, w>>].chunk => v = w
        /\ ~ isFailed[c] => \A k \in claimed \ fetched[c] :
                              \E w \in held : worker[<<c, w>>].chunk = k
    BY <2>1 DEF CallOK
  <2> HIDE DEF held, claimed
  <2>3. \A k : k \in inHand <=> \E w \in held : worker[<<c, w>>].chunk = k
    OBVIOUS
  <2> HIDE DEF inHand
  <2>4. ASSUME NEW k \in inHand PROVE k \in claimed /\ k \notin fetched[c]
    <3>1. PICK w \in held : worker[<<c, w>>].chunk = k
      BY <2>3
    <3>2. worker[<<c, w>>].chunk \in claimed \ fetched[c]
      BY <2>2
    <3> QED
      BY <3>1, <3>2
  <2>5. ASSUME ~ isFailed[c] PROVE inHand \cup fetched[c] = claimed
    <3>1. \A k \in claimed : k \in fetched[c] \/ k \in inHand
      BY <2>2, <2>3, <2>5
    <3> QED
      BY <2>2, <2>4, <3>1
  <2> QED
    BY <2>2, <2>4, <2>5 DEF held, claimed, inHand
<1> QED
  BY <1>1, QueryInvariance, PTL

-----------------------------------------------------------------------------
(* A failed call sends nothing more: a worker of it that gets a permit     *)
(* handed over looks at isFailed before it uses it.                        *)

LEMMA NotStarted ==
  ASSUME QueryInv, NEW c \in Calls, Start(c)
  PROVE  ~ isFailed[c]
BY DEF QueryInv, CallOK, Start

LEMMA StartLeavesOthers ==
  ASSUME QueryInv, NEW c \in Calls, Start(c)
  PROVE  \A d \in Calls \ {c} : \A w \in Workers : worker'[<<d, w>>] = worker[<<d, w>>]
BY DEF Start, AllWorkers

LEMMA QueriesGoOn ==
  ASSUME QueryInv, QueryInv', NEW cw \in AllWorkers, OthersKeepOn(cw),
         NEW x \in AllWorkers, x # cw, worker'[x].pc = "querying"
  PROVE  worker'[x] = worker[x]
<1>1. worker[x] \in WorkerStates /\ worker'[x] \in WorkerStates
  BY DEF QueryInv, TypeOK, WorkerStates
<1>2. worker'[x].chunk = worker[x].chunk /\ worker'[x].pc = worker[x].pc
  BY DEF OthersKeepOn
<1> QED
  BY <1>1, <1>2 DEF WorkerStates

(* No query of a call is sent after one of its queries has failed.         *)
THEOREM FailureStopsQueries == Spec => NoQueryAfterFailure
<1> DEFINE Quiet == \A c \in Calls : isFailed[c] =>
             \A w \in Workers :
               At(c, w, "querying")' => At(c, w, "querying") /\ UNCHANGED worker[<<c, w>>]
<1>1. ASSUME QueryInv, QueryInv', [Next]_vars, NEW d \in Calls, isFailed[d],
             NEW v \in Workers, worker'[<<d, v>>].pc = "querying"
      PROVE  worker'[<<d, v>>] = worker[<<d, v>>]
  <2>1. PermitInv /\ <<d, v>> \in AllWorkers
    BY <1>1, InvParts DEF AllWorkers
  <2>2. ASSUME NEW c \in Calls, Start(c) PROVE worker'[<<d, v>>] = worker[<<d, v>>]
    <3>1. d # c
      BY <1>1, <2>2, NotStarted
    <3> QED
      BY <1>1, <2>2, <3>1, StartLeavesOthers
  <2>3. ASSUME NEW c \in Calls, NEW w \in Workers,
               OthersKeepOn(<<c, w>>),
               worker'[<<c, w>>].pc = "querying" => ~ isFailed[c]
        PROVE  worker'[<<d, v>>] = worker[<<d, v>>]
    <3>1. <<c, w>> \in AllWorkers
      BY DEF AllWorkers
    <3>2. <<d, v>> # <<c, w>>
      BY <1>1, <2>3
    <3> QED
      BY <1>1, <2>1, <2>3, <3>1, <3>2, QueriesGoOn
  <2>4. ASSUME NEW c \in Calls, NEW w \in Workers, UsePermit(c, w)
        PROVE  worker'[<<d, v>>] = worker[<<d, v>>]
    <3>1. worker[<<c, w>>].pc = "granted"
      BY <2>4 DEF UsePermit, At
    <3>2. CASE isFailed[c]
      <4>1. SetStopped(c, w, ReleasePermit(inFlightQueriesCount, permitWaiters, worker))
        BY <2>4, <3>2 DEF UsePermit, Stop
      <4>2. worker'[<<c, w>>].pc = "stopped" /\ OthersKeepOn(<<c, w>>)
        BY <2>1, <3>1, <4>1, StopPermits DEF Stopped
      <4> QED
        BY <2>3, <4>2
    <3>3. CASE ~ isFailed[c]
      <4>1. /\ worker' = [worker EXCEPT ![<<c, w>>].pc = "querying"]
            /\ UNCHANGED <<inFlightQueriesCount, permitWaiters>>
        BY <2>4, <3>3 DEF UsePermit
      <4>2. OthersKeepOn(<<c, w>>)
        BY <2>1, <3>1, <4>1, UsePermits
      <4> QED
        BY <2>3, <3>3, <4>2
    <3> QED
      BY <3>2, <3>3
  <2>5. ASSUME NEW c \in Calls, NEW w \in Workers, Answered(c, w)
        PROVE  worker'[<<d, v>>] = worker[<<d, v>>]
    <3>1. worker[<<c, w>>].pc = "querying"
      BY <2>5 DEF Answered, At
    <3>2. CASE MoreChunks(c)
      <4>1. SetPermits(AcquirePermit(c, w, nextChunk[c],
              ReleasePermit(inFlightQueriesCount, permitWaiters, worker)))
        BY <2>5, <3>2 DEF Answered
      <4>2. nextChunk[c] \in Nat /\ ~ isFailed[c]
        BY <1>1, <3>2 DEF QueryInv, TypeOK, MoreChunks
      <4>3. OthersKeepOn(<<c, w>>)
        BY <2>1, <3>1, <4>1, <4>2, NextPermits
      <4> QED
        BY <2>3, <4>2, <4>3
    <3>3. CASE ~ MoreChunks(c)
      <4>1. SetStopped(c, w, ReleasePermit(inFlightQueriesCount, permitWaiters, worker))
        BY <2>5, <3>3 DEF Answered, Stop
      <4>2. worker'[<<c, w>>].pc = "stopped" /\ OthersKeepOn(<<c, w>>)
        BY <2>1, <3>1, <4>1, StopPermits DEF Stopped
      <4> QED
        BY <2>3, <4>2
    <3> QED
      BY <3>2, <3>3
  <2>6. ASSUME NEW c \in Calls, NEW w \in Workers, Failed(c, w)
        PROVE  worker'[<<d, v>>] = worker[<<d, v>>]
    <3>1. /\ worker[<<c, w>>].pc = "querying"
          /\ SetStopped(c, w, ReleasePermit(inFlightQueriesCount, permitWaiters, worker))
      BY <2>6 DEF Failed, At
    <3>2. worker'[<<c, w>>].pc = "stopped" /\ OthersKeepOn(<<c, w>>)
      BY <2>1, <3>1, StopPermits DEF Stopped
    <3> QED
      BY <2>3, <3>2
  <2>7. CASE UNCHANGED vars
    BY <2>7 DEF vars
  <2> QED
    BY <1>1, <2>2, <2>4, <2>5, <2>6, <2>7 DEF Next, WorkerStep
<1>2. QueryInv /\ QueryInv' /\ [Next]_vars => [Quiet]_vars
  BY <1>1 DEF At
<1> HIDE DEF Quiet
<1>3. Spec => [][Quiet]_vars
  BY <1>2, QueryInvariance, PTL DEF Spec
<1> QED
  BY <1>3 DEF Quiet, NoQueryAfterFailure

-----------------------------------------------------------------------------
(* A call is a set of queries: every step maps to one of QuerySet, or to   *)
(* none.                                                                   *)

LeftOf(c) == IF result[c] = "pending" THEN (1 .. ChunkCount[c]) \ fetched[c] ELSE {}

LeftNow == [c \in Calls |-> LeftOf(c)]

LEMMA StartBegins ==
  ASSUME QueryInv, QueryInv', NEW c \in Calls, Start(c)
  PROVE  Set!Begin(c)
<1>1. /\ result[c] = "none" /\ nextChunk[c] = 1 /\ fetched[c] \subseteq 1 .. nextChunk[c] - 1
      /\ result \in [Calls -> {"none", "pending", "resolved", "rejected"}]
  BY DEF Start, QueryInv, CallOK, TypeOK
<1>2. /\ result' = [result EXCEPT ![c] = IF ChunkCount[c] = 0 THEN "resolved" ELSE "pending"]
      /\ UNCHANGED fetched
  BY DEF Start
<1>3. fetched[c] = {}
  <2>1. fetched[c] \subseteq 1 .. 0
    BY <1>1
  <2> QED
    BY <2>1
<1>4. LeftOf(c)' = 1 .. ChunkCount[c]
  <2>1. CASE ChunkCount[c] = 0
    BY <1>1, <1>2, <2>1 DEF LeftOf
  <2>2. CASE ChunkCount[c] # 0
    BY <1>1, <1>2, <1>3, <2>2 DEF LeftOf
  <2> QED
    BY <2>1, <2>2
<1>5. \A d \in Calls \ {c} : LeftOf(d)' = LeftOf(d)
  BY <1>1, <1>2 DEF LeftOf
<1>6. LeftNow' = [LeftNow EXCEPT ![c] = 1 .. ChunkCount[c]]
  BY <1>4, <1>5 DEF LeftNow
<1> QED
  BY <1>1, <1>2, <1>6 DEF Set!Begin, LeftNow, LeftOf

LEMMA AnswerAnswers ==
  ASSUME QueryInv, QueryInv', NEW c \in Calls, NEW w \in Workers, Answered(c, w)
  PROVE  (\E k \in LeftOf(c) : Set!Answer(c, k)) \/ UNCHANGED <<LeftNow, result>>
<1> DEFINE k == worker[<<c, w>>].chunk
           held == { v \in Workers : ~ At(c, v, "stopped") }
           range == 1 .. ChunkCount[c]
<1>1. /\ worker[<<c, w>>].pc = "querying"
      /\ fetched' = [fetched EXCEPT ![c] = @ \cup {k}]
  BY DEF Answered, At
<1>2. /\ result \in [Calls -> {"none", "pending", "resolved", "rejected"}]
      /\ result' \in [Calls -> {"none", "pending", "resolved", "rejected"}]
      /\ fetched \in [Calls -> SUBSET Nat]
      /\ ChunkCount[c] \in Nat
  BY ChunkedQueryAssumption DEF QueryInv, TypeOK
<1>3. w \in held
  BY <1>1 DEF At
<1>4. /\ nextChunk[c] \in 1 .. ChunkCount[c] + 1
      /\ fetched[c] \subseteq 1 .. nextChunk[c] - 1
      /\ \A v \in held : worker[<<c, v>>].chunk \in (1 .. nextChunk[c] - 1) \ fetched[c]
      /\ \A u, v \in held : worker[<<c, u>>].chunk = worker[<<c, v>>].chunk => u = v
      /\ isFailed[c] <=> result[c] = "rejected"
      /\ ~ isFailed[c] => \A j \in (1 .. nextChunk[c] - 1) \ fetched[c] :
                            \E v \in held : worker[<<c, v>>].chunk = j
      /\ result[c] = "none" => held = {}
      /\ result[c] = "resolved" => held = {}
  BY DEF QueryInv, CallOK
<1>5. \A d \in Calls \ {c} : fetched'[d] = fetched[d] /\ result'[d] = result[d]
  BY <1>1, <1>2 DEF Answered, Stop
<1>6. \A d \in Calls \ {c} : LeftOf(d)' = LeftOf(d)
  BY <1>5 DEF LeftOf
<1>7. CASE result[c] = "rejected"
  <2>1. result'[c] = "rejected"
    BY <1>2, <1>7 DEF Answered, Stop
  <2>2. UNCHANGED result
    BY <1>2, <1>5, <1>7, <2>1
  <2>3. LeftOf(c)' = LeftOf(c)
    BY <1>7, <2>1 DEF LeftOf
  <2> QED
    BY <1>6, <2>2, <2>3 DEF LeftNow
<1>8. CASE result[c] # "rejected"
  <2>1. result[c] = "pending" /\ ~ isFailed[c]
    BY <1>2, <1>3, <1>4, <1>8
  <2>2. LeftOf(c) = range \ fetched[c] /\ fetched'[c] = fetched[c] \cup {k}
    BY <1>1, <1>2, <2>1 DEF LeftOf
  <2> HIDE DEF k, held, range
  <2>3. k \in (1 .. nextChunk[c] - 1) \ fetched[c] /\ 1 .. nextChunk[c] - 1 \subseteq range
    BY <1>2, <1>3, <1>4 DEF k, range
  <2>4. k \in LeftOf(c)
    BY <2>2, <2>3
  <2>5. LeftOf(c) = {k} <=> ~ MoreChunks(c) /\ held \ {w} = {}
    <3>1. ASSUME LeftOf(c) = {k}, MoreChunks(c) PROVE FALSE
      <4>1. nextChunk[c] \in range /\ nextChunk[c] \notin fetched[c] /\ nextChunk[c] # k
        BY <1>2, <1>4, <2>3, <3>1 DEF MoreChunks, range
      <4> QED
        BY <2>2, <3>1, <4>1
    <3>2. ASSUME LeftOf(c) = {k}, NEW v \in held \ {w} PROVE FALSE
      <4>1. worker[<<c, v>>].chunk \in range \ fetched[c]
        BY <1>4, <2>3
      <4>2. worker[<<c, v>>].chunk # k
        BY <1>3, <1>4 DEF k
      <4> QED
        BY <2>2, <3>2, <4>1, <4>2
    <3>3. ASSUME ~ MoreChunks(c), held \ {w} = {} PROVE LeftOf(c) = {k}
      <4>1. nextChunk[c] = ChunkCount[c] + 1
        BY <1>2, <1>4, <2>1, <3>3 DEF MoreChunks
      <4>2. 1 .. nextChunk[c] - 1 = range
        BY <1>2, <4>1 DEF range
      <4>3. ASSUME NEW j \in range \ fetched[c] PROVE j = k
        <5>1. PICK v \in held : worker[<<c, v>>].chunk = j
          BY <1>4, <2>1, <4>2
        <5>2. v = w
          BY <3>3
        <5> QED
          BY <5>1, <5>2 DEF k
      <4> QED
        BY <2>2, <2>4, <4>3
    <3> QED
      BY <3>1, <3>2, <3>3
  <2>6. result' = [result EXCEPT ![c] = IF LeftOf(c) = {k} THEN "resolved" ELSE "pending"]
    <3>1. CASE MoreChunks(c)
      <4>1. UNCHANGED result
        BY <3>1 DEF Answered
      <4> QED
        BY <1>2, <2>1, <2>5, <3>1, <4>1
    <3>2. CASE ~ MoreChunks(c)
      <4>1. result' = [result EXCEPT ![c] =
              IF @ = "pending" /\ \A v \in Workers \ {w} : At(c, v, "stopped")
                THEN "resolved" ELSE @]
        BY <3>2 DEF Answered, Stop
      <4>2. (\A v \in Workers \ {w} : At(c, v, "stopped")) <=> held \ {w} = {}
        BY DEF held
      <4> QED
        BY <1>2, <2>1, <2>5, <3>2, <4>1, <4>2
    <3> QED
      BY <3>1, <3>2
  <2>7. LeftOf(c)' = LeftOf(c) \ {k}
    <3>1. CASE LeftOf(c) = {k}
      BY <1>2, <2>6, <3>1 DEF LeftOf
    <3>2. CASE LeftOf(c) # {k}
      <4>1. result'[c] = "pending"
        BY <1>2, <2>6, <3>2
      <4> QED
        BY <2>2, <4>1 DEF LeftOf, range
    <3> QED
      BY <3>1, <3>2
  <2>8. LeftNow' = [LeftNow EXCEPT ![c] = @ \ {k}]
    BY <1>6, <2>7 DEF LeftNow
  <2>9. PICK j \in LeftOf(c) : j = k
    BY <2>4
  <2>10. Set!Answer(c, j)
    BY <2>1, <2>6, <2>8, <2>9 DEF Set!Answer, LeftNow, LeftOf
  <2> QED
    BY <2>10
<1> QED
  BY <1>2, <1>3, <1>4, <1>7, <1>8

LEMMA FailedRejects ==
  ASSUME QueryInv, NEW c \in Calls, NEW w \in Workers, Failed(c, w)
  PROVE  Set!Reject(c) \/ UNCHANGED <<LeftNow, result>>
<1>1. /\ result' = [result EXCEPT ![c] = "rejected"] /\ UNCHANGED fetched
      /\ worker[<<c, w>>].pc = "querying"
      /\ result \in [Calls -> {"none", "pending", "resolved", "rejected"}]
  BY DEF Failed, At, QueryInv, TypeOK
<1>2. result[c] \in {"pending", "rejected"}
  <2>1. { v \in Workers : ~ At(c, v, "stopped") } # {}
    BY <1>1 DEF At
  <2>2. result[c] # "none" /\ result[c] # "resolved"
    BY <2>1 DEF QueryInv, CallOK
  <2> QED
    BY <1>1, <2>2
<1>3. LeftOf(c)' = {} /\ \A d \in Calls \ {c} : LeftOf(d)' = LeftOf(d)
  BY <1>1 DEF LeftOf
<1>4. CASE result[c] = "rejected"
  <2>1. UNCHANGED result
    BY <1>1, <1>4
  <2>2. LeftOf(c) = {}
    BY <1>4 DEF LeftOf
  <2> QED
    BY <1>3, <2>1, <2>2 DEF LeftNow
<1>5. CASE result[c] = "pending"
  <2>1. LeftNow' = [LeftNow EXCEPT ![c] = {}]
    BY <1>3 DEF LeftNow
  <2> QED
    BY <1>1, <1>5, <2>1 DEF Set!Reject, LeftNow, LeftOf
<1> QED
  BY <1>2, <1>4, <1>5

LEMMA UsePermitStutters ==
  ASSUME QueryInv, NEW c \in Calls, NEW w \in Workers, UsePermit(c, w)
  PROVE  UNCHANGED <<LeftNow, result>>
<1>1. UNCHANGED fetched /\ result \in [Calls -> {"none", "pending", "resolved", "rejected"}]
  BY DEF UsePermit, QueryInv, TypeOK
<1>2. UNCHANGED result
  <2>1. CASE isFailed[c]
    <3>1. result[c] = "rejected"
      BY <2>1 DEF QueryInv, CallOK
    <3> QED
      BY <1>1, <2>1, <3>1 DEF UsePermit, Stop
  <2>2. CASE ~ isFailed[c]
    BY <2>2 DEF UsePermit
  <2> QED
    BY <2>1, <2>2
<1> QED
  BY <1>1, <1>2 DEF LeftNow, LeftOf

(* queryFilterInChunks implements QuerySet: whatever the interleaving of   *)
(* calls, workers and permits, the caller sees chunks answered one by one, *)
(* and a call that resolves with the last or is rejected before it.        *)
THEOREM QuerySetsRefined == Spec => CallsAreQuerySets
<1>1. Init => Set!Init
  <2> SUFFICES ASSUME Init PROVE Set!Init
    OBVIOUS
  <2>1. result = [c \in Calls |-> "none"]
    BY DEF Init
  <2> QED
    BY <2>1 DEF Set!Init
<1>2. QueryInv /\ QueryInv' /\ [Next]_vars => [Set!Next]_(Set!vars)
  <2> SUFFICES ASSUME QueryInv, QueryInv', [Next]_vars PROVE [Set!Next]_(Set!vars)
    OBVIOUS
  <2>1. UNCHANGED <<LeftNow, result>> => UNCHANGED Set!vars
    BY DEF Set!vars, LeftNow, LeftOf
  <2>2. ASSUME NEW c \in Calls, Start(c) PROVE Set!Next
    BY <2>2, StartBegins DEF Set!Next
  <2>3. ASSUME NEW c \in Calls, NEW w \in Workers, UsePermit(c, w)
        PROVE  UNCHANGED Set!vars
    BY <2>1, <2>3, UsePermitStutters
  <2>4. ASSUME NEW c \in Calls, NEW w \in Workers, Answered(c, w)
        PROVE  [Set!Next]_(Set!vars)
    <3>1. ASSUME NEW k \in LeftOf(c), Set!Answer(c, k) PROVE Set!Next
      BY <3>1 DEF Set!Next, LeftOf
    <3> QED
      BY <2>1, <2>4, <3>1, AnswerAnswers
  <2>5. ASSUME NEW c \in Calls, NEW w \in Workers, Failed(c, w)
        PROVE  [Set!Next]_(Set!vars)
    <3>1. Set!Reject(c) => Set!Next
      BY DEF Set!Next
    <3> QED
      BY <2>1, <2>5, <3>1, FailedRejects
  <2>6. CASE UNCHANGED vars
    BY <2>6 DEF vars, Set!vars
  <2> QED
    BY <2>2, <2>3, <2>4, <2>5, <2>6 DEF Next, WorkerStep
<1> QED
  BY <1>1, <1>2, QueryInvariance, PTL DEF Spec, CallsAreQuerySets, Set!Spec
=============================================================================
