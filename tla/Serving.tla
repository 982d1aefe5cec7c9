------------------------------ MODULE Serving ------------------------------
(***************************************************************************)
(* The HTTP side over the storage that UpdateWorker fills: the supply      *)
(* endpoints, the in-process cache of their answers, the 503 of a token    *)
(* without data, the 429 of a client that asks too often, and the          *)
(* readiness probe.                                                        *)
(*                                                                         *)
(* A request first looks into the cache.  On a miss its handler reads the  *)
(* storage in a later step, and what it read is written to the cache and   *)
(* sent in a step after that.  So requests for one endpoint may miss       *)
(* together, saves may come between these steps, and an older answer may   *)
(* be written to the cache after a newer one.  Tick lets time go on.       *)
(***************************************************************************)
EXTENDS UpdateWorker

CONSTANTS
  Endpoints,   \* <<kind, token>>: detailed, plain or plain/total, of a token
  Requests,    \* slots of requests under way at the same time
  CacheTtl,    \* GLOBAL_CACHE_TTL, in ticks
  FillTicks    \* environment: ticks between a handler's read and the cache's write

Window == CacheTtl + FillTicks

Entries == [data : TokenData, age : 0 .. CacheTtl - 1]
Fills == [data : TokenData, waited : 0 .. FillTicks]

ASSUME ServingAssumption ==
  /\ CacheTtl \in Nat \ {0} /\ FillTicks \in Nat
  /\ \A e \in Endpoints : e[2] \in Tokens
  /\ None \notin Endpoints /\ None \notin Entries /\ None \notin Fills
  /\ None \notin {200, 429, 503}

VARIABLES
  cache,      \* cache[e]: what is cached of e and its age, or None
  handling,   \* handling[q]: endpoint request q missed in the cache, or None
  filling,    \* filling[q]: what the handler of q read, on its way to the cache, or None
  status,     \* status[q]: of the answer to q, None while there is none
  routed,     \* whether the last readiness probe was "up": traffic is routed here
  recent      \* history: recent[e] has <<d, k>> when what the storage has for e was
              \* d last k ticks ago, for k less than Window

servingVars == <<cache, handling, filling, status, routed, recent>>
vars == <<workerVars, servingVars>>

Stored(e) == tokensData[e[2]]

(* History h after d is, or stays, what is stored.                         *)
WithStored(h, d) == {p \in h : p[1] # d} \cup {<<d, 0>>}

-----------------------------------------------------------------------------
(* Mutant: an entry that is used starts to live anew.                      *)
ServeCachedSliding(q, e) ==
  /\ handling[q] = None
  /\ cache[e] # None
  /\ status' = [status EXCEPT ![q] = 200]
  /\ cache' = [cache EXCEPT ![e].age = 0]
  /\ UNCHANGED <<handling, filling, routed, recent>>

ServeCached(q, e) ==
  /\ handling[q] = None
  /\ cache[e] # None
  /\ status' = [status EXCEPT ![q] = 200]
  /\ UNCHANGED <<cache, handling, filling, routed, recent>>

(* The guard comes first: a client that asks too often gets a 429, and     *)
(* neither the cache nor the storage is looked at.  Whose requests are     *)
(* counted, and how many, is left open.                                    *)
Throttle(q) ==
  /\ handling[q] = None
  /\ status' = [status EXCEPT ![q] = 429]
  /\ UNCHANGED <<cache, handling, filling, routed, recent>>

Miss(q, e) ==
  /\ handling[q] = None
  /\ cache[e] = None
  /\ handling' = [handling EXCEPT ![q] = e]
  /\ status' = [status EXCEPT ![q] = None]
  /\ UNCHANGED <<cache, filling, routed, recent>>

(* The handler of request q, getTokenData or a plain getter, reads data.   *)
Handle(q) ==
  /\ handling[q] # None /\ filling[q] = None
  /\ Stored(handling[q]) # None
  /\ filling' = [filling EXCEPT ![q] = [data |-> Stored(handling[q]), waited |-> 0]]
  /\ UNCHANGED <<cache, handling, status, routed, recent>>

(* There is no data: the handler throws, and nothing is cached.            *)
HandleUnavailable(q) ==
  /\ handling[q] # None /\ filling[q] = None
  /\ Stored(handling[q]) = None
  /\ handling' = [handling EXCEPT ![q] = None]
  /\ status' = [status EXCEPT ![q] = 503]
  /\ UNCHANGED <<cache, filling, routed, recent>>

(* The tap of the interceptor: what was read is cached, whatever is stored *)
(* or cached by now, and sent.                                             *)
Fill(q) ==
  /\ filling[q] # None
  /\ cache' = [cache EXCEPT ![handling[q]] = [data |-> filling[q].data, age |-> 0]]
  /\ handling' = [handling EXCEPT ![q] = None]
  /\ filling' = [filling EXCEPT ![q] = None]
  /\ status' = [status EXCEPT ![q] = 200]
  /\ UNCHANGED <<routed, recent>>

(* Mutant: ready as soon as one token has data.                            *)
CheckTokensDataAny == \E t \in Tokens : tokensData[t] # None

CheckTokensData == \A t \in Tokens : tokensData[t] # None

Probe ==
  /\ routed' = CheckTokensData
  /\ UNCHANGED <<cache, handling, filling, status, recent>>

(* Time goes on; entries that have lived CacheTtl ticks are gone.          *)
Tick ==
  /\ \A q \in Requests : filling[q] # None => filling[q].waited < FillTicks
  /\ filling' = [q \in Requests |->
       IF filling[q] = None
         THEN None ELSE [data |-> filling[q].data, waited |-> filling[q].waited + 1]]
  /\ cache' = [e \in Endpoints |->
       IF cache[e] = None \/ cache[e].age + 1 = CacheTtl
         THEN None ELSE [data |-> cache[e].data, age |-> cache[e].age + 1]]
  /\ recent' = [e \in Endpoints |->
       WithStored({ <<p[1], p[2] + 1>> : p \in {x \in recent[e] : x[2] + 1 < Window} },
                  Stored(e))]
  /\ UNCHANGED <<handling, status, routed>>

-----------------------------------------------------------------------------
Init ==
  /\ WorkerInit
  /\ cache = [e \in Endpoints |-> None]
  /\ handling = [q \in Requests |-> None]
  /\ filling = [q \in Requests |-> None]
  /\ status = [q \in Requests |-> None]
  /\ routed = FALSE
  /\ recent = [e \in Endpoints |-> {<<None, 0>>}]

UpdateStep ==
  /\ WorkerNext
  /\ recent' = [e \in Endpoints |-> WithStored(recent[e], tokensData'[e[2]])]
  /\ UNCHANGED <<cache, handling, filling, status, routed>>

HttpStep ==
  /\ \/ \E q \in Requests, e \in Endpoints : ServeCached(q, e) \/ Miss(q, e)
     \/ \E q \in Requests : \/ Throttle(q)
                          \/ Handle(q)
                          \/ HandleUnavailable(q)
                          \/ Fill(q)
     \/ Probe
     \/ Tick
  /\ UNCHANGED workerVars

Next == UpdateStep \/ HttpStep

Spec == Init /\ [][Next]_vars

-----------------------------------------------------------------------------
(* The type invariant.                                                     *)
TypeOK ==
  /\ WorkerTypeOK
  /\ cache \in [Endpoints -> Entries \cup {None}]
  /\ handling \in [Requests -> Endpoints \cup {None}]
  /\ filling \in [Requests -> Fills \cup {None}]
  /\ status \in [Requests -> {200, 429, 503, None}]
  /\ routed \in BOOLEAN
  /\ recent \in [Endpoints -> SUBSET ((TokenData \cup {None}) \X (0 .. Window - 1))]
  /\ \A q \in Requests : filling[q] # None => handling[q] # None

(* While traffic is routed to the pod no request is answered 503, not one  *)
(* that missed the cache before the probe either ("so k8s does not route   *)
(* traffic to a pod that still responds with 503", ready.controller.ts:30).*)
(* The guard's 429 is another matter.                                      *)
RoutedIsServed ==
  [][\A q \in Requests : routed /\ status[q] # 503 => status'[q] # 503]_vars

(* What is cached of e, or on its way to the cache and to a client.        *)
Served(e) ==
  { cache[x].data : x \in {x \in {e} : cache[x] # None} }
    \cup { filling[q].data : q \in {q \in Requests : filling[q] # None /\ handling[q] = e} }

(* No answer is data that was replaced in the storage the life of a cache  *)
(* entry ago, and what an answer takes to get into the cache, or longer,   *)
(* however many saves there were since, however often an endpoint is asked *)
(* and in whatever order the answers get into the cache ("Cache expiration *)
(* time", README.md:193).                                                  *)
ServedIsRecent ==
  \A e \in Endpoints : \A d \in Served(e) : \E p \in recent[e] : p[1] = d

-----------------------------------------------------------------------------
(* The inductive strengthening of the properties.                          *)

(* The storage does not lose what the probe has seen.                      *)
RoutedHasData == routed => CheckTokensData

(* What is stored is so now; what was read was stored no longer ago than   *)
(* it waits to be cached, and what is cached no longer than its age more.  *)
EntriesAge ==
  /\ \A e \in Endpoints :
       /\ <<Stored(e), 0>> \in recent[e]
       /\ cache[e] # None =>
            \E p \in recent[e] : p[1] = cache[e].data /\ p[2] <= cache[e].age + FillTicks
  /\ \A q \in Requests : filling[q] # None =>
       \E p \in recent[handling[q]] : p[1] = filling[q].data /\ p[2] <= filling[q].waited

ServingInv ==
  /\ WorkerInv
  /\ TypeOK
  /\ RoutedHasData
  /\ EntriesAge
=============================================================================
