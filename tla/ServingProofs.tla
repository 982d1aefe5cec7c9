--------------------------- MODULE ServingProofs ---------------------------
(***************************************************************************)
(* Proofs about Serving, for any tokens, endpoints and requests in flight, *)
(* any life of a cache entry, and all that UpdateWorker lets happen.  The  *)
(* worker's invariant is taken from UpdateWorkerProofs: a step of Serving  *)
(* is a step of the worker or leaves it alone.                             *)
(***************************************************************************)
EXTENDS Serving, UpdateWorkerProofs

Data == TokenData \cup {None}

(* A history after d is stored: d is stored now, what else was stored is   *)
(* as long ago as it was, and a number of ticks stays below Window.        *)
LEMMA WithStoredHas ==
  ASSUME NEW h \in SUBSET (Data \X (0 .. Window - 1)), NEW d \in Data
  PROVE  /\ WithStored(h, d) \in SUBSET (Data \X (0 .. Window - 1))
         /\ <<d, 0>> \in WithStored(h, d)
         /\ \A p \in h : \E x \in WithStored(h, d) : x[1] = p[1] /\ x[2] <= p[2]
<1>1. 0 \in 0 .. Window - 1
  BY ServingAssumption DEF Window
<1>2. <<d, 0>> \in WithStored(h, d)
  BY DEF WithStored
<1>3. ASSUME NEW p \in h
      PROVE  \E x \in WithStored(h, d) : x[1] = p[1] /\ x[2] <= p[2]
  <2>1. p[2] \in 0 .. Window - 1
    OBVIOUS
  <2>2. CASE p[1] = d
    <3>1. <<d, 0>>[1] = p[1] /\ <<d, 0>>[2] <= p[2]
      BY <2>1, <2>2
    <3> QED
      BY <1>2, <3>1
  <2>3. CASE p[1] # d
    <3>1. p \in WithStored(h, d) /\ p[2] <= p[2]
      BY <2>1, <2>3 DEF WithStored
    <3> QED
      BY <3>1
  <2> QED
    BY <2>2, <2>3
<1>4. WithStored(h, d) \in SUBSET (Data \X (0 .. Window - 1))
  <2>1. <<d, 0>> \in Data \X (0 .. Window - 1)
    BY <1>1
  <2> QED
    BY <2>1 DEF WithStored
<1> QED
  BY <1>2, <1>3, <1>4

(* Data of an endpoint, as the storage has it.                             *)
LEMMA StoredIsData ==
  ASSUME WorkerTypeOK, NEW e \in Endpoints
  PROVE  Stored(e) \in Data
BY ServingAssumption DEF WorkerTypeOK, Stored, Data

(* At start nothing is cached, due or routed.                              *)
LEMMA InitServingInv == Init => ServingInv
<1> SUFFICES ASSUME Init PROVE ServingInv
  OBVIOUS
<1>1. WorkerInv
  BY InitWorkerInv DEF Init
<1>2. /\ cache = [e \in Endpoints |-> None] /\ handling = [q \in Requests |-> None]
      /\ filling = [q \in Requests |-> None] /\ status = [q \in Requests |-> None]
      /\ routed = FALSE /\ recent = [e \in Endpoints |-> {<<None, 0>>}]
      /\ tokensData = [t \in Tokens |-> None]
  BY DEF Init, WorkerInit
<1>3. TypeOK
  <2>1. WorkerTypeOK
    BY <1>1 DEF WorkerInv
  <2>2. 0 \in 0 .. Window - 1
    BY ServingAssumption DEF Window
  <2>3. recent \in [Endpoints -> SUBSET ((TokenData \cup {None}) \X (0 .. Window - 1))]
    BY <1>2, <2>2
  <2> QED
    BY <1>2, <2>1, <2>3 DEF TypeOK
<1>4. EntriesAge
  BY <1>2, ServingAssumption DEF EntriesAge, Stored
<1>5. RoutedHasData
  BY <1>2 DEF RoutedHasData
<1> QED
  BY <1>1, <1>3, <1>4, <1>5 DEF ServingInv

(* Data that is stored stays stored.                                       *)
LEMMA StoredStays ==
  ASSUME WorkerInv, WorkerInv', WorkerNext, NEW t \in Tokens, tokensData[t] # None
  PROVE  tokensData'[t] # None
<1> USE UpdateWorkerAssumption
<1>1. PICK r \in Runs : WorkerStep(r)
  BY DEF WorkerNext
<1>2. CASE UNCHANGED tokensData
  BY <1>2
<1>3. ASSUME NEW x \in Tokens, NEW info \in Infos, SaveTokenData(r, x, info)
      PROVE  tokensData'[t] # None
  <2>1. cycle[r] \in BlockInfo
    BY <1>3 DEF SaveTokenData, WorkerInv, WorkerTypeOK, RequestsHaveBlocks
  <2>2. [block |-> cycle[r], info |-> info] # None
    BY <2>1 DEF BlockInfo
  <2> QED
    BY <1>3, <2>2 DEF SaveTokenData, WorkerInv, WorkerTypeOK
<1> QED
  BY <1>1, <1>2, <1>3 DEF WorkerStep, StartCycle, FailToken, EndCycle

(* A save is the last of what was stored, and moves nothing further back.  *)
LEMMA UpdateStepInv == ServingInv /\ UpdateStep => ServingInv'
<1> SUFFICES ASSUME ServingInv, UpdateStep PROVE ServingInv'
  OBVIOUS
<1> USE ServingAssumption DEF ServingInv
<1>1. /\ WorkerNext
      /\ UNCHANGED <<cache, handling, filling, status, routed>>
      /\ recent' = [e \in Endpoints |-> WithStored(recent[e], tokensData'[e[2]])]
  BY DEF UpdateStep
<1>2. WorkerInv'
  BY <1>1, NextWorkerInv
<1>3. ASSUME NEW e \in Endpoints
      PROVE  /\ recent'[e] \in SUBSET (Data \X (0 .. Window - 1))
             /\ <<tokensData'[e[2]], 0>> \in recent'[e]
             /\ \A p \in recent[e] : \E x \in recent'[e] : x[1] = p[1] /\ x[2] <= p[2]
             /\ \A p \in recent[e] : p[2] \in Int
             /\ \A p \in recent'[e] : p[2] \in Int
  <2>1. recent[e] \in SUBSET (Data \X (0 .. Window - 1))
    BY DEF TypeOK, Data
  <2>2. tokensData'[e[2]] \in Data
    BY <1>2 DEF WorkerInv, WorkerTypeOK, Data
  <2>3. recent'[e] = WithStored(recent[e], tokensData'[e[2]])
    BY <1>1
  <2> DEFINE d == tokensData'[e[2]]
             h == recent[e]
  <2>4. /\ WithStored(h, d) \in SUBSET (Data \X (0 .. Window - 1))
        /\ <<d, 0>> \in WithStored(h, d)
        /\ \A p \in h : \E x \in WithStored(h, d) : x[1] = p[1] /\ x[2] <= p[2]
    <3> HIDE DEF d, h
    <3> QED
      BY <2>1, <2>2, WithStoredHas DEF d, h
  <2>5. \A p \in Data \X (0 .. Window - 1) : p[2] \in Int
    OBVIOUS
  <2> QED
    BY <2>1, <2>3, <2>4, <2>5
<1>4. TypeOK'
  <2>1. recent' \in [Endpoints -> SUBSET (Data \X (0 .. Window - 1))]
    BY <1>1, <1>3
  <2> QED
    BY <1>1, <1>2, <2>1 DEF TypeOK, WorkerInv, Data
<1>5. RoutedHasData'
  BY <1>1, <1>2, StoredStays DEF RoutedHasData, CheckTokensData
<1>6. EntriesAge'
  <2>1. ASSUME NEW e \in Endpoints, cache[e] # None
        PROVE  \E x \in recent'[e] :
                 x[1] = cache[e].data /\ x[2] <= cache[e].age + FillTicks
    <3>1. PICK p \in recent[e] : p[1] = cache[e].data /\ p[2] <= cache[e].age + FillTicks
      BY <2>1 DEF EntriesAge
    <3>2. PICK x \in recent'[e] : x[1] = p[1] /\ x[2] <= p[2]
      BY <1>3
    <3>3. p[2] \in Int /\ x[2] \in Int
      BY <1>3
    <3>4. cache[e].age + FillTicks \in Int
      BY <2>1 DEF TypeOK, Entries
    <3> QED
      BY <3>1, <3>2, <3>3, <3>4
  <2>2. ASSUME NEW q \in Requests, filling[q] # None
        PROVE  \E x \in recent'[handling[q]] :
                 x[1] = filling[q].data /\ x[2] <= filling[q].waited
    <3>1. handling[q] \in Endpoints
      BY <2>2 DEF TypeOK
    <3>2. PICK p \in recent[handling[q]] : p[1] = filling[q].data /\ p[2] <= filling[q].waited
      BY <2>2 DEF EntriesAge
    <3>3. PICK x \in recent'[handling[q]] : x[1] = p[1] /\ x[2] <= p[2]
      BY <1>3, <3>1
    <3>4. p[2] \in Int /\ x[2] \in Int
      BY <1>3, <3>1
    <3>5. filling[q].waited \in Int
      BY <2>2 DEF TypeOK, Fills
    <3> QED
      BY <3>2, <3>3, <3>4, <3>5
  <2> QED
    BY <1>1, <1>3, <2>1, <2>2 DEF EntriesAge, Stored
<1> QED
  BY <1>2, <1>4, <1>5, <1>6

(* The HTTP side leaves the worker alone.                                  *)
LEMMA WorkerInvStays == WorkerInv /\ UNCHANGED workerVars => WorkerInv'
BY DEF workerVars, WorkerInv, WorkerTypeOK, RequestsHaveBlocks, ExecutingIsNotOlder,
       SavedIsStored, LastBlockMeansAllSaved, PendingIsExecuting, SavedIsOfBlock,
       SavedByLeftOver

(* What a handler reads was stored just now.                               *)
LEMMA HandleInv ==
  ASSUME ServingInv, UNCHANGED workerVars, NEW q \in Requests, Handle(q)
  PROVE  ServingInv'
<1> USE ServingAssumption DEF ServingInv
<1>1. WorkerInv' /\ tokensData' = tokensData
  BY WorkerInvStays DEF workerVars
<1>2. handling[q] \in Endpoints
  BY DEF Handle, TypeOK
<1> DEFINE fill == [data |-> Stored(handling[q]), waited |-> 0]
<1>3. /\ filling' = [filling EXCEPT ![q] = fill]
      /\ UNCHANGED <<cache, handling, status, routed, recent>>
  BY DEF Handle
<1>4. fill \in Fills
  <2>1. Stored(handling[q]) \in TokenData
    BY <1>2, StoredIsData DEF Handle, Data, TypeOK
  <2> QED
    BY <2>1 DEF Fills
<1>5. fill.data = Stored(handling[q]) /\ fill.waited = 0
  OBVIOUS
<1> HIDE DEF fill
<1>6. TypeOK'
  BY <1>1, <1>2, <1>3, <1>4 DEF TypeOK, WorkerInv
<1>7. RoutedHasData'
  BY <1>1, <1>3 DEF RoutedHasData, CheckTokensData
<1>8. EntriesAge'
  <2>1. ASSUME NEW x \in Requests, filling'[x] # None
        PROVE  \E p \in recent[handling[x]] :
                 p[1] = filling'[x].data /\ p[2] <= filling'[x].waited
    <3>1. CASE x = q
      <4>1. filling'[x] = fill
        BY <1>3, <3>1 DEF TypeOK
      <4>2. <<Stored(handling[q]), 0>> \in recent[handling[q]]
        BY <1>2 DEF EntriesAge
      <4>3. <<Stored(handling[q]), 0>>[1] = fill.data
            /\ <<Stored(handling[q]), 0>>[2] <= fill.waited
        BY <1>5
      <4> QED
        BY <3>1, <4>1, <4>2, <4>3
    <3>2. CASE x # q
      <4>1. filling'[x] = filling[x]
        BY <1>3, <3>2 DEF TypeOK
      <4> QED
        BY <2>1, <4>1 DEF EntriesAge
    <3> QED
      BY <3>1, <3>2
  <2> QED
    BY <1>1, <1>3, <2>1 DEF EntriesAge, Stored
<1> QED
  BY <1>1, <1>6, <1>7, <1>8

(* What is cached then has waited, FillTicks at most.                      *)
LEMMA FillInv ==
  ASSUME ServingInv, UNCHANGED workerVars, NEW q \in Requests, Fill(q)
  PROVE  ServingInv'
<1> USE ServingAssumption DEF ServingInv
<1>1. WorkerInv' /\ tokensData' = tokensData
  BY WorkerInvStays DEF workerVars
<1> DEFINE entry == [data |-> filling[q].data, age |-> 0]
<1>2. /\ filling[q] # None
      /\ cache' = [cache EXCEPT ![handling[q]] = entry]
      /\ handling' = [handling EXCEPT ![q] = None]
      /\ filling' = [filling EXCEPT ![q] = None]
      /\ status' = [status EXCEPT ![q] = 200]
      /\ UNCHANGED <<routed, recent>>
  BY DEF Fill
<1>3. handling[q] \in Endpoints /\ filling[q] \in Fills
  BY <1>2 DEF TypeOK
<1>4. entry \in Entries
  BY <1>3 DEF Fills, Entries
<1>5. entry.data = filling[q].data /\ entry.age = 0
  OBVIOUS
<1> HIDE DEF entry
<1>6. \A x \in Requests : filling'[x] # None =>
         x # q /\ filling'[x] = filling[x] /\ handling'[x] = handling[x]
  BY <1>2 DEF TypeOK
<1>7. TypeOK'
  <2>1. /\ handling' \in [Requests -> Endpoints \cup {None}]
        /\ filling' \in [Requests -> Fills \cup {None}]
        /\ status' \in [Requests -> {200, 429, 503, None}]
        /\ cache' \in [Endpoints -> Entries \cup {None}]
    BY <1>2, <1>4 DEF TypeOK
  <2> QED
    BY <1>1, <1>2, <1>6, <2>1 DEF TypeOK, WorkerInv
<1>8. RoutedHasData'
  BY <1>1, <1>2 DEF RoutedHasData, CheckTokensData
<1>9. EntriesAge'
  <2>1. ASSUME NEW e \in Endpoints, cache'[e] # None
        PROVE  \E p \in recent[e] :
                 p[1] = cache'[e].data /\ p[2] <= cache'[e].age + FillTicks
    <3>1. CASE e = handling[q]
      <4>1. cache'[e] = entry
        BY <1>2, <1>3, <3>1 DEF TypeOK
      <4>2. PICK p \in recent[e] : p[1] = filling[q].data /\ p[2] <= filling[q].waited
        BY <1>2, <3>1 DEF EntriesAge
      <4>3. p[2] \in Int /\ filling[q].waited \in 0 .. FillTicks
        BY <1>3 DEF TypeOK, Fills
      <4>4. p[1] = entry.data /\ p[2] <= entry.age + FillTicks
        BY <1>5, <4>2, <4>3
      <4> QED
        BY <4>1, <4>4
    <3>2. CASE e # handling[q]
      <4>1. cache'[e] = cache[e]
        BY <1>2, <3>2 DEF TypeOK
      <4> QED
        BY <2>1, <4>1 DEF EntriesAge
    <3> QED
      BY <3>1, <3>2
  <2>2. ASSUME NEW x \in Requests, filling'[x] # None
        PROVE  \E p \in recent[handling'[x]] :
                 p[1] = filling'[x].data /\ p[2] <= filling'[x].waited
    BY <1>6, <2>2 DEF EntriesAge
  <2> QED
    BY <1>1, <1>2, <2>1, <2>2 DEF EntriesAge, Stored
<1> QED
  BY <1>1, <1>7, <1>8, <1>9

(* A tick is one more for what was stored and for what holds it alike.     *)
LEMMA TickInv == ServingInv /\ UNCHANGED workerVars /\ Tick => ServingInv'
<1> SUFFICES ASSUME ServingInv, UNCHANGED workerVars, Tick PROVE ServingInv'
  OBVIOUS
<1> USE ServingAssumption DEF ServingInv
<1>1. WorkerInv' /\ tokensData' = tokensData
  BY WorkerInvStays DEF workerVars
<1>2. UNCHANGED <<handling, status, routed>>
  BY DEF Tick
<1>3. ASSUME NEW e \in Endpoints
      PROVE  /\ recent'[e] \in SUBSET (Data \X (0 .. Window - 1))
             /\ <<Stored(e), 0>> \in recent'[e]
             /\ \A p \in recent[e] : p[2] + 1 < Window =>
                  \E x \in recent'[e] : x[1] = p[1] /\ x[2] <= p[2] + 1
             /\ \A p \in recent[e] : p[2] \in Int
             /\ \A p \in recent'[e] : p[2] \in Int
  <2> DEFINE old == { <<p[1], p[2] + 1>> : p \in {x \in recent[e] : x[2] + 1 < Window} }
  <2>1. recent[e] \in SUBSET (Data \X (0 .. Window - 1))
    BY DEF TypeOK, Data
  <2>2. Window \in Nat
    BY DEF Window
  <2>3. old \in SUBSET (Data \X (0 .. Window - 1))
    <3> SUFFICES ASSUME NEW p \in recent[e], p[2] + 1 < Window
                 PROVE  <<p[1], p[2] + 1>> \in Data \X (0 .. Window - 1)
      OBVIOUS
    <3>1. p[1] \in Data /\ p[2] \in 0 .. Window - 1
      BY <2>1
    <3>2. p[2] + 1 \in 0 .. Window - 1
      BY <2>2, <3>1
    <3> QED
      BY <3>1, <3>2
  <2>4. Stored(e) \in Data
    BY StoredIsData DEF TypeOK
  <2>5. recent'[e] = WithStored(old, Stored(e))
    BY DEF Tick
  <2>6. ASSUME NEW p \in recent[e], p[2] + 1 < Window
        PROVE  \E x \in recent'[e] : x[1] = p[1] /\ x[2] <= p[2] + 1
    <3>1. <<p[1], p[2] + 1>> \in old
      BY <2>6
    <3> HIDE DEF old
    <3> DEFINE d == Stored(e)
    <3>2. \A y \in old : \E x \in WithStored(old, d) : x[1] = y[1] /\ x[2] <= y[2]
      <4> HIDE DEF d
      <4> QED
        BY <2>3, <2>4, WithStoredHas DEF d
    <3>3. PICK x \in recent'[e] : x[1] = <<p[1], p[2] + 1>>[1] /\ x[2] <= <<p[1], p[2] + 1>>[2]
      BY <2>5, <3>1, <3>2
    <3> QED
      BY <3>3
  <2> HIDE DEF old
  <2>7. /\ recent'[e] \in SUBSET (Data \X (0 .. Window - 1))
        /\ <<Stored(e), 0>> \in recent'[e]
    BY <2>3, <2>4, <2>5, WithStoredHas
  <2>8. \A p \in Data \X (0 .. Window - 1) : p[2] \in Int
    OBVIOUS
  <2> QED
    BY <2>1, <2>6, <2>7, <2>8
<1>4. ASSUME NEW e \in Endpoints, cache'[e] # None
      PROVE  /\ cache[e] # None
             /\ cache'[e].data = cache[e].data
             /\ cache'[e].age = cache[e].age + 1
             /\ cache[e].age \in Nat /\ cache[e].age + 1 < CacheTtl
             /\ cache'[e] \in Entries
  <2>1. /\ cache[e] \in Entries /\ cache[e] # None
        /\ cache'[e] = [data |-> cache[e].data, age |-> cache[e].age + 1]
        /\ cache[e].age + 1 # CacheTtl
    BY <1>4 DEF Tick, TypeOK
  <2>2. cache[e].data \in TokenData /\ cache[e].age \in 0 .. CacheTtl - 1
    BY <2>1 DEF Entries
  <2>3. cache[e].age + 1 \in 0 .. CacheTtl - 1
    BY <2>1, <2>2
  <2> QED
    BY <2>1, <2>2, <2>3 DEF Entries
<1>5. ASSUME NEW q \in Requests, filling'[q] # None
      PROVE  /\ filling[q] # None
             /\ filling'[q].data = filling[q].data
             /\ filling'[q].waited = filling[q].waited + 1
             /\ filling[q].waited \in Nat /\ filling[q].waited + 1 <= FillTicks
             /\ filling'[q] \in Fills
  <2>1. /\ filling[q] \in Fills /\ filling[q] # None
        /\ filling'[q] = [data |-> filling[q].data, waited |-> filling[q].waited + 1]
        /\ filling[q].waited < FillTicks
    BY <1>5 DEF Tick, TypeOK
  <2>2. filling[q].data \in TokenData /\ filling[q].waited \in 0 .. FillTicks
    BY <2>1 DEF Fills
  <2>3. filling[q].waited + 1 \in 0 .. FillTicks
    BY <2>1, <2>2
  <2> QED
    BY <2>1, <2>2, <2>3 DEF Fills
<1>6. TypeOK'
  <2>1. cache' \in [Endpoints -> Entries \cup {None}]
    BY <1>4 DEF Tick
  <2>2. filling' \in [Requests -> Fills \cup {None}]
    BY <1>5 DEF Tick
  <2>3. recent' \in [Endpoints -> SUBSET (Data \X (0 .. Window - 1))]
    BY <1>3 DEF Tick
  <2> QED
    BY <1>1, <1>2, <1>5, <2>1, <2>2, <2>3 DEF TypeOK, WorkerInv, Data
<1>7. EntriesAge'
  <2>1. ASSUME NEW e \in Endpoints, cache'[e] # None
        PROVE  \E x \in recent'[e] :
                 x[1] = cache'[e].data /\ x[2] <= cache'[e].age + FillTicks
    <3>1. PICK p \in recent[e] : p[1] = cache[e].data /\ p[2] <= cache[e].age + FillTicks
      BY <1>4, <2>1 DEF EntriesAge
    <3>2. p[2] + 1 < Window
      <4>1. p[2] \in Int
        BY <1>3
      <4> QED
        BY <1>4, <2>1, <3>1, <4>1 DEF Window
    <3>3. PICK x \in recent'[e] : x[1] = p[1] /\ x[2] <= p[2] + 1
      BY <1>3, <3>2
    <3>4. p[2] \in Int /\ x[2] \in Int
      BY <1>3
    <3>5. x[2] <= cache'[e].age + FillTicks
      BY <1>4, <2>1, <3>1, <3>3, <3>4
    <3> QED
      BY <1>4, <2>1, <3>1, <3>3, <3>5
  <2>2. ASSUME NEW q \in Requests, filling'[q] # None
        PROVE  \E x \in recent'[handling[q]] :
                 x[1] = filling'[q].data /\ x[2] <= filling'[q].waited
    <3>1. handling[q] \in Endpoints
      BY <1>5, <2>2 DEF TypeOK
    <3>2. PICK p \in recent[handling[q]] : p[1] = filling[q].data /\ p[2] <= filling[q].waited
      BY <1>5, <2>2 DEF EntriesAge
    <3>3. p[2] + 1 < Window
      <4>1. p[2] \in Int
        BY <1>3, <3>1
      <4> QED
        BY <1>5, <2>2, <3>2, <4>1 DEF Window
    <3>4. PICK x \in recent'[handling[q]] : x[1] = p[1] /\ x[2] <= p[2] + 1
      BY <1>3, <3>1, <3>3
    <3>5. p[2] \in Int /\ x[2] \in Int
      BY <1>3, <3>1
    <3>6. x[2] <= filling'[q].waited
      BY <1>5, <2>2, <3>2, <3>4, <3>5
    <3> QED
      BY <1>5, <2>2, <3>2, <3>4, <3>6
  <2> QED
    BY <1>1, <1>2, <1>3, <2>1, <2>2 DEF EntriesAge, Stored
<1>8. RoutedHasData'
  BY <1>1, <1>2 DEF RoutedHasData, CheckTokensData
<1> QED
  BY <1>1, <1>6, <1>7, <1>8

(* Every step, of the worker or of the HTTP side, keeps the invariant.     *)
LEMMA NextServingInv == ServingInv /\ [Next]_vars => ServingInv'
<1> SUFFICES ASSUME ServingInv, [Next]_vars PROVE ServingInv'
  OBVIOUS
<1> USE ServingAssumption DEF ServingInv
<1>1. CASE UpdateStep
  BY <1>1, UpdateStepInv
<1>2. ASSUME HttpStep PROVE ServingInv'
  <2>1. UNCHANGED workerVars /\ WorkerInv' /\ tokensData' = tokensData
    BY <1>2, WorkerInvStays DEF HttpStep, workerVars
  <2>2. ASSUME NEW q \in Requests, NEW e \in Endpoints, ServeCached(q, e) PROVE ServingInv'
    <3>1. /\ status' = [status EXCEPT ![q] = 200]
          /\ UNCHANGED <<cache, handling, filling, routed, recent>>
      BY <2>2 DEF ServeCached
    <3>2. TypeOK'
      BY <2>1, <3>1 DEF TypeOK, WorkerInv
    <3>3. RoutedHasData' /\ EntriesAge'
      BY <2>1, <3>1 DEF RoutedHasData, CheckTokensData, EntriesAge, Stored
    <3> QED
      BY <2>1, <3>2, <3>3
  <2>3. ASSUME NEW q \in Requests, NEW e \in Endpoints, Miss(q, e) PROVE ServingInv'
    <3>1. /\ filling[q] = None
          /\ handling' = [handling EXCEPT ![q] = e]
          /\ status' = [status EXCEPT ![q] = None]
          /\ UNCHANGED <<cache, filling, routed, recent>>
      BY <2>3 DEF Miss, TypeOK
    <3>2. \A x \in Requests : filling[x] # None => handling'[x] = handling[x]
      BY <3>1 DEF TypeOK
    <3>3. TypeOK'
      BY <2>1, <3>1, <3>2 DEF TypeOK, WorkerInv
    <3>4. RoutedHasData' /\ EntriesAge'
      BY <2>1, <3>1, <3>2 DEF RoutedHasData, CheckTokensData, EntriesAge, Stored
    <3> QED
      BY <2>1, <3>3, <3>4
  <2>4. ASSUME NEW q \in Requests, Throttle(q) PROVE ServingInv'
    <3>1. /\ status' = [status EXCEPT ![q] = 429]
          /\ UNCHANGED <<cache, handling, filling, routed, recent>>
      BY <2>4 DEF Throttle
    <3>2. TypeOK'
      BY <2>1, <3>1 DEF TypeOK, WorkerInv
    <3>3. RoutedHasData' /\ EntriesAge'
      BY <2>1, <3>1 DEF RoutedHasData, CheckTokensData, EntriesAge, Stored
    <3> QED
      BY <2>1, <3>2, <3>3
  <2>5. ASSUME NEW q \in Requests, HandleUnavailable(q) PROVE ServingInv'
    <3>1. /\ filling[q] = None
          /\ handling' = [handling EXCEPT ![q] = None]
          /\ status' = [status EXCEPT ![q] = 503]
          /\ UNCHANGED <<cache, filling, routed, recent>>
      BY <2>5 DEF HandleUnavailable
    <3>2. \A x \in Requests : filling[x] # None => handling'[x] = handling[x]
      BY <3>1 DEF TypeOK
    <3>3. TypeOK'
      BY <2>1, <3>1, <3>2 DEF TypeOK, WorkerInv
    <3>4. RoutedHasData' /\ EntriesAge'
      BY <2>1, <3>1, <3>2 DEF RoutedHasData, CheckTokensData, EntriesAge, Stored
    <3> QED
      BY <2>1, <3>3, <3>4
  <2>6. ASSUME Probe PROVE ServingInv'
    BY <2>1, <2>6
       DEF Probe, TypeOK, WorkerInv, RoutedHasData, CheckTokensData, EntriesAge, Stored
  <2> QED
    BY <1>2, <2>1, <2>2, <2>3, <2>4, <2>5, <2>6, HandleInv, FillInv, TickInv DEF HttpStep
<1>3. CASE UNCHANGED vars
  <2>1. /\ UNCHANGED <<cache, handling, filling, status, routed, recent>>
        /\ tokensData' = tokensData /\ WorkerInv'
    BY <1>3, WorkerInvStays DEF vars, servingVars, workerVars
  <2>2. TypeOK'
    BY <2>1 DEF TypeOK, WorkerInv
  <2>3. RoutedHasData' /\ EntriesAge'
    BY <2>1 DEF RoutedHasData, CheckTokensData, EntriesAge, Stored
  <2> QED
    BY <2>1, <2>2, <2>3
<1> QED
  BY <1>1, <1>2, <1>3 DEF Next

(* ServingInv holds always.                                                *)
LEMMA ServingInvariance == Spec => []ServingInv
BY InitServingInv, NextServingInv, PTL DEF Spec

(* The fields of the worker, the storage and the HTTP side hold what their *)
(* types say.                                                              *)
THEOREM ServingTypeCorrect == Spec => []TypeOK
<1>1. ServingInv => TypeOK
  BY DEF ServingInv
<1> QED
  BY <1>1, ServingInvariance, PTL

(* A pod that gets traffic answers no request with 503, whatever it missed *)
(* in the cache before it got traffic (ready.controller.ts:30).            *)
THEOREM RoutedCorrect == Spec => RoutedIsServed
<1>1. ServingInv /\ [Next]_vars =>
        [\A q \in Requests : routed /\ status[q] # 503 => status'[q] # 503]_vars
  <2> SUFFICES ASSUME ServingInv, Next, NEW q \in Requests, routed, status[q] # 503
               PROVE  status'[q] # 503
    OBVIOUS
  <2>1. CASE status' = status
    BY <2>1
  <2>2. ASSUME NEW x \in Requests, NEW s \in {200, 429, None},
               status' = [status EXCEPT ![x] = s]
        PROVE  status'[q] # 503
    BY <2>2, ServingAssumption DEF ServingInv, TypeOK
  <2>3. ASSUME NEW x \in Requests, HandleUnavailable(x) PROVE FALSE
    <3>1. handling[x] \in Endpoints /\ Stored(handling[x]) = None
      BY <2>3 DEF HandleUnavailable, ServingInv, TypeOK
    <3>2. Stored(handling[x]) # None
      BY <3>1, ServingAssumption DEF ServingInv, RoutedHasData, CheckTokensData, Stored
    <3> QED
      BY <3>1, <3>2
  <2>4. CASE UpdateStep
    BY <2>1, <2>4 DEF UpdateStep
  <2>5. CASE HttpStep
    <3>1. ASSUME NEW x \in Requests, NEW e \in Endpoints, ServeCached(x, e) \/ Miss(x, e)
          PROVE  status'[q] # 503
      BY <2>2, <3>1 DEF ServeCached, Miss
    <3>2. ASSUME NEW x \in Requests, Throttle(x) \/ Fill(x)
          PROVE  status'[q] # 503
      BY <2>2, <3>2 DEF Throttle, Fill
    <3>3. ASSUME NEW x \in Requests, Handle(x)
          PROVE  status'[q] # 503
      BY <2>1, <3>3 DEF Handle
    <3>4. ASSUME Probe \/ Tick PROVE status'[q] # 503
      BY <2>1, <3>4 DEF Probe, Tick
    <3> QED
      BY <2>3, <2>5, <3>1, <3>2, <3>3, <3>4 DEF HttpStep
  <2> QED
    BY <2>4, <2>5 DEF Next
<1> QED
  BY <1>1, ServingInvariance, PTL DEF Spec, RoutedIsServed

(* What is cached, or about to be, was in the storage less than CacheTtl + *)
(* FillTicks ago, although it may have been replaced since, and more than  *)
(* once (GLOBAL_CACHE_TTL, cache.module.ts:8).                             *)
THEOREM RecentCorrect == Spec => []ServedIsRecent
<1>1. ServingInv => ServedIsRecent
  <2> SUFFICES ASSUME ServingInv, NEW e \in Endpoints, NEW d \in Served(e)
               PROVE  \E p \in recent[e] : p[1] = d
    BY DEF ServedIsRecent
  <2>1. CASE cache[e] # None /\ d = cache[e].data
    BY <2>1 DEF ServingInv, EntriesAge
  <2>2. ASSUME NEW q \in Requests, filling[q] # None, handling[q] = e, d = filling[q].data
        PROVE  \E p \in recent[e] : p[1] = d
    BY <2>2 DEF ServingInv, EntriesAge
  <2> QED
    BY <2>1, <2>2 DEF Served
<1> QED
  BY <1>1, ServingInvariance, PTL
=============================================================================
