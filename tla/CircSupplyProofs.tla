-------------------------- MODULE CircSupplyProofs --------------------------
(***************************************************************************)
(* Proofs about CircSupply: both address-collecting services in it are the *)
(* one of AddressScan, and its worker is the one of UpdateWorker, so the   *)
(* theorems about them hold here; a calculated amount leaves out no member *)
(* with a final vesting event, and has the balances it needs; what is      *)
(* saved of a block of the chain is true, and when it need not be; and the *)
(* whole is the feed of SupplyFeed.                                        *)
(***************************************************************************)
EXTENDS CircSupply, SequenceTheorems, SumTheorems

-----------------------------------------------------------------------------
(* The chain.                                                              *)

LEMMA ChainInitInv == ChainInit => ChainInv
<1> SUFFICES ASSUME ChainInit PROVE ChainInv
  OBVIOUS
<1> DEFINE k == MaxReorgDepth + 1
<1>1. k \in Nat /\ 1 <= k /\ k <= MaxMined
  BY EthChainAssumption
<1>2. PICK v \in [Members -> 0 .. MaxAmount], w \in [Members -> 0 .. MaxAmount] :
        blocks = [n \in 1 .. k |->
                   [number |-> n, nonVested |-> v, balance |-> w, events |-> NoEvents]]
  BY DEF ChainInit
<1>3. chain = [n \in 1 .. k |-> n] /\ highest = k
  BY DEF ChainInit
<1>4. NoEvents \in [EventFilters -> SUBSET Members]
  BY DEF NoEvents
<1>5. v \in [Members -> Nat] /\ w \in [Members -> Nat]
  BY EthChainAssumption
<1> HIDE DEF k
<1>6. blocks \in Seq(Block) /\ Len(blocks) = k /\ DOMAIN blocks = 1 .. k
  BY <1>1, <1>2, <1>4, <1>5 DEF Block
<1>7. chain \in Seq(DOMAIN blocks) /\ Len(chain) = k /\ DOMAIN chain = 1 .. k
  BY <1>1, <1>3, <1>6
<1>8. \A n \in 1 .. k : blocks[n].number = n /\ chain[n] = n
  BY <1>2, <1>3
<1> QED
  BY <1>1, <1>3, <1>6, <1>7, <1>8, EthChainAssumption DEF ChainInv, ChainTypeOK, k

(* Every block that may follow a block is a block, numbered one higher.    *)
LEMMA SuccessorsAreBlocks ==
  ASSUME NEW b \in Block, NEW c \in Successors(b)
  PROVE  c \in Block /\ c.number = b.number + 1
<1>1. ASSUME NEW d, d = Empty(b)
      PROVE  d \in Block /\ d.number = b.number + 1
  <2>1. NoEvents \in [EventFilters -> SUBSET Members]
    BY DEF NoEvents
  <2>2. d = [number |-> b.number + 1, nonVested |-> b.nonVested,
             balance |-> b.balance, events |-> NoEvents]
    BY <1>1 DEF Empty, Block
  <2> QED
    BY <2>1, <2>2 DEF Block
<1>2. /\ b.number \in Nat /\ b.nonVested \in [Members -> Nat]
      /\ b.balance \in [Members -> Nat]
  BY DEF Block
<1>3. /\ Empty(b).nonVested = b.nonVested /\ Empty(b).balance = b.balance
      /\ Empty(b).events \in [EventFilters -> SUBSET Members]
  BY DEF Empty, Block, NoEvents
<1>4. ASSUME NEW m \in Members, NEW v \in [Members -> Nat], NEW w \in [Members -> Nat],
             NEW f \in EventFilters,
             c = [number |-> b.number + 1, nonVested |-> v, balance |-> w,
                  events |-> [NoEvents EXCEPT ![f] = {m}]]
      PROVE  c \in Block /\ c.number = b.number + 1
  BY <1>2, <1>4 DEF Block, NoEvents
<1>5. ASSUME NEW m \in Members, c = Granted(b, m)
      PROVE  c \in Block /\ c.number = b.number + 1
  <2> DEFINE v == [b.nonVested EXCEPT ![m] = @ + 1]
             w == [b.balance EXCEPT ![m] = @ + 1]
  <2>1. v \in [Members -> Nat] /\ w \in [Members -> Nat]
    BY <1>2
  <2>2. c = [number |-> b.number + 1, nonVested |-> v, balance |-> w,
             events |-> [NoEvents EXCEPT !["NewVesting"] = {m}]]
    BY <1>5 DEF Granted, Empty, Block
  <2> QED
    BY <2>1, <2>2, <1>4 DEF EventFilters, VestingFilters
<1>6. ASSUME NEW m \in Members, c = Revoked(b, m), b.nonVested[m] <= b.balance[m]
      PROVE  c \in Block /\ c.number = b.number + 1
  <2> DEFINE v == [b.nonVested EXCEPT ![m] = 0]
             w == [b.balance EXCEPT ![m] = @ - b.nonVested[m]]
  <2>1. v \in [Members -> Nat] /\ w \in [Members -> Nat]
    BY <1>2, <1>6
  <2>2. c = [number |-> b.number + 1, nonVested |-> v, balance |-> w,
             events |-> [NoEvents EXCEPT !["RevokeVesting"] = {m}]]
    BY <1>6 DEF Revoked, Empty, Block
  <2> QED
    BY <2>1, <2>2, <1>4 DEF EventFilters, VestingFilters
<1>7. ASSUME NEW m \in Members, c = Burned(b, m), b.balance[m] > 0
      PROVE  c \in Block /\ c.number = b.number + 1
  <2> DEFINE w == [b.balance EXCEPT ![m] = @ - 1]
  <2>1. w \in [Members -> Nat]
    BY <1>2, <1>7
  <2>2. c = [number |-> b.number + 1, nonVested |-> b.nonVested, balance |-> w,
             events |-> [NoEvents EXCEPT !["Burn"] = {m}]]
    BY <1>7 DEF Burned, Empty, Block
  <2> QED
    BY <2>1, <2>2, <1>2, <1>4 DEF EventFilters, BurnFilters
<1>8. ASSUME NEW m \in Members, c = Received(b, m)
      PROVE  c \in Block /\ c.number = b.number + 1
  <2> DEFINE w == [b.balance EXCEPT ![m] = @ + 1]
  <2>1. w \in [Members -> Nat] /\ NoEvents \in [EventFilters -> SUBSET Members]
    BY <1>2 DEF NoEvents
  <2>2. c = [number |-> b.number + 1, nonVested |-> b.nonVested, balance |-> w,
             events |-> NoEvents]
    BY <1>8 DEF Received, Empty, Block
  <2> QED
    BY <2>1, <2>2, <1>2 DEF Block
<1> QED
  BY <1>1, <1>5, <1>6, <1>7, <1>8 DEF Successors

(* What a new block does to the chain.                                     *)
LEMMA MineEffect ==
  ASSUME ChainInv, NEW b \in Successors(blocks[head]), Len(blocks) < MaxMined,
         blocks' = Append(blocks, b), chain' = Append(chain, Len(blocks) + 1),
         highest' = IF highest < b.number THEN b.number ELSE highest
  PROVE  /\ b \in Block /\ b.number = Len(chain) + 1
         /\ blocks' \in Seq(Block) /\ chain' \in Seq(DOMAIN blocks')
         /\ Len(blocks') = Len(blocks) + 1 /\ Len(chain') = Len(chain) + 1
         /\ blocks'[Len(blocks) + 1] = b /\ chain'[Len(chain) + 1] = Len(blocks) + 1
         /\ \A h \in 1 .. Len(blocks) : blocks'[h] = blocks[h]
         /\ \A n \in 1 .. Len(chain) : chain'[n] = chain[n]
<1>1. /\ blocks \in Seq(Block) /\ chain \in Seq(DOMAIN blocks)
      /\ DOMAIN blocks = 1 .. Len(blocks) /\ DOMAIN chain = 1 .. Len(chain)
      /\ Len(blocks) \in Nat /\ Len(chain) \in Nat /\ 1 <= Len(chain)
  BY DEF ChainInv, ChainTypeOK
<1>2. head \in DOMAIN blocks /\ blocks[head].number = Len(chain)
  BY <1>1 DEF head, ChainInv
<1>3. b \in Block /\ b.number = Len(chain) + 1
  BY <1>1, <1>2, SuccessorsAreBlocks
<1>4. /\ blocks' \in Seq(Block) /\ Len(blocks') = Len(blocks) + 1
      /\ blocks'[Len(blocks) + 1] = b
      /\ \A h \in 1 .. Len(blocks) : blocks'[h] = blocks[h]
  BY <1>1, <1>3, AppendProperties
<1>5. DOMAIN blocks' = 1 .. Len(blocks) + 1
  BY <1>1, <1>4
<1>6. chain \in Seq(DOMAIN blocks') /\ Len(blocks) + 1 \in DOMAIN blocks'
  <2>1. DOMAIN blocks \subseteq DOMAIN blocks'
    BY <1>1, <1>5
  <2> QED
    BY <1>1, <1>5, <2>1, SeqMonotonic
<1>7. /\ chain' \in Seq(DOMAIN blocks') /\ Len(chain') = Len(chain) + 1
      /\ chain'[Len(chain) + 1] = Len(blocks) + 1
      /\ \A n \in 1 .. Len(chain) : chain'[n] = chain[n]
  BY <1>6, AppendProperties
<1> QED
  BY <1>3, <1>4, <1>7

LEMMA MineChainInv == ASSUME ChainInv, Mine PROVE ChainInv'
<1>1. PICK b \in Successors(blocks[head]) :
        /\ blocks' = Append(blocks, b) /\ chain' = Append(chain, Len(blocks) + 1)
        /\ highest' = IF highest < b.number THEN b.number ELSE highest
  BY DEF Mine
<1>2. Len(blocks) < MaxMined
  BY DEF Mine
<1>3. /\ b \in Block /\ b.number = Len(chain) + 1
      /\ blocks' \in Seq(Block) /\ chain' \in Seq(DOMAIN blocks')
      /\ Len(blocks') = Len(blocks) + 1 /\ Len(chain') = Len(chain) + 1
      /\ blocks'[Len(blocks) + 1] = b /\ chain'[Len(chain) + 1] = Len(blocks) + 1
      /\ \A h \in 1 .. Len(blocks) : blocks'[h] = blocks[h]
      /\ \A n \in 1 .. Len(chain) : chain'[n] = chain[n]
  BY <1>1, <1>2, MineEffect
<1>4. /\ blocks \in Seq(Block) /\ chain \in Seq(DOMAIN blocks) /\ highest \in Nat
      /\ DOMAIN blocks = 1 .. Len(blocks) /\ DOMAIN chain = 1 .. Len(chain)
      /\ Len(blocks) \in Nat /\ Len(chain) \in Nat
      /\ 1 <= Len(chain) /\ Len(chain) <= highest /\ highest <= Len(blocks)
      /\ highest - MaxReorgDepth <= Len(chain)
      /\ \A n \in 1 .. Len(chain) : chain[n] \in 1 .. Len(blocks) /\ blocks[chain[n]].number = n
      /\ \A h \in 1 .. Len(blocks) : blocks[h].number \in 1 .. highest
  BY DEF ChainInv, ChainTypeOK
<1>5. /\ DOMAIN blocks' = 1 .. Len(blocks) + 1 /\ DOMAIN chain' = 1 .. Len(chain) + 1
  BY <1>3, <1>4
<1>6. /\ highest' \in Nat /\ Len(chain') <= highest' /\ highest' <= Len(blocks')
      /\ highest' - MaxReorgDepth <= Len(chain') /\ highest <= highest'
  BY <1>1, <1>3, <1>4, EthChainAssumption
<1>7. \A n \in DOMAIN chain' : blocks'[chain'[n]].number = n
  <2> TAKE n \in DOMAIN chain'
  <2>1. CASE n = Len(chain) + 1
    BY <2>1, <1>3
  <2>2. CASE n \in 1 .. Len(chain)
    BY <2>2, <1>3, <1>4
  <2> QED
    BY <1>4, <1>5, <2>1, <2>2
<1>8. \A h \in DOMAIN blocks' : blocks'[h].number \in 1 .. highest'
  <2> TAKE h \in DOMAIN blocks'
  <2>1. CASE h = Len(blocks) + 1
    BY <2>1, <1>3, <1>4, <1>6
  <2>2. CASE h \in 1 .. Len(blocks)
    <3>1. blocks'[h].number \in 1 .. highest
      BY <2>2, <1>3, <1>4
    <3> QED
      BY <3>1, <1>4, <1>6
  <2>3. h = Len(blocks) + 1 \/ h \in 1 .. Len(blocks)
    BY <1>4, <1>5
  <2> QED
    BY <2>1, <2>2, <2>3
<1>9. Len(blocks') <= MaxMined /\ 1 <= Len(chain')
  BY <1>2, <1>3, <1>4, EthChainAssumption
<1> QED
  BY <1>3, <1>6, <1>7, <1>8, <1>9 DEF ChainInv, ChainTypeOK

LEMMA ReorgChainInv ==
  ASSUME ChainInv, NEW m \in 1 .. MaxMined, Reorg(m)
  PROVE  /\ ChainInv'
         /\ Len(chain') = m /\ DOMAIN chain' = 1 .. m
         /\ \A n \in 1 .. m : n \in DOMAIN chain /\ chain'[n] = chain[n]
<1>1. /\ m < Len(chain) /\ highest - MaxReorgDepth <= m /\ chain' = SubSeq(chain, 1, m)
      /\ blocks' = blocks /\ highest' = highest
  BY DEF Reorg
<1>2. /\ blocks \in Seq(Block) /\ chain \in Seq(DOMAIN blocks) /\ highest \in Nat
      /\ DOMAIN chain = 1 .. Len(chain) /\ Len(chain) \in Nat /\ Len(chain) <= highest
      /\ m \in Nat /\ 1 <= m
  BY EthChainAssumption DEF ChainInv, ChainTypeOK
<1>3. /\ chain' \in Seq(DOMAIN blocks) /\ Len(chain') = m
      /\ \A n \in 1 .. m : chain'[n] = chain[n]
  BY <1>1, <1>2
<1>4. DOMAIN chain' = 1 .. m /\ \A n \in 1 .. m : n \in DOMAIN chain
  BY <1>1, <1>2, <1>3
<1>5. \A n \in DOMAIN chain' : blocks'[chain'[n]].number = n
  BY <1>1, <1>3, <1>4 DEF ChainInv
<1>6. ChainInv'
  BY <1>1, <1>2, <1>3, <1>5 DEF ChainInv, ChainTypeOK
<1> QED
  BY <1>3, <1>4, <1>6

-----------------------------------------------------------------------------
(* What eth_getLogs answers from.                                          *)

LEMMA LogShape ==
  ASSUME NEW b \in Seq(Block), NEW c \in Seq(DOMAIN b), NEW F \in SUBSET EventFilters
  PROVE  /\ [n \in DOMAIN c |-> [f \in F |-> b[c[n]].events[f]]]
              \in Seq([F -> SUBSET Members])
         /\ Len([n \in DOMAIN c |-> [f \in F |-> b[c[n]].events[f]]]) = Len(c)
<1> DEFINE e == [n \in DOMAIN c |-> [f \in F |-> b[c[n]].events[f]]]
<1>1. DOMAIN c = 1 .. Len(c) /\ Len(c) \in Nat
  OBVIOUS
<1>2. \A n \in 1 .. Len(c) : b[c[n]] \in Block
  BY <1>1
<1>3. \A n \in 1 .. Len(c) : [f \in F |-> b[c[n]].events[f]] \in [F -> SUBSET Members]
  BY <1>2 DEF Block
<1>4. e \in [1 .. Len(c) -> [F -> SUBSET Members]]
  BY <1>1, <1>3
<1> HIDE DEF e
<1>5. e \in Seq([F -> SUBSET Members]) /\ Len(e) = Len(c)
  BY <1>1, <1>4
<1> QED
  BY <1>5 DEF e

LEMMA EventLogType ==
  ASSUME ChainInv, NEW F \in SUBSET EventFilters
  PROVE  /\ EventLog(F) \in Seq([F -> SUBSET Members])
         /\ Len(EventLog(F)) = Len(chain)
  BY LogShape DEF ChainInv, ChainTypeOK, EventLog

(* A new block appends its events.                                         *)
LEMMA EventLogMine ==
  ASSUME ChainInv, Mine, NEW F \in SUBSET EventFilters
  PROVE  \E events \in [F -> SUBSET Members] :
           /\ EventLog(F)' = Append(EventLog(F), events)
           /\ Len(EventLog(F)) < MaxMined
           /\ highest' = IF highest < Len(EventLog(F)) + 1
                           THEN Len(EventLog(F)) + 1 ELSE highest
<1>1. PICK b \in Successors(blocks[head]) :
        /\ blocks' = Append(blocks, b) /\ chain' = Append(chain, Len(blocks) + 1)
        /\ highest' = IF highest < b.number THEN b.number ELSE highest
  BY DEF Mine
<1>2. Len(blocks) < MaxMined
  BY DEF Mine
<1>3. /\ b \in Block /\ b.number = Len(chain) + 1
      /\ blocks' \in Seq(Block) /\ chain' \in Seq(DOMAIN blocks')
      /\ Len(chain') = Len(chain) + 1
      /\ blocks'[Len(blocks) + 1] = b /\ chain'[Len(chain) + 1] = Len(blocks) + 1
      /\ \A h \in 1 .. Len(blocks) : blocks'[h] = blocks[h]
      /\ \A n \in 1 .. Len(chain) : chain'[n] = chain[n]
  BY <1>1, <1>2, MineEffect
<1> DEFINE e == [f \in F |-> b.events[f]]
<1>4. /\ Len(blocks) \in Nat /\ Len(chain) \in Nat /\ Len(chain) <= Len(blocks)
      /\ MaxMined \in Nat
      /\ DOMAIN chain = 1 .. Len(chain) /\ DOMAIN chain' = 1 .. Len(chain) + 1
      /\ \A n \in 1 .. Len(chain) : chain[n] \in 1 .. Len(blocks)
  BY <1>3, EthChainAssumption DEF ChainInv, ChainTypeOK
<1>5. e \in [F -> SUBSET Members]
  BY <1>3 DEF Block
<1>6. /\ EventLog(F) \in Seq([F -> SUBSET Members]) /\ Len(EventLog(F)) = Len(chain)
  BY EventLogType
<1>8. /\ EventLog(F)' \in Seq([F -> SUBSET Members]) /\ Len(EventLog(F)') = Len(chain')
  BY <1>3, LogShape DEF EventLog
<1>9. EventLog(F)' = Append(EventLog(F), e)
  <2>1. /\ Append(EventLog(F), e) \in Seq([F -> SUBSET Members])
        /\ Len(Append(EventLog(F), e)) = Len(chain) + 1
        /\ \A n \in 1 .. Len(chain) : Append(EventLog(F), e)[n] = EventLog(F)[n]
        /\ Append(EventLog(F), e)[Len(chain) + 1] = e
    BY <1>5, <1>6, AppendProperties
  <2>2. \A n \in 1 .. Len(chain) + 1 : EventLog(F)'[n] = Append(EventLog(F), e)[n]
    <3> TAKE n \in 1 .. Len(chain) + 1
    <3>1. EventLog(F)'[n] = [f \in F |-> blocks'[chain'[n]].events[f]]
      BY <1>4 DEF EventLog
    <3>2. CASE n \in 1 .. Len(chain)
      <4>1. EventLog(F)[n] = [f \in F |-> blocks[chain[n]].events[f]]
        BY <1>4, <3>2 DEF EventLog
      <4>2. blocks'[chain'[n]] = blocks[chain[n]]
        BY <1>3, <1>4, <3>2
      <4> QED
        BY <2>1, <3>1, <3>2, <4>1, <4>2
    <3>3. CASE n = Len(chain) + 1
      <4>1. blocks'[chain'[n]] = b
        BY <1>3, <3>3
      <4> QED
        BY <2>1, <3>1, <3>3, <4>1
    <3>4. n \in 1 .. Len(chain) \/ n = Len(chain) + 1
      BY <1>4
    <3> QED
      BY <3>2, <3>3, <3>4
  <2> HIDE DEF e
  <2> QED
    BY <1>3, <1>8, <2>1, <2>2, SeqEqual
<1> HIDE DEF e
<1> QED
  BY <1>1, <1>2, <1>3, <1>4, <1>5, <1>6, <1>9

(* A reorganisation takes the events above block m away.                   *)
LEMMA EventLogReorg ==
  ASSUME ChainInv, NEW m \in 1 .. MaxMined, Reorg(m), NEW F \in SUBSET EventFilters
  PROVE  EventLog(F)' = SubSeq(EventLog(F), 1, m)
<1>1. /\ ChainInv' /\ Len(chain') = m /\ DOMAIN chain' = 1 .. m
      /\ \A n \in 1 .. m : n \in DOMAIN chain /\ chain'[n] = chain[n]
  BY ReorgChainInv
<1>2. /\ m < Len(chain) /\ blocks' = blocks /\ m \in Nat /\ 1 <= m
      /\ Len(chain) \in Nat /\ DOMAIN chain = 1 .. Len(chain)
  BY DEF Reorg, ChainInv, ChainTypeOK
<1>3. EventLog(F) \in Seq([F -> SUBSET Members]) /\ Len(EventLog(F)) = Len(chain)
  BY EventLogType
<1>4. /\ EventLog(F)' \in Seq([F -> SUBSET Members]) /\ Len(EventLog(F)') = m
  BY <1>1, LogShape DEF EventLog, ChainInv, ChainTypeOK
<1>5. /\ SubSeq(EventLog(F), 1, m) \in Seq([F -> SUBSET Members])
      /\ Len(SubSeq(EventLog(F), 1, m)) = m
      /\ \A n \in 1 .. m : SubSeq(EventLog(F), 1, m)[n] = EventLog(F)[n]
  BY <1>2, <1>3
<1>6. \A n \in 1 .. m : EventLog(F)'[n] = EventLog(F)[n]
  BY <1>1, <1>2 DEF EventLog
<1> QED
  BY <1>4, <1>5, <1>6, SeqEqual
-----------------------------------------------------------------------------
(* Both services of the composition are the service of AddressScan.        *)

LEMMA MembersScanInit == Init => MembersService!Init
<1> SUFFICES ASSUME Init PROVE MembersService!Init
  OBVIOUS
<1>1. ChainInv
  BY ChainInitInv DEF Init
<1>2. /\ EventLog(VestingFilters) \in Seq([VestingFilters -> SUBSET Members])
      /\ Len(EventLog(VestingFilters)) = Len(chain)
  BY <1>1, EventLogType DEF EventFilters
<1>3. /\ chain = [n \in 1 .. MaxReorgDepth + 1 |-> n] /\ highest = MaxReorgDepth + 1
      /\ MaxReorgDepth + 1 \in Nat /\ 1 \in 0 .. MaxMined
  BY EthChainAssumption DEF Init, ChainInit
<1>4. Len(chain) = MaxReorgDepth + 1 /\ DOMAIN chain = 1 .. MaxReorgDepth + 1
  BY <1>3
<1>5. EventLog(VestingFilters) \in [1 .. MaxReorgDepth + 1 -> [VestingFilters -> SUBSET Members]]
  BY <1>2, <1>3, <1>4
<1>6. \A n \in DOMAIN EventLog(VestingFilters), f \in VestingFilters : EventLog(VestingFilters)[n][f] = {}
  <2>1. \A n \in 1 .. MaxReorgDepth + 1 : blocks[chain[n]].events = NoEvents
    BY <1>3 DEF Init, ChainInit
  <2> QED
    BY <2>1, <1>4 DEF EventLog, NoEvents, EventFilters
<1>7. snapshot \in [toBlock : {1}, vestingMembers : SUBSET Members,
                    burnsAddresses : SUBSET Members]
  BY DEF Init, LdoInit
<1>8. /\ EventLog(VestingFilters)
           \in UNION { [1 .. n -> [VestingFilters -> SUBSET Members]] : n \in 1 .. MaxReorgDepth + 1 }
      /\ highest = Len(EventLog(VestingFilters))
  <2> DEFINE k == MaxReorgDepth + 1
  <2>1. k \in Nat /\ k \in 1 .. k
    BY <1>3, EthChainAssumption
  <2> HIDE DEF k
  <2>2. EventLog(VestingFilters) \in [1 .. k -> [VestingFilters -> SUBSET Members]]
    BY <1>5 DEF k
  <2>3. EventLog(VestingFilters) \in UNION { [1 .. n -> [VestingFilters -> SUBSET Members]] : n \in 1 .. k }
    BY <2>1, <2>2
  <2> QED
    BY <2>3, <1>2, <1>3, <1>4 DEF k
<1>9. [toBlock |-> snapshot.toBlock, addresses |-> snapshot.vestingMembers] \in MembersService!Snapshots
  BY <1>3, <1>7 DEF MembersService!Snapshots
<1>10. MembersService!IsFinal(snapshot.toBlock)
  <2>1. snapshot.toBlock = 1
    BY <1>7
  <2>2. snapshot.toBlock + MaxReorgDepth <= highest
    BY <1>3, <2>1, EthChainAssumption
  <2> QED
    BY <2>2 DEF MembersService!IsFinal
<1>11. MembersService!SnapshotCovers
  BY <1>6 DEF MembersService!SnapshotCovers, MembersService!Covers
<1> QED
  BY <1>8, <1>9, <1>10, <1>11 DEF MembersService!Init, Init, LdoInit

LEMMA BurnsScanInit == Init => BurnsService!Init
<1> SUFFICES ASSUME Init PROVE BurnsService!Init
  OBVIOUS
<1>1. ChainInv
  BY ChainInitInv DEF Init
<1>2. /\ EventLog(BurnFilters) \in Seq([BurnFilters -> SUBSET Members])
      /\ Len(EventLog(BurnFilters)) = Len(chain)
  BY <1>1, EventLogType DEF EventFilters
<1>3. /\ chain = [n \in 1 .. MaxReorgDepth + 1 |-> n] /\ highest = MaxReorgDepth + 1
      /\ MaxReorgDepth + 1 \in Nat /\ 1 \in 0 .. MaxMined
  BY EthChainAssumption DEF Init, ChainInit
<1>4. Len(chain) = MaxReorgDepth + 1 /\ DOMAIN chain = 1 .. MaxReorgDepth + 1
  BY <1>3
<1>5. EventLog(BurnFilters) \in [1 .. MaxReorgDepth + 1 -> [BurnFilters -> SUBSET Members]]
  BY <1>2, <1>3, <1>4
<1>6. \A n \in DOMAIN EventLog(BurnFilters), f \in BurnFilters : EventLog(BurnFilters)[n][f] = {}
  <2>1. \A n \in 1 .. MaxReorgDepth + 1 : blocks[chain[n]].events = NoEvents
    BY <1>3 DEF Init, ChainInit
  <2> QED
    BY <2>1, <1>4 DEF EventLog, NoEvents, EventFilters
<1>7. snapshot \in [toBlock : {1}, vestingMembers : SUBSET Members,
                    burnsAddresses : SUBSET Members]
  BY DEF Init, LdoInit
<1>8. /\ EventLog(BurnFilters)
           \in UNION { [1 .. n -> [BurnFilters -> SUBSET Members]] : n \in 1 .. MaxReorgDepth + 1 }
      /\ highest = Len(EventLog(BurnFilters))
  <2> DEFINE k == MaxReorgDepth + 1
  <2>1. k \in Nat /\ k \in 1 .. k
    BY <1>3, EthChainAssumption
  <2> HIDE DEF k
  <2>2. EventLog(BurnFilters) \in [1 .. k -> [BurnFilters -> SUBSET Members]]
    BY <1>5 DEF k
  <2>3. EventLog(BurnFilters) \in UNION { [1 .. n -> [BurnFilters -> SUBSET Members]] : n \in 1 .. k }
    BY <2>1, <2>2
  <2> QED
    BY <2>3, <1>2, <1>3, <1>4 DEF k
<1>9. [toBlock |-> snapshot.toBlock, addresses |-> snapshot.burnsAddresses] \in BurnsService!Snapshots
  BY <1>3, <1>7 DEF BurnsService!Snapshots
<1>10. BurnsService!IsFinal(snapshot.toBlock)
  <2>1. snapshot.toBlock = 1
    BY <1>7
  <2>2. snapshot.toBlock + MaxReorgDepth <= highest
    BY <1>3, <2>1, EthChainAssumption
  <2> QED
    BY <2>2 DEF BurnsService!IsFinal
<1>11. BurnsService!SnapshotCovers
  BY <1>6 DEF BurnsService!SnapshotCovers, BurnsService!Covers
<1> QED
  BY <1>8, <1>9, <1>10, <1>11 DEF BurnsService!Init, Init, LdoInit

LEMMA MembersScanStep ==
  ASSUME ChainInv, [Next]_vars PROVE [MembersService!Next]_(MembersService!vars)
<1> USE DEF ldoVars, workerVars, membersVars, burnsVars
<1>1. ASSUME chainVars' = chainVars, snapshot' = snapshot
      PROVE  /\ EventLog(VestingFilters)' = EventLog(VestingFilters) /\ highest' = highest
             /\ [toBlock |-> snapshot.toBlock, addresses |-> snapshot.vestingMembers]'
                  = [toBlock |-> snapshot.toBlock, addresses |-> snapshot.vestingMembers]
  BY <1>1 DEF EventLog, chainVars
<1>2. ASSUME UNCHANGED <<chainVars, snapshot, membersVars>>
      PROVE  UNCHANGED MembersService!vars
  BY <1>1, <1>2 DEF MembersService!vars
<1>3. ASSUME NEW r \in Runs, UNCHANGED <<chainVars, snapshot>>,
             \/ \E toBlock \in 1 .. highest : MembersService!StartScan(r, toBlock)
             \/ \E q \in membersScan[r].queries : MembersService!ServeQuery(r, q)
             \/ MembersService!CompleteScan(r)
             \/ MembersService!FailScan(r)
      PROVE  MembersService!Next
  BY <1>1, <1>3 DEF MembersService!Next, MembersService!ServiceStep
<1>4. CASE MineBlock
  <2>1. PICK events \in [VestingFilters -> SUBSET Members] :
           /\ EventLog(VestingFilters)' = Append(EventLog(VestingFilters), events)
           /\ Len(EventLog(VestingFilters)) < MaxMined
           /\ highest' = IF highest < Len(EventLog(VestingFilters)) + 1
                           THEN Len(EventLog(VestingFilters)) + 1 ELSE highest
    BY <1>4, EventLogMine DEF MineBlock, EventFilters
  <2>2. MembersService!Mine(events)
    BY <2>1 DEF MembersService!Mine
  <2>3. UNCHANGED <<snapshot, membersVars>>
    BY <1>4 DEF MineBlock
  <2> QED
    BY <2>2, <2>3 DEF MembersService!Next, MembersService!ChainStep
<1>5. CASE ReorgHead
  <2>1. PICK m \in 1 .. MaxMined : Reorg(m)
    BY <1>5 DEF ReorgHead
  <2>2. EventLog(VestingFilters)' = SubSeq(EventLog(VestingFilters), 1, m)
    BY <2>1, EventLogReorg DEF EventFilters
  <2>3. Len(EventLog(VestingFilters)) = Len(chain)
    BY EventLogType DEF EventFilters
  <2>4. MembersService!Reorg(m)
    BY <2>1, <2>2, <2>3 DEF Reorg, MembersService!Reorg
  <2>5. UNCHANGED <<snapshot, membersVars>>
    BY <1>5 DEF ReorgHead
  <2> QED
    BY <2>4, <2>5 DEF MembersService!Next, MembersService!ChainStep
<1>6. ASSUME NEW r \in Runs, BeginCycle(r) PROVE MembersService!Next
  <2>1. blocks[head].number = Len(chain) /\ Len(chain) \in 1 .. highest
    BY DEF ChainInv, ChainTypeOK, head
  <2>2. MembersService!StartScan(r, blocks[head].number) /\ UNCHANGED <<chainVars, snapshot>>
    BY <1>6 DEF BeginCycle, StartCall
  <2> QED
    BY <1>3, <2>1, <2>2
<1>7. ASSUME NEW r \in Runs, ProgressLdo(r) PROVE [MembersService!Next]_(MembersService!vars)
  <2> USE <1>7 DEF ProgressLdo
  <2>1. CASE ServeMembersQuery(r)
    BY <1>3, <2>1 DEF ServeMembersQuery
  <2>2. CASE CompleteMembers(r)
    BY <1>3, <2>2 DEF CompleteMembers
  <2>3. CASE ServeBurnsQuery(r) \/ CompleteBurns(r)
    BY <1>2, <2>3 DEF ServeBurnsQuery, CompleteBurns
  <2>4. CASE ServeSupply(r) \/ StartFetches(r) \/ MergeVestings(r)
             \/ ServeBalances(r) \/ Calculate(r)
    BY <1>2, <2>4 DEF ServeSupply, StartFetches, MergeVestings, ServeBalances, Calculate
  <2> QED
    BY <2>1, <2>2, <2>3, <2>4 DEF LdoProgress
<1>8. ASSUME NEW r \in Runs, FailLdoRequest(r) PROVE [MembersService!Next]_(MembersService!vars)
  <2> USE <1>8 DEF FailLdoRequest
  <2>1. CASE FailMembers(r)
    BY <1>3, <2>1 DEF FailMembers
  <2>2. CASE FailBurns(r) \/ FailRead(r)
    BY <1>2, <2>2 DEF FailBurns, FailRead
  <2> QED
    BY <2>1, <2>2 DEF LdoFailure
<1>9. ASSUME NEW r \in Runs,
             SaveLdo(r) \/ SaveOther(r) \/ EndCycle(r) \/ RejectLdo(r) \/ FailOther(r)
      PROVE  UNCHANGED MembersService!vars
  BY <1>2, <1>9 DEF SaveLdo, SaveOther, EndCycle, RejectLdo, FailOther
<1>10. CASE UNCHANGED vars
  BY <1>2, <1>10 DEF vars
<1> QED
  BY <1>4, <1>5, <1>6, <1>7, <1>8, <1>9, <1>10 DEF Next, Progress

LEMMA BurnsScanStep ==
  ASSUME ChainInv, [Next]_vars PROVE [BurnsService!Next]_(BurnsService!vars)
<1> USE DEF ldoVars, workerVars, membersVars, burnsVars
<1>1. ASSUME chainVars' = chainVars, snapshot' = snapshot
      PROVE  /\ EventLog(BurnFilters)' = EventLog(BurnFilters) /\ highest' = highest
             /\ [toBlock |-> snapshot.toBlock, addresses |-> snapshot.burnsAddresses]'
                  = [toBlock |-> snapshot.toBlock, addresses |-> snapshot.burnsAddresses]
  BY <1>1 DEF EventLog, chainVars
<1>2. ASSUME UNCHANGED <<chainVars, snapshot, burnsVars>>
      PROVE  UNCHANGED BurnsService!vars
  BY <1>1, <1>2 DEF BurnsService!vars
<1>3. ASSUME NEW r \in Runs, UNCHANGED <<chainVars, snapshot>>,
             \/ \E toBlock \in 1 .. highest : BurnsService!StartScan(r, toBlock)
             \/ \E q \in burnsScan[r].queries : BurnsService!ServeQuery(r, q)
             \/ BurnsService!CompleteScan(r)
             \/ BurnsService!FailScan(r)
      PROVE  BurnsService!Next
  BY <1>1, <1>3 DEF BurnsService!Next, BurnsService!ServiceStep
<1>4. CASE MineBlock
  <2>1. PICK events \in [BurnFilters -> SUBSET Members] :
           /\ EventLog(BurnFilters)' = Append(EventLog(BurnFilters), events)
           /\ Len(EventLog(BurnFilters)) < MaxMined
           /\ highest' = IF highest < Len(EventLog(BurnFilters)) + 1
                           THEN Len(EventLog(BurnFilters)) + 1 ELSE highest
    BY <1>4, EventLogMine DEF MineBlock, EventFilters
  <2>2. BurnsService!Mine(events)
    BY <2>1 DEF BurnsService!Mine
  <2>3. UNCHANGED <<snapshot, burnsVars>>
    BY <1>4 DEF MineBlock
  <2> QED
    BY <2>2, <2>3 DEF BurnsService!Next, BurnsService!ChainStep
<1>5. CASE ReorgHead
  <2>1. PICK m \in 1 .. MaxMined : Reorg(m)
    BY <1>5 DEF ReorgHead
  <2>2. EventLog(BurnFilters)' = SubSeq(EventLog(BurnFilters), 1, m)
    BY <2>1, EventLogReorg DEF EventFilters
  <2>3. Len(EventLog(BurnFilters)) = Len(chain)
    BY EventLogType DEF EventFilters
  <2>4. BurnsService!Reorg(m)
    BY <2>1, <2>2, <2>3 DEF Reorg, BurnsService!Reorg
  <2>5. UNCHANGED <<snapshot, burnsVars>>
    BY <1>5 DEF ReorgHead
  <2> QED
    BY <2>4, <2>5 DEF BurnsService!Next, BurnsService!ChainStep
<1>6. ASSUME NEW r \in Runs, BeginCycle(r) PROVE BurnsService!Next
  <2>1. blocks[head].number = Len(chain) /\ Len(chain) \in 1 .. highest
    BY DEF ChainInv, ChainTypeOK, head
  <2>2. BurnsService!StartScan(r, blocks[head].number) /\ UNCHANGED <<chainVars, snapshot>>
    BY <1>6 DEF BeginCycle, StartCall
  <2> QED
    BY <1>3, <2>1, <2>2
<1>7. ASSUME NEW r \in Runs, ProgressLdo(r) PROVE [BurnsService!Next]_(BurnsService!vars)
  <2> USE <1>7 DEF ProgressLdo
  <2>1. CASE ServeBurnsQuery(r)
    BY <1>3, <2>1 DEF ServeBurnsQuery
  <2>2. CASE CompleteBurns(r)
    BY <1>3, <2>2 DEF CompleteBurns
  <2>3. CASE ServeMembersQuery(r) \/ CompleteMembers(r)
    BY <1>2, <2>3 DEF ServeMembersQuery, CompleteMembers
  <2>4. CASE ServeSupply(r) \/ StartFetches(r) \/ MergeVestings(r)
             \/ ServeBalances(r) \/ Calculate(r)
    BY <1>2, <2>4 DEF ServeSupply, StartFetches, MergeVestings, ServeBalances, Calculate
  <2> QED
    BY <2>1, <2>2, <2>3, <2>4 DEF LdoProgress
<1>8. ASSUME NEW r \in Runs, FailLdoRequest(r) PROVE [BurnsService!Next]_(BurnsService!vars)
  <2> USE <1>8 DEF FailLdoRequest
  <2>1. CASE FailBurns(r)
    BY <1>3, <2>1 DEF FailBurns
  <2>2. CASE FailMembers(r) \/ FailRead(r)
    BY <1>2, <2>2 DEF FailMembers, FailRead
  <2> QED
    BY <2>1, <2>2 DEF LdoFailure
<1>9. ASSUME NEW r \in Runs,
             SaveLdo(r) \/ SaveOther(r) \/ EndCycle(r) \/ RejectLdo(r) \/ FailOther(r)
      PROVE  UNCHANGED BurnsService!vars
  BY <1>2, <1>9 DEF SaveLdo, SaveOther, EndCycle, RejectLdo, FailOther
<1>10. CASE UNCHANGED vars
  BY <1>2, <1>10 DEF vars
<1> QED
  BY <1>4, <1>5, <1>6, <1>7, <1>8, <1>9, <1>10 DEF Next, Progress

LEMMA ChainStepInv == ASSUME ChainInv, [Next]_vars PROVE ChainInv'
<1>1. ASSUME UNCHANGED chainVars PROVE ChainInv'
  BY <1>1 DEF chainVars, ChainInv, ChainTypeOK
<1>2. CASE MineBlock
  BY <1>2, MineChainInv DEF MineBlock
<1>3. CASE ReorgHead
  BY <1>3, ReorgChainInv DEF ReorgHead
<1>4. ASSUME NEW r \in Runs,
             BeginCycle(r) \/ Progress(r) \/ FailLdoRequest(r) \/ FailOther(r)
      PROVE  UNCHANGED chainVars
  BY <1>4 DEF BeginCycle, Progress, ProgressLdo, SaveLdo, SaveOther, EndCycle, RejectLdo,
              FailLdoRequest, FailOther
<1> QED
  BY <1>1, <1>2, <1>3, <1>4 DEF Next, vars

THEOREM ChainInvariance == Spec => []ChainInv
<1>1. Init => ChainInv
  BY ChainInitInv DEF Init
<1>2. ChainInv /\ [Next]_vars => ChainInv'
  BY ChainStepInv
<1> QED
  BY <1>1, <1>2, PTL DEF Spec

(* The members scan and the burns scan, as the update cycles of the        *)
(* service drive them, do nothing the scan of AddressScan does not do      *)
(* (vesting.service.ts:27, with ldo.service.ts:34 and worker.service.ts:58). *)
THEOREM ScansRefine == Spec => ScansAreScans
<1>1. Init => MembersService!Init /\ BurnsService!Init
  BY MembersScanInit, BurnsScanInit
<1>2. ChainInv /\ [Next]_vars =>
        [MembersService!Next]_(MembersService!vars) /\ [BurnsService!Next]_(BurnsService!vars)
  BY MembersScanStep, BurnsScanStep
<1> QED
  BY <1>1, <1>2, ChainInvariance, PTL
     DEF Spec, ScansAreScans, MembersService!Spec, BurnsService!Spec
-----------------------------------------------------------------------------
(* What AddressScanProofs shows of one scan, for both.                     *)

MembersProofs == INSTANCE AddressScanProofs WITH
  Addresses <- Members, Filters <- VestingFilters, MaxBlock <- MaxMined,
  NoNumber <- None,
  log <- EventLog(VestingFilters),
  snapshot <- [toBlock |-> snapshot.toBlock, addresses |-> snapshot.vestingMembers],
  addresses <- membersAddresses,
  lastFetchedBlock <- membersLastFetchedBlock,
  scan <- membersScan

BurnsProofs == INSTANCE AddressScanProofs WITH
  Addresses <- Members, Filters <- BurnFilters, MaxBlock <- MaxMined,
  NoNumber <- None,
  log <- EventLog(BurnFilters),
  snapshot <- [toBlock |-> snapshot.toBlock, addresses |-> snapshot.burnsAddresses],
  addresses <- burnsAddresses,
  lastFetchedBlock <- burnsLastFetchedBlock,
  scan <- burnsScan

LEMMA MembersScanInvariance == Spec => []MembersService!IInv
<1>1. MembersProofs!AddressScanAssumption
  BY EthChainAssumption, LdoServiceAssumption DEF MembersProofs!AddressScanAssumption
<1>2. MembersProofs!Spec => []MembersProofs!IInv
  BY <1>1, MembersProofs!Invariance
<1>3. MembersService!Init => MembersProofs!Init
  BY DEF MembersService!Init, MembersService!Snapshots,
         MembersService!IsFinal, MembersService!SnapshotCovers,
         MembersService!Covers, MembersService!NoScan,
         MembersProofs!Init, MembersProofs!Snapshots,
         MembersProofs!IsFinal, MembersProofs!SnapshotCovers,
         MembersProofs!Covers, MembersProofs!NoScan
<1>4. [MembersService!Next]_(MembersService!vars) => [MembersProofs!Next]_(MembersProofs!vars)
  <2>1. MembersService!ChainStep => MembersProofs!ChainStep
    BY DEF MembersService!ChainStep, MembersService!Mine,
           MembersService!Reorg, MembersProofs!ChainStep,
           MembersProofs!Mine, MembersProofs!Reorg
  <2>2. MembersService!FirstBlock = MembersProofs!FirstBlock
    BY DEF MembersService!FirstBlock, MembersProofs!FirstBlock
  <2>3. ASSUME NEW first, NEW last
        PROVE  MembersService!Queries(first, last) = MembersProofs!Queries(first, last)
    BY DEF MembersService!Queries, MembersService!Chunks,
           MembersService!ChunkStart, MembersService!ChunkEnd,
           MembersService!ChunkCount, MembersProofs!Queries,
           MembersProofs!Chunks, MembersProofs!ChunkStart,
           MembersProofs!ChunkEnd, MembersProofs!ChunkCount
  <2>4. ASSUME NEW r, NEW n
        PROVE  MembersService!StartScan(r, n) => MembersProofs!StartScan(r, n)
    BY <2>2, <2>3 DEF MembersService!StartScan, MembersService!Scanning,
           MembersService!NoScan, MembersProofs!StartScan,
           MembersProofs!Scanning, MembersProofs!NoScan
  <2>5. ASSUME NEW r, NEW q
        PROVE  MembersService!ServeQuery(r, q) => MembersProofs!ServeQuery(r, q)
    BY DEF MembersService!ServeQuery, MembersService!Answer,
           MembersProofs!ServeQuery, MembersProofs!Answer
  <2>6. ASSUME NEW r
        PROVE  /\ MembersService!CompleteScan(r) => MembersProofs!CompleteScan(r)
               /\ MembersService!FailScan(r) => MembersProofs!FailScan(r)
    BY DEF MembersService!CompleteScan, MembersService!FailScan,
           MembersService!Scanning, MembersService!NoScan,
           MembersProofs!CompleteScan, MembersProofs!FailScan,
           MembersProofs!Scanning, MembersProofs!NoScan
  <2>7. MembersService!Restart => MembersProofs!Restart
    BY DEF MembersService!Restart, MembersService!StartProcess,
           MembersService!Snapshots, MembersService!IsFinal,
           MembersService!Covers, MembersService!NoScan,
           MembersProofs!Restart, MembersProofs!StartProcess,
           MembersProofs!Snapshots, MembersProofs!IsFinal,
           MembersProofs!Covers, MembersProofs!NoScan
  <2>8. ASSUME NEW r
        PROVE  MembersService!ServiceStep(r) => MembersProofs!ServiceStep(r)
    BY <2>4, <2>5, <2>6 DEF MembersService!ServiceStep, MembersProofs!ServiceStep
  <2>9. UNCHANGED MembersService!vars => UNCHANGED MembersProofs!vars
    BY DEF MembersService!vars, MembersProofs!vars
  <2> QED
    BY <2>1, <2>7, <2>8, <2>9 DEF MembersService!Next, MembersProofs!Next
<1>5. MembersProofs!IInv => MembersService!IInv
  BY DEF MembersService!IInv, MembersService!TypeOK,
         MembersService!NodeInv, MembersService!SnapshotCovers,
         MembersService!CursorInv, MembersService!ScanInv,
         MembersService!Coverage, MembersService!Snapshots,
         MembersService!ScanType, MembersService!Query,
         MembersService!NoScan, MembersService!IsFinal,
         MembersService!Covers, MembersService!Scanning,
         MembersService!Pending, MembersProofs!IInv,
         MembersProofs!TypeOK, MembersProofs!NodeInv,
         MembersProofs!SnapshotCovers, MembersProofs!CursorInv,
         MembersProofs!ScanInv, MembersProofs!Coverage,
         MembersProofs!Snapshots, MembersProofs!ScanType,
         MembersProofs!Query, MembersProofs!NoScan,
         MembersProofs!IsFinal, MembersProofs!Covers,
         MembersProofs!Scanning, MembersProofs!Pending
<1> QED
  BY <1>2, <1>3, <1>4, <1>5, ScansRefine, PTL
     DEF ScansAreScans, MembersService!Spec, MembersProofs!Spec

LEMMA BurnsScanInvariance == Spec => []BurnsService!IInv
<1>1. BurnsProofs!AddressScanAssumption
  BY EthChainAssumption, LdoServiceAssumption DEF BurnsProofs!AddressScanAssumption
<1>2. BurnsProofs!Spec => []BurnsProofs!IInv
  BY <1>1, BurnsProofs!Invariance
<1>3. BurnsService!Init => BurnsProofs!Init
  BY DEF BurnsService!Init, BurnsService!Snapshots,
         BurnsService!IsFinal, BurnsService!SnapshotCovers,
         BurnsService!Covers, BurnsService!NoScan, BurnsProofs!Init,
         BurnsProofs!Snapshots, BurnsProofs!IsFinal,
         BurnsProofs!SnapshotCovers, BurnsProofs!Covers,
         BurnsProofs!NoScan
<1>4. [BurnsService!Next]_(BurnsService!vars) => [BurnsProofs!Next]_(BurnsProofs!vars)
  <2>1. BurnsService!ChainStep => BurnsProofs!ChainStep
    BY DEF BurnsService!ChainStep, BurnsService!Mine,
           BurnsService!Reorg, BurnsProofs!ChainStep,
           BurnsProofs!Mine, BurnsProofs!Reorg
  <2>2. BurnsService!FirstBlock = BurnsProofs!FirstBlock
    BY DEF BurnsService!FirstBlock, BurnsProofs!FirstBlock
  <2>3. ASSUME NEW first, NEW last
        PROVE  BurnsService!Queries(first, last) = BurnsProofs!Queries(first, last)
    BY DEF BurnsService!Queries, BurnsService!Chunks,
           BurnsService!ChunkStart, BurnsService!ChunkEnd,
           BurnsService!ChunkCount, BurnsProofs!Queries,
           BurnsProofs!Chunks, BurnsProofs!ChunkStart,
           BurnsProofs!ChunkEnd, BurnsProofs!ChunkCount
  <2>4. ASSUME NEW r, NEW n
        PROVE  BurnsService!StartScan(r, n) => BurnsProofs!StartScan(r, n)
    BY <2>2, <2>3 DEF BurnsService!StartScan, BurnsService!Scanning,
           BurnsService!NoScan, BurnsProofs!StartScan,
           BurnsProofs!Scanning, BurnsProofs!NoScan
  <2>5. ASSUME NEW r, NEW q
        PROVE  BurnsService!ServeQuery(r, q) => BurnsProofs!ServeQuery(r, q)
    BY DEF BurnsService!ServeQuery, BurnsService!Answer,
           BurnsProofs!ServeQuery, BurnsProofs!Answer
  <2>6. ASSUME NEW r
        PROVE  /\ BurnsService!CompleteScan(r) => BurnsProofs!CompleteScan(r)
               /\ BurnsService!FailScan(r) => BurnsProofs!FailScan(r)
    BY DEF BurnsService!CompleteScan, BurnsService!FailScan,
           BurnsService!Scanning, BurnsService!NoScan,
           BurnsProofs!CompleteScan, BurnsProofs!FailScan,
           BurnsProofs!Scanning, BurnsProofs!NoScan
  <2>7. BurnsService!Restart => BurnsProofs!Restart
    BY DEF BurnsService!Restart, BurnsService!StartProcess,
           BurnsService!Snapshots, BurnsService!IsFinal,
           BurnsService!Covers, BurnsService!NoScan,
           BurnsProofs!Restart, BurnsProofs!StartProcess,
           BurnsProofs!Snapshots, BurnsProofs!IsFinal,
           BurnsProofs!Covers, BurnsProofs!NoScan
  <2>8. ASSUME NEW r
        PROVE  BurnsService!ServiceStep(r) => BurnsProofs!ServiceStep(r)
    BY <2>4, <2>5, <2>6 DEF BurnsService!ServiceStep, BurnsProofs!ServiceStep
  <2>9. UNCHANGED BurnsService!vars => UNCHANGED BurnsProofs!vars
    BY DEF BurnsService!vars, BurnsProofs!vars
  <2> QED
    BY <2>1, <2>7, <2>8, <2>9 DEF BurnsService!Next, BurnsProofs!Next
<1>5. BurnsProofs!IInv => BurnsService!IInv
  BY DEF BurnsService!IInv, BurnsService!TypeOK, BurnsService!NodeInv,
         BurnsService!SnapshotCovers, BurnsService!CursorInv,
         BurnsService!ScanInv, BurnsService!Coverage,
         BurnsService!Snapshots, BurnsService!ScanType,
         BurnsService!Query, BurnsService!NoScan,
         BurnsService!IsFinal, BurnsService!Covers,
         BurnsService!Scanning, BurnsService!Pending,
         BurnsProofs!IInv, BurnsProofs!TypeOK, BurnsProofs!NodeInv,
         BurnsProofs!SnapshotCovers, BurnsProofs!CursorInv,
         BurnsProofs!ScanInv, BurnsProofs!Coverage,
         BurnsProofs!Snapshots, BurnsProofs!ScanType,
         BurnsProofs!Query, BurnsProofs!NoScan, BurnsProofs!IsFinal,
         BurnsProofs!Covers, BurnsProofs!Scanning,
         BurnsProofs!Pending
<1> QED
  BY <1>2, <1>3, <1>4, <1>5, ScansRefine, PTL
     DEF ScansAreScans, BurnsService!Spec, BurnsProofs!Spec

(* No final address is ever missed by a scan, however the update cycles    *)
(* drive the two services, and whatever requests fail or outlive their     *)
(* cycle (ldo-burns.service.ts:31, vesting-members.service.ts:34).         *)
THEOREM ScansCover == Spec => [](MembersService!Coverage /\ BurnsService!Coverage)
<1>1. MembersService!IInv => MembersService!Coverage
  BY DEF MembersService!IInv
<1>2. BurnsService!IInv => BurnsService!Coverage
  BY DEF BurnsService!IInv
<1> QED
  BY <1>1, <1>2, MembersScanInvariance, BurnsScanInvariance, PTL

-----------------------------------------------------------------------------
(* From the scan of a call to its result.                                  *)

(* call is a record for each slot.                                         *)
CallShape ==
  DOMAIN call = Runs /\ \A r \in Runs : DOMAIN call[r] = DOMAIN NoCall

CoverIInv ==
  /\ ChainInv
  /\ MembersService!IInv
  /\ CallShape
  /\ SnapshotInv
  /\ CallInv

LEMMA CallUpdate ==
  ASSUME CallShape, NEW r \in Runs, NEW c, DOMAIN c = DOMAIN NoCall,
         call' = [call EXCEPT ![r] = c]
  PROVE  /\ CallShape' /\ call'[r] = c
         /\ \A t \in Runs : t # r => call'[t] = call[t]
  BY DEF CallShape

(* The blocks that are final below a block, and the block itself, stay.    *)
LEMMA FinalBlocksStay ==
  ASSUME ChainInv, MineBlock \/ ReorgHead, NEW h \in DOMAIN blocks
  PROVE  /\ h \in DOMAIN blocks' /\ blocks'[h] = blocks[h]
         /\ \A n \in DOMAIN chain' : n + MaxReorgDepth <= blocks[h].number =>
              n \in DOMAIN chain /\ blocks'[chain'[n]] = blocks[chain[n]]
<1>1. /\ DOMAIN blocks = 1 .. Len(blocks) /\ Len(blocks) \in Nat
      /\ DOMAIN chain = 1 .. Len(chain) /\ Len(chain) \in Nat
      /\ \A n \in DOMAIN chain : chain[n] \in DOMAIN blocks
      /\ highest \in Nat /\ MaxReorgDepth \in Nat /\ highest - MaxReorgDepth <= Len(chain)
      /\ blocks[h].number \in 1 .. highest
  BY EthChainAssumption DEF ChainInv, ChainTypeOK
<1>2. CASE MineBlock
  <2>1. PICK b \in Successors(blocks[head]) :
          /\ blocks' = Append(blocks, b) /\ chain' = Append(chain, Len(blocks) + 1)
          /\ highest' = IF highest < b.number THEN b.number ELSE highest
    BY <1>2 DEF MineBlock, Mine
  <2>2. Len(blocks) < MaxMined
    BY <1>2 DEF MineBlock, Mine
  <2>3. /\ blocks' \in Seq(Block) /\ chain' \in Seq(DOMAIN blocks')
        /\ Len(blocks') = Len(blocks) + 1 /\ Len(chain') = Len(chain) + 1
        /\ \A g \in 1 .. Len(blocks) : blocks'[g] = blocks[g]
        /\ \A n \in 1 .. Len(chain) : chain'[n] = chain[n]
    BY <2>1, <2>2, MineEffect
  <2>4. DOMAIN blocks' = 1 .. Len(blocks) + 1 /\ DOMAIN chain' = 1 .. Len(chain) + 1
    BY <2>3, <1>1
  <2>5. ASSUME NEW n \in DOMAIN chain', n + MaxReorgDepth <= blocks[h].number
        PROVE  n \in DOMAIN chain
    BY <1>1, <2>4, <2>5
  <2> QED
    BY <1>1, <2>3, <2>4, <2>5
<1>3. CASE ReorgHead
  <2>1. PICK m \in 1 .. MaxMined : Reorg(m)
    BY <1>3 DEF ReorgHead
  <2>2. /\ DOMAIN chain' = 1 .. m
        /\ \A n \in 1 .. m : n \in DOMAIN chain /\ chain'[n] = chain[n]
    BY <2>1, ReorgChainInv
  <2> QED
    BY <1>1, <2>1, <2>2 DEF Reorg
<1> QED
  BY <1>2, <1>3

(* What is known of a call survives what others do.                        *)
LEMMA CallKept ==
  ASSUME NEW t \in Runs, CallOK(t), call'[t] = call[t], membersScan'[t] = membersScan[t],
         UNCHANGED <<chainVars, snapshot>>, membersAddresses \subseteq membersAddresses',
         \A m \in Members : membersVestings[m] # None => membersVestings'[m] # None
  PROVE  CallOK(t)'
  BY DEF CallOK, Running, KnowsFinalMembers, Cached, MembersService!Scanning,
         MembersService!NoScan, chainVars

LEMMA ChainKeepsCalls ==
  ASSUME ChainInv, CallInv, MineBlock \/ ReorgHead PROVE CallInv'
<1>1. UNCHANGED ldoVars
  BY DEF MineBlock, ReorgHead
<1> SUFFICES ASSUME NEW t \in Runs PROVE CallOK(t)'
  BY DEF CallInv
<1>2. CallOK(t)
  BY DEF CallInv
<1>3. CASE call[t].hash \in DOMAIN blocks
  <2>1. /\ call[t].hash \in DOMAIN blocks'
        /\ blocks'[call[t].hash] = blocks[call[t].hash]
        /\ \A n \in DOMAIN chain' : n + MaxReorgDepth <= blocks[call[t].hash].number =>
              n \in DOMAIN chain /\ blocks'[chain'[n]] = blocks[chain[n]]
    BY <1>3, FinalBlocksStay
  <2>2. ASSUME NEW K, KnowsFinalMembers(K, t)
        PROVE  /\ snapshot'.vestingMembers \subseteq K
               /\ \A n \in DOMAIN chain', f \in VestingFilters :
                    n + MaxReorgDepth <= blocks'[call'[t].hash].number =>
                      blocks'[chain'[n]].events[f] \subseteq K
    BY <1>1, <2>1, <2>2 DEF KnowsFinalMembers, ldoVars
  <2>3. /\ KnowsFinalMembers(membersAddresses, t) => KnowsFinalMembers(membersAddresses, t)'
        /\ KnowsFinalMembers(Cached, t) => KnowsFinalMembers(Cached, t)'
        /\ KnowsFinalMembers(Cached \cup call[t].toFetch, t) =>
             KnowsFinalMembers(Cached \cup call[t].toFetch, t)'
    BY <1>1, <2>2 DEF KnowsFinalMembers, ldoVars, Cached
  <2> QED
    BY <1>1, <1>2, <2>1, <2>3 DEF CallOK, Running, ldoVars, Cached, MembersService!Scanning,
       MembersService!NoScan
<1>4. CASE call[t].running = {} /\ call[t].locked = None
  BY <1>1, <1>2, <1>4 DEF CallOK, Running, ldoVars, MembersService!Scanning,
     MembersService!NoScan
<1> QED
  BY <1>2, <1>3, <1>4 DEF CallOK
(* A part of call r ends, or fails: parts leave running, and "locked" may  *)
(* only stay when "members" and "vestings" do.                             *)
LEMMA PartEnds ==
  ASSUME CoverIInv, NEW r \in Runs, NEW c, DOMAIN c = DOMAIN NoCall,
         c.running \subseteq call[r].running,
         "members" \in c.running <=> Running(r, "members"),
         "locked" \in c.running => ("vestings" \in c.running <=> Running(r, "vestings")),
         c.hash = call[r].hash, c.toFetch = call[r].toFetch,
         c.holders = call[r].holders, c.locked = call[r].locked,
         call' = [call EXCEPT ![r] = c],
         UNCHANGED <<chainVars, snapshot, membersVars, membersVestings>>
  PROVE  CallShape' /\ SnapshotInv' /\ CallInv'
<1> DEFINE R == c.running
<1>1. CallShape' /\ call'[r] = c /\ \A t \in Runs : t # r => call'[t] = call[t]
  BY CallUpdate DEF CoverIInv
<1>2. CallOK(r)'
  <2>1. CallOK(r)
    BY DEF CoverIInv, CallInv
  <2>2. /\ call'[r].running = R /\ call'[r].toFetch = call[r].toFetch
        /\ call'[r].hash = call[r].hash /\ call'[r].holders = call[r].holders
        /\ call'[r].locked = call[r].locked
    BY <1>1
  <2>3. /\ KnowsFinalMembers(membersAddresses, r) => KnowsFinalMembers(membersAddresses, r)'
        /\ KnowsFinalMembers(Cached, r) => KnowsFinalMembers(Cached, r)'
        /\ KnowsFinalMembers(Cached \cup call[r].toFetch, r) =>
             KnowsFinalMembers(Cached \cup call[r].toFetch, r)'
    BY <2>2 DEF KnowsFinalMembers, Cached, chainVars, membersVars
  <2>4. MembersService!Scanning(r)' = MembersService!Scanning(r)
    BY DEF MembersService!Scanning, MembersService!NoScan, membersVars
  <2>5. Cached' = Cached /\ membersScan' = membersScan /\ blocks' = blocks
    BY DEF Cached, chainVars, membersVars
  <2>6. (R # {} => call[r].running # {}) /\ ("locked" \in R => "locked" \in call[r].running)
    OBVIOUS
  <2> QED
    BY <2>1, <2>2, <2>3, <2>4, <2>5, <2>6 DEF CallOK, Running
<1>3. ASSUME NEW t \in Runs, t # r PROVE CallOK(t)'
  BY <1>1, <1>3, CallKept DEF CoverIInv, CallInv, membersVars
<1>4. SnapshotInv'
  BY DEF CoverIInv, SnapshotInv, MembersService!Scanning, MembersService!NoScan, membersVars
<1> QED
  BY <1>1, <1>2, <1>3, <1>4 DEF CallInv

LEMMA BeginKeepsCalls ==
  ASSUME CoverIInv, NEW r \in Runs, BeginCycle(r)
  PROVE  CallShape' /\ SnapshotInv' /\ CallInv'
<1> DEFINE c == [NoCall EXCEPT !.hash = head,
                               !.running = {"supply", "locked", "members", "burns"},
                               !.fromBlock = MembersService!FirstBlock]
<1>1. /\ call' = [call EXCEPT ![r] = c]
      /\ MembersService!StartScan(r, blocks[head].number)
      /\ UNCHANGED <<chainVars, snapshot, membersVestings>>
  BY DEF BeginCycle, StartCall
<1>2. DOMAIN c = DOMAIN NoCall
  OBVIOUS
<1>3. /\ c.hash = head /\ c.running = {"supply", "locked", "members", "burns"}
      /\ c.holders = None /\ c.locked = None /\ c.toFetch = {}
  BY DEF NoCall
<1> HIDE DEF c
<1>4. CallShape' /\ call'[r] = c /\ \A t \in Runs : t # r => call'[t] = call[t]
  BY <1>1, <1>2, CallUpdate DEF CoverIInv
<1>5. head \in DOMAIN blocks /\ blocks' = blocks
  BY <1>1 DEF CoverIInv, ChainInv, ChainTypeOK, head, chainVars
<1>6. /\ membersScan \in [Runs -> MembersService!ScanType]
      /\ membersAddresses' = IF membersLastFetchedBlock = None
                               THEN membersAddresses \cup snapshot.vestingMembers
                               ELSE membersAddresses
      /\ membersLastFetchedBlock' = membersLastFetchedBlock
      /\ membersScan'[r].toBlock = blocks[head].number
      /\ \A t \in Runs : t # r => membersScan'[t] = membersScan[t]
  BY <1>1 DEF CoverIInv, MembersService!IInv, MembersService!TypeOK, MembersService!StartScan
<1>7. CallOK(r)'
  BY <1>3, <1>4, <1>5, <1>6 DEF CallOK, Running, MembersService!Scanning
<1>8. ASSUME NEW t \in Runs, t # r PROVE CallOK(t)'
  BY <1>1, <1>4, <1>6, <1>8, CallKept DEF CoverIInv, CallInv
<1>9. SnapshotInv'
  BY <1>1, <1>6 DEF CoverIInv, SnapshotInv
<1> QED
  BY <1>4, <1>7, <1>8, <1>9 DEF CallInv

LEMMA ServeMembersKeepsCalls ==
  ASSUME CoverIInv, NEW r \in Runs, ServeMembersQuery(r), UNCHANGED chainVars
  PROVE  CallShape' /\ SnapshotInv' /\ CallInv'
<1>1. PICK q \in membersScan[r].queries : MembersService!ServeQuery(r, q)
  BY DEF ServeMembersQuery
<1>2. UNCHANGED <<snapshot, membersVestings, call, membersAddresses, membersLastFetchedBlock>>
  BY <1>1 DEF ServeMembersQuery, MembersService!ServeQuery
<1>3. /\ membersScan'[r].toBlock = membersScan[r].toBlock
      /\ MembersService!Scanning(r)
      /\ \A t \in Runs : t # r => membersScan'[t] = membersScan[t]
  <2>1. membersScan \in [Runs -> MembersService!ScanType]
    BY DEF CoverIInv, MembersService!IInv, MembersService!TypeOK
  <2>2. MembersService!Scanning(r)
    BY <1>1 DEF MembersService!Scanning, MembersService!NoScan
  <2> QED
    BY <1>1, <2>1, <2>2 DEF MembersService!ServeQuery
<1>4. CallShape' /\ SnapshotInv'
  BY <1>2, <1>3 DEF CoverIInv, CallShape, SnapshotInv, MembersService!Scanning
<1>5. CallOK(r)'
  BY <1>2, <1>3 DEF CoverIInv, CallInv, CallOK, Running, KnowsFinalMembers, Cached,
     MembersService!Scanning, chainVars
<1>6. ASSUME NEW t \in Runs, t # r PROVE CallOK(t)'
  BY <1>2, <1>3, <1>6, CallKept DEF CoverIInv, CallInv
<1> QED
  BY <1>4, <1>5, <1>6 DEF CallInv

(* The members scan of a call ends: it has seen every final block below    *)
(* the block of the call.                                                  *)
LEMMA CompleteMembersKeepsCalls ==
  ASSUME CoverIInv, NEW r \in Runs, CompleteMembers(r), UNCHANGED chainVars
  PROVE  CallShape' /\ SnapshotInv' /\ CallInv'
<1> DEFINE c == [call[r] EXCEPT !.running = @ \ {"members"}, !.toFetch = membersScan[r].found]
<1>1. /\ call' = [call EXCEPT ![r] = c]
      /\ MembersService!CompleteScan(r)
      /\ UNCHANGED <<snapshot, membersVestings>>
  BY DEF CompleteMembers
<1>2. DOMAIN c = DOMAIN NoCall
  BY DEF CoverIInv, CallShape
<1>3. /\ c.running = call[r].running \ {"members"} /\ c.toFetch = membersScan[r].found
      /\ c.hash = call[r].hash /\ c.holders = call[r].holders /\ c.locked = call[r].locked
  BY DEF CoverIInv, CallShape, NoCall
<1> HIDE DEF c
<1>4. CallShape' /\ call'[r] = c /\ \A t \in Runs : t # r => call'[t] = call[t]
  BY <1>1, <1>2, CallUpdate DEF CoverIInv
<1>5. membersScan \in [Runs -> MembersService!ScanType]
  BY DEF CoverIInv, MembersService!IInv, MembersService!TypeOK
<1>6. /\ MembersService!Scanning(r) /\ membersScan[r].queries = {}
      /\ membersAddresses' = membersAddresses \cup membersScan[r].found
      /\ membersScan'[r] = MembersService!NoScan
      /\ \A t \in Runs : t # r => membersScan'[t] = membersScan[t]
  BY <1>1, <1>5 DEF MembersService!CompleteScan
<1>7. Running(r, "members") /\ membersScan[r].toBlock = blocks[call[r].hash].number
  BY <1>6 DEF CoverIInv, CallInv, CallOK
<1>8. membersScan[r].found \subseteq Members
  BY <1>5, <1>6 DEF MembersService!ScanType, MembersService!Scanning
<1>9. snapshot.vestingMembers \subseteq membersAddresses
  BY <1>6 DEF CoverIInv, SnapshotInv
<1>10. ASSUME NEW n \in DOMAIN chain, NEW f \in VestingFilters,
              n + MaxReorgDepth <= blocks[call[r].hash].number
       PROVE  blocks[chain[n]].events[f] \subseteq membersAddresses'
  <2>1. n \in DOMAIN EventLog(VestingFilters)
    BY DEF EventLog
  <2>2. EventLog(VestingFilters)[n][f] = blocks[chain[n]].events[f]
    BY DEF EventLog
  <2>3. ~ MembersService!Pending(r, f, n)
    BY <1>6 DEF MembersService!Pending
  <2>4. EventLog(VestingFilters)[n][f] \subseteq membersAddresses \cup membersScan[r].found
    BY <1>6, <1>7, <1>10, <2>1, <2>3
       DEF CoverIInv, MembersService!IInv, MembersService!ScanInv
  <2> QED
    BY <1>6, <2>2, <2>4
<1>11. KnowsFinalMembers(membersAddresses, r)'
  BY <1>1, <1>3, <1>4, <1>6, <1>9, <1>10 DEF KnowsFinalMembers, chainVars
<1>12. /\ call[r].holders = None
       /\ call[r].locked # None => KnowsFinalMembers(Cached, r)
       /\ call[r].hash \in DOMAIN blocks
  BY <1>7 DEF CoverIInv, CallInv, CallOK, Running
<1>13. CallOK(r)'
  BY <1>1, <1>3, <1>4, <1>6, <1>8, <1>11, <1>12 DEF CallOK, Running, KnowsFinalMembers,
     Cached, MembersService!Scanning, chainVars
<1>14. ASSUME NEW t \in Runs, t # r PROVE CallOK(t)'
  BY <1>1, <1>4, <1>6, <1>14, CallKept DEF CoverIInv, CallInv
<1>15. SnapshotInv'
  BY <1>1, <1>6, <1>9 DEF SnapshotInv
<1> QED
  BY <1>4, <1>13, <1>14, <1>15 DEF CallInv
LEMMA EndKeepsCalls ==
  ASSUME CoverIInv, NEW r \in Runs, NEW p \in {"supply", "burns", "balances"}, End(r, {p}),
         UNCHANGED <<chainVars, snapshot, membersVars, membersVestings>>
  PROVE  CallShape' /\ SnapshotInv' /\ CallInv'
<1> DEFINE c == [call[r] EXCEPT !.running = @ \ {p}]
<1>1. call' = [call EXCEPT ![r] = c]
  BY DEF End
<1>2. /\ DOMAIN c = DOMAIN NoCall
      /\ c.running = call[r].running \ {p} /\ c.toFetch = call[r].toFetch
      /\ c.hash = call[r].hash /\ c.holders = call[r].holders /\ c.locked = call[r].locked
  BY DEF CoverIInv, CallShape, NoCall
<1> HIDE DEF c
<1>3. /\ c.running \subseteq call[r].running
      /\ "members" \in c.running <=> Running(r, "members")
      /\ "vestings" \in c.running <=> Running(r, "vestings")
  BY <1>2 DEF Running
<1> QED
  BY <1>1, <1>2, <1>3, PartEnds

LEMMA FailKeepsCalls ==
  ASSUME CoverIInv, NEW r \in Runs, NEW p \in {"supply", "burns", "vestings", "balances"},
         Fail(r, p), UNCHANGED <<chainVars, snapshot, membersVars, membersVestings>>
  PROVE  CallShape' /\ SnapshotInv' /\ CallInv'
<1> DEFINE gone == IF p = "supply" THEN {p} ELSE {p, "locked"}
           c == [call[r] EXCEPT !.running = @ \ gone, !.rejected = TRUE]
<1>1. call' = [call EXCEPT ![r] = c]
  BY DEF Fail
<1>2. /\ DOMAIN c = DOMAIN NoCall
      /\ c.running = call[r].running \ gone /\ c.toFetch = call[r].toFetch
      /\ c.hash = call[r].hash /\ c.holders = call[r].holders /\ c.locked = call[r].locked
  BY DEF CoverIInv, CallShape, NoCall
<1> HIDE DEF c
<1>3. /\ c.running \subseteq call[r].running
      /\ "members" \in c.running <=> Running(r, "members")
      /\ "locked" \in c.running => ("vestings" \in c.running <=> Running(r, "vestings"))
  BY <1>2 DEF Running
<1> QED
  BY <1>1, <1>2, <1>3, PartEnds

LEMMA FailMembersKeepsCalls ==
  ASSUME CoverIInv, NEW r \in Runs, FailMembers(r), UNCHANGED chainVars
  PROVE  CallShape' /\ SnapshotInv' /\ CallInv'
<1> DEFINE c == [call[r] EXCEPT !.running = @ \ {"members", "locked"}, !.rejected = TRUE]
<1>1. /\ call' = [call EXCEPT ![r] = c] /\ Running(r, "members")
      /\ UNCHANGED <<snapshot, membersVestings>>
  BY DEF FailMembers, Fail
<1>2. /\ DOMAIN c = DOMAIN NoCall
      /\ c.running = call[r].running \ {"members", "locked"} /\ c.toFetch = call[r].toFetch
      /\ c.hash = call[r].hash /\ c.holders = call[r].holders /\ c.locked = call[r].locked
  BY DEF CoverIInv, CallShape, NoCall
<1> HIDE DEF c
<1>3. CallShape' /\ call'[r] = c /\ \A t \in Runs : t # r => call'[t] = call[t]
  BY <1>1, <1>2, CallUpdate DEF CoverIInv
<1>4. /\ membersScan'[r] = MembersService!NoScan
      /\ \A t \in Runs : t # r => membersScan'[t] = membersScan[t]
      /\ UNCHANGED <<membersAddresses, membersLastFetchedBlock>>
  BY DEF FailMembers, MembersService!FailScan, CoverIInv, MembersService!IInv,
         MembersService!TypeOK
<1>5. CallOK(r)'
  <2>1. /\ call[r].toFetch \subseteq Members /\ call[r].hash \in DOMAIN blocks
        /\ call[r].locked # None => KnowsFinalMembers(Cached, r)
    BY <1>1 DEF CoverIInv, CallInv, CallOK, Running
  <2>2. KnowsFinalMembers(Cached, r) => KnowsFinalMembers(Cached, r)'
    BY <1>1, <1>2, <1>3 DEF KnowsFinalMembers, Cached, chainVars
  <2>3. ~ MembersService!Scanning(r)'
    BY <1>4 DEF MembersService!Scanning, MembersService!NoScan
  <2>4. ~ ("members" \in c.running) /\ ~ ("locked" \in c.running)
    BY <1>2
  <2> QED
    BY <1>2, <1>3, <2>1, <2>2, <2>3, <2>4 DEF CallOK, Running, chainVars
<1>6. ASSUME NEW t \in Runs, t # r PROVE CallOK(t)'
  BY <1>1, <1>3, <1>4, <1>6, CallKept DEF CoverIInv, CallInv
<1>7. SnapshotInv'
  BY <1>1, <1>4 DEF CoverIInv, SnapshotInv, MembersService!Scanning
<1> QED
  BY <1>3, <1>5, <1>6, <1>7 DEF CallInv

(* Who is not cached yet is fetched.                                       *)
LEMMA StartFetchesKeepsCalls ==
  ASSUME CoverIInv, NEW r \in Runs, StartFetches(r), UNCHANGED chainVars
  PROVE  CallShape' /\ SnapshotInv' /\ CallInv'
<1> DEFINE c == [call[r] EXCEPT
               !.running = @ \cup (IF MembersToFetch(r) = {} THEN {} ELSE {"vestings"})
                             \cup (IF burnsAddresses = {} THEN {} ELSE {"balances"}),
               !.toFetch = MembersToFetch(r),
               !.holders = burnsAddresses]
           new == (IF MembersToFetch(r) = {} THEN {} ELSE {"vestings"})
                    \cup (IF burnsAddresses = {} THEN {} ELSE {"balances"})
<1>1. /\ call' = [call EXCEPT ![r] = c]
      /\ Running(r, "locked") /\ ~ Running(r, "members")
      /\ UNCHANGED <<snapshot, membersVars, membersVestings>>
  BY DEF StartFetches, ScansDone
<1>2. /\ DOMAIN c = DOMAIN NoCall
      /\ c.running = call[r].running \cup new /\ c.toFetch = MembersToFetch(r)
      /\ c.hash = call[r].hash /\ c.locked = call[r].locked
  BY DEF CoverIInv, CallShape, NoCall
<1> HIDE DEF c
<1>3. CallShape' /\ call'[r] = c /\ \A t \in Runs : t # r => call'[t] = call[t]
  BY <1>1, <1>2, CallUpdate DEF CoverIInv
<1>4. /\ call[r].toFetch \subseteq Members /\ call[r].hash \in DOMAIN blocks
      /\ KnowsFinalMembers(membersAddresses, r)
      /\ ~ MembersService!Scanning(r)
      /\ call[r].locked # None => KnowsFinalMembers(Cached, r)
  BY <1>1 DEF CoverIInv, CallInv, CallOK, Running
<1>5. membersAddresses \subseteq Members
  BY DEF CoverIInv, MembersService!IInv, MembersService!TypeOK
<1>6. /\ MembersToFetch(r) \subseteq Members
      /\ membersAddresses \subseteq Cached \cup MembersToFetch(r)
      /\ Cached' = Cached
  BY <1>1, <1>4, <1>5 DEF MembersToFetch, Cached
<1>7. /\ "vestings" \in c.running \/ MembersToFetch(r) = {}
      /\ ~ ("members" \in c.running)
  BY <1>1, <1>2 DEF Running
<1>8. /\ KnowsFinalMembers(Cached \cup MembersToFetch(r), r)
      /\ MembersToFetch(r) = {} => KnowsFinalMembers(Cached, r)
  BY <1>4, <1>6 DEF KnowsFinalMembers
<1>9. /\ KnowsFinalMembers(membersAddresses, r)'
      /\ KnowsFinalMembers(Cached \cup call[r].toFetch, r)'
      /\ MembersToFetch(r) = {} => KnowsFinalMembers(Cached, r)'
      /\ call'[r].locked # None => KnowsFinalMembers(Cached, r)'
  BY <1>1, <1>2, <1>3, <1>4, <1>6, <1>8 DEF KnowsFinalMembers, chainVars, membersVars
<1>10. ~ MembersService!Scanning(r)'
  BY <1>1, <1>4 DEF MembersService!Scanning, MembersService!NoScan, membersVars
<1>11. CallOK(r)'
  BY <1>2, <1>3, <1>4, <1>6, <1>7, <1>9, <1>10 DEF CallOK, Running, chainVars
<1>12. ASSUME NEW t \in Runs, t # r PROVE CallOK(t)'
  BY <1>1, <1>3, <1>12, CallKept DEF CoverIInv, CallInv, membersVars
<1>13. SnapshotInv'
  BY <1>1 DEF CoverIInv, SnapshotInv, MembersService!Scanning, MembersService!NoScan,
     membersVars
<1> QED
  BY <1>3, <1>11, <1>12, <1>13 DEF CallInv
(* The fetched vestings are in the cache: who was to fetch is known now.   *)
LEMMA MergeKeepsCalls ==
  ASSUME CoverIInv, NEW r \in Runs, MergeVestings(r), UNCHANGED chainVars
  PROVE  CallShape' /\ SnapshotInv' /\ CallInv'
<1> DEFINE c == [call[r] EXCEPT !.running = @ \ {"vestings"}]
<1>1. /\ call' = [call EXCEPT ![r] = c] /\ Running(r, "vestings")
      /\ UNCHANGED <<snapshot, membersVars>>
      /\ membersVestings' = [m \in Members |->
           IF m \in call[r].toFetch THEN blocks[call[r].hash].nonVested[m]
                                    ELSE membersVestings[m]]
  BY DEF MergeVestings, End
<1>2. /\ DOMAIN c = DOMAIN NoCall
      /\ c.running = call[r].running \ {"vestings"} /\ c.toFetch = call[r].toFetch
      /\ c.hash = call[r].hash /\ c.holders = call[r].holders /\ c.locked = call[r].locked
  BY DEF CoverIInv, CallShape, NoCall
<1> HIDE DEF c
<1>3. CallShape' /\ call'[r] = c /\ \A t \in Runs : t # r => call'[t] = call[t]
  BY <1>1, <1>2, CallUpdate DEF CoverIInv
<1>4. CallOK(r)
  BY DEF CoverIInv, CallInv
<1>5. blocks[call[r].hash] \in Block
  BY <1>1, <1>4 DEF CallOK, Running, CoverIInv, ChainInv, ChainTypeOK
<1>6. \A m \in Members : blocks[call[r].hash].nonVested[m] # None
  BY <1>5, LdoServiceAssumption DEF Block
<1>7. /\ \A m \in Members : membersVestings[m] # None => membersVestings'[m] # None
      /\ Cached \subseteq Cached'
      /\ Cached \cup call[r].toFetch \subseteq Cached'
  BY <1>1, <1>4, <1>6 DEF Cached, CallOK
<1>8. ASSUME NEW K, KnowsFinalMembers(K, r), K \subseteq Cached'
      PROVE  KnowsFinalMembers(Cached, r)'
  BY <1>1, <1>2, <1>3, <1>8 DEF KnowsFinalMembers, chainVars
<1>9. CallOK(r)'
  <2>1. /\ KnowsFinalMembers(Cached, r) => KnowsFinalMembers(Cached, r)'
        /\ KnowsFinalMembers(Cached \cup call[r].toFetch, r) => KnowsFinalMembers(Cached, r)'
        /\ KnowsFinalMembers(membersAddresses, r) => KnowsFinalMembers(membersAddresses, r)'
    BY <1>1, <1>2, <1>3, <1>7, <1>8 DEF KnowsFinalMembers, chainVars, membersVars
  <2>2. MembersService!Scanning(r)' <=> MembersService!Scanning(r)
    BY <1>1 DEF MembersService!Scanning, MembersService!NoScan, membersVars
  <2>3. /\ ~ ("vestings" \in c.running)
        /\ "members" \in c.running <=> "members" \in call[r].running
        /\ "locked" \in c.running <=> "locked" \in call[r].running
    BY <1>2
  <2>4. Cached' \cup {} = Cached'
    OBVIOUS
  <2>5. Running(r, "locked")' /\ call'[r].holders # None => KnowsFinalMembers(Cached, r)'
    BY <1>1, <1>2, <1>3, <1>4, <2>1, <2>3 DEF CallOK, Running
  <2>6. Running(r, "locked")' /\ call'[r].holders # None =>
          KnowsFinalMembers(
            Cached \cup (IF Running(r, "vestings") THEN call[r].toFetch ELSE {}), r)'
    BY <1>2, <1>3, <2>3, <2>4, <2>5 DEF KnowsFinalMembers, Running
  <2>7. UNCHANGED <<blocks, membersScan>>
    BY <1>1 DEF chainVars, membersVars
  <2> QED
    BY <1>1, <1>2, <1>3, <1>4, <2>1, <2>2, <2>3, <2>6, <2>7 DEF CallOK, Running
<1>10. ASSUME NEW t \in Runs, t # r PROVE CallOK(t)'
  BY <1>1, <1>3, <1>7, <1>10, CallKept DEF CoverIInv, CallInv, membersVars
<1>11. SnapshotInv'
  BY <1>1 DEF CoverIInv, SnapshotInv, MembersService!Scanning, MembersService!NoScan,
     membersVars
<1> QED
  BY <1>3, <1>9, <1>10, <1>11 DEF CallInv

LEMMA CalculateKeepsCalls ==
  ASSUME CoverIInv, NEW r \in Runs, Calculate(r), UNCHANGED chainVars
  PROVE  CallShape' /\ SnapshotInv' /\ CallInv'
<1> DEFINE bad == [call[r] EXCEPT !.running = @ \ {"locked"}, !.rejected = TRUE]
           good == [call[r] EXCEPT !.running = @ \ {"locked"}, !.toFetch = {}, !.holders = {},
                                   !.locked = LockedSum(r)]
<1>1. /\ UNCHANGED <<snapshot, membersVars, membersVestings>>
      /\ Running(r, "locked") /\ call[r].holders # None /\ ~ Running(r, "vestings")
  BY DEF Calculate, ReadyToCalculate
<1>2. PICK c \in {bad, good} : call' = [call EXCEPT ![r] = c]
  <2>1. CASE BalanceMissing(r)
    <3>1. call' = [call EXCEPT ![r] = bad]
      BY <2>1 DEF Calculate
    <3> HIDE DEF bad, good
    <3> QED
      BY <3>1
  <2>2. CASE ~ BalanceMissing(r)
    <3>1. call' = [call EXCEPT ![r] = good]
      BY <2>2 DEF Calculate
    <3> HIDE DEF bad, good
    <3> QED
      BY <3>1
  <2> QED
    BY <2>1, <2>2
<1>3. /\ DOMAIN c = DOMAIN NoCall
      /\ c.running = call[r].running \ {"locked"} /\ c.hash = call[r].hash
      /\ c.toFetch \in {call[r].toFetch, {}}
  BY <1>2 DEF CoverIInv, CallShape, NoCall
<1> HIDE DEF bad, good
<1>4. CallShape' /\ call'[r] = c /\ \A t \in Runs : t # r => call'[t] = call[t]
  BY <1>2, <1>3, CallUpdate DEF CoverIInv
<1>5. CallOK(r)
  BY DEF CoverIInv, CallInv
<1>6. /\ call[r].hash \in DOMAIN blocks /\ c.toFetch \subseteq Members
      /\ ~ Running(r, "members")
  BY <1>1, <1>3, <1>5 DEF CallOK, Running
<1>7. ~ MembersService!Scanning(r)
  BY <1>5, <1>6 DEF CallOK
<1>8. KnowsFinalMembers(Cached, r)
  <2>1. KnowsFinalMembers(Cached \cup {}, r)
    BY <1>1, <1>5 DEF CallOK
  <2>2. Cached \cup {} = Cached
    OBVIOUS
  <2> QED
    BY <2>1, <2>2
<1>9. KnowsFinalMembers(Cached, r)'
  BY <1>1, <1>3, <1>4, <1>8 DEF KnowsFinalMembers, Cached, chainVars
<1>10. ~ MembersService!Scanning(r)'
  BY <1>1, <1>7 DEF MembersService!Scanning, MembersService!NoScan, membersVars
<1>11. ~ ("locked" \in c.running) /\ ~ ("members" \in c.running)
  BY <1>3, <1>6 DEF Running
<1>12. CallOK(r)'
  BY <1>3, <1>4, <1>6, <1>9, <1>10, <1>11 DEF CallOK, Running, chainVars
<1>13. ASSUME NEW t \in Runs, t # r PROVE CallOK(t)'
  BY <1>1, <1>4, <1>13, CallKept DEF CoverIInv, CallInv, membersVars
<1>14. SnapshotInv'
  BY <1>1 DEF CoverIInv, SnapshotInv, MembersService!Scanning, MembersService!NoScan,
     membersVars
<1> QED
  BY <1>4, <1>12, <1>13, <1>14 DEF CallInv

-----------------------------------------------------------------------------
LEMMA NextKeepsCalls ==
  ASSUME CoverIInv, [Next]_vars PROVE CallShape' /\ SnapshotInv' /\ CallInv'
<1>1. CASE MineBlock \/ ReorgHead
  <2>1. UNCHANGED ldoVars
    BY <1>1 DEF MineBlock, ReorgHead
  <2>2. CallShape' /\ SnapshotInv'
    BY <2>1 DEF CoverIInv, CallShape, SnapshotInv, ldoVars, MembersService!Scanning,
       MembersService!NoScan, NoCall
  <2> QED
    BY <1>1, <2>2, ChainKeepsCalls DEF CoverIInv
<1>2. ASSUME UNCHANGED <<chainVars, snapshot, membersVars, membersVestings, call>>
      PROVE  CallShape' /\ SnapshotInv' /\ CallInv'
  <2>1. CallShape' /\ SnapshotInv'
    BY <1>2 DEF CoverIInv, CallShape, SnapshotInv, membersVars, MembersService!Scanning,
       MembersService!NoScan, NoCall
  <2>2. ASSUME NEW t \in Runs PROVE CallOK(t)'
    BY <1>2, CallKept DEF CoverIInv, CallInv, membersVars
  <2> QED
    BY <2>1, <2>2 DEF CallInv
<1>3. ASSUME NEW r \in Runs, ProgressLdo(r)
      PROVE  CallShape' /\ SnapshotInv' /\ CallInv'
  <2>1. UNCHANGED chainVars
    BY <1>3 DEF ProgressLdo
  <2>2. CASE ServeSupply(r) \/ CompleteBurns(r) \/ ServeBalances(r)
    BY <2>1, <2>2, EndKeepsCalls DEF ServeSupply, CompleteBurns, ServeBalances
  <2>3. CASE ServeBurnsQuery(r)
    BY <1>2, <2>1, <2>3 DEF ServeBurnsQuery
  <2> QED
    BY <1>3, <2>1, <2>2, <2>3, ServeMembersKeepsCalls, CompleteMembersKeepsCalls,
       StartFetchesKeepsCalls, MergeKeepsCalls, CalculateKeepsCalls DEF ProgressLdo, LdoProgress
<1>4. ASSUME NEW r \in Runs, FailLdoRequest(r)
      PROVE  CallShape' /\ SnapshotInv' /\ CallInv'
  <2>1. UNCHANGED chainVars
    BY <1>4 DEF FailLdoRequest
  <2>2. CASE FailBurns(r)
    BY <2>1, <2>2, FailKeepsCalls DEF FailBurns
  <2>3. CASE FailRead(r)
    BY <2>1, <2>3, FailKeepsCalls DEF FailRead
  <2> QED
    BY <1>4, <2>1, <2>2, <2>3, FailMembersKeepsCalls DEF FailLdoRequest, LdoFailure
<1>5. ASSUME NEW r \in Runs,
             SaveLdo(r) \/ SaveOther(r) \/ EndCycle(r) \/ RejectLdo(r) \/ FailOther(r)
      PROVE  CallShape' /\ SnapshotInv' /\ CallInv'
  BY <1>2, <1>5 DEF SaveLdo, SaveOther, EndCycle, RejectLdo, FailOther, ldoVars, membersVars
<1>6. CASE UNCHANGED vars
  BY <1>2, <1>6 DEF vars, ldoVars, membersVars
<1> QED
  BY <1>1, <1>3, <1>4, <1>5, <1>6, BeginKeepsCalls DEF Next, Progress

LEMMA InitCalls == Init => CallShape /\ SnapshotInv /\ CallInv
<1> SUFFICES ASSUME Init PROVE CallShape /\ SnapshotInv /\ CallInv
  OBVIOUS
<1>1. /\ call = [r \in Runs |-> NoCall]
      /\ membersScan = [r \in Runs |-> MembersService!NoScan]
      /\ membersLastFetchedBlock = None
  BY DEF Init, LdoInit
<1>2. \A r \in Runs :
        /\ call[r].toFetch = {} /\ call[r].running = {} /\ call[r].locked = None
        /\ ~ MembersService!Scanning(r)
  BY <1>1 DEF NoCall, MembersService!Scanning
<1> QED
  BY <1>1, <1>2 DEF CallShape, SnapshotInv, CallInv, CallOK, Running

(* No member is left out of the locked amount a call calculates: failed    *)
(* requests, calls that overlap, and reorganisations as deep as the overlap *)
(* of the scans allows, can hide no member whose vesting event is final    *)
(* (vesting-vestings.service.ts:25).                                       *)
THEOREM CoversMembersCorrect == Spec => []CalculatedCoversMembers
<1> DEFINE Calls == CallShape /\ SnapshotInv /\ CallInv
<1>1. Init => Calls
  BY InitCalls
<1>2. ChainInv /\ MembersService!IInv /\ Calls /\ [Next]_vars => Calls'
  BY NextKeepsCalls DEF CoverIInv
<1>3. Calls => CalculatedCoversMembers
  BY DEF CallInv, CallOK, CalculatedCoversMembers
<1> QED
  BY <1>1, <1>2, <1>3, ChainInvariance, MembersScanInvariance, PTL DEF Spec

(* What the proof of CoversMembersCorrect shows on the way.                *)
LEMMA CoverInvariance == Spec => []CoverIInv
<1> DEFINE Calls == CallShape /\ SnapshotInv /\ CallInv
<1>1. Init => Calls
  BY InitCalls
<1>2. ChainInv /\ MembersService!IInv /\ Calls /\ [Next]_vars => Calls'
  BY NextKeepsCalls DEF CoverIInv
<1>3. ChainInv /\ MembersService!IInv /\ Calls => CoverIInv
  BY DEF CoverIInv
<1> QED
  BY <1>1, <1>2, <1>3, ChainInvariance, MembersScanInvariance, PTL DEF Spec

-----------------------------------------------------------------------------
(* The types of the calls and of the cache.                                *)

VestingsTyped == membersVestings \in [Members -> Nat \cup {None}]

CallTyped == call \in [Runs -> CallType]

(* A call whose locked amount is not worked on any more has one, or failed. *)
CallDone ==
  \A r \in Runs :
    call[r].hash # None /\ ~ call[r].rejected /\ ~ Running(r, "locked") => call[r].locked # None

LdoTypes == VestingsTyped /\ CallTyped /\ CallDone

(* Blocks are only added.                                                  *)
LEMMA BlocksStay ==
  ASSUME ChainInv, [Next]_vars, NEW h \in DOMAIN blocks
  PROVE  h \in DOMAIN blocks' /\ blocks'[h] = blocks[h]
<1>1. CASE MineBlock \/ ReorgHead
  BY <1>1, FinalBlocksStay
<1>2. CASE UNCHANGED chainVars
  BY <1>2 DEF chainVars
<1> QED
  BY <1>1, <1>2 DEF Next, vars, BeginCycle, Progress, ProgressLdo, SaveLdo, SaveOther,
     EndCycle, RejectLdo, FailLdoRequest, FailOther

(* A locked amount is an amount.                                           *)
LEMMA LockedSumType ==
  ASSUME ChainInv, VestingsTyped, NEW r \in Runs, call[r].hash \in DOMAIN blocks
  PROVE  LockedSum(r) \in Nat
<1>1. blocks[call[r].hash].balance \in [Members -> Nat]
  <2>1. blocks \in Seq(Block)
    BY DEF ChainInv, ChainTypeOK
  <2>2. blocks[call[r].hash] \in Block
    BY <2>1
  <2> QED
    BY <2>2 DEF Block
<1>2. ASSUME NEW m \in Cached PROVE MemberLocked(r, m) \in Nat
  <2>1. membersVestings[m] \in Nat /\ blocks[call[r].hash].balance[m] \in Nat
    BY <1>1, <1>2 DEF Cached, VestingsTyped
  <2> QED
    BY <2>1 DEF MemberLocked
<1>3. IsFiniteSet(Cached)
  BY EthChainAssumption, FS_Subset DEF Cached
<1> DEFINE f == [m \in Cached |-> MemberLocked(r, m)]
<1>4. f \in [Cached -> Nat]
  BY <1>2
<1>5. SumFunction(f) \in Nat
  <2> HIDE DEF f
  <2> QED BY <1>3, <1>4, SumInNat
<1> QED
  BY <1>5 DEF LockedSum

LEMMA CallTypeGrows ==
  ASSUME \A h \in DOMAIN blocks : h \in DOMAIN blocks',
         call' \in [Runs -> CallType]
  PROVE  CallTyped'
BY DEF CallTyped, CallType

(* One call is changed.                                                    *)
LEMMA CallTypeUpdate ==
  ASSUME CallTyped, CallDone, \A h \in DOMAIN blocks : h \in DOMAIN blocks',
         NEW r \in Runs, NEW c \in CallType, call' = [call EXCEPT ![r] = c],
         ~ c.rejected => (c.hash = call[r].hash \/ "locked" \in c.running)
                         /\ ~ call[r].rejected,
         "locked" \in c.running \/ c.rejected \/ c.locked # None
           \/ (c.locked = call[r].locked /\ ~ Running(r, "locked"))
  PROVE  CallTyped' /\ CallDone'
<1>1. call' \in [Runs -> CallType] /\ call'[r] = c /\ \A t \in Runs : t # r => call'[t] = call[t]
  BY DEF CallTyped
<1>2. CallTyped'
  BY <1>1, CallTypeGrows
<1>3. ASSUME NEW t \in Runs, call'[t].hash # None, ~ call'[t].rejected, ~ Running(t, "locked")'
      PROVE  call'[t].locked # None
  <2>1. CASE t # r
    BY <1>1, <1>3, <2>1 DEF CallDone, Running
  <2>2. CASE t = r
    BY <1>1, <1>3, <2>2 DEF CallDone, Running
  <2> QED
    BY <2>1, <2>2
<1> QED
  BY <1>2, <1>3 DEF CallDone

LEMMA NoCallType == NoCall \in CallType /\ NoCall.hash = None
<1>1. {} \in SUBSET Parts /\ {} \in SUBSET Members
  OBVIOUS
<1>2. NoCall \in CallType
  BY <1>1 DEF NoCall, CallType
<1>3. NoCall.hash = None
  BY DEF NoCall
<1> QED
  BY <1>2, <1>3

LEMMA BeginTypes ==
  ASSUME ChainInv, MembersService!IInv, LdoTypes, NEW r \in Runs, BeginCycle(r)
  PROVE  LdoTypes'
<1> DEFINE c == [NoCall EXCEPT !.hash = head, !.running = {"supply", "locked", "members", "burns"},
                               !.fromBlock = MembersService!FirstBlock]
<1>1. /\ call' = [call EXCEPT ![r] = c]
      /\ UNCHANGED <<chainVars, membersVestings>>
  BY DEF BeginCycle, StartCall
<1>2. head \in DOMAIN blocks
  BY DEF head, ChainInv, ChainTypeOK
<1>3. MembersService!FirstBlock \in Int
  BY LdoServiceAssumption DEF MembersService!FirstBlock, MembersService!IInv,
     MembersService!TypeOK, MembersService!Snapshots
<1>4. NoCall \in CallType
  BY NoCallType
<1>c. c \in CallType
  BY <1>2, <1>3, <1>4 DEF CallType, Parts
<1>l. "locked" \in c.running
  BY <1>4 DEF CallType
<1> HIDE DEF c
<1>5. call' \in [Runs -> CallType] /\ call'[r] = c /\ \A t \in Runs : t # r => call'[t] = call[t]
  BY <1>1, <1>c DEF LdoTypes, CallTyped
<1>6. CallTyped'
  BY <1>1, <1>5, CallTypeGrows DEF chainVars
<1>7. CallDone'
  BY <1>l, <1>5 DEF LdoTypes, CallDone, Running
<1>8. VestingsTyped'
  BY <1>1 DEF LdoTypes, VestingsTyped
<1> QED
  BY <1>6, <1>7, <1>8 DEF LdoTypes

LEMMA ProgressTypes ==
  ASSUME CoverIInv, BurnsService!IInv, LdoTypes, NEW r \in Runs, ProgressLdo(r)
  PROVE  LdoTypes'
<1>1. /\ UNCHANGED chainVars /\ CallTyped /\ CallDone /\ VestingsTyped
      /\ call[r] \in CallType
  BY DEF ProgressLdo, LdoTypes, CallTyped
<1>2. \A h \in DOMAIN blocks : h \in DOMAIN blocks'
  BY <1>1 DEF chainVars
<1>3. call[r].running # {} => call[r].hash \in DOMAIN blocks
  BY DEF CoverIInv, CallInv, CallOK
<1>4. ASSUME NEW p \in Parts \ {"locked"}, End(r, {p}), UNCHANGED membersVestings
      PROVE  LdoTypes'
  <2> DEFINE c == [call[r] EXCEPT !.running = @ \ {p}]
  <2>1. c \in CallType
    BY <1>1 DEF CallType
  <2>2. /\ call' = [call EXCEPT ![r] = c]
        /\ c.hash = call[r].hash /\ c.rejected = call[r].rejected /\ c.locked = call[r].locked
        /\ "locked" \in c.running <=> Running(r, "locked")
    BY <1>1, <1>4 DEF End, CallType, Running
  <2> HIDE DEF c
  <2>3. CallTyped' /\ CallDone'
    BY <1>1, <1>2, <2>1, <2>2, CallTypeUpdate DEF CallDone
  <2> QED
    BY <1>1, <1>4, <2>3 DEF LdoTypes, VestingsTyped
<1>5. CASE ServeSupply(r) \/ CompleteBurns(r) \/ ServeBalances(r)
  BY <1>4, <1>5 DEF ServeSupply, CompleteBurns, ServeBalances, Parts
<1>6. CASE ServeMembersQuery(r) \/ ServeBurnsQuery(r)
  <2>1. UNCHANGED <<call, membersVestings>>
    BY <1>6 DEF ServeMembersQuery, ServeBurnsQuery
  <2>2. CallTyped'
    BY <1>1, <1>2, <2>1, CallTypeGrows DEF CallTyped
  <2> QED
    BY <1>1, <2>1, <2>2 DEF LdoTypes, VestingsTyped, CallDone, Running
<1>7. CASE CompleteMembers(r)
  <2> DEFINE c == [call[r] EXCEPT !.running = @ \ {"members"}, !.toFetch = membersScan[r].found]
  <2>1. membersScan[r].found \subseteq Members
    BY DEF CoverIInv, MembersService!IInv, MembersService!TypeOK, MembersService!ScanType,
       MembersService!NoScan
  <2>2. c \in CallType
    BY <1>1, <2>1 DEF CallType
  <2>3. /\ call' = [call EXCEPT ![r] = c] /\ UNCHANGED membersVestings
        /\ c.hash = call[r].hash /\ c.rejected = call[r].rejected /\ c.locked = call[r].locked
        /\ "locked" \in c.running <=> Running(r, "locked")
    BY <1>1, <1>7 DEF CompleteMembers, CallType, Running
  <2> HIDE DEF c
  <2>4. CallTyped' /\ CallDone'
    BY <1>1, <1>2, <2>2, <2>3, CallTypeUpdate DEF CallDone
  <2> QED
    BY <1>1, <2>3, <2>4 DEF LdoTypes, VestingsTyped
<1>8. CASE StartFetches(r)
  <2> DEFINE new == (IF MembersToFetch(r) = {} THEN {} ELSE {"vestings"})
                      \cup (IF burnsAddresses = {} THEN {} ELSE {"balances"})
             c == [call[r] EXCEPT
                    !.running = @ \cup (IF MembersToFetch(r) = {} THEN {} ELSE {"vestings"})
                                  \cup (IF burnsAddresses = {} THEN {} ELSE {"balances"}),
                    !.toFetch = MembersToFetch(r),
                    !.holders = burnsAddresses]
  <2>1. membersAddresses \subseteq Members /\ burnsAddresses \subseteq Members
    BY DEF CoverIInv, MembersService!IInv, MembersService!TypeOK, BurnsService!IInv,
       BurnsService!TypeOK
  <2>2. MembersToFetch(r) \subseteq Members
    BY <1>1, <2>1 DEF MembersToFetch, CallType
  <2>3. c \in CallType
    BY <1>1, <2>1, <2>2 DEF CallType, Parts
  <2>4. /\ call' = [call EXCEPT ![r] = c] /\ UNCHANGED membersVestings
        /\ c.hash = call[r].hash /\ c.rejected = call[r].rejected
        /\ "locked" \in c.running
    BY <1>1, <1>8 DEF StartFetches, CallType, Running
  <2> HIDE DEF c
  <2>5. CallTyped' /\ CallDone'
    BY <1>1, <1>2, <2>3, <2>4, CallTypeUpdate
  <2> QED
    BY <1>1, <2>4, <2>5 DEF LdoTypes, VestingsTyped
<1>9. CASE MergeVestings(r)
  <2>1. call[r].hash \in DOMAIN blocks
    BY <1>3, <1>9 DEF MergeVestings, Running
  <2>2. blocks[call[r].hash] \in Block
    BY <2>1 DEF CoverIInv, ChainInv, ChainTypeOK
  <2>3. VestingsTyped'
    BY <1>1, <1>9, <2>2 DEF MergeVestings, VestingsTyped, Block
  <2> DEFINE c == [call[r] EXCEPT !.running = @ \ {"vestings"}]
  <2>4. c \in CallType
    BY <1>1 DEF CallType
  <2>5. /\ call' = [call EXCEPT ![r] = c]
        /\ c.hash = call[r].hash /\ c.rejected = call[r].rejected /\ c.locked = call[r].locked
        /\ "locked" \in c.running <=> Running(r, "locked")
    BY <1>1, <1>9 DEF MergeVestings, End, CallType, Running
  <2> HIDE DEF c
  <2>6. CallTyped' /\ CallDone'
    BY <1>1, <1>2, <2>4, <2>5, CallTypeUpdate DEF CallDone
  <2> QED
    BY <2>3, <2>6 DEF LdoTypes
<1>10. CASE Calculate(r)
  <2> DEFINE bad == [call[r] EXCEPT !.running = @ \ {"locked"}, !.rejected = TRUE]
             good == [call[r] EXCEPT !.running = @ \ {"locked"}, !.toFetch = {}, !.holders = {},
                                     !.locked = LockedSum(r)]
  <2>1. UNCHANGED membersVestings /\ Running(r, "locked")
    BY <1>10 DEF Calculate, ReadyToCalculate
  <2>2. LockedSum(r) \in Nat
    BY <1>1, <1>3, <2>1, LockedSumType DEF CoverIInv, Running
  <2>3. CASE BalanceMissing(r)
    <3>1. call' = [call EXCEPT ![r] = bad] /\ bad \in CallType /\ bad.rejected
      BY <1>1, <1>10, <2>3 DEF Calculate, CallType
    <3> HIDE DEF bad
    <3>2. CallTyped' /\ CallDone'
      BY <1>1, <1>2, <3>1, CallTypeUpdate
    <3> QED
      BY <1>1, <2>1, <3>2 DEF LdoTypes, VestingsTyped
  <2>4. CASE ~ BalanceMissing(r)
    <3>1. call' = [call EXCEPT ![r] = good]
      BY <1>10, <2>4 DEF Calculate
    <3>2. good \in CallType
      BY <1>1, <2>2 DEF CallType
    <3>3. good.locked = LockedSum(r)
      BY <1>1 DEF CallType
    <3>4. good.hash = call[r].hash /\ good.rejected = call[r].rejected
      BY <1>1 DEF CallType
    <3> HIDE DEF good
    <3>5. good.locked # None
      BY <2>2, <3>3, LdoServiceAssumption
    <3>6. good.rejected => call[r].rejected
      BY <3>4
    <3>7. ~ good.rejected => good.hash = call[r].hash /\ ~ call[r].rejected
      BY <3>4
    <3>8. CallTyped' /\ CallDone'
      BY <1>1, <1>2, <3>1, <3>2, <3>5, <3>7, CallTypeUpdate
    <3> QED
      BY <1>1, <2>1, <3>8 DEF LdoTypes, VestingsTyped
  <2> QED
    BY <2>3, <2>4
<1> QED
  BY <1>5, <1>6, <1>7, <1>8, <1>9, <1>10 DEF ProgressLdo, LdoProgress

LEMMA FailTypes ==
  ASSUME CoverIInv, LdoTypes, NEW r \in Runs, FailLdoRequest(r)
  PROVE  LdoTypes'
<1>1. PICK p \in Parts : Fail(r, p)
  BY DEF FailLdoRequest, LdoFailure, FailMembers, FailBurns, FailRead, Parts
<1>2. UNCHANGED <<chainVars, membersVestings>>
  BY DEF FailLdoRequest, LdoFailure, FailMembers, FailBurns, FailRead
<1> DEFINE c == [call[r] EXCEPT !.running = @ \ (IF p = "supply" THEN {p} ELSE {p, "locked"}),
                                !.rejected = TRUE]
<1>3. call' = [call EXCEPT ![r] = c] /\ c \in CallType /\ c.rejected
  BY <1>1 DEF Fail, LdoTypes, CallTyped, CallType
<1> HIDE DEF c
<1>4. CallTyped' /\ CallDone'
  BY <1>2, <1>3, CallTypeUpdate DEF LdoTypes, chainVars
<1> QED
  BY <1>2, <1>4 DEF LdoTypes, VestingsTyped

LEMMA NextLdoTypes ==
  ASSUME CoverIInv, BurnsService!IInv, LdoTypes, [Next]_vars
  PROVE  LdoTypes'
<1>1. ASSUME UNCHANGED <<call, membersVestings>> PROVE LdoTypes'
  <2>1. CallTyped'
    BY <1>1, BlocksStay, CallTypeGrows DEF CoverIInv, LdoTypes, CallTyped
  <2> QED
    BY <1>1, <2>1 DEF LdoTypes, VestingsTyped, CallDone, Running
<1>2. CASE MineBlock \/ ReorgHead \/ UNCHANGED vars
  BY <1>1, <1>2 DEF MineBlock, ReorgHead, vars, ldoVars
<1>3. ASSUME NEW r \in Runs,
             SaveLdo(r) \/ SaveOther(r) \/ EndCycle(r) \/ RejectLdo(r) \/ FailOther(r)
      PROVE  LdoTypes'
  BY <1>1, <1>3 DEF SaveLdo, SaveOther, EndCycle, RejectLdo, FailOther, ldoVars
<1> QED
  BY <1>2, <1>3, BeginTypes, ProgressTypes, FailTypes DEF CoverIInv, Next, Progress

LEMMA InitLdoTypes == Init => LdoTypes
<1> SUFFICES ASSUME Init PROVE LdoTypes
  OBVIOUS
<1>1. call = [r \in Runs |-> NoCall] /\ membersVestings = [m \in Members |-> None]
  BY DEF Init, LdoInit
<1>2. NoCall \in CallType /\ NoCall.hash = None
  BY NoCallType
<1> QED
  BY <1>1, <1>2 DEF LdoTypes, VestingsTyped, CallTyped, CallDone

LEMMA LdoTypesInvariance == Spec => []LdoTypes
<1>1. CoverIInv /\ BurnsService!IInv /\ LdoTypes /\ [Next]_vars => LdoTypes'
  BY NextLdoTypes
<1> QED
  BY <1>1, InitLdoTypes, CoverInvariance, BurnsScanInvariance, PTL DEF Spec

-----------------------------------------------------------------------------
(* The worker.                                                             *)

WorkerProofs == INSTANCE UpdateWorkerProofs WITH
  Hashes <- 1 .. MaxMined, MaxNumber <- MaxMined, Infos <- Nat

LEMMA WorkerTranslates ==
  /\ Worker!WorkerInit <=> WorkerProofs!WorkerInit
  /\ [Worker!WorkerNext]_(Worker!workerVars) => [WorkerProofs!WorkerNext]_(WorkerProofs!workerVars)
  /\ WorkerProofs!WorkerInv => Worker!WorkerTypeOK /\ Worker!RequestsHaveBlocks
<1>1. Worker!WorkerInit <=> WorkerProofs!WorkerInit
  BY DEF Worker!WorkerInit, WorkerProofs!WorkerInit
<1>2. ASSUME NEW r \in Runs PROVE Worker!WorkerStep(r) => WorkerProofs!WorkerStep(r)
  <2>1. ASSUME NEW b PROVE Worker!StartCycle(r, b) => WorkerProofs!StartCycle(r, b)
    BY DEF Worker!StartCycle, Worker!Free, Worker!IsNewBlock,
           WorkerProofs!StartCycle, WorkerProofs!Free, WorkerProofs!IsNewBlock
  <2>2. ASSUME NEW t \in Tokens
        PROVE  /\ Worker!FailToken(r, t) => WorkerProofs!FailToken(r, t)
               /\ \A info \in Nat :
                    Worker!SaveTokenData(r, t, info) => WorkerProofs!SaveTokenData(r, t, info)
    BY DEF Worker!FailToken, Worker!SaveTokenData,
           WorkerProofs!FailToken, WorkerProofs!SaveTokenData
  <2>3. Worker!EndCycle(r) => WorkerProofs!EndCycle(r)
    BY DEF Worker!EndCycle, WorkerProofs!EndCycle
  <2> QED
    BY <2>1, <2>2, <2>3 DEF Worker!WorkerStep, WorkerProofs!WorkerStep
<1>3. [Worker!WorkerNext]_(Worker!workerVars) => [WorkerProofs!WorkerNext]_(WorkerProofs!workerVars)
  BY <1>2 DEF Worker!WorkerNext, WorkerProofs!WorkerNext, Worker!workerVars, WorkerProofs!workerVars
<1>4. WorkerProofs!WorkerInv => Worker!WorkerTypeOK /\ Worker!RequestsHaveBlocks
  BY DEF WorkerProofs!WorkerInv, WorkerProofs!WorkerTypeOK, WorkerProofs!RequestsHaveBlocks,
         WorkerProofs!BlockInfo, WorkerProofs!TokenData,
         Worker!WorkerTypeOK, Worker!RequestsHaveBlocks, Worker!BlockInfo, Worker!TokenData
<1> QED
  BY <1>1, <1>3, <1>4

(* What the worker does with the answers of the token services is what     *)
(* UpdateWorker allows with any answers.                                   *)
LEMMA WorkerStepRefined ==
  ASSUME ChainInv, LdoTypes, Worker!WorkerTypeOK, Worker!RequestsHaveBlocks, [Next]_vars
  PROVE  [Worker!WorkerNext]_(Worker!workerVars)
<1>1. ASSUME NEW r \in Runs, BeginCycle(r) PROVE Worker!WorkerStep(r)
  <2>1. Worker!StartCycle(r, BlockInfo(head))
    BY <1>1 DEF BeginCycle
  <2>2. head \in DOMAIN blocks /\ Len(blocks) <= MaxMined /\ Len(blocks) \in Nat
    BY DEF head, ChainInv, ChainTypeOK
  <2>3. blocks[head].number \in 1 .. highest /\ highest \in Nat /\ highest <= MaxMined
    BY <2>2, EthChainAssumption DEF ChainInv, ChainTypeOK
  <2>4. head \in 1 .. MaxMined
    BY <2>2, EthChainAssumption DEF ChainInv, ChainTypeOK
  <2>5. blocks[head].number \in 0 .. MaxMined
    BY <2>3, EthChainAssumption
  <2>6. BlockInfo(head) \in [number : 0 .. MaxMined, hash : 1 .. MaxMined]
    BY <2>4, <2>5 DEF BlockInfo
  <2> QED
    BY <2>1, <2>6 DEF Worker!WorkerStep
<1>2. ASSUME NEW r \in Runs, SaveLdo(r) PROVE Worker!WorkerStep(r)
  <2>1. call[r].locked # None
    BY <1>2 DEF SaveLdo, Resolved, Drained, Running, LdoTypes, CallDone
  <2>2. call[r] \in CallType
    BY DEF LdoTypes, CallTyped
  <2>3. call[r].locked \in Nat
    BY <2>1, <2>2 DEF CallType
  <2> QED
    BY <1>2, <2>3 DEF SaveLdo, Worker!WorkerStep, Tokens
<1>3. ASSUME NEW r \in Runs, SaveOther(r) PROVE Worker!WorkerStep(r)
  <2>1. PICK t \in OtherTokens : Worker!SaveTokenData(r, t, cycle[r].hash)
    BY <1>3 DEF SaveOther
  <2>2. t \in Tokens /\ request[r][t] = "pending"
    BY <2>1 DEF Worker!SaveTokenData, Tokens
  <2>3. cycle[r] # None
    BY <2>2 DEF Worker!RequestsHaveBlocks
  <2>4. cycle[r] \in Worker!BlockInfo
    BY <2>3 DEF Worker!WorkerTypeOK
  <2>5. cycle[r].hash \in Nat
    BY <2>4 DEF Worker!BlockInfo
  <2> QED
    BY <2>1, <2>2, <2>5 DEF Worker!WorkerStep
<1>4. ASSUME NEW r \in Runs, EndCycle(r) \/ RejectLdo(r) \/ FailOther(r)
      PROVE  Worker!WorkerStep(r)
  BY <1>4 DEF EndCycle, RejectLdo, FailOther, Worker!WorkerStep, Tokens
<1>5. ASSUME NEW r \in Runs, ProgressLdo(r) \/ FailLdoRequest(r)
      PROVE  UNCHANGED Worker!workerVars
  BY <1>5 DEF ProgressLdo, FailLdoRequest, workerVars, Worker!workerVars
<1>6. CASE MineBlock \/ ReorgHead \/ UNCHANGED vars
  BY <1>6 DEF MineBlock, ReorgHead, vars, workerVars, Worker!workerVars
<1> QED
  BY <1>1, <1>2, <1>3, <1>4, <1>5, <1>6 DEF Next, Progress, Worker!WorkerNext

LEMMA WorkerInvariant == Spec => []WorkerProofs!WorkerInv
<1>1. WorkerProofs!UpdateWorkerAssumption
  BY EthChainAssumption, CircSupplyAssumption DEF WorkerProofs!UpdateWorkerAssumption
<1>2. WorkerProofs!WorkerInit => WorkerProofs!WorkerInv
  BY <1>1, WorkerProofs!InitWorkerInv
<1>3. WorkerProofs!WorkerInv /\ [WorkerProofs!WorkerNext]_(WorkerProofs!workerVars)
        => WorkerProofs!WorkerInv'
  BY <1>1, WorkerProofs!NextWorkerInv
<1>4. Init => WorkerProofs!WorkerInv
  BY <1>2, WorkerTranslates DEF Init
<1>5. ChainInv /\ LdoTypes /\ WorkerProofs!WorkerInv /\ [Next]_vars => WorkerProofs!WorkerInv'
  BY <1>3, WorkerStepRefined, WorkerTranslates
<1> QED
  BY <1>4, <1>5, ChainInvariance, LdoTypesInvariance, PTL DEF Spec

(* In the service, with the LDO service behind it, the worker is the one of *)
(* UpdateWorker, so what is proved there of lastBlock, of readiness and of *)
(* the agreement of the tokens holds here (worker.service.ts:58).          *)
THEOREM WorkerRefines == Spec => Worker!WorkerSpec
<1>1. Init => Worker!WorkerInit
  BY DEF Init
<1>2. ChainInv /\ LdoTypes /\ WorkerProofs!WorkerInv /\ [Next]_vars
        => [Worker!WorkerNext]_(Worker!workerVars)
  BY WorkerStepRefined, WorkerTranslates
<1> QED
  BY <1>1, <1>2, ChainInvariance, LdoTypesInvariance, WorkerInvariant, PTL
     DEF Spec, Worker!WorkerSpec

LEMMA FailuresInvariance == Spec => [](failures \in 0 .. MaxFailures)
<1>1. Init => failures \in 0 .. MaxFailures
  BY CircSupplyAssumption DEF Init
<1>2. failures \in 0 .. MaxFailures /\ [Next]_vars => (failures \in 0 .. MaxFailures)'
  <2> SUFFICES ASSUME failures \in 0 .. MaxFailures, [Next]_vars
               PROVE  failures' \in 0 .. MaxFailures
    OBVIOUS
  <2>1. CASE UNCHANGED failures
    BY <2>1
  <2>2. CASE failures < MaxFailures /\ failures' = failures + 1
    BY <2>2, CircSupplyAssumption
  <2> QED
    BY <2>1, <2>2 DEF Next, vars, MineBlock, ReorgHead, BeginCycle, Progress, ProgressLdo,
       SaveLdo, SaveOther, EndCycle, RejectLdo, FailLdoRequest, FailOther
<1> QED
  BY <1>1, <1>2, PTL DEF Spec

(* The chain, the fields of both scans, the cache, every call, the worker  *)
(* and the storage hold what their types say, whatever requests fail and   *)
(* calls overlap: what is stored for LDO is always an amount, as a call    *)
(* that resolves has calculated one (ldo.service.ts:30,                    *)
(* worker.service.ts:58, tokens.service.ts:47).                            *)
THEOREM TypeCorrect == Spec => []TypeOK
<1>1. CoverIInv /\ BurnsService!IInv /\ LdoTypes /\ WorkerProofs!WorkerInv
        /\ failures \in 0 .. MaxFailures => TypeOK
  <2> SUFFICES ASSUME CoverIInv, BurnsService!IInv, LdoTypes, WorkerProofs!WorkerInv,
                      failures \in 0 .. MaxFailures
               PROVE  TypeOK
    OBVIOUS
  <2>1. ChainTypeOK
    BY DEF CoverIInv, ChainInv
  <2>2. Worker!WorkerTypeOK
    BY WorkerTranslates
  <2>3. MembersService!TypeOK /\ BurnsService!TypeOK
    BY DEF CoverIInv, MembersService!IInv, BurnsService!IInv
  <2>4. /\ membersAddresses \subseteq Members /\ burnsAddresses \subseteq Members
        /\ membersLastFetchedBlock \in Int \cup {None}
        /\ burnsLastFetchedBlock \in Int \cup {None}
        /\ membersScan \in [Runs -> MembersService!ScanType]
        /\ burnsScan \in [Runs -> BurnsService!ScanType]
    BY <2>3 DEF MembersService!TypeOK, BurnsService!TypeOK
  <2>5. LdoTypeOK
    BY <2>4 DEF LdoTypes, VestingsTyped, CallTyped, LdoTypeOK
  <2> QED
    BY <2>1, <2>2, <2>5 DEF TypeOK
<1> QED
  BY <1>1, CoverInvariance, BurnsScanInvariance, LdoTypesInvariance, WorkerInvariant,
     FailuresInvariance, PTL

-----------------------------------------------------------------------------
(* The history of the chain.                                               *)

VestingAt(n, m) == \E f \in VestingFilters : m \in blocks[chain[n]].events[f]
BurnAt(n, m) == m \in blocks[chain[n]].events["Burn"]
NonVested(n, m) == blocks[chain[n]].nonVested[m]

(* Without an event of its own a member's vestings stay; a member the      *)
(* snapshot does not name has none before its first event, and keeps what  *)
(* covers them until it burns.                                             *)
VestingHistory ==
  \A i, j \in DOMAIN chain, m \in Members :
    i <= j /\ (\A n \in DOMAIN chain : i < n /\ n <= j => ~ VestingAt(n, m))
      => NonVested(i, m) = NonVested(j, m)

BurnHistory ==
  \A j \in DOMAIN chain, m \in Members :
    m \notin snapshot.burnsAddresses /\ (\A n \in DOMAIN chain : n <= j => ~ BurnAt(n, m))
      => blocks[chain[j]].nonVested[m] <= blocks[chain[j]].balance[m]

GrantHistory ==
  \A j \in DOMAIN chain, m \in Members :
    m \notin snapshot.vestingMembers /\ (\A n \in DOMAIN chain : n <= j => ~ VestingAt(n, m))
      => NonVested(j, m) = 0

History == VestingHistory /\ BurnHistory /\ GrantHistory /\ snapshot.toBlock = 1

LEMMA SuccessorEffects ==
  ASSUME NEW b \in Block, NEW c \in Successors(b), NEW m \in Members
  PROVE  /\ (\A f \in VestingFilters : m \notin c.events[f]) => c.nonVested[m] = b.nonVested[m]
         /\ m \notin c.events["Burn"] /\ b.nonVested[m] <= b.balance[m]
              => c.nonVested[m] <= c.balance[m]
<1>1. /\ b.nonVested \in [Members -> Nat] /\ b.balance \in [Members -> Nat]
      /\ b.nonVested[m] \in Nat /\ b.balance[m] \in Nat
  BY DEF Block
<1>2. /\ Empty(b).nonVested = b.nonVested /\ Empty(b).balance = b.balance
      /\ Empty(b).events = NoEvents
  BY DEF Empty, Block
<1>3. ASSUME NEW x \in Members, c = Granted(b, x)
      PROVE  /\ c.nonVested = [b.nonVested EXCEPT ![x] = @ + 1]
             /\ c.balance = [b.balance EXCEPT ![x] = @ + 1]
             /\ c.events = [NoEvents EXCEPT !["NewVesting"] = {x}]
  BY <1>3 DEF Granted, Empty, Block
<1>4. ASSUME NEW x \in Members, c = Revoked(b, x)
      PROVE  /\ c.nonVested = [b.nonVested EXCEPT ![x] = 0]
             /\ c.balance = [b.balance EXCEPT ![x] = @ - b.nonVested[x]]
             /\ c.events = [NoEvents EXCEPT !["RevokeVesting"] = {x}]
  BY <1>4 DEF Revoked, Empty, Block
<1>5. ASSUME NEW x \in Members, c = Burned(b, x)
      PROVE  /\ c.nonVested = b.nonVested
             /\ c.balance = [b.balance EXCEPT ![x] = @ - 1]
             /\ c.events = [NoEvents EXCEPT !["Burn"] = {x}]
  BY <1>5 DEF Burned, Empty, Block
<1>6. ASSUME NEW x \in Members, c = Granted(b, x)
      PROVE  /\ c.nonVested[m] = IF m = x THEN b.nonVested[m] + 1 ELSE b.nonVested[m]
             /\ c.balance[m] = IF m = x THEN b.balance[m] + 1 ELSE b.balance[m]
             /\ x \in c.events["NewVesting"]
  <2>1. x \in c.events["NewVesting"]
    BY <1>3, <1>6 DEF NoEvents, EventFilters, VestingFilters
  <2>2. /\ c.nonVested[m] = IF m = x THEN b.nonVested[m] + 1 ELSE b.nonVested[m]
        /\ c.balance[m] = IF m = x THEN b.balance[m] + 1 ELSE b.balance[m]
    BY <1>1, <1>3, <1>6
  <2> QED
    BY <2>1, <2>2
<1>7. ASSUME NEW x \in Members, c = Revoked(b, x), b.nonVested[x] <= b.balance[x]
      PROVE  /\ c.nonVested[m] = IF m = x THEN 0 ELSE b.nonVested[m]
             /\ c.balance[m] = IF m = x THEN b.balance[m] - b.nonVested[m] ELSE b.balance[m]
             /\ x \in c.events["RevokeVesting"]
  <2>1. x \in c.events["RevokeVesting"]
    BY <1>4, <1>7 DEF NoEvents, EventFilters, VestingFilters
  <2>2. c.nonVested[m] = IF m = x THEN 0 ELSE b.nonVested[m]
    BY <1>1, <1>4, <1>7
  <2>3. c.balance[m] = IF m = x THEN b.balance[m] - b.nonVested[m] ELSE b.balance[m]
    BY <1>1, <1>4, <1>7
  <2> QED
    BY <2>1, <2>2, <2>3
<1>8. ASSUME NEW x \in Members, c = Burned(b, x)
      PROVE  /\ c.nonVested[m] = b.nonVested[m]
             /\ c.balance[m] = IF m = x THEN b.balance[m] - 1 ELSE b.balance[m]
             /\ x \in c.events["Burn"]
  BY <1>1, <1>5, <1>8 DEF NoEvents, EventFilters, BurnFilters
<1>9. CASE c = Empty(b)
  BY <1>2, <1>9
<1>10. ASSUME NEW x \in Members, c = Granted(b, x)
       PROVE  /\ (\A f \in VestingFilters : m \notin c.events[f]) => c.nonVested[m] = b.nonVested[m]
              /\ b.nonVested[m] <= b.balance[m] => c.nonVested[m] <= c.balance[m]
  BY <1>1, <1>6, <1>10 DEF VestingFilters
<1>11. ASSUME NEW x \in Members, c = Revoked(b, x), b.nonVested[x] <= b.balance[x]
       PROVE  /\ (\A f \in VestingFilters : m \notin c.events[f]) => c.nonVested[m] = b.nonVested[m]
              /\ b.nonVested[m] <= b.balance[m] => c.nonVested[m] <= c.balance[m]
  BY <1>1, <1>7, <1>11 DEF VestingFilters
<1>12. ASSUME NEW x \in Members, c = Burned(b, x)
       PROVE  /\ c.nonVested[m] = b.nonVested[m]
              /\ m \notin c.events["Burn"] /\ b.nonVested[m] <= b.balance[m]
                   => c.nonVested[m] <= c.balance[m]
  BY <1>1, <1>8, <1>12
<1>13. ASSUME NEW x \in Members, c = Received(b, x)
       PROVE  /\ c.nonVested[m] = b.nonVested[m]
              /\ b.nonVested[m] <= b.balance[m] => c.nonVested[m] <= c.balance[m]
  <2>1. c.nonVested = b.nonVested /\ c.balance = [b.balance EXCEPT ![x] = @ + 1]
    BY <1>13 DEF Received, Empty, Block
  <2> QED
    BY <1>1, <2>1
<1> QED
  BY <1>9, <1>10, <1>11, <1>12, <1>13 DEF Successors

(* What a step leaves of the chain: the blocks up to L, and what it adds   *)
(* is new.                                                                 *)
Cut(L) ==
  /\ L \in Nat /\ 1 <= L /\ L <= Len(chain) /\ highest - MaxReorgDepth <= L
  /\ highest' \in Nat /\ highest <= highest'
  /\ DOMAIN blocks \subseteq DOMAIN blocks'
  /\ \A h \in DOMAIN blocks : blocks'[h] = blocks[h]
  /\ \A h \in DOMAIN blocks' : h \in DOMAIN blocks \/ OnChain(h)'
  /\ \A n \in 1 .. L : n \in DOMAIN chain /\ n \in DOMAIN chain' /\ chain'[n] = chain[n]
  /\ \A n \in DOMAIN chain' : n \in Nat \ {0} /\ (n > L =>
       /\ n = L + 1 /\ chain'[n] \notin DOMAIN blocks
       /\ blocks'[chain'[n]] \in Successors(blocks[chain[L]]))

LEMMA StepCuts ==
  ASSUME ChainInv, [Next]_vars
  PROVE  \E L \in Nat : Cut(L)
<1>1. /\ DOMAIN blocks = 1 .. Len(blocks) /\ Len(blocks) \in Nat
      /\ DOMAIN chain = 1 .. Len(chain) /\ Len(chain) \in Nat /\ 1 <= Len(chain)
      /\ \A n \in DOMAIN chain : chain[n] \in DOMAIN blocks
      /\ highest \in Nat /\ MaxReorgDepth \in Nat /\ highest - MaxReorgDepth <= Len(chain)
  BY EthChainAssumption DEF ChainInv, ChainTypeOK
<1>2. CASE MineBlock
  <2>1. PICK b \in Successors(blocks[head]) :
          /\ blocks' = Append(blocks, b) /\ chain' = Append(chain, Len(blocks) + 1)
          /\ highest' = IF highest < b.number THEN b.number ELSE highest
    BY <1>2 DEF MineBlock, Mine
  <2>2. Len(blocks) < MaxMined
    BY <1>2 DEF MineBlock, Mine
  <2>3. /\ b.number = Len(chain) + 1
        /\ blocks' \in Seq(Block) /\ chain' \in Seq(DOMAIN blocks')
        /\ Len(blocks') = Len(blocks) + 1 /\ Len(chain') = Len(chain) + 1
        /\ chain'[Len(chain) + 1] = Len(blocks) + 1 /\ blocks'[Len(blocks) + 1] = b
        /\ \A h \in 1 .. Len(blocks) : blocks'[h] = blocks[h]
        /\ \A n \in 1 .. Len(chain) : chain'[n] = chain[n]
    BY <2>1, <2>2, MineEffect
  <2>4. DOMAIN blocks' = 1 .. Len(blocks) + 1 /\ DOMAIN chain' = 1 .. Len(chain) + 1
    BY <2>3, <1>1
  <2>5. highest' \in Nat /\ highest <= highest'
    BY <1>1, <2>1, <2>3
  <2>6. \A n \in DOMAIN chain' : n \in Nat \ {0} /\ (n > Len(chain) =>
          /\ n = Len(chain) + 1 /\ chain'[n] \notin DOMAIN blocks
          /\ blocks'[chain'[n]] \in Successors(blocks[chain[Len(chain)]]))
    BY <1>1, <2>1, <2>3, <2>4 DEF head
  <2>8. \A h \in DOMAIN blocks' : h \in DOMAIN blocks \/ OnChain(h)'
    <3> SUFFICES ASSUME NEW h \in DOMAIN blocks', h \notin DOMAIN blocks
                 PROVE  \E n \in DOMAIN chain' : chain'[n] = h
      BY DEF OnChain
    <3>1. h = Len(blocks) + 1 /\ Len(chain) + 1 \in DOMAIN chain'
      BY <1>1, <2>4
    <3> QED
      BY <2>3, <3>1
  <2>7. Cut(Len(chain))
    BY <1>1, <2>3, <2>4, <2>5, <2>6, <2>8 DEF Cut
  <2> QED
    BY <1>1, <2>7
<1>3. CASE ReorgHead
  <2>1. PICK m \in 1 .. MaxMined : Reorg(m)
    BY <1>3 DEF ReorgHead
  <2>2. /\ DOMAIN chain' = 1 .. m
        /\ \A n \in 1 .. m : n \in DOMAIN chain /\ chain'[n] = chain[n]
    BY <2>1, ReorgChainInv
  <2>3. m \in Nat /\ 1 <= m
    BY <2>1, EthChainAssumption
  <2>4. Cut(m)
    BY <1>1, <2>1, <2>2, <2>3 DEF Cut, Reorg
  <2> QED
    BY <2>3, <2>4
<1>4. CASE UNCHANGED chainVars
  <2>1. Cut(Len(chain))
    BY <1>1, <1>4 DEF Cut, chainVars
  <2> QED
    BY <1>1, <2>1
<1> QED
  BY <1>2, <1>3, <1>4 DEF Next, vars, BeginCycle, Progress, ProgressLdo, SaveLdo, SaveOther,
     EndCycle, RejectLdo, FailLdoRequest, FailOther

(* A block that is still on the chain was there before, below the cut.     *)
LEMMA OnChainBefore ==
  ASSUME ChainInv, NEW L, Cut(L), NEW h \in DOMAIN blocks, OnChain(h)'
  PROVE  OnChain(h) /\ blocks[h].number <= L /\ blocks[h].number \in DOMAIN chain
         /\ chain[blocks[h].number] = h
<1>1. PICK n \in DOMAIN chain' : chain'[n] = h
  BY DEF OnChain
<1>2. n <= L
  <2>1. ~ n > L
    BY <1>1 DEF Cut
  <2>2. n \in Nat /\ L \in Nat
    BY DEF Cut
  <2> QED
    BY <2>1, <2>2
<1>3. n \in 1 .. L
  BY <1>1, <1>2 DEF Cut
<1>4. n \in DOMAIN chain /\ chain[n] = h
  BY <1>1, <1>3 DEF Cut
<1> QED
  BY <1>2, <1>4 DEF OnChain, ChainInv

LEMMA OnChainPlace ==
  ASSUME ChainInv, NEW h, OnChain(h)
  PROVE  /\ h \in DOMAIN blocks /\ blocks[h].number \in DOMAIN chain
         /\ chain[blocks[h].number] = h
  BY DEF OnChain, ChainInv, ChainTypeOK

(* Dropped vestings stay dropped.                                          *)
LEMMA DroppedBefore ==
  ASSUME ChainInv, NEW L, Cut(L), NoVestingDropped'
  PROVE  /\ NoVestingDropped
         /\ \A n \in DOMAIN chain, m \in Members : n > L => ~ VestingAt(n, m)
<1>1. ASSUME NEW h \in DOMAIN blocks, ~ OnChain(h)', NEW f \in VestingFilters
      PROVE  blocks[h].events[f] = {}
  BY <1>1 DEF Cut, NoVestingDropped
<1>2. NoVestingDropped
  BY <1>1, OnChainBefore DEF NoVestingDropped
<1>3. ASSUME NEW n \in DOMAIN chain, NEW m \in Members, n > L PROVE ~ VestingAt(n, m)
  <2>1. PICK h \in DOMAIN blocks : h = chain[n]
    BY DEF ChainInv, ChainTypeOK
  <2>2. blocks[h].number = n /\ n \in Nat /\ L \in Nat
    BY <2>1 DEF ChainInv, ChainTypeOK, Cut
  <2>3. ~ (blocks[h].number <= L)
    BY <1>3, <2>2
  <2>4. ~ OnChain(h)'
    BY <2>3, OnChainBefore
  <2> QED
    BY <1>1, <2>1, <2>4 DEF VestingAt
<1> QED
  BY <1>2, <1>3

LEMMA SnapshotStays == ASSUME [Next]_vars PROVE snapshot' = snapshot
BY DEF Next, vars, ldoVars, MineBlock, ReorgHead, BeginCycle, StartCall, Progress, ProgressLdo,
   LdoProgress, ServeSupply, ServeMembersQuery, ServeBurnsQuery, CompleteMembers, CompleteBurns,
   StartFetches, MergeVestings, ServeBalances, Calculate, SaveLdo, SaveOther, EndCycle,
   RejectLdo, FailLdoRequest, LdoFailure, FailMembers, FailBurns, FailRead, FailOther

LEMMA HistoryInit == Init => History
<1> SUFFICES ASSUME Init PROVE History
  OBVIOUS
<1>1. PICK v \in [Members -> 0 .. MaxAmount], w \in [Members -> 0 .. MaxAmount] :
        blocks = [n \in 1 .. MaxReorgDepth + 1 |->
                   [number |-> n, nonVested |-> v, balance |-> w, events |-> NoEvents]]
  BY DEF Init, ChainInit
<1>2. chain = [n \in 1 .. MaxReorgDepth + 1 |-> n] /\ 1 \in 1 .. MaxReorgDepth + 1
  BY EthChainAssumption DEF Init, ChainInit
<1>3. \A n \in DOMAIN chain : blocks[chain[n]].nonVested = v /\ blocks[chain[n]].balance = w
  BY <1>1, <1>2
<1>4. blocks[1].nonVested = v /\ blocks[1].balance = w
  BY <1>1, <1>2
<1>5. \A m \in Members : v[m] \in Nat /\ w[m] \in Nat
  BY <1>1, EthChainAssumption
<1>6. /\ snapshot.toBlock = 1
      /\ \A m \in Members : /\ v[m] > 0 => m \in snapshot.vestingMembers
                            /\ w[m] < v[m] => m \in snapshot.burnsAddresses
  BY <1>4 DEF Init, LdoInit
<1>7. VestingHistory
  BY <1>3 DEF VestingHistory, NonVested
<1>8. BurnHistory
  BY <1>3, <1>5, <1>6 DEF BurnHistory
<1>9. GrantHistory
  BY <1>3, <1>5, <1>6 DEF GrantHistory, NonVested
<1> QED
  BY <1>6, <1>7, <1>8, <1>9 DEF History

LEMMA HistoryStep ==
  ASSUME ChainInv, History, [Next]_vars PROVE History'
<1>1. PICK L \in Nat : Cut(L)
  BY StepCuts
<1>2. snapshot' = snapshot
  BY SnapshotStays
<1>3. /\ \A n \in DOMAIN chain' : n \in Nat /\ (n <= L => n \in 1 .. L)
      /\ \A n \in 1 .. L : n \in DOMAIN chain /\ n \in DOMAIN chain'
                           /\ blocks'[chain'[n]] = blocks[chain[n]]
      /\ L \in 1 .. L
  <2>1. \A n \in DOMAIN chain : chain[n] \in DOMAIN blocks
    BY DEF ChainInv, ChainTypeOK
  <2> QED
    BY <1>1, <2>1 DEF Cut
<1> DEFINE New(n) == /\ n = L + 1
                     /\ blocks'[chain'[n]] \in Successors(blocks[chain[L]])
<1>4. \A n \in DOMAIN chain' : n \in 1 .. L \/ New(n)
  BY <1>1, <1>3 DEF Cut
<1>5. blocks[chain[L]] \in Block
  BY <1>3 DEF ChainInv, ChainTypeOK
<1>6. ASSUME NEW n \in DOMAIN chain', New(n), NEW m \in Members
      PROVE  /\ ~ VestingAt(n, m)' => blocks'[chain'[n]].nonVested[m] = blocks[chain[L]].nonVested[m]
             /\ ~ BurnAt(n, m)' /\ blocks[chain[L]].nonVested[m] <= blocks[chain[L]].balance[m]
                  => blocks'[chain'[n]].nonVested[m] <= blocks'[chain'[n]].balance[m]
  <2>1. PICK c \in Successors(blocks[chain[L]]) : c = blocks'[chain'[n]]
    BY <1>6
  <2>2. /\ (\A f \in VestingFilters : m \notin c.events[f])
              => c.nonVested[m] = blocks[chain[L]].nonVested[m]
        /\ m \notin c.events["Burn"] /\ blocks[chain[L]].nonVested[m] <= blocks[chain[L]].balance[m]
              => c.nonVested[m] <= c.balance[m]
    BY <1>5, SuccessorEffects
  <2> QED
    BY <2>1, <2>2 DEF VestingAt, BurnAt
<1> HIDE DEF New
<1>7. \A n \in 1 .. L, m \in Members :
        /\ VestingAt(n, m)' <=> VestingAt(n, m)
        /\ BurnAt(n, m)' <=> BurnAt(n, m)
        /\ NonVested(n, m)' = NonVested(n, m)
  BY <1>3 DEF VestingAt, BurnAt, NonVested
<1>8. VestingHistory'
  <2> SUFFICES ASSUME NEW i \in DOMAIN chain', NEW j \in DOMAIN chain', NEW m \in Members, i <= j,
                      \A n \in DOMAIN chain' : i < n /\ n <= j => ~ VestingAt(n, m)'
               PROVE  NonVested(i, m)' = NonVested(j, m)'
    BY DEF VestingHistory
  <2>1. ASSUME NEW k \in 1 .. L, i <= k, k <= j
        PROVE  NonVested(i, m)' = NonVested(k, m)'
    <3>1. i \in 1 .. L
      BY <1>3, <2>1
    <3>2. ASSUME NEW n \in DOMAIN chain, i < n, n <= k PROVE ~ VestingAt(n, m)
      <4>1. n \in 1 .. L
        BY <2>1, <3>1, <3>2 DEF ChainInv, ChainTypeOK
      <4>2. n <= j
        BY <1>3, <2>1, <3>2, <4>1
      <4> QED
        BY <1>3, <1>7, <3>2, <4>1, <4>2
    <3>3. NonVested(i, m) = NonVested(k, m)
      BY <1>3, <2>1, <3>1, <3>2 DEF History, VestingHistory
    <3> QED
      BY <1>7, <2>1, <3>1, <3>3
  <2>2. CASE j \in 1 .. L
    BY <2>1, <2>2, <1>3
  <2>3. CASE New(j)
    <3>1. CASE i = j
      BY <3>1
    <3>2. CASE i # j
      <4>1. j = L + 1 /\ i <= L /\ L <= j
        BY <1>3, <2>3, <3>2 DEF New
      <4>2. NonVested(i, m)' = NonVested(L, m)'
        BY <1>3, <2>1, <4>1
      <4>3. ~ VestingAt(j, m)'
        BY <1>3, <3>2
      <4>4. NonVested(j, m)' = NonVested(L, m)
        BY <1>6, <2>3, <4>3 DEF NonVested
      <4> QED
        BY <1>3, <1>7, <4>2, <4>4
    <3> QED
      BY <3>1, <3>2
  <2> QED
    BY <1>4, <2>2, <2>3
<1>10. BurnHistory'
  <2> SUFFICES ASSUME NEW j \in DOMAIN chain', NEW m \in Members, m \notin snapshot.burnsAddresses,
                      \A n \in DOMAIN chain' : n <= j => ~ BurnAt(n, m)'
               PROVE  blocks'[chain'[j]].nonVested[m] <= blocks'[chain'[j]].balance[m]
    BY <1>2 DEF BurnHistory
  <2>1. ASSUME NEW k \in 1 .. L, k <= j
        PROVE  blocks[chain[k]].nonVested[m] <= blocks[chain[k]].balance[m]
    <3>1. ASSUME NEW n \in DOMAIN chain, n <= k PROVE ~ BurnAt(n, m)
      <4>1. n \in 1 .. L /\ n <= j
        BY <1>3, <2>1, <3>1 DEF ChainInv, ChainTypeOK
      <4> QED
        BY <1>3, <1>7, <4>1
    <3> QED
      BY <1>3, <2>1, <3>1 DEF History, BurnHistory
  <2>2. CASE j \in 1 .. L
    BY <1>3, <2>1, <2>2
  <2>3. CASE New(j)
    <3>1. L <= j
      BY <1>3, <2>3 DEF New
    <3>2. ~ BurnAt(j, m)' /\ blocks[chain[L]].nonVested[m] <= blocks[chain[L]].balance[m]
      BY <1>3, <2>1, <3>1
    <3> QED
      BY <1>6, <2>3, <3>2
  <2> QED
    BY <1>4, <2>2, <2>3
<1>11. GrantHistory'
  <2> SUFFICES ASSUME NEW j \in DOMAIN chain', NEW m \in Members, m \notin snapshot.vestingMembers,
                      \A n \in DOMAIN chain' : n <= j => ~ VestingAt(n, m)'
               PROVE  NonVested(j, m)' = 0
    BY <1>2 DEF GrantHistory
  <2>1. ASSUME NEW k \in 1 .. L, k <= j
        PROVE  NonVested(k, m) = 0
    <3>1. ASSUME NEW n \in DOMAIN chain, n <= k PROVE ~ VestingAt(n, m)
      <4>1. n \in 1 .. L /\ n <= j
        BY <1>3, <2>1, <3>1 DEF ChainInv, ChainTypeOK
      <4> QED
        BY <1>3, <1>7, <4>1
    <3> QED
      BY <1>3, <2>1, <3>1 DEF History, GrantHistory
  <2>2. CASE j \in 1 .. L
    BY <1>3, <1>7, <2>1, <2>2
  <2>3. CASE New(j)
    <3>1. L <= j
      BY <1>3, <2>3 DEF New
    <3>2. ~ VestingAt(j, m)' /\ NonVested(L, m) = 0
      BY <1>3, <2>1, <3>1
    <3> QED
      BY <1>6, <2>3, <3>2 DEF NonVested
  <2> QED
    BY <1>4, <2>2, <2>3
<1> QED
  BY <1>2, <1>8, <1>10, <1>11 DEF History

LEMMA HistoryInvariance == Spec => []History
<1>1. ChainInv /\ History /\ [Next]_vars => History'
  BY HistoryStep
<1> QED
  BY <1>1, HistoryInit, ChainInvariance, PTL DEF Spec

-----------------------------------------------------------------------------
(* What one step does to the calls.                                        *)

LEMMA BeginEffect ==
  ASSUME CallTyped, NEW r \in Runs, BeginCycle(r)
  PROVE  /\ call[r].running = {}
         /\ call'[r].hash = head /\ ~ call'[r].rejected
         /\ call'[r].running = {"supply", "locked", "members", "burns"}
         /\ call'[r].fromBlock = MembersService!FirstBlock
         /\ call'[r].toFetch = {} /\ call'[r].holders = None /\ call'[r].locked = None
         /\ \A t \in Runs : t # r => call'[t] = call[t]
         /\ UNCHANGED <<chainVars, snapshot, membersVestings, failures, lastBlock, tokensData>>
         /\ executing = None /\ executing' = r
         /\ cycle' = [cycle EXCEPT ![r] = BlockInfo(head)]
<1> DEFINE c == [NoCall EXCEPT !.hash = head, !.running = {"supply", "locked", "members", "burns"},
                               !.fromBlock = MembersService!FirstBlock]
<1>1. /\ call' = [call EXCEPT ![r] = c] /\ Drained(r)
      /\ UNCHANGED <<chainVars, snapshot, membersVestings, failures>>
  BY DEF BeginCycle, StartCall
<1>2. /\ executing = None /\ executing' = r /\ UNCHANGED <<lastBlock, tokensData>>
      /\ cycle' = [cycle EXCEPT ![r] = BlockInfo(head)]
  BY DEF BeginCycle, Worker!StartCycle
<1>3. /\ c.hash = head /\ c.rejected = FALSE
      /\ c.running = {"supply", "locked", "members", "burns"}
      /\ c.fromBlock = MembersService!FirstBlock
      /\ c.toFetch = {} /\ c.holders = None /\ c.locked = None
  BY DEF NoCall
<1> HIDE DEF c
<1>4. call'[r] = c /\ \A t \in Runs : t # r => call'[t] = call[t]
  BY <1>1 DEF CallTyped
<1> QED
  BY <1>1, <1>2, <1>3, <1>4 DEF Drained

(* A part ends.                                                            *)
LEMMA EndEffect ==
  ASSUME CallTyped, NEW r \in Runs, NEW p, End(r, {p})
  PROVE  /\ call'[r].running = call[r].running \ {p}
         /\ call'[r].hash = call[r].hash /\ call'[r].rejected = call[r].rejected
         /\ call'[r].fromBlock = call[r].fromBlock /\ call'[r].toFetch = call[r].toFetch
         /\ call'[r].holders = call[r].holders /\ call'[r].locked = call[r].locked
         /\ \A t \in Runs : t # r => call'[t] = call[t]
BY DEF CallTyped, CallType, End

LEMMA FailEffect ==
  ASSUME CallTyped, NEW r \in Runs, NEW p, Fail(r, p)
  PROVE  /\ Running(r, p) /\ call'[r].rejected
         /\ call'[r].running = call[r].running \ (IF p = "supply" THEN {p} ELSE {p, "locked"})
         /\ call'[r].hash = call[r].hash
         /\ call'[r].fromBlock = call[r].fromBlock /\ call'[r].toFetch = call[r].toFetch
         /\ call'[r].holders = call[r].holders /\ call'[r].locked = call[r].locked
         /\ \A t \in Runs : t # r => call'[t] = call[t]
<1> DEFINE gone == IF p = "supply" THEN {p} ELSE {p, "locked"}
<1>1. Running(r, p) /\ call' = [call EXCEPT ![r].running = @ \ gone, ![r].rejected = TRUE]
  BY DEF Fail
<1> HIDE DEF gone
<1>2. /\ call'[r].running = call[r].running \ gone /\ call'[r].rejected
      /\ call'[r].hash = call[r].hash
      /\ call'[r].fromBlock = call[r].fromBlock /\ call'[r].toFetch = call[r].toFetch
      /\ call'[r].holders = call[r].holders /\ call'[r].locked = call[r].locked
      /\ \A t \in Runs : t # r => call'[t] = call[t]
  BY <1>1 DEF CallTyped, CallType
<1> QED
  BY <1>1, <1>2 DEF gone

LEMMA CompleteMembersEffect ==
  ASSUME CallTyped, NEW r \in Runs, CompleteMembers(r)
  PROVE  /\ call'[r].running = call[r].running \ {"members"}
         /\ call'[r].toFetch = membersScan[r].found
         /\ call'[r].hash = call[r].hash /\ call'[r].rejected = call[r].rejected
         /\ call'[r].fromBlock = call[r].fromBlock
         /\ call'[r].holders = call[r].holders /\ call'[r].locked = call[r].locked
         /\ \A t \in Runs : t # r => call'[t] = call[t]
BY DEF CallTyped, CallType, CompleteMembers

LEMMA StartFetchesEffect ==
  ASSUME CallTyped, NEW r \in Runs, StartFetches(r)
  PROVE  /\ Running(r, "locked") /\ call[r].holders = None
         /\ ~ Running(r, "members") /\ ~ Running(r, "burns")
         /\ call'[r].running = call[r].running
              \cup (IF MembersToFetch(r) = {} THEN {} ELSE {"vestings"})
              \cup (IF burnsAddresses = {} THEN {} ELSE {"balances"})
         /\ call'[r].toFetch = MembersToFetch(r) /\ call'[r].holders = burnsAddresses
         /\ call'[r].hash = call[r].hash /\ call'[r].rejected = call[r].rejected
         /\ call'[r].fromBlock = call[r].fromBlock /\ call'[r].locked = call[r].locked
         /\ \A t \in Runs : t # r => call'[t] = call[t]
<1> DEFINE new == call[r].running
                    \cup (IF MembersToFetch(r) = {} THEN {} ELSE {"vestings"})
                    \cup (IF burnsAddresses = {} THEN {} ELSE {"balances"})
           f == MembersToFetch(r)
<1>1. /\ Running(r, "locked") /\ call[r].holders = None
      /\ ~ Running(r, "members") /\ ~ Running(r, "burns")
  BY DEF StartFetches, ScansDone
<1>2. call' = [call EXCEPT ![r].running = new, ![r].toFetch = f, ![r].holders = burnsAddresses]
  BY DEF StartFetches, CallTyped, CallType
<1> HIDE DEF new, f
<1>3. /\ call'[r].running = new /\ call'[r].toFetch = f /\ call'[r].holders = burnsAddresses
      /\ call'[r].hash = call[r].hash /\ call'[r].rejected = call[r].rejected
      /\ call'[r].fromBlock = call[r].fromBlock /\ call'[r].locked = call[r].locked
      /\ \A t \in Runs : t # r => call'[t] = call[t]
  BY <1>2 DEF CallTyped, CallType
<1> QED
  BY <1>1, <1>3 DEF new, f

LEMMA CalculateEffect ==
  ASSUME CallTyped, NEW r \in Runs, Calculate(r)
  PROVE  /\ Running(r, "locked") /\ call[r].holders # None
         /\ ~ Running(r, "vestings") /\ ~ Running(r, "balances")
         /\ call'[r].running = call[r].running \ {"locked"}
         /\ call'[r].hash = call[r].hash /\ call'[r].fromBlock = call[r].fromBlock
         /\ \A t \in Runs : t # r => call'[t] = call[t]
         /\ BalanceMissing(r) => /\ call'[r].rejected /\ call'[r].toFetch = call[r].toFetch
                                 /\ call'[r].holders = call[r].holders
                                 /\ call'[r].locked = call[r].locked
         /\ ~ BalanceMissing(r) => /\ call'[r].rejected = call[r].rejected
                                   /\ call'[r].toFetch = {} /\ call'[r].holders = {}
                                   /\ call'[r].locked = LockedSum(r)
<1> DEFINE s == LockedSum(r)
<1>1. /\ Running(r, "locked") /\ call[r].holders # None
      /\ ~ Running(r, "vestings") /\ ~ Running(r, "balances")
  BY DEF Calculate, ReadyToCalculate
<1>2. CASE BalanceMissing(r)
  <2>1. call' = [call EXCEPT ![r].running = @ \ {"locked"}, ![r].rejected = TRUE]
    BY <1>2 DEF Calculate
  <2>2. /\ call'[r].running = call[r].running \ {"locked"} /\ call'[r].rejected
        /\ call'[r].hash = call[r].hash /\ call'[r].toFetch = call[r].toFetch
        /\ call'[r].fromBlock = call[r].fromBlock
        /\ call'[r].holders = call[r].holders /\ call'[r].locked = call[r].locked
        /\ \A t \in Runs : t # r => call'[t] = call[t]
    BY <2>1 DEF CallTyped, CallType
  <2> QED
    BY <1>1, <1>2, <2>2
<1>3. CASE ~ BalanceMissing(r)
  <2>1. call' = [call EXCEPT ![r].running = @ \ {"locked"}, ![r].toFetch = {},
                             ![r].holders = {}, ![r].locked = s]
    BY <1>3 DEF Calculate
  <2> HIDE DEF s
  <2>2. /\ call'[r].running = call[r].running \ {"locked"}
        /\ call'[r].rejected = call[r].rejected
        /\ call'[r].hash = call[r].hash /\ call'[r].toFetch = {}
        /\ call'[r].fromBlock = call[r].fromBlock
        /\ call'[r].holders = {} /\ call'[r].locked = s
        /\ \A t \in Runs : t # r => call'[t] = call[t]
    BY <2>1 DEF CallTyped, CallType
  <2> QED
    BY <1>1, <1>3, <2>2 DEF s
<1> QED
  BY <1>2, <1>3

(* What a step of slot r, other than its first, may do to the calls.       *)
LEMMA StepEffect ==
  ASSUME CallTyped, NEW r \in Runs, LdoProgress(r) \/ LdoFailure(r)
  PROVE  /\ \A t \in Runs : t # r => call'[t] = call[t]
         /\ call'[r].hash = call[r].hash /\ call'[r].fromBlock = call[r].fromBlock
         /\ Running(r, "locked")' => Running(r, "locked")
         /\ Running(r, "members")' => Running(r, "members")
         /\ Running(r, "burns")' => Running(r, "burns")
         /\ call[r].rejected => call'[r].rejected
         /\ call'[r].locked # call[r].locked => Calculate(r)
         /\ ~ StartFetches(r) =>
              /\ Running(r, "vestings")' => Running(r, "vestings")
              /\ Running(r, "balances")' => Running(r, "balances")
         /\ call'[r].holders # call[r].holders => StartFetches(r) \/ Calculate(r)
<1>1. CASE ServeSupply(r) \/ CompleteBurns(r) \/ ServeBalances(r) \/ MergeVestings(r)
  <2>1. PICK p : End(r, {p})
    BY <1>1 DEF ServeSupply, CompleteBurns, ServeBalances, MergeVestings
  <2> QED
    BY <2>1, EndEffect DEF Running
<1>2. CASE ServeMembersQuery(r) \/ ServeBurnsQuery(r)
  BY <1>2 DEF ServeMembersQuery, ServeBurnsQuery, Running
<1>3. CASE CompleteMembers(r)
  BY <1>3, CompleteMembersEffect DEF Running
<1>4. CASE StartFetches(r)
  <2>1. /\ call'[r].running = call[r].running
              \cup (IF MembersToFetch(r) = {} THEN {} ELSE {"vestings"})
              \cup (IF burnsAddresses = {} THEN {} ELSE {"balances"})
        /\ call'[r].hash = call[r].hash /\ call'[r].rejected = call[r].rejected
        /\ call'[r].fromBlock = call[r].fromBlock /\ call'[r].locked = call[r].locked
        /\ \A t \in Runs : t # r => call'[t] = call[t]
    BY <1>4, StartFetchesEffect
  <2>2. /\ "locked" \in call'[r].running => "locked" \in call[r].running
        /\ "members" \in call'[r].running => "members" \in call[r].running
        /\ "burns" \in call'[r].running => "burns" \in call[r].running
    BY <2>1
  <2> QED
    BY <1>4, <2>1, <2>2 DEF Running
<1>5. CASE Calculate(r)
  <2>1. /\ call'[r].running = call[r].running \ {"locked"}
        /\ call'[r].hash = call[r].hash /\ call'[r].fromBlock = call[r].fromBlock
        /\ \A t \in Runs : t # r => call'[t] = call[t]
        /\ call[r].rejected => call'[r].rejected
    BY <1>5, CalculateEffect
  <2> QED
    BY <1>5, <2>1 DEF Running
<1>6. CASE LdoFailure(r)
  <2>1. PICK p : Fail(r, p)
    BY <1>6 DEF LdoFailure, FailMembers, FailBurns, FailRead
  <2>2. call'[r].running \subseteq call[r].running
    BY <2>1, FailEffect
  <2> QED
    BY <2>1, <2>2, FailEffect DEF Running
<1> QED
  BY <1>1, <1>2, <1>3, <1>4, <1>5, <1>6 DEF LdoProgress

(* The parts of a call run in order, and its burns scan is its own.        *)
BlockNumber(r) == blocks[call[r].hash].number

CallFlow(r) ==
  /\ BurnsService!Scanning(r) <=> Running(r, "burns")
  /\ Running(r, "burns") => burnsScan[r].toBlock = BlockNumber(r)
  /\ Running(r, "vestings") \/ Running(r, "balances") => call[r].holders # None
  /\ call[r].holders # None => ~ Running(r, "members") /\ ~ Running(r, "burns")
  /\ call[r].locked # None =>
       call[r].holders # None /\ ~ Running(r, "locked") /\ ~ Running(r, "vestings")

FlowInv == \A r \in Runs : CallFlow(r)

LEMMA FlowKept ==
  ASSUME NEW t \in Runs, CallFlow(t), call'[t] = call[t], burnsScan'[t] = burnsScan[t],
         call[t].running # {} => blocks'[call[t].hash] = blocks[call[t].hash]
  PROVE  CallFlow(t)'
<1>1. /\ BurnsService!Scanning(t)' <=> BurnsService!Scanning(t)
      /\ \A p : Running(t, p)' <=> Running(t, p)
  BY DEF BurnsService!Scanning, BurnsService!NoScan, Running
<1>2. Running(t, "burns") => BlockNumber(t)' = BlockNumber(t)
  BY DEF Running, BlockNumber
<1> QED
  BY <1>1, <1>2 DEF CallFlow

LEMMA BurnsScanEffect ==
  ASSUME BurnsService!IInv, NEW r \in Runs
  PROVE  /\ \A n : BurnsService!StartScan(r, n) =>
              /\ burnsScan'[r] = [toBlock |-> n, found |-> {},
                                  queries |-> BurnsService!Queries(BurnsService!FirstBlock, n)]
              /\ \A t \in Runs : t # r => burnsScan'[t] = burnsScan[t]
         /\ \A q : BurnsService!ServeQuery(r, q) =>
              /\ burnsScan'[r] = [toBlock |-> burnsScan[r].toBlock,
                                  queries |-> burnsScan[r].queries \ {q},
                                  found   |-> burnsScan[r].found \cup BurnsService!Answer(q)]
              /\ \A t \in Runs : t # r => burnsScan'[t] = burnsScan[t]
         /\ BurnsService!CompleteScan(r) \/ BurnsService!FailScan(r) =>
              /\ burnsScan'[r] = BurnsService!NoScan
              /\ \A t \in Runs : t # r => burnsScan'[t] = burnsScan[t]
BY DEF BurnsService!IInv, BurnsService!TypeOK, BurnsService!StartScan, BurnsService!ServeQuery,
       BurnsService!CompleteScan, BurnsService!FailScan

(* A burns scan that serves a query still scans: its end is a number.      *)
LEMMA BurnsScanRuns ==
  ASSUME BurnsService!IInv, NEW r \in Runs, NEW q \in burnsScan[r].queries
  PROVE  BurnsService!Scanning(r) /\ burnsScan[r].toBlock \in Int
<1>1. BurnsService!Scanning(r)
  BY DEF BurnsService!Scanning, BurnsService!NoScan
<1>2. burnsScan[r] \in BurnsService!ScanType
  BY DEF BurnsService!IInv, BurnsService!TypeOK
<1> QED
  BY <1>1, <1>2 DEF BurnsService!ScanType, BurnsService!Scanning

(* A step of a call reads of burns, completes or fails their scan, or      *)
(* leaves all that is about burns alone.                                   *)
LEMMA BurnsCases ==
  ASSUME CallTyped, NEW r \in Runs, LdoProgress(r) \/ LdoFailure(r)
  PROVE  \/ ServeBurnsQuery(r) \/ CompleteBurns(r) \/ FailBurns(r)
         \/ (UNCHANGED burnsVars /\ (Running(r, "burns")' <=> Running(r, "burns")))
<1>1. CASE ServeSupply(r) \/ ServeBalances(r) \/ MergeVestings(r)
  BY <1>1, EndEffect DEF ServeSupply, ServeBalances, MergeVestings, Running
<1>2. CASE ServeMembersQuery(r)
  BY <1>2 DEF ServeMembersQuery, Running
<1>3. CASE CompleteMembers(r)
  <2>1. "burns" \in call'[r].running <=> "burns" \in call[r].running
    BY <1>3, CompleteMembersEffect
  <2> QED
    BY <1>3, <2>1 DEF CompleteMembers, Running
<1>4. CASE StartFetches(r)
  <2>1. "burns" \in call'[r].running <=> "burns" \in call[r].running
    BY <1>4, StartFetchesEffect
  <2> QED
    BY <1>4, <2>1 DEF StartFetches, Running
<1>5. CASE Calculate(r)
  <2>1. "burns" \in call'[r].running <=> "burns" \in call[r].running
    BY <1>5, CalculateEffect
  <2> QED
    BY <1>5, <2>1 DEF Calculate, Running
<1>6. CASE FailMembers(r) \/ FailRead(r)
  <2>1. PICK p \in {"members", "supply", "vestings", "balances"} : Fail(r, p)
    BY <1>6 DEF FailMembers, FailRead
  <2>2. "burns" \in call'[r].running <=> "burns" \in call[r].running
    BY <2>1, FailEffect
  <2> QED
    BY <1>6, <2>2 DEF FailMembers, FailRead, Running
<1> QED
  BY <1>1, <1>2, <1>3, <1>4, <1>5, <1>6 DEF LdoProgress, LdoFailure

LEMMA BurnsScanOthers ==
  ASSUME BurnsService!IInv, CallTyped, NEW r \in Runs, LdoProgress(r) \/ LdoFailure(r),
         NEW t \in Runs, t # r
  PROVE  burnsScan'[t] = burnsScan[t]
<1>1. CASE ServeBurnsQuery(r)
  BY <1>1, BurnsScanEffect DEF ServeBurnsQuery
<1>2. CASE CompleteBurns(r) \/ FailBurns(r)
  BY <1>2, BurnsScanEffect DEF CompleteBurns, FailBurns
<1> QED
  BY <1>1, <1>2, BurnsCases DEF burnsVars

(* A step of the system is the first step of a call, another step of one,  *)
(* or leaves the calls alone.                                              *)
LEMMA StepCases ==
  ASSUME [Next]_vars
  PROVE  /\ \/ UNCHANGED ldoVars
            \/ \E r \in Runs :
                 BeginCycle(r) \/ ((LdoProgress(r) \/ LdoFailure(r)) /\ UNCHANGED chainVars)
         /\ \A r \in Runs : executing' = r => executing = r \/ BeginCycle(r)
<1>1. \/ UNCHANGED ldoVars
      \/ \E r \in Runs :
           BeginCycle(r) \/ ((LdoProgress(r) \/ LdoFailure(r)) /\ UNCHANGED chainVars)
  BY DEF Next, vars, MineBlock, ReorgHead, Progress, ProgressLdo, SaveLdo, SaveOther,
     EndCycle, RejectLdo, FailLdoRequest, FailOther
<1>2. ASSUME NEW r \in Runs, executing' = r PROVE executing = r \/ BeginCycle(r)
  <2>1. ASSUME NEW t \in Runs, BeginCycle(t) PROVE executing' = t
    BY <2>1 DEF BeginCycle, Worker!StartCycle
  <2>2. executing' # None
    BY <1>2, CircSupplyAssumption
  <2>3. CASE MineBlock \/ ReorgHead \/ UNCHANGED vars
    BY <1>2, <2>3 DEF MineBlock, ReorgHead, vars, workerVars
  <2>4. ASSUME NEW t \in Runs,
               ProgressLdo(t) \/ SaveLdo(t) \/ SaveOther(t) \/ FailLdoRequest(t)
        PROVE  executing' = executing
    BY <2>4 DEF ProgressLdo, SaveLdo, SaveOther, FailLdoRequest, workerVars,
       Worker!SaveTokenData
  <2>5. ASSUME NEW t \in Runs, EndCycle(t) \/ RejectLdo(t) \/ FailOther(t)
        PROVE  executing' = None \/ executing' = executing
    BY <2>5 DEF EndCycle, RejectLdo, FailOther, Worker!EndCycle, Worker!FailToken
  <2> QED
    BY <1>2, <2>1, <2>2, <2>3, <2>4, <2>5 DEF Next, Progress
<1> QED
  BY <1>1, <1>2

LEMMA FlowStep ==
  ASSUME CoverIInv, BurnsService!IInv, CallTyped, FlowInv, [Next]_vars
  PROVE  FlowInv'
<1>1. PICK L \in Nat : Cut(L)
  BY StepCuts DEF CoverIInv
<1>2. ASSUME NEW t \in Runs, call[t].running # {}
      PROVE  blocks'[call[t].hash] = blocks[call[t].hash] /\ call[t].hash \in DOMAIN blocks
  BY <1>1, <1>2 DEF CoverIInv, CallInv, CallOK, Cut
<1>3. CASE UNCHANGED <<call, burnsScan>>
  BY <1>2, <1>3, FlowKept DEF FlowInv
<1>4. ASSUME NEW r \in Runs, BeginCycle(r) PROVE FlowInv'
  <2>1. BurnsService!StartScan(r, blocks[head].number) /\ UNCHANGED chainVars
    BY <1>4 DEF BeginCycle, StartCall
  <2>2. blocks[head].number \in Int
    BY DEF CoverIInv, ChainInv, ChainTypeOK, head
  <2>3. BurnsService!Scanning(r)' /\ burnsScan'[r].toBlock = blocks[head].number
    <3> DEFINE n == blocks[head].number
    <3>1. BurnsService!StartScan(r, n) /\ n # None
      BY <2>1, <2>2, LdoServiceAssumption
    <3> HIDE DEF n
    <3>4. burnsScan'[r] = [toBlock |-> n, found |-> {},
                           queries |-> BurnsService!Queries(BurnsService!FirstBlock, n)]
      BY <3>1, BurnsScanEffect
    <3>2. burnsScan'[r].toBlock = n
      BY <3>4
    <3>3. BurnsService!Scanning(r)'
      BY <3>1, <3>2 DEF BurnsService!Scanning, BurnsService!NoScan
    <3> QED
      BY <3>2, <3>3 DEF n
  <2>4. CallFlow(r)'
    BY <1>4, <2>1, <2>3, BeginEffect DEF CallFlow, Running, BlockNumber, chainVars
  <2>5. ASSUME NEW t \in Runs, t # r PROVE CallFlow(t)'
    BY <1>2, <1>4, <2>1, <2>5, BeginEffect, BurnsScanEffect, FlowKept DEF FlowInv
  <2> QED
    BY <2>4, <2>5 DEF FlowInv
<1>5. ASSUME NEW r \in Runs, LdoProgress(r) \/ LdoFailure(r), UNCHANGED chainVars
      PROVE  FlowInv'
  <2>1. /\ \A t \in Runs : t # r => call'[t] = call[t]
        /\ call'[r].hash = call[r].hash
        /\ Running(r, "locked")' => Running(r, "locked")
        /\ Running(r, "members")' => Running(r, "members")
        /\ Running(r, "burns")' => Running(r, "burns")
        /\ call'[r].locked # call[r].locked => Calculate(r)
        /\ ~ StartFetches(r) =>
             /\ Running(r, "vestings")' => Running(r, "vestings")
             /\ Running(r, "balances")' => Running(r, "balances")
        /\ call'[r].holders # call[r].holders => StartFetches(r) \/ Calculate(r)
    BY <1>5, StepEffect
  <2>2. BlockNumber(r)' = BlockNumber(r) /\ CallFlow(r)
    BY <1>5, <2>1 DEF BlockNumber, chainVars, FlowInv
  <2>3. \A t \in Runs : t # r => burnsScan'[t] = burnsScan[t]
    BY <1>5, BurnsScanOthers
  <2>4. ASSUME NEW t \in Runs, t # r PROVE CallFlow(t)'
    BY <1>2, <2>1, <2>3, <2>4, FlowKept DEF FlowInv
  <2>5. /\ BurnsService!Scanning(r)' <=> Running(r, "burns")'
        /\ Running(r, "burns")' => burnsScan'[r].toBlock = BlockNumber(r)
    <3>1. CASE ServeBurnsQuery(r)
      <4>1. PICK q \in burnsScan[r].queries : BurnsService!ServeQuery(r, q)
        BY <3>1 DEF ServeBurnsQuery
      <4>2. Running(r, "burns")' <=> Running(r, "burns")
        BY <3>1 DEF ServeBurnsQuery, Running
      <4>3. BurnsService!Scanning(r) /\ burnsScan[r].toBlock \in Int
        BY BurnsScanRuns
      <4>6. burnsScan'[r] = [toBlock |-> burnsScan[r].toBlock,
                             queries |-> burnsScan[r].queries \ {q},
                             found   |-> burnsScan[r].found \cup BurnsService!Answer(q)]
        BY <4>1, BurnsScanEffect
      <4>4. burnsScan'[r].toBlock = burnsScan[r].toBlock
        BY <4>6
      <4>5. BurnsService!Scanning(r)'
        BY <4>3, <4>4, LdoServiceAssumption DEF BurnsService!Scanning, BurnsService!NoScan
      <4> QED
        BY <2>2, <4>2, <4>3, <4>4, <4>5 DEF CallFlow
    <3>2. CASE CompleteBurns(r)
      <4>1. burnsScan'[r] = BurnsService!NoScan /\ ~ Running(r, "burns")'
        BY <3>2, EndEffect, BurnsScanEffect DEF CompleteBurns, Running
      <4> QED
        BY <4>1 DEF BurnsService!Scanning, BurnsService!NoScan
    <3>3. CASE FailBurns(r)
      <4>1. Fail(r, "burns") /\ BurnsService!FailScan(r)
        BY <3>3 DEF FailBurns
      <4>2. burnsScan'[r] = BurnsService!NoScan
        BY <4>1, BurnsScanEffect
      <4>3. call'[r].running = call[r].running \ {"burns", "locked"}
        BY <4>1, FailEffect
      <4>4. ~ Running(r, "burns")'
        BY <4>3 DEF Running
      <4> QED
        BY <4>2, <4>4 DEF BurnsService!Scanning, BurnsService!NoScan
    <3>4. CASE UNCHANGED burnsVars /\ (Running(r, "burns")' <=> Running(r, "burns"))
      <4>1. BurnsService!Scanning(r)' <=> BurnsService!Scanning(r)
        BY <3>4 DEF BurnsService!Scanning, BurnsService!NoScan, burnsVars
      <4> QED
        BY <2>2, <3>4, <4>1 DEF CallFlow, burnsVars
    <3> QED
      BY <1>5, <3>1, <3>2, <3>3, <3>4, BurnsCases
  <2>6. /\ Running(r, "vestings")' \/ Running(r, "balances")' => call'[r].holders # None
        /\ call'[r].holders # None => ~ Running(r, "members")' /\ ~ Running(r, "burns")'
        /\ call'[r].locked # None =>
             call'[r].holders # None /\ ~ Running(r, "locked")' /\ ~ Running(r, "vestings")'
    <3>1. CASE StartFetches(r)
      <4>1. burnsAddresses # None
        BY LdoServiceAssumption DEF BurnsService!IInv, BurnsService!TypeOK
      <4>2. /\ ~ Running(r, "members")' /\ ~ Running(r, "burns")'
            /\ call'[r].holders # None /\ call'[r].locked = call[r].locked
            /\ call[r].holders = None
        BY <2>1, <3>1, <4>1, StartFetchesEffect
      <4> QED
        BY <2>2, <4>2 DEF CallFlow
    <3>2. CASE Calculate(r)
      <4>1. /\ Running(r, "locked") /\ call[r].holders # None
            /\ ~ Running(r, "vestings") /\ ~ Running(r, "balances")
            /\ call'[r].running = call[r].running \ {"locked"}
            /\ BalanceMissing(r) => /\ call'[r].holders = call[r].holders
                                    /\ call'[r].locked = call[r].locked
            /\ ~ BalanceMissing(r) => call'[r].holders = {}
        BY <3>2, CalculateEffect
      <4>2. {} # None
        BY LdoServiceAssumption
      <4>3. /\ ~ Running(r, "locked")' /\ ~ Running(r, "vestings")'
            /\ ~ Running(r, "balances")' /\ ~ Running(r, "members")'
            /\ ~ Running(r, "burns")'
        BY <2>2, <4>1 DEF Running, CallFlow
      <4>4. call'[r].holders # None
        BY <4>1, <4>2
      <4> QED
        BY <4>3, <4>4
    <3>3. CASE ~ StartFetches(r) /\ ~ Calculate(r)
      BY <2>1, <2>2, <3>3 DEF CallFlow
    <3> QED
      BY <3>1, <3>2, <3>3
  <2> QED
    BY <2>2, <2>4, <2>5, <2>6 DEF FlowInv, CallFlow
<1> QED
  BY <1>3, <1>4, <1>5, StepCases DEF ldoVars

LEMMA FlowInit == Init => FlowInv
<1> SUFFICES ASSUME Init, NEW r \in Runs PROVE CallFlow(r)
  BY DEF FlowInv
<1>1. call[r] = NoCall /\ burnsScan[r] = BurnsService!NoScan
  BY DEF Init, LdoInit
<1> QED
  BY <1>1 DEF CallFlow, Running, NoCall, BurnsService!Scanning

(* What a scan that starts asks for, and what it need not ask for.         *)
LEMMA BurnsStart ==
  ASSUME BurnsService!IInv, NEW to \in Int, NEW n \in DOMAIN chain, NEW f \in BurnFilters, n <= to
  PROVE  \/ \E q \in BurnsService!Queries(BurnsService!FirstBlock, to) :
              q.filter = f /\ n \in q.from .. q.to
         \/ blocks[chain[n]].events[f] \subseteq
              IF burnsLastFetchedBlock = None THEN burnsAddresses \cup snapshot.burnsAddresses
                                              ELSE burnsAddresses
<1> DEFINE first == BurnsService!FirstBlock
<1>1. /\ n \in DOMAIN EventLog(BurnFilters) /\ n \in Nat
      /\ EventLog(BurnFilters)[n][f] = blocks[chain[n]].events[f]
  <2>1. n \in DOMAIN EventLog(BurnFilters)
    BY DEF EventLog
  <2>2. EventLog(BurnFilters) \in Seq([BurnFilters -> SUBSET Members])
    BY DEF BurnsService!IInv, BurnsService!TypeOK
  <2> QED
    BY <2>1, <2>2 DEF EventLog
<1>2. /\ snapshot.toBlock \in Int
      /\ burnsLastFetchedBlock \in Int \cup {None} /\ first \in Int
  BY LdoServiceAssumption
     DEF BurnsService!IInv, BurnsService!TypeOK, BurnsService!Snapshots, BurnsService!FirstBlock
<1>3. CASE n >= first
  <2>1. n \in first .. to
    BY <1>1, <1>2, <1>3
  <2>2. BurnsProofs!AddressScanAssumption
    BY EthChainAssumption, LdoServiceAssumption DEF BurnsProofs!AddressScanAssumption
  <2> HIDE DEF first
  <2>3. \E q \in BurnsProofs!Queries(first, to) : q.filter = f /\ n \in q.from .. q.to
    BY <1>2, <2>1, <2>2, BurnsProofs!QueriesTile
  <2>4. BurnsProofs!Queries(first, to) = BurnsService!Queries(first, to)
    BY DEF BurnsProofs!Queries, BurnsProofs!Chunks, BurnsProofs!ChunkStart,
       BurnsProofs!ChunkEnd, BurnsProofs!ChunkCount,
       BurnsService!Queries, BurnsService!Chunks, BurnsService!ChunkStart,
       BurnsService!ChunkEnd, BurnsService!ChunkCount
  <2> QED
    BY <2>3, <2>4 DEF first
<1>4. CASE n < first /\ burnsLastFetchedBlock = None
  <2>1. n <= snapshot.toBlock
    BY <1>1, <1>2, <1>4 DEF BurnsService!FirstBlock
  <2>2. EventLog(BurnFilters)[n][f] \subseteq snapshot.burnsAddresses
    BY <1>1, <2>1 DEF BurnsService!IInv, BurnsService!SnapshotCovers, BurnsService!Covers
  <2> QED
    BY <1>1, <1>4, <2>2
<1>5. CASE n < first /\ burnsLastFetchedBlock # None
  <2>1. n + MaxReorgDepth <= burnsLastFetchedBlock
    BY <1>1, <1>2, <1>5, EthChainAssumption, LdoServiceAssumption DEF BurnsService!FirstBlock
  <2>2. EventLog(BurnFilters)[n][f] \subseteq burnsAddresses
    BY <1>1, <1>5, <2>1 DEF BurnsService!IInv, BurnsService!Coverage
  <2> QED
    BY <1>1, <1>5, <2>2
<1> QED
  BY <1>1, <1>2, <1>3, <1>4, <1>5

(* The burned holders up to the block of a call on the chain: they are     *)
(* known when its scan is over, and are read before.                       *)
BurnsKnown(r) ==
  (Running(r, "locked") \/ call[r].locked # None) /\ OnChain(call[r].hash) =>
    \A n \in DOMAIN chain, f \in BurnFilters : n <= BlockNumber(r) =>
      \/ blocks[chain[n]].events[f] \subseteq burnsAddresses
      \/ /\ Running(r, "burns")
         /\ \/ blocks[chain[n]].events[f] \subseteq burnsAddresses \cup burnsScan[r].found
            \/ BurnsService!Pending(r, f, n)

LEMMA BurnsKnownKept ==
  ASSUME ChainInv, NEW L, Cut(L), NEW t \in Runs, BurnsKnown(t),
         call'[t].hash = call[t].hash,
         Running(t, "locked") \/ call[t].locked # None => call[t].hash \in DOMAIN blocks,
         Running(t, "locked")' \/ call'[t].locked # None =>
           Running(t, "locked") \/ call[t].locked # None,
         burnsAddresses \subseteq burnsAddresses',
         Running(t, "burns") => Running(t, "burns")' /\ burnsScan'[t] = burnsScan[t]
  PROVE  BurnsKnown(t)'
<1> SUFFICES ASSUME Running(t, "locked")' \/ call'[t].locked # None, OnChain(call[t].hash)',
                    NEW n \in DOMAIN chain', NEW f \in BurnFilters, n <= BlockNumber(t)'
             PROVE  \/ blocks'[chain'[n]].events[f] \subseteq burnsAddresses'
                    \/ /\ Running(t, "burns")'
                       /\ \/ blocks'[chain'[n]].events[f] \subseteq burnsAddresses' \cup burnsScan'[t].found
                          \/ BurnsService!Pending(t, f, n)'
  BY DEF BurnsKnown
<1>1. PICK h \in DOMAIN blocks : h = call[t].hash
  OBVIOUS
<1>2. OnChain(h) /\ blocks[h].number <= L /\ blocks[h].number \in DOMAIN chain
  <2>1. OnChain(h)'
    BY <1>1 DEF OnChain
  <2> QED
    BY <2>1, OnChainBefore
<1>3. blocks'[h] = blocks[h] /\ BlockNumber(t)' = BlockNumber(t)
  BY <1>1 DEF Cut, BlockNumber
<1>4. n \in 1 .. L
  BY <1>1, <1>2, <1>3 DEF Cut, BlockNumber, ChainInv, ChainTypeOK
<1>5. n \in DOMAIN chain /\ blocks'[chain'[n]] = blocks[chain[n]]
  BY <1>4 DEF Cut, ChainInv, ChainTypeOK
<1>6. \/ blocks[chain[n]].events[f] \subseteq burnsAddresses
      \/ /\ Running(t, "burns")
         /\ \/ blocks[chain[n]].events[f] \subseteq burnsAddresses \cup burnsScan[t].found
            \/ BurnsService!Pending(t, f, n)
  BY <1>1, <1>2, <1>3, <1>5 DEF BurnsKnown
<1>7. Running(t, "burns") => (BurnsService!Pending(t, f, n)' <=> BurnsService!Pending(t, f, n))
  BY DEF BurnsService!Pending
<1> QED
  BY <1>5, <1>6, <1>7

LEMMA BurnsShared ==
  ASSUME BurnsService!IInv, [Next]_vars
  PROVE  burnsAddresses \subseteq burnsAddresses'
<1>1. ASSUME NEW r \in Runs, BeginCycle(r) PROVE burnsAddresses \subseteq burnsAddresses'
  BY <1>1 DEF BeginCycle, StartCall, BurnsService!StartScan
<1>2. ASSUME NEW r \in Runs, LdoProgress(r) \/ LdoFailure(r)
      PROVE  burnsAddresses \subseteq burnsAddresses'
  BY <1>2 DEF LdoProgress, LdoFailure, ServeSupply, ServeMembersQuery, ServeBurnsQuery,
     CompleteMembers, CompleteBurns, StartFetches, MergeVestings, ServeBalances, Calculate,
     FailMembers, FailBurns, FailRead, burnsVars, BurnsService!ServeQuery,
     BurnsService!CompleteScan, BurnsService!FailScan
<1> QED
  BY <1>1, <1>2, StepCases DEF ldoVars

(* What CallInv says of a call with something left to do or a result.      *)
LEMMA HashKnown ==
  ASSUME CoverIInv, NEW t \in Runs, call[t].running # {} \/ call[t].locked # None
  PROVE  call[t].hash \in DOMAIN blocks
BY DEF CoverIInv, CallInv, CallOK

LEMMA BurnsKnownStep ==
  ASSUME CoverIInv, BurnsService!IInv, CallTyped, FlowInv, [Next]_vars,
         \A t \in Runs : BurnsKnown(t)
  PROVE  \A t \in Runs : BurnsKnown(t)'
<1>1. PICK L \in Nat : Cut(L)
  BY StepCuts DEF CoverIInv
<1>2. burnsAddresses \subseteq burnsAddresses' /\ ChainInv
  BY BurnsShared DEF CoverIInv
<1>3. ASSUME NEW t \in Runs, Running(t, "locked") \/ call[t].locked # None
      PROVE  call[t].hash \in DOMAIN blocks
  BY <1>3, HashKnown DEF Running
<1>4. ASSUME NEW t \in Runs, call'[t] = call[t], burnsScan'[t] = burnsScan[t]
      PROVE  BurnsKnown(t)'
  BY <1>1, <1>2, <1>3, <1>4, BurnsKnownKept DEF Running
<1>5. CASE UNCHANGED ldoVars
  BY <1>4, <1>5 DEF ldoVars
<1>6. ASSUME NEW r \in Runs, BeginCycle(r) PROVE \A t \in Runs : BurnsKnown(t)'
  <2> DEFINE to == blocks[head].number
  <2>1. BurnsService!StartScan(r, to) /\ UNCHANGED chainVars /\ UNCHANGED snapshot
    BY <1>6 DEF BeginCycle, StartCall
  <2>2. to \in Int
    BY DEF CoverIInv, ChainInv, ChainTypeOK, head
  <2>3. /\ call'[r].hash = head /\ "burns" \in call'[r].running
        /\ \A t \in Runs : t # r => call'[t] = call[t]
    BY <1>6, BeginEffect
  <2>4. BlockNumber(r)' = to
    BY <2>1, <2>3 DEF BlockNumber, chainVars
  <2> HIDE DEF to
  <2>5. /\ burnsScan'[r] = [toBlock |-> to, found |-> {},
                            queries |-> BurnsService!Queries(BurnsService!FirstBlock, to)]
        /\ \A t \in Runs : t # r => burnsScan'[t] = burnsScan[t]
    BY <2>1, BurnsScanEffect
  <2>6. burnsAddresses' = IF burnsLastFetchedBlock = None
                            THEN burnsAddresses \cup snapshot.burnsAddresses ELSE burnsAddresses
    BY <2>1 DEF BurnsService!StartScan
  <2>7. BurnsKnown(r)'
    <3> SUFFICES ASSUME NEW n \in DOMAIN chain, NEW f \in BurnFilters, n <= to
                 PROVE  \/ blocks[chain[n]].events[f] \subseteq burnsAddresses'
                        \/ BurnsService!Pending(r, f, n)'
      BY <2>1, <2>3, <2>4 DEF BurnsKnown, Running, chainVars
    <3>1. burnsScan'[r].queries = BurnsService!Queries(BurnsService!FirstBlock, to)
      BY <2>5
    <3>2. \/ \E q \in BurnsService!Queries(BurnsService!FirstBlock, to) :
               q.filter = f /\ n \in q.from .. q.to
          \/ blocks[chain[n]].events[f] \subseteq burnsAddresses'
      BY <2>2, <2>6, BurnsStart
    <3> QED
      BY <3>1, <3>2 DEF BurnsService!Pending
  <2> QED
    BY <1>4, <2>3, <2>5, <2>7
<1>7. ASSUME NEW r \in Runs, LdoProgress(r) \/ LdoFailure(r), UNCHANGED chainVars
      PROVE  \A t \in Runs : BurnsKnown(t)'
  <2>1. /\ \A t \in Runs : t # r => call'[t] = call[t]
        /\ call'[r].hash = call[r].hash
        /\ Running(r, "locked")' => Running(r, "locked")
        /\ call'[r].locked # call[r].locked => Calculate(r)
    BY <1>7, StepEffect
  <2>2. \A t \in Runs : t # r => BurnsKnown(t)'
    BY <1>4, <1>7, <2>1, BurnsScanOthers
  <2> SUFFICES BurnsKnown(r)'
    BY <2>2
  <2>3. Calculate(r) => Running(r, "locked")
    BY DEF Calculate, ReadyToCalculate
  <2>4. CASE Running(r, "burns") => Running(r, "burns")' /\ burnsScan'[r] = burnsScan[r]
    BY <1>1, <1>2, <1>3, <2>1, <2>3, <2>4, BurnsKnownKept
  <2>5. BlockNumber(r)' = BlockNumber(r) /\ CallFlow(r)
    BY <1>7, <2>1 DEF BlockNumber, chainVars, FlowInv
  <2>6. CASE ServeBurnsQuery(r)
    <3>1. PICK q \in burnsScan[r].queries : BurnsService!ServeQuery(r, q)
      BY <2>6 DEF ServeBurnsQuery
    <3>2. burnsScan'[r] = [toBlock |-> burnsScan[r].toBlock,
                           queries |-> burnsScan[r].queries \ {q},
                           found   |-> burnsScan[r].found \cup BurnsService!Answer(q)]
      BY <3>1, BurnsScanEffect
    <3>3. /\ burnsScan'[r].queries = burnsScan[r].queries \ {q}
          /\ burnsScan'[r].found = burnsScan[r].found \cup BurnsService!Answer(q)
      BY <3>2
    <3>4. UNCHANGED call /\ UNCHANGED burnsAddresses
      BY <2>6 DEF ServeBurnsQuery, BurnsService!ServeQuery
    <3> SUFFICES ASSUME Running(r, "locked") \/ call[r].locked # None, OnChain(call[r].hash),
                        NEW n \in DOMAIN chain, NEW f \in BurnFilters, n <= BlockNumber(r)
                 PROVE  \/ blocks[chain[n]].events[f] \subseteq burnsAddresses
                        \/ /\ Running(r, "burns")
                           /\ \/ blocks[chain[n]].events[f] \subseteq burnsAddresses \cup burnsScan'[r].found
                              \/ BurnsService!Pending(r, f, n)'
      BY <1>7, <2>5, <3>4 DEF BurnsKnown, Running, OnChain, chainVars
    <3>5. ASSUME q.filter = f, n \in q.from .. q.to
          PROVE  blocks[chain[n]].events[f] \subseteq BurnsService!Answer(q)
      <4>1. n \in DOMAIN EventLog(BurnFilters)
            /\ EventLog(BurnFilters)[n][q.filter] = blocks[chain[n]].events[f]
        BY <3>5 DEF EventLog
      <4> QED
        BY <3>5, <4>1 DEF BurnsService!Answer
    <3>6. BurnsService!Pending(r, f, n) =>
            \/ BurnsService!Pending(r, f, n)'
            \/ q.filter = f /\ n \in q.from .. q.to
      BY <3>3 DEF BurnsService!Pending
    <3>7. \/ blocks[chain[n]].events[f] \subseteq burnsAddresses
          \/ /\ Running(r, "burns")
             /\ \/ blocks[chain[n]].events[f] \subseteq burnsAddresses \cup burnsScan[r].found
                \/ BurnsService!Pending(r, f, n)
      BY DEF BurnsKnown
    <3> QED
      BY <3>3, <3>5, <3>6, <3>7
  <2>7. CASE CompleteBurns(r)
    <3>1. /\ burnsScan[r].queries = {}
          /\ burnsAddresses' = burnsAddresses \cup burnsScan[r].found
      BY <2>7 DEF CompleteBurns, BurnsService!CompleteScan
    <3>2. UNCHANGED chainVars /\ call'[r].locked = call[r].locked
      BY <1>7, <2>7, EndEffect DEF CompleteBurns
    <3>3. \A f, n : ~ BurnsService!Pending(r, f, n)
      BY <3>1 DEF BurnsService!Pending
    <3> SUFFICES ASSUME Running(r, "locked") \/ call[r].locked # None, OnChain(call[r].hash),
                        NEW n \in DOMAIN chain, NEW f \in BurnFilters, n <= BlockNumber(r)
                 PROVE  blocks[chain[n]].events[f] \subseteq burnsAddresses'
      BY <2>1, <2>5, <3>2 DEF BurnsKnown, OnChain, chainVars
    <3>4. \/ blocks[chain[n]].events[f] \subseteq burnsAddresses
          \/ blocks[chain[n]].events[f] \subseteq burnsAddresses \cup burnsScan[r].found
          \/ BurnsService!Pending(r, f, n)
      BY DEF BurnsKnown
    <3> QED
      BY <3>1, <3>3, <3>4
  <2>8. CASE FailBurns(r)
    <3>1. Fail(r, "burns")
      BY <2>8 DEF FailBurns
    <3>2. /\ Running(r, "burns") /\ "locked" \notin call'[r].running
          /\ call'[r].locked = call[r].locked
      BY <3>1, FailEffect
    <3>3. call[r].locked = None
      BY <2>5, <3>2 DEF CallFlow
    <3> QED
      BY <3>2, <3>3 DEF BurnsKnown, Running
  <2>9. CASE UNCHANGED burnsVars /\ (Running(r, "burns")' <=> Running(r, "burns"))
    BY <2>4, <2>9 DEF burnsVars
  <2> QED
    BY <1>7, <2>6, <2>7, <2>8, <2>9, BurnsCases
<1> QED
  BY <1>5, <1>6, <1>7, StepCases

-----------------------------------------------------------------------------
(* The balances of the cycle that executes.                                *)

(* No block is dropped when there are no reorganisations.                  *)
AllOnChain == MaxReorgDepth = 0 => \A h \in DOMAIN blocks : OnChain(h)

LEMMA NoReorgKeeps ==
  ASSUME ChainInv, NEW L, Cut(L), MaxReorgDepth = 0, NEW n \in DOMAIN chain
  PROVE  /\ n \in DOMAIN chain' /\ chain'[n] = chain[n]
         /\ blocks'[chain'[n]] = blocks[chain[n]]
<1>1. n \in 1 .. L
  <2>1. DOMAIN chain = 1 .. Len(chain) /\ Len(chain) \in Nat /\ Len(chain) <= highest
    BY DEF ChainInv, ChainTypeOK
  <2>2. highest \in Nat /\ L \in Nat /\ highest <= L
    BY DEF ChainInv, ChainTypeOK, Cut
  <2> QED
    BY <2>1, <2>2
<1> QED
  BY <1>1 DEF Cut, ChainInv, ChainTypeOK

LEMMA AllOnChainStep ==
  ASSUME ChainInv, AllOnChain, [Next]_vars PROVE AllOnChain'
<1> SUFFICES ASSUME MaxReorgDepth = 0, NEW h \in DOMAIN blocks' PROVE OnChain(h)'
  BY DEF AllOnChain
<1>1. PICK L \in Nat : Cut(L)
  BY StepCuts
<1>2. CASE h \in DOMAIN blocks
  <2>1. PICK n \in DOMAIN chain : chain[n] = h
    BY <1>2 DEF AllOnChain, OnChain
  <2>2. n \in DOMAIN chain' /\ chain'[n] = h
    BY <1>1, <2>1, NoReorgKeeps
  <2> QED
    BY <2>2 DEF OnChain
<1> QED
  BY <1>1, <1>2 DEF Cut

LEMMA AllOnChainInit == Init => AllOnChain
<1> SUFFICES ASSUME Init, MaxReorgDepth = 0, NEW h \in DOMAIN blocks PROVE OnChain(h)
  BY DEF AllOnChain
<1>1. DOMAIN blocks = 1 .. 1 /\ DOMAIN chain = 1 .. 1 /\ chain[1] = 1
  BY DEF Init, ChainInit
<1> QED
  BY <1>1 DEF OnChain

(* Without reorganisations: no call scans burns above the block of the     *)
(* call whose cycle executes, and what a scan found is a burn on the chain.*)
NoNewBurns(r, t) ==
  executing = r /\ Running(r, "locked") /\ Running(t, "burns") =>
    BlockNumber(t) <= BlockNumber(r)

FoundBurns(t) ==
  Running(t, "burns") =>
    /\ \A q \in burnsScan[t].queries : q.to <= BlockNumber(t)
    /\ \A m \in burnsScan[t].found : \E n \in DOMAIN chain : n <= BlockNumber(t) /\ BurnAt(n, m)

(* Balances were asked for all burned holders, once they were asked for.   *)
OneSlot == \A r, s \in Runs : r = s

HoldersFixed(r) ==
  (OneSlot \/ (executing = r /\ MaxReorgDepth = 0)) /\ Running(r, "locked") /\ call[r].holders # None =>
    burnsAddresses \subseteq call[r].holders

BalInv ==
  /\ AllOnChain
  /\ \A r \in Runs : BurnsKnown(r) /\ HoldersFixed(r)
  /\ MaxReorgDepth = 0 => \A r, t \in Runs : NoNewBurns(r, t) /\ FoundBurns(t)

CallsInv == CoverIInv /\ BurnsService!IInv /\ CallTyped /\ FlowInv

LEMMA BlockNumberStays ==
  ASSUME CallsInv, [Next]_vars, NEW t \in Runs, call[t].running # {},
         call'[t].hash = call[t].hash
  PROVE  BlockNumber(t)' = BlockNumber(t) /\ BlockNumber(t) \in 1 .. highest
<1>1. call[t].hash \in DOMAIN blocks
  BY HashKnown DEF CallsInv
<1>2. PICK L \in Nat : Cut(L)
  BY StepCuts DEF CallsInv, CoverIInv
<1> QED
  BY <1>1, <1>2 DEF Cut, BlockNumber, CallsInv, CoverIInv, ChainInv

LEMMA NoNewBurnsStep ==
  ASSUME CallsInv, [Next]_vars, MaxReorgDepth = 0,
         \A r, t \in Runs : NoNewBurns(r, t),
         NEW r \in Runs, NEW t \in Runs
  PROVE  NoNewBurns(r, t)'
<1> SUFFICES ASSUME executing' = r, Running(r, "locked")', Running(t, "burns")'
             PROVE  BlockNumber(t)' <= BlockNumber(r)'
  BY DEF NoNewBurns
<1>1. CallTyped /\ ChainInv
  BY DEF CallsInv, CoverIInv
<1>2. CASE BeginCycle(r)
  <2>1. call'[r].hash = head /\ UNCHANGED blocks
        /\ \A s \in Runs : s # r => call'[s] = call[s]
    BY <1>1, <1>2, BeginEffect DEF chainVars
  <2>2. BlockNumber(r)' = Len(chain) /\ highest <= Len(chain)
    BY <1>1, <2>1 DEF BlockNumber, head, ChainInv, ChainTypeOK
  <2>3. CASE t = r
    BY <2>2, <2>3, <1>1 DEF ChainInv, ChainTypeOK
  <2>4. CASE t # r
    <3>1. call'[t] = call[t] /\ call[t].running # {}
      BY <2>1, <2>4 DEF Running
    <3>2. BlockNumber(t)' \in 1 .. highest
      BY <3>1, BlockNumberStays
    <3> QED
      BY <1>1, <2>2, <3>2 DEF ChainInv, ChainTypeOK
  <2> QED
    BY <2>3, <2>4
<1>3. CASE ~ BeginCycle(r)
  <2>1. executing = r
    BY <1>3, StepCases
  <2>2. ASSUME NEW s \in Runs PROVE ~ BeginCycle(s)
    BY <2>1, CircSupplyAssumption DEF BeginCycle, Worker!StartCycle
  <2>3. ASSUME NEW s \in Runs, NEW p \in {"locked", "burns"}, Running(s, p)'
        PROVE  Running(s, p) /\ call'[s].hash = call[s].hash
    <3>1. CASE UNCHANGED ldoVars
      BY <2>3, <3>1 DEF ldoVars, Running
    <3>2. ASSUME NEW u \in Runs, LdoProgress(u) \/ LdoFailure(u)
          PROVE  Running(s, p) /\ call'[s].hash = call[s].hash
      <4>1. CASE u = s
        BY <1>1, <2>3, <3>2, <4>1, StepEffect
      <4>2. CASE u # s
        <5>1. call'[s] = call[s]
          BY <1>1, <3>2, <4>2, StepEffect
        <5> QED
          BY <2>3, <5>1 DEF Running
      <4> QED
        BY <4>1, <4>2
    <3> QED
      BY <2>2, <3>1, <3>2, StepCases
  <2>4. /\ Running(r, "locked") /\ call'[r].hash = call[r].hash
        /\ Running(t, "burns") /\ call'[t].hash = call[t].hash
    BY <2>3
  <2>5. BlockNumber(t)' = BlockNumber(t) /\ BlockNumber(r)' = BlockNumber(r)
    BY <2>4, BlockNumberStays DEF Running
  <2> QED
    BY <2>1, <2>4, <2>5 DEF NoNewBurns
<1> QED
  BY <1>2, <1>3

LEMMA FoundBurnsKept ==
  ASSUME CallsInv, [Next]_vars, MaxReorgDepth = 0, NEW t \in Runs, FoundBurns(t),
         Running(t, "burns")' => Running(t, "burns") /\ burnsScan'[t] = burnsScan[t],
         call'[t].hash = call[t].hash
  PROVE  FoundBurns(t)'
<1> SUFFICES ASSUME Running(t, "burns")'
             PROVE  FoundBurns(t)'
  BY DEF FoundBurns
<1>1. PICK L \in Nat : Cut(L)
  BY StepCuts DEF CallsInv, CoverIInv
<1>2. BlockNumber(t)' = BlockNumber(t)
  BY BlockNumberStays DEF Running
<1>3. \A n \in DOMAIN chain :
        n \in DOMAIN chain' /\ \A m : BurnAt(n, m)' <=> BurnAt(n, m)
  BY <1>1, NoReorgKeeps DEF BurnAt, CallsInv, CoverIInv
<1> QED
  BY <1>2, <1>3 DEF FoundBurns

LEMMA FoundBurnsStep ==
  ASSUME CallsInv, [Next]_vars, MaxReorgDepth = 0,
         \A t \in Runs : FoundBurns(t), NEW t \in Runs
  PROVE  FoundBurns(t)'
<1>1. CallTyped /\ ChainInv /\ BurnsService!IInv /\ CallFlow(t)
  BY DEF CallsInv, CoverIInv, FlowInv
<1>2. CASE call'[t] = call[t] /\ burnsScan'[t] = burnsScan[t]
  BY <1>2, FoundBurnsKept DEF Running
<1>3. ASSUME NEW r \in Runs, BeginCycle(r) PROVE FoundBurns(t)'
  <2> DEFINE to == blocks[head].number
             first == BurnsService!FirstBlock
  <2>1. BurnsService!StartScan(r, to) /\ UNCHANGED chainVars
    BY <1>3 DEF BeginCycle, StartCall
  <2>2. to \in Int
    BY <1>1 DEF ChainInv, ChainTypeOK, head
  <2>3. call'[r].hash = head /\ \A s \in Runs : s # r => call'[s] = call[s]
    BY <1>1, <1>3, BeginEffect
  <2>4. BlockNumber(r)' = to
    BY <2>1, <2>3 DEF BlockNumber, chainVars
  <2> HIDE DEF to
  <2>5. /\ burnsScan'[r] = [toBlock |-> to, found |-> {},
                            queries |-> BurnsService!Queries(first, to)]
        /\ \A s \in Runs : s # r => burnsScan'[s] = burnsScan[s]
    BY <1>1, <2>1, BurnsScanEffect
  <2>6. CASE t # r
    BY <1>2, <2>3, <2>5, <2>6
  <2>7. first \in Int
    BY <1>1, LdoServiceAssumption
       DEF BurnsService!IInv, BurnsService!TypeOK, BurnsService!Snapshots, BurnsService!FirstBlock
  <2> HIDE DEF first
  <2>8. ASSUME NEW q \in BurnsService!Queries(first, to) PROVE q.to <= to
    <3>1. BurnsProofs!AddressScanAssumption
      BY EthChainAssumption, LdoServiceAssumption DEF BurnsProofs!AddressScanAssumption
    <3>2. PICK c \in BurnsService!Chunks(first, to) : q.to = c.to
      BY DEF BurnsService!Queries
    <3>3. c \in BurnsProofs!Chunks(first, to)
      BY <3>2 DEF BurnsProofs!Chunks, BurnsProofs!ChunkStart,
         BurnsProofs!ChunkEnd, BurnsProofs!ChunkCount,
         BurnsService!Chunks, BurnsService!ChunkStart,
         BurnsService!ChunkEnd, BurnsService!ChunkCount
    <3> QED
      BY <2>2, <2>7, <3>1, <3>2, <3>3, BurnsProofs!ChunksWithinRange
  <2>9. /\ burnsScan'[r].queries = BurnsService!Queries(first, to)
        /\ burnsScan'[r].found = {}
    BY <2>5
  <2>10. CASE t = r
    BY <2>4, <2>8, <2>9, <2>10 DEF FoundBurns
  <2> QED
    BY <2>6, <2>10
<1>4. ASSUME NEW r \in Runs, LdoProgress(r) \/ LdoFailure(r), UNCHANGED chainVars
      PROVE  FoundBurns(t)'
  <2>1. CASE t # r
    BY <1>1, <1>2, <1>4, <2>1, StepEffect, BurnsScanOthers
  <2>2. CASE t = r /\ ServeBurnsQuery(r)
    <3>1. PICK q \in burnsScan[t].queries : BurnsService!ServeQuery(t, q)
      BY <2>2 DEF ServeBurnsQuery
    <3>2. burnsScan'[t] = [toBlock |-> burnsScan[t].toBlock,
                           queries |-> burnsScan[t].queries \ {q},
                           found   |-> burnsScan[t].found \cup BurnsService!Answer(q)]
      BY <1>1, <3>1, BurnsScanEffect
    <3>3. /\ burnsScan'[t].queries = burnsScan[t].queries \ {q}
          /\ burnsScan'[t].found = burnsScan[t].found \cup BurnsService!Answer(q)
      BY <3>2
    <3>4. UNCHANGED call /\ UNCHANGED chainVars
      BY <1>4, <2>2 DEF ServeBurnsQuery
    <3>5. Running(t, "burns")
      BY <1>1, BurnsScanRuns DEF CallFlow
    <3>6. BlockNumber(t)' = BlockNumber(t) /\ BlockNumber(t) \in Int
      BY <3>4, <3>5, BlockNumberStays DEF Running
    <3>7. q.filter \in BurnFilters /\ q.from \in Int /\ q.to \in Int
      <4>1. burnsScan[t] \in BurnsService!ScanType
        BY <1>1 DEF BurnsService!IInv, BurnsService!TypeOK
      <4>2. q \in BurnsService!Query
        BY <4>1 DEF BurnsService!ScanType, BurnsService!NoScan
      <4> QED
        BY <4>2 DEF BurnsService!Query
    <3>8. ASSUME NEW m \in BurnsService!Answer(q)
          PROVE  \E n \in DOMAIN chain : n <= BlockNumber(t) /\ BurnAt(n, m)
      <4>1. PICK n \in DOMAIN chain \cap (q.from .. q.to) : m \in EventLog(BurnFilters)[n][q.filter]
        BY DEF BurnsService!Answer, EventLog
      <4>2. BurnAt(n, m)
        BY <3>7, <4>1 DEF BurnAt, EventLog, BurnFilters
      <4>3. q.to <= BlockNumber(t)
        BY <3>5 DEF FoundBurns
      <4>4. n <= BlockNumber(t)
        BY <3>6, <3>7, <4>1, <4>3
      <4> QED
        BY <4>1, <4>2, <4>4
    <3>9. \A n, m : BurnAt(n, m)' <=> BurnAt(n, m)
      BY <3>4 DEF BurnAt, chainVars
    <3>10. \A m \in burnsScan'[t].found :
             \E n \in DOMAIN chain : n <= BlockNumber(t) /\ BurnAt(n, m)
      BY <3>3, <3>5, <3>8 DEF FoundBurns
    <3>11. \A p \in burnsScan'[t].queries : p.to <= BlockNumber(t)
      BY <3>3, <3>5 DEF FoundBurns
    <3> QED
      BY <3>4, <3>6, <3>9, <3>10, <3>11 DEF FoundBurns, chainVars
  <2>3. CASE t = r /\ CompleteBurns(r)
    <3>1. "burns" \notin call'[t].running
      BY <1>1, <2>3, EndEffect DEF CompleteBurns
    <3> QED
      BY <3>1 DEF FoundBurns, Running
  <2>4. CASE t = r /\ FailBurns(r)
    <3>1. "burns" \notin call'[t].running
      <4>1. Fail(t, "burns")
        BY <2>4 DEF FailBurns
      <4> QED
        BY <1>1, <4>1, FailEffect
    <3> QED
      BY <3>1 DEF FoundBurns, Running
  <2>5. CASE t = r /\ UNCHANGED burnsVars /\ (Running(r, "burns")' <=> Running(r, "burns"))
    <3>1. call'[t].hash = call[t].hash
      BY <1>1, <1>4, <2>5, StepEffect
    <3> QED
      BY <2>5, <3>1, FoundBurnsKept DEF burnsVars
  <2> QED
    BY <1>1, <1>4, <2>1, <2>2, <2>3, <2>4, <2>5, BurnsCases
<1> QED
  BY <1>2, <1>3, <1>4, StepCases DEF ldoVars

LEMMA HoldersFixedStep ==
  ASSUME CallsInv, BalInv, [Next]_vars, NEW r \in Runs
  PROVE  HoldersFixed(r)'
<1>1. CallTyped /\ ChainInv /\ BurnsService!IInv /\ \A t \in Runs : CallFlow(t)
  BY DEF CallsInv, CoverIInv, FlowInv
<1> SUFFICES ASSUME OneSlot \/ (executing' = r /\ MaxReorgDepth = 0),
                    Running(r, "locked")', call'[r].holders # None
             PROVE  burnsAddresses' \subseteq call'[r].holders
  BY DEF HoldersFixed, OneSlot
<1>2. ASSUME NEW t \in Runs, BeginCycle(t) PROVE FALSE
  <2>1. call'[t].holders = None /\ executing' = t
    BY <1>1, <1>2, BeginEffect
  <2> QED
    BY <2>1 DEF OneSlot
<1>3. OneSlot \/ (executing = r /\ MaxReorgDepth = 0)
  BY <1>2, StepCases
<1>4. CASE UNCHANGED ldoVars
  BY <1>3, <1>4 DEF ldoVars, HoldersFixed, BalInv, Running
<1>5. ASSUME NEW t \in Runs, LdoProgress(t) \/ LdoFailure(t), UNCHANGED chainVars
      PROVE  burnsAddresses' \subseteq call'[r].holders
  <2>1. CASE StartFetches(r)
    <3>1. call'[r].holders = burnsAddresses
      BY <1>1, <2>1, StartFetchesEffect
    <3> QED
      BY <2>1, <3>1 DEF StartFetches, burnsVars
  <2>2. CASE Calculate(r)
    <3>1. "locked" \notin call'[r].running
      BY <1>1, <2>2, CalculateEffect
    <3> QED
      BY <3>1 DEF Running
  <2>3. ASSUME ~ StartFetches(r), ~ Calculate(r)
        PROVE  call'[r].holders = call[r].holders /\ Running(r, "locked")
    <3>1. CASE t = r
      BY <1>1, <1>5, <2>3, <3>1, StepEffect
    <3>2. CASE t # r
      <4>1. call'[r] = call[r]
        BY <1>1, <1>5, <3>2, StepEffect
      <4> QED
        BY <4>1 DEF Running
    <3> QED
      BY <3>1, <3>2
  <2>4. ASSUME ~ StartFetches(r), ~ Calculate(r)
        PROVE  burnsAddresses \subseteq call'[r].holders /\ Running(r, "locked")
               /\ call[r].holders # None
    BY <1>3, <2>3, <2>4 DEF BalInv, HoldersFixed
  <2>5. CASE CompleteBurns(t) /\ ~ StartFetches(r) /\ ~ Calculate(r)
    <3>1. Running(t, "burns") /\ burnsAddresses' = burnsAddresses \cup burnsScan[t].found
      BY <1>1, <2>5 DEF CompleteBurns, BurnsService!CompleteScan, CallFlow
    <3>2. ~ Running(r, "burns")
      BY <1>1, <2>4, <2>5 DEF CallFlow
    <3>3. executing = r /\ MaxReorgDepth = 0
      BY <1>3, <3>1, <3>2 DEF OneSlot
    <3>4. ASSUME NEW m \in burnsScan[t].found PROVE m \in burnsAddresses
      <4>1. PICK n \in DOMAIN chain : n <= BlockNumber(t) /\ BurnAt(n, m)
        BY <3>1, <3>3 DEF BalInv, FoundBurns
      <4>2. BlockNumber(t) <= BlockNumber(r)
        BY <2>4, <2>5, <3>1, <3>3 DEF BalInv, NoNewBurns
      <4>3. call[r].hash \in DOMAIN blocks /\ call[t].hash \in DOMAIN blocks
        BY <2>4, <2>5, <3>1, HashKnown DEF CallsInv, Running
      <4>4. n \in Nat /\ BlockNumber(t) \in Nat /\ BlockNumber(r) \in Nat
        BY <1>1, <4>3 DEF BlockNumber, ChainInv, ChainTypeOK
      <4>5. n <= BlockNumber(r)
        BY <4>1, <4>2, <4>4
      <4>6. OnChain(call[r].hash)
        BY <3>3, <4>3 DEF BalInv, AllOnChain
      <4>7. blocks[chain[n]].events["Burn"] \subseteq burnsAddresses
        BY <2>4, <2>5, <3>2, <4>5, <4>6 DEF BalInv, BurnsKnown, BurnFilters
      <4> QED
        BY <4>1, <4>7 DEF BurnAt
    <3> QED
      BY <2>4, <2>5, <3>1, <3>4
  <2>6. CASE ~ CompleteBurns(t)
    <3>1. burnsAddresses' = burnsAddresses
      <4>1. CASE ServeBurnsQuery(t) \/ FailBurns(t)
        BY <4>1 DEF ServeBurnsQuery, FailBurns, BurnsService!ServeQuery, BurnsService!FailScan
      <4> QED
        BY <1>1, <1>5, <2>6, <4>1, BurnsCases DEF burnsVars
    <3> QED
      BY <2>1, <2>2, <2>4, <3>1
  <2> QED
    BY <2>1, <2>2, <2>5, <2>6
<1> QED
  BY <1>2, <1>4, <1>5, StepCases

LEMMA BalancesInit == Init => BalInv
<1> SUFFICES ASSUME Init PROVE BalInv
  OBVIOUS
<1>1. \A r \in Runs : ~ Running(r, "locked") /\ ~ Running(r, "burns") /\ call[r].locked = None
  BY DEF Init, LdoInit, NoCall, Running
<1>2. AllOnChain
  BY AllOnChainInit
<1> QED
  BY <1>1, <1>2 DEF BalInv, BurnsKnown, HoldersFixed, NoNewBurns, FoundBurns

LEMMA BalancesStep ==
  ASSUME CallsInv, BalInv, [Next]_vars PROVE BalInv'
<1>1. AllOnChain'
  BY AllOnChainStep DEF CallsInv, CoverIInv, BalInv
<1>2. \A r \in Runs : BurnsKnown(r)'
  BY BurnsKnownStep DEF CallsInv, BalInv
<1>3. \A r \in Runs : HoldersFixed(r)'
  BY HoldersFixedStep
<1>4. MaxReorgDepth = 0 => \A r, t \in Runs : NoNewBurns(r, t)' /\ FoundBurns(t)'
  BY NoNewBurnsStep, FoundBurnsStep DEF BalInv
<1> QED
  BY <1>1, <1>2, <1>3, <1>4 DEF BalInv

LEMMA CallsInvariance == Spec => []CallsInv
<1>1. Init => FlowInv
  BY FlowInit
<1>2. CoverIInv /\ BurnsService!IInv /\ LdoTypes /\ FlowInv /\ [Next]_vars => FlowInv'
  BY FlowStep DEF LdoTypes
<1>3. CoverIInv /\ BurnsService!IInv /\ LdoTypes /\ FlowInv => CallsInv
  BY DEF CallsInv, LdoTypes
<1> QED
  BY <1>1, <1>2, <1>3, CoverInvariance, BurnsScanInvariance, LdoTypesInvariance, PTL DEF Spec

LEMMA BalancesInvariance == Spec => []BalInv
<1>1. CallsInv /\ BalInv /\ [Next]_vars => BalInv'
  BY BalancesStep
<1> QED
  BY <1>1, BalancesInit, CallsInvariance, PTL DEF Spec

(* When the worker's executing cycle calculates the locked amount it has   *)
(* asked for a balance of every burned member it counts, so the            *)
(* calculation does not throw (subtractBurnedTokens,                       *)
(* vesting-calcs.service.ts:48), as long as the chain is not reorganised,  *)
(* whatever calls of failed cycles still do to the shared sets, or as long *)
(* as no call outlives its cycle, however deep the reorganisations.        *)
THEOREM BalancesPresent ==
  ASSUME MaxReorgDepth = 0 \/ OneSlot
  PROVE  Spec => []CurrentCycleHasBalances
<1>1. BalInv => CurrentCycleHasBalances
  <2> SUFFICES ASSUME BalInv, NEW r \in Runs, executing = r, ReadyToCalculate(r)
               PROVE  ~ BalanceMissing(r)
    BY DEF CurrentCycleHasBalances
  <2>1. burnsAddresses \subseteq call[r].holders
    BY DEF BalInv, HoldersFixed, ReadyToCalculate
  <2> QED
    BY <2>1 DEF BalanceMissing
<1> QED
  BY <1>1, BalancesInvariance, PTL

-----------------------------------------------------------------------------
(* The truth of what one call after the other saves.                       *)

LEMMA MembersStart ==
  ASSUME MembersService!IInv, NEW to \in Int, NEW n \in DOMAIN chain, NEW f \in VestingFilters,
         n <= to
  PROVE  IF MembersService!FirstBlock <= n
           THEN \E q \in MembersService!Queries(MembersService!FirstBlock, to) :
                  q.filter = f /\ n \in q.from .. q.to
           ELSE blocks[chain[n]].events[f] \subseteq
                  IF membersLastFetchedBlock = None
                    THEN membersAddresses \cup snapshot.vestingMembers ELSE membersAddresses
<1> DEFINE first == MembersService!FirstBlock
<1>1. /\ n \in DOMAIN EventLog(VestingFilters) /\ n \in Nat
      /\ EventLog(VestingFilters)[n][f] = blocks[chain[n]].events[f]
  <2>1. n \in DOMAIN EventLog(VestingFilters)
    BY DEF EventLog
  <2>2. EventLog(VestingFilters) \in Seq([VestingFilters -> SUBSET Members])
    BY DEF MembersService!IInv, MembersService!TypeOK
  <2> QED
    BY <2>1, <2>2 DEF EventLog
<1>2. /\ snapshot.toBlock \in Int
      /\ membersLastFetchedBlock \in Int \cup {None} /\ first \in Int
  BY LdoServiceAssumption
     DEF MembersService!IInv, MembersService!TypeOK, MembersService!Snapshots,
         MembersService!FirstBlock
<1>3. CASE first <= n
  <2>1. n \in first .. to
    BY <1>1, <1>2, <1>3
  <2>2. MembersProofs!AddressScanAssumption
    BY EthChainAssumption, LdoServiceAssumption DEF MembersProofs!AddressScanAssumption
  <2> HIDE DEF first
  <2>3. \E q \in MembersProofs!Queries(first, to) : q.filter = f /\ n \in q.from .. q.to
    BY <1>2, <2>1, <2>2, MembersProofs!QueriesTile
  <2>4. MembersProofs!Queries(first, to) = MembersService!Queries(first, to)
    BY DEF MembersProofs!Queries, MembersProofs!Chunks, MembersProofs!ChunkStart,
       MembersProofs!ChunkEnd, MembersProofs!ChunkCount,
       MembersService!Queries, MembersService!Chunks, MembersService!ChunkStart,
       MembersService!ChunkEnd, MembersService!ChunkCount
  <2> QED
    BY <1>3, <2>3, <2>4 DEF first
<1>4. CASE ~ (first <= n) /\ membersLastFetchedBlock = None
  <2>1. n <= snapshot.toBlock
    BY <1>1, <1>2, <1>4 DEF MembersService!FirstBlock
  <2>2. EventLog(VestingFilters)[n][f] \subseteq snapshot.vestingMembers
    BY <1>1, <2>1 DEF MembersService!IInv, MembersService!SnapshotCovers, MembersService!Covers
  <2> QED
    BY <1>1, <1>4, <2>2
<1>5. CASE ~ (first <= n) /\ membersLastFetchedBlock # None
  <2>1. n + MaxReorgDepth <= membersLastFetchedBlock
    BY <1>1, <1>2, <1>5, EthChainAssumption, LdoServiceAssumption DEF MembersService!FirstBlock
  <2>2. EventLog(VestingFilters)[n][f] \subseteq membersAddresses
    BY <1>1, <1>5, <2>1 DEF MembersService!IInv, MembersService!Coverage
  <2> QED
    BY <1>1, <1>5, <2>2
<1> QED
  BY <1>3, <1>4, <1>5

(* The place of the chain the block of call r came from: its own as long   *)
(* as it is on the chain, else one whose vestings are those of the block.  *)
Fork(r, p) ==
  /\ p \in DOMAIN chain
  /\ p <= BlockNumber(r) /\ BlockNumber(r) <= p + MaxReorgDepth
  /\ blocks[call[r].hash].nonVested = blocks[chain[p]].nonVested
  /\ OnChain(call[r].hash) => p = BlockNumber(r)

(* Known are the members of the snapshot and of all events up to place p,  *)
(* and new are those with an event the scan of call r looked at.           *)
KnowsUpTo(known, p) ==
  /\ snapshot.vestingMembers \subseteq known
  /\ \A n \in DOMAIN chain, f \in VestingFilters : n <= p => blocks[chain[n]].events[f] \subseteq known

NewUpTo(r, new, p) ==
  \A n \in DOMAIN chain, f \in VestingFilters :
    call[r].fromBlock <= n /\ n <= p => blocks[chain[n]].events[f] \subseteq new

(* Whose cached amount is that of the block of call r.                     *)
UpToDate(r) == { m \in Members : membersVestings[m] = blocks[call[r].hash].nonVested[m] }

ScanPhase(r, p) ==
  /\ snapshot.vestingMembers \subseteq membersAddresses
  /\ \A n \in DOMAIN chain, f \in VestingFilters : n <= p =>
      IF call[r].fromBlock <= n
        THEN \/ blocks[chain[n]].events[f] \subseteq membersScan[r].found
             \/ MembersService!Pending(r, f, n)
        ELSE blocks[chain[n]].events[f] \subseteq membersAddresses

(* Where the members of those events are on their way to the cache.        *)
PhaseOK(r, p) ==
  IF Running(r, "members") THEN ScanPhase(r, p)
  ELSE IF call[r].holders = None
    THEN KnowsUpTo(membersAddresses, p) /\ NewUpTo(r, call[r].toFetch, p)
  ELSE IF Running(r, "vestings")
    THEN KnowsUpTo(Cached \cup call[r].toFetch, p) /\ NewUpTo(r, call[r].toFetch, p)
  ELSE KnowsUpTo(Cached, p) /\ NewUpTo(r, UpToDate(r), p)

(* Before a request fails, and with no vesting dropped: a cached amount    *)
(* that is out of date is what it was no earlier than where the scan began.*)
CacheOK(r, p) ==
  failures = 0 /\ NoVestingDropped =>
    \A m \in Cached :
      \/ m \in UpToDate(r)
      \/ \E q \in DOMAIN chain :
           call[r].fromBlock <= q + 1 /\ q <= p /\ membersVestings[m] = NonVested(q, m)

CallTracks(r) ==
  call[r].hash # None /\ ~ call[r].rejected /\ (OnChain(call[r].hash) \/ NoVestingDropped) =>
    \E p \in DOMAIN chain : Fork(r, p) /\ PhaseOK(r, p) /\ CacheOK(r, p)

CallBooks(r) ==
  /\ call[r].hash = None => Cached = {}
  /\ call[r].hash # None =>
       /\ call[r].fromBlock \in Int
       /\ call[r].fromBlock + MaxReorgDepth <= highest + 1
       /\ cycle[r] = BlockInfo(call[r].hash)
       /\ ~ call[r].rejected /\ ~ Running(r, "members") =>
            membersLastFetchedBlock = BlockNumber(r)
  /\ call[r].locked # None => call[r].locked = LockedSum(r)
  /\ failures = 0 => ~ call[r].rejected

TrackInv == \A r \in Runs : CallTracks(r) /\ CallBooks(r)

CallHash(r) == call[r].hash # None => call[r].hash \in DOMAIN blocks

LEMMA HashInBlocks == ASSUME CallTyped, NEW r \in Runs PROVE CallHash(r)
BY DEF CallTyped, CallType, CallHash

(* What only looks at blocks up to place p is not changed by what happens  *)
(* to the chain above.                                                     *)
LEMMA ForkCut ==
  ASSUME ChainInv, VestingHistory, NEW L, Cut(L), NEW r \in Runs, CallHash(r), call[r].hash # None,
         OnChain(call[r].hash)' \/ NoVestingDropped', UNCHANGED call,
         NEW p \in DOMAIN chain, Fork(r, p)
  PROVE  LET k == IF p <= L THEN p ELSE L
         IN  /\ k \in DOMAIN chain /\ k \in DOMAIN chain' /\ k <= p /\ k <= L /\ Fork(r, k)'
             /\ ~ (p <= L) => NoVestingDropped'
<1> DEFINE k == IF p <= L THEN p ELSE L
<1>1. PICK h \in DOMAIN blocks : h = call[r].hash
  BY DEF CallHash
<1>2. /\ p \in Nat /\ L \in Nat /\ highest \in Nat /\ MaxReorgDepth \in Nat
      /\ blocks[h].number \in Nat /\ blocks[h].number <= highest
      /\ highest - MaxReorgDepth <= L
      /\ L \in DOMAIN chain /\ 1 <= p /\ 1 <= L
  BY EthChainAssumption DEF ChainInv, ChainTypeOK, Cut
<1>3. k \in 1 .. L /\ k \in DOMAIN chain /\ k <= p
  BY <1>2
<1>4. k \in DOMAIN chain' /\ chain'[k] = chain[k] /\ blocks'[h] = blocks[h]
      /\ blocks'[chain[k]] = blocks[chain[k]]
  BY <1>3 DEF Cut, ChainInv, ChainTypeOK
<1>5. BlockNumber(r)' = blocks[h].number /\ BlockNumber(r) = blocks[h].number
  BY <1>1, <1>4 DEF BlockNumber
<1>6. k <= blocks[h].number /\ blocks[h].number <= k + MaxReorgDepth
  BY <1>2, <1>5 DEF Fork
<1>7. OnChain(h)' => p <= L /\ p = blocks[h].number
  BY <1>1, <1>5, OnChainBefore DEF Fork
<1>8. ~ (p <= L) => NoVestingDropped'
  BY <1>1, <1>7 DEF OnChain
<1>9. blocks[h].nonVested = blocks[chain[k]].nonVested
  <2>1. CASE p <= L
    BY <1>1, <2>1 DEF Fork
  <2>2. CASE ~ (p <= L)
    <3>1. \A n \in DOMAIN chain, m \in Members : n > L => ~ VestingAt(n, m)
      BY <1>8, <2>2, DroppedBefore
    <3>2. \A m \in Members : NonVested(L, m) = NonVested(p, m)
      BY <1>2, <2>2, <3>1 DEF VestingHistory
    <3>3. \A n \in DOMAIN chain : blocks[chain[n]].nonVested \in [Members -> Nat]
      <4>1. \A n \in DOMAIN chain : blocks[chain[n]] \in Block
        BY DEF ChainInv, ChainTypeOK
      <4> QED
        BY <4>1 DEF Block
    <3>4. blocks[chain[L]].nonVested = blocks[chain[p]].nonVested
      BY <1>2, <3>2, <3>3 DEF NonVested
    <3> QED
      BY <1>1, <2>2, <3>4 DEF Fork
  <2> QED
    BY <2>1, <2>2
<1>10. Fork(r, k)'
  <2>1. k <= BlockNumber(r)' /\ BlockNumber(r)' <= k + MaxReorgDepth
    BY <1>5, <1>6
  <2>2. blocks'[call'[r].hash].nonVested = blocks'[chain'[k]].nonVested
    BY <1>1, <1>4, <1>9
  <2>3. OnChain(call[r].hash)' => k = BlockNumber(r)'
    BY <1>1, <1>5, <1>7 DEF OnChain
  <2> HIDE DEF k
  <2> QED
    BY <1>4, <2>1, <2>2, <2>3 DEF Fork
<1> QED
  BY <1>2, <1>3, <1>4, <1>8, <1>10

LEMMA EventsCut ==
  ASSUME ChainInv, NEW L, Cut(L), NEW n \in DOMAIN chain', n <= L
  PROVE  n \in DOMAIN chain /\ n \in Nat /\ chain'[n] = chain[n]
         /\ blocks'[chain'[n]] = blocks[chain[n]]
<1>1. n \in 1 .. L
  BY DEF Cut
<1> QED
  BY <1>1 DEF Cut, ChainInv, ChainTypeOK

LEMMA PhaseCut ==
  ASSUME ChainInv, NEW L, Cut(L), NEW r \in Runs, CallHash(r), call[r].hash # None,
         UNCHANGED ldoVars, NEW p \in Nat, NEW k \in Nat, k <= p, k <= L, PhaseOK(r, p)
  PROVE  PhaseOK(r, k)'
<1>1. PICK h \in DOMAIN blocks : h = call[r].hash
  BY DEF CallHash
<1>2. blocks'[h] = blocks[h] /\ L \in Nat
  BY DEF Cut
<1>3. UpToDate(r)' = UpToDate(r) /\ Cached' = Cached
  BY <1>1, <1>2 DEF UpToDate, Cached, ldoVars
<1>4. ASSUME NEW n \in DOMAIN chain', n <= k
      PROVE  n \in DOMAIN chain /\ n <= p /\ blocks'[chain'[n]] = blocks[chain[n]]
  <2>1. n \in Nat
    BY DEF Cut
  <2>2. n <= L /\ n <= p
    BY <1>2, <1>4, <2>1
  <2> QED
    BY <2>2, EventsCut
<1>5. ASSUME NEW K, KnowsUpTo(K, p) PROVE KnowsUpTo(K, k)'
  BY <1>4, <1>5 DEF KnowsUpTo, ldoVars
<1>6. ASSUME NEW K, NewUpTo(r, K, p) PROVE NewUpTo(r, K, k)'
  BY <1>4, <1>6 DEF NewUpTo, ldoVars
<1>7. ScanPhase(r, p) => ScanPhase(r, k)'
  <2>1. \A f, n : MembersService!Pending(r, f, n)' <=> MembersService!Pending(r, f, n)
    BY DEF MembersService!Pending, ldoVars
  <2> QED
    BY <1>4, <2>1 DEF ScanPhase, ldoVars
<1>8. /\ Running(r, "members")' <=> Running(r, "members")
      /\ Running(r, "vestings")' <=> Running(r, "vestings")
      /\ call' = call /\ membersAddresses' = membersAddresses
  BY DEF Running, ldoVars
<1>9. CASE Running(r, "members")
  BY <1>7, <1>8, <1>9 DEF PhaseOK
<1>10. CASE ~ Running(r, "members") /\ call[r].holders = None
  <2>1. KnowsUpTo(membersAddresses, k)' /\ NewUpTo(r, call[r].toFetch, k)'
    <3>1. PICK A : A = membersAddresses
      OBVIOUS
    <3>2. PICK F : F = call[r].toFetch
      OBVIOUS
    <3>3. KnowsUpTo(A, k)' /\ NewUpTo(r, F, k)'
      BY <1>5, <1>6, <1>10, <3>1, <3>2 DEF PhaseOK
    <3> QED
      BY <1>8, <3>1, <3>2, <3>3
  <2> QED
    BY <1>8, <1>10, <2>1 DEF PhaseOK
<1>11. CASE ~ Running(r, "members") /\ call[r].holders # None /\ Running(r, "vestings")
  <2>1. KnowsUpTo(Cached \cup call[r].toFetch, k)' /\ NewUpTo(r, call[r].toFetch, k)'
    <3>1. PICK A : A = Cached \cup call[r].toFetch
      OBVIOUS
    <3>2. PICK F : F = call[r].toFetch
      OBVIOUS
    <3>3. KnowsUpTo(A, k)' /\ NewUpTo(r, F, k)'
      BY <1>5, <1>6, <1>11, <3>1, <3>2 DEF PhaseOK
    <3> QED
      BY <1>3, <1>8, <3>1, <3>2, <3>3
  <2> QED
    BY <1>8, <1>11, <2>1 DEF PhaseOK
<1>12. CASE ~ Running(r, "members") /\ call[r].holders # None /\ ~ Running(r, "vestings")
  <2>1. KnowsUpTo(Cached, k)' /\ NewUpTo(r, UpToDate(r), k)'
    <3>1. PICK A : A = Cached
      OBVIOUS
    <3>2. PICK F : F = UpToDate(r)
      OBVIOUS
    <3>3. KnowsUpTo(A, k)' /\ NewUpTo(r, F, k)'
      BY <1>5, <1>6, <1>12, <3>1, <3>2 DEF PhaseOK
    <3> QED
      BY <1>3, <3>1, <3>2, <3>3
  <2> QED
    BY <1>8, <1>12, <2>1 DEF PhaseOK
<1> QED
  BY <1>9, <1>10, <1>11, <1>12

LEMMA CacheCut ==
  ASSUME ChainInv, VestingHistory, NEW L, Cut(L), NEW r \in Runs, CallHash(r), call[r].hash # None,
         CallBooks(r), UNCHANGED ldoVars, failures <= failures', failures \in Nat,
         failures' \in Nat,
         NEW p \in DOMAIN chain, CacheOK(r, p),
         NEW k, k = IF p <= L THEN p ELSE L, ~ (p <= L) => NoVestingDropped'
  PROVE  CacheOK(r, k)'
<1> SUFFICES ASSUME failures' = 0, NoVestingDropped', NEW m \in Cached', m \notin UpToDate(r)'
             PROVE  \E q \in DOMAIN chain' : /\ call'[r].fromBlock <= q + 1 /\ q <= k
                                             /\ membersVestings'[m] = NonVested(q, m)'
  BY DEF CacheOK
<1>1. PICK h \in DOMAIN blocks : h = call[r].hash
  BY DEF CallHash
<1>2. /\ p \in Nat /\ L \in Nat /\ highest \in Nat /\ MaxReorgDepth \in Nat
      /\ highest - MaxReorgDepth <= L /\ L \in DOMAIN chain /\ 1 <= L /\ 1 <= p
      /\ call[r].fromBlock \in Int /\ call[r].fromBlock + MaxReorgDepth <= highest + 1
  BY EthChainAssumption DEF ChainInv, ChainTypeOK, Cut, CallBooks
<1>3. m \in Members /\ m \in Cached /\ m \notin UpToDate(r)
  BY <1>1 DEF UpToDate, Cached, ldoVars, Cut
<1>4. NoVestingDropped /\ \A n \in DOMAIN chain : n > L => ~ VestingAt(n, m)
  BY <1>3, DroppedBefore
<1>5. failures = 0
  OBVIOUS
<1>6. PICK q \in DOMAIN chain :
        call[r].fromBlock <= q + 1 /\ q <= p /\ membersVestings[m] = NonVested(q, m)
  BY <1>3, <1>4, <1>5 DEF CacheOK
<1> DEFINE j == IF q <= L THEN q ELSE L
<1>7. q \in Nat /\ 1 <= q
  BY DEF ChainInv, ChainTypeOK
<1>8. j \in 1 .. L /\ j \in DOMAIN chain /\ j <= k /\ call[r].fromBlock <= j + 1
  BY <1>2, <1>6, <1>7
<1>9. NonVested(j, m) = NonVested(q, m)
  <2>1. CASE q <= L
    BY <2>1
  <2>2. CASE ~ (q <= L)
    BY <1>2, <1>3, <1>4, <1>7, <2>2 DEF VestingHistory
  <2> QED
    BY <2>1, <2>2
<1>10. j \in DOMAIN chain' /\ blocks'[chain'[j]] = blocks[chain[j]]
  BY <1>8 DEF Cut, ChainInv, ChainTypeOK
<1> HIDE DEF j
<1>11. membersVestings'[m] = NonVested(j, m)' /\ call'[r] = call[r]
  BY <1>6, <1>9, <1>10 DEF NonVested, ldoVars
<1> QED
  BY <1>8, <1>10, <1>11

LEMMA TracksCut ==
  ASSUME ChainInv, VestingHistory, NEW L, Cut(L), NEW r \in Runs, CallHash(r), CallTracks(r),
         CallBooks(r), UNCHANGED ldoVars, failures <= failures', failures \in Nat,
         failures' \in Nat
  PROVE  CallTracks(r)'
<1> SUFFICES ASSUME call[r].hash # None, ~ call[r].rejected,
                    OnChain(call[r].hash)' \/ NoVestingDropped'
             PROVE  \E k \in DOMAIN chain' : Fork(r, k)' /\ PhaseOK(r, k)' /\ CacheOK(r, k)'
  BY DEF CallTracks, ldoVars, OnChain
<1>1. OnChain(call[r].hash) \/ NoVestingDropped
  <2>1. CASE NoVestingDropped'
    BY <2>1, DroppedBefore
  <2>2. CASE OnChain(call[r].hash)'
    <3>1. PICK h \in DOMAIN blocks : h = call[r].hash
      BY DEF CallHash
    <3>2. OnChain(h)'
      BY <2>2, <3>1 DEF OnChain, ldoVars
    <3> QED
      BY <3>1, <3>2, OnChainBefore
  <2> QED
    BY <2>1, <2>2
<1>2. PICK p \in DOMAIN chain : Fork(r, p) /\ PhaseOK(r, p) /\ CacheOK(r, p)
  BY <1>1 DEF CallTracks
<1>3. PICK k : k = IF p <= L THEN p ELSE L
  OBVIOUS
<1>4. call' = call
  BY DEF ldoVars
<1>5. /\ k \in DOMAIN chain /\ k \in DOMAIN chain' /\ k <= p /\ k <= L /\ Fork(r, k)'
      /\ ~ (p <= L) => NoVestingDropped'
  BY <1>2, <1>3, <1>4, ForkCut
<1>6. p \in Nat /\ k \in Nat
  BY <1>5 DEF ChainInv, ChainTypeOK
<1>7. PhaseOK(r, k)'
  BY <1>2, <1>5, <1>6, PhaseCut
<1>8. CacheOK(r, k)'
  BY <1>2, <1>3, <1>5, CacheCut
<1> QED
  BY <1>5, <1>7, <1>8

(* An amount of the cache that was right somewhere between where the scan  *)
(* of the call began and its block is right now, when the new events were  *)
(* followed.                                                               *)
LEMMA FollowedIsTrue ==
  ASSUME ChainInv, VestingHistory, NEW r \in Runs, call[r].fromBlock \in Int,
         NEW p, Fork(r, p), NewUpTo(r, UpToDate(r), p),
         NEW m \in Members, NEW q \in DOMAIN chain, call[r].fromBlock <= q + 1, q <= p,
         membersVestings[m] = NonVested(q, m)
  PROVE  m \in UpToDate(r)
<1>1. p \in DOMAIN chain /\ p \in Nat /\ q \in Nat
  BY DEF Fork, ChainInv, ChainTypeOK
<1>2. CASE \E n \in DOMAIN chain : q < n /\ n <= p /\ VestingAt(n, m)
  <2>1. PICK n \in DOMAIN chain : q < n /\ n <= p /\ VestingAt(n, m)
    BY <1>2
  <2>2. n \in Nat /\ call[r].fromBlock <= n
    BY <1>1, <2>1 DEF ChainInv, ChainTypeOK
  <2> QED
    BY <2>1, <2>2 DEF VestingAt, NewUpTo
<1>3. CASE ~ \E n \in DOMAIN chain : q < n /\ n <= p /\ VestingAt(n, m)
  <2>1. NonVested(q, m) = NonVested(p, m)
    BY <1>1, <1>3 DEF VestingHistory
  <2> QED
    BY <2>1 DEF NonVested, UpToDate, Fork
<1> QED
  BY <1>2, <1>3

LEMMA LockedStays ==
  ASSUME NEW r \in Runs, call'[r].hash = call[r].hash,
         blocks'[call[r].hash] = blocks[call[r].hash],
         UNCHANGED <<membersVestings, burnsAddresses>>
  PROVE  LockedSum(r)' = LockedSum(r)
BY DEF LockedSum, MemberLocked, Cached

(* What a drained call leaves: the cursor at its block, and a cache that   *)
(* was right at or after the next scan's first block.                      *)
LEMMA DrainedCache ==
  ASSUME ChainInv, VestingHistory, CallTyped, NEW r \in Runs, call[r].running = {},
         CallFlow(r), CallDone, CallTracks(r), CallBooks(r), failures = 0, NoVestingDropped,
         NEW m \in Cached
  PROVE  /\ membersLastFetchedBlock \in Int /\ membersLastFetchedBlock # None
         /\ \E q \in DOMAIN chain :
              membersLastFetchedBlock <= q + MaxReorgDepth /\ membersVestings[m] = NonVested(q, m)
<1>1. call[r].hash # None /\ ~ call[r].rejected /\ m \in Members
  BY DEF CallBooks, Cached
<1>2. ~ Running(r, "members") /\ ~ Running(r, "vestings") /\ ~ Running(r, "locked")
  BY DEF Running
<1>3. membersLastFetchedBlock = BlockNumber(r) /\ call[r].fromBlock \in Int
  BY <1>1, <1>2 DEF CallBooks
<1>4. call[r].hash \in DOMAIN blocks
  BY <1>1, HashInBlocks DEF CallHash
<1>5. BlockNumber(r) \in Int /\ BlockNumber(r) # None
  BY <1>4, LdoServiceAssumption DEF BlockNumber, ChainInv, ChainTypeOK
<1>6. call[r].holders # None
  BY <1>1, <1>2 DEF CallDone, CallFlow
<1>7. PICK p \in DOMAIN chain : Fork(r, p) /\ PhaseOK(r, p) /\ CacheOK(r, p)
  BY <1>1 DEF CallTracks
<1>8. NewUpTo(r, UpToDate(r), p)
  BY <1>2, <1>6, <1>7 DEF PhaseOK
<1>9. m \in UpToDate(r)
  <2>1. \/ m \in UpToDate(r)
        \/ \E q \in DOMAIN chain :
             call[r].fromBlock <= q + 1 /\ q <= p /\ membersVestings[m] = NonVested(q, m)
    BY <1>7 DEF CacheOK
  <2> QED
    BY <1>1, <1>3, <1>7, <1>8, <2>1, FollowedIsTrue
<1>10. membersVestings[m] = NonVested(p, m) /\ BlockNumber(r) <= p + MaxReorgDepth
  BY <1>7, <1>9 DEF UpToDate, NonVested, Fork
<1> QED
  BY <1>3, <1>5, <1>10

LEMMA BeginTracks ==
  ASSUME CoverIInv, History, CallTyped, FlowInv, CallDone, TrackInv,
         NEW r \in Runs, BeginCycle(r), failures \in Nat, DOMAIN cycle = Runs
  PROVE  CallTracks(r)' /\ CallBooks(r)'
<1>0. PICK p : p = Len(chain)
  OBVIOUS
<1> DEFINE to == blocks[head].number
           first == MembersService!FirstBlock
<1>1. /\ call[r].running = {}
      /\ call'[r].hash = head /\ ~ call'[r].rejected
      /\ call'[r].running = {"supply", "locked", "members", "burns"}
      /\ call'[r].fromBlock = first
      /\ call'[r].toFetch = {} /\ call'[r].holders = None /\ call'[r].locked = None
      /\ UNCHANGED <<chainVars, snapshot, membersVestings, failures>>
      /\ cycle' = [cycle EXCEPT ![r] = BlockInfo(head)]
  BY BeginEffect
<1>2. MembersService!StartScan(r, to)
  BY DEF BeginCycle, StartCall
<1>3. ChainInv /\ MembersService!IInv /\ CallTracks(r) /\ CallBooks(r) /\ CallFlow(r)
  BY DEF CoverIInv, TrackInv, FlowInv
<1>4. /\ p \in DOMAIN chain /\ p \in Nat /\ head = chain[p] /\ head \in DOMAIN blocks
      /\ to = p /\ p <= highest /\ highest \in Nat /\ MaxReorgDepth \in Nat
  BY <1>0, <1>3, EthChainAssumption DEF ChainInv, ChainTypeOK, head
<1>5. /\ membersAddresses' = IF membersLastFetchedBlock = None
                               THEN membersAddresses \cup snapshot.vestingMembers
                               ELSE membersAddresses
      /\ membersLastFetchedBlock' = membersLastFetchedBlock
      /\ membersScan'[r].queries = MembersService!Queries(first, to)
  BY <1>2, <1>3 DEF MembersService!IInv, MembersService!TypeOK, MembersService!StartScan
<1>6. BlockNumber(r)' = p /\ Cached' = Cached /\ blocks' = blocks /\ chain' = chain
  BY <1>1, <1>4 DEF BlockNumber, Cached, chainVars
<1>7. Fork(r, p)'
  <2>1. /\ p \in DOMAIN chain' /\ p <= BlockNumber(r)' /\ BlockNumber(r)' <= p + MaxReorgDepth
    BY <1>4, <1>6
  <2>2. blocks'[call'[r].hash].nonVested = blocks'[chain'[p]].nonVested
    BY <1>1, <1>4, <1>6
  <2> QED
    BY <1>6, <2>1, <2>2 DEF Fork
<1>8. first \in Int
  BY <1>3, LdoServiceAssumption
     DEF MembersService!IInv, MembersService!TypeOK, MembersService!Snapshots,
         MembersService!FirstBlock
<1>9. PhaseOK(r, p)'
  <2>1. snapshot.vestingMembers \subseteq membersAddresses'
    BY <1>5 DEF CoverIInv, SnapshotInv
  <2>2. ASSUME NEW n \in DOMAIN chain, NEW f \in VestingFilters, n <= p
        PROVE  IF first <= n
                 THEN MembersService!Pending(r, f, n)'
                 ELSE blocks[chain[n]].events[f] \subseteq membersAddresses'
    <3>1. IF first <= n
            THEN \E q \in MembersService!Queries(first, to) : q.filter = f /\ n \in q.from .. q.to
            ELSE blocks[chain[n]].events[f] \subseteq membersAddresses'
      BY <1>3, <1>4, <1>5, <2>2, MembersStart
    <3> QED
      BY <1>5, <3>1 DEF MembersService!Pending
  <2> HIDE DEF first, to
  <2>3. ScanPhase(r, p)'
    BY <1>1, <1>6, <2>1, <2>2 DEF ScanPhase
  <2>4. Running(r, "members")'
    BY <1>1 DEF Running
  <2> QED
    BY <2>3, <2>4 DEF PhaseOK
<1>10. CacheOK(r, p)'
  <2> SUFFICES ASSUME failures = 0, NoVestingDropped, NEW m \in Cached
               PROVE  \E q \in DOMAIN chain :
                        first <= q + 1 /\ q <= p /\ membersVestings[m] = NonVested(q, m)
    BY <1>1, <1>6 DEF CacheOK, NoVestingDropped, OnChain, NonVested
  <2>1. /\ membersLastFetchedBlock \in Int /\ membersLastFetchedBlock # None
        /\ \E q \in DOMAIN chain :
             membersLastFetchedBlock <= q + MaxReorgDepth /\ membersVestings[m] = NonVested(q, m)
    BY <1>1, <1>3, DrainedCache DEF History
  <2>2. PICK q \in DOMAIN chain :
          membersLastFetchedBlock <= q + MaxReorgDepth /\ membersVestings[m] = NonVested(q, m)
    BY <2>1
  <2>3. q \in Nat /\ q <= p
    BY <1>0, <1>3 DEF ChainInv, ChainTypeOK
  <2>4. first = membersLastFetchedBlock - OverlappingReorgOffset
    BY <2>1 DEF MembersService!FirstBlock
  <2>5. first <= q + 1
    BY <1>4, <2>1, <2>2, <2>3, <2>4, LdoServiceAssumption
  <2> QED
    BY <2>2, <2>3, <2>5
<1>11. CallTracks(r)'
  <2> QED
    BY <1>4, <1>6, <1>7, <1>9, <1>10 DEF CallTracks
<1>12. first + MaxReorgDepth <= highest + 1
  <2>1. CASE membersLastFetchedBlock = None
    <3>1. first = snapshot.toBlock + 1 /\ snapshot.toBlock \in Nat
      BY <1>3, <2>1 DEF MembersService!IInv, MembersService!TypeOK, MembersService!Snapshots,
         MembersService!FirstBlock
    <3>2. snapshot.toBlock = 1 /\ snapshot.toBlock + MaxReorgDepth <= highest
      BY <1>3 DEF MembersService!IInv, MembersService!NodeInv, MembersService!IsFinal, History
    <3> QED
      BY <1>4, <3>1, <3>2
  <2>2. CASE membersLastFetchedBlock # None
    <3>1. /\ first = membersLastFetchedBlock - OverlappingReorgOffset
          /\ membersLastFetchedBlock \in Int /\ membersLastFetchedBlock <= highest
      BY <1>3, <2>2 DEF MembersService!IInv, MembersService!TypeOK, MembersService!CursorInv,
         MembersService!FirstBlock
    <3> QED
      BY <1>4, <3>1, LdoServiceAssumption
  <2> QED
    BY <2>1, <2>2
<1>13. CallBooks(r)'
  <2>1. cycle'[r] = BlockInfo(head) /\ BlockInfo(head)' = BlockInfo(head)
    BY <1>1, <1>6 DEF BlockInfo, head
  <2>2. head # None
    BY <1>3, <1>4, LdoServiceAssumption DEF ChainInv, ChainTypeOK
  <2>3. "members" \in call'[r].running /\ highest' = highest
    BY <1>1 DEF chainVars
  <2> HIDE DEF first
  <2>4. BlockInfo(call[r].hash)' = BlockInfo(head)
    BY <1>1, <1>6 DEF BlockInfo
  <2> QED
    BY <1>1, <1>8, <1>12, <2>1, <2>2, <2>3, <2>4 DEF CallBooks, Running
<1> QED
  BY <1>11, <1>13

(* Who is known, and who is new, for any set of members.                   *)
LEMMA KnownKept ==
  ASSUME UNCHANGED chainVars, snapshot' = snapshot, NEW r \in Runs,
         call'[r].fromBlock = call[r].fromBlock, NEW p, NEW K
  PROVE  /\ KnowsUpTo(K, p)' <=> KnowsUpTo(K, p)
         /\ NewUpTo(r, K, p)' <=> NewUpTo(r, K, p)
<1>1. blocks' = blocks /\ chain' = chain
  BY DEF chainVars
<1>2. KnowsUpTo(K, p)' <=> KnowsUpTo(K, p)
  BY <1>1 DEF KnowsUpTo
<1>3. NewUpTo(r, K, p)' <=> NewUpTo(r, K, p)
  BY <1>1 DEF NewUpTo
<1> QED
  BY <1>2, <1>3

LEMMA ForkKept ==
  ASSUME UNCHANGED chainVars, NEW r \in Runs, call'[r].hash = call[r].hash, NEW p, Fork(r, p)
  PROVE  Fork(r, p)'
<1>1. blocks' = blocks /\ chain' = chain /\ BlockNumber(r)' = BlockNumber(r)
  BY DEF chainVars, BlockNumber
<1> QED
  BY <1>1 DEF Fork, OnChain

(* A step of the call that leaves the chain alone keeps CallTracks when it *)
(* keeps what CallTracks says of the phase and of the cache.               *)
LEMMA TracksByPhase ==
  ASSUME NEW r \in Runs, CallTracks(r), UNCHANGED chainVars, call'[r].hash = call[r].hash,
         call[r].rejected => call'[r].rejected,
         ASSUME NEW p \in DOMAIN chain, call[r].hash # None,
                Fork(r, p), PhaseOK(r, p), CacheOK(r, p)
         PROVE  PhaseOK(r, p)' /\ CacheOK(r, p)'
  PROVE  CallTracks(r)'
<1> SUFFICES ASSUME call[r].hash # None, ~ call[r].rejected,
                    OnChain(call[r].hash) \/ NoVestingDropped
             PROVE  \E k \in DOMAIN chain' : Fork(r, k)' /\ PhaseOK(r, k)' /\ CacheOK(r, k)'
  BY DEF CallTracks, NoVestingDropped, OnChain, chainVars
<1>1. PICK p \in DOMAIN chain : Fork(r, p) /\ PhaseOK(r, p) /\ CacheOK(r, p)
  BY DEF CallTracks
<1>2. chain' = chain
  BY DEF chainVars
<1>3. Fork(r, p)'
  BY <1>1, ForkKept
<1>4. PhaseOK(r, p)' /\ CacheOK(r, p)'
  BY <1>1
<1> QED
  BY <1>1, <1>2, <1>3, <1>4

LEMMA CacheKept ==
  ASSUME NEW r \in Runs, UNCHANGED chainVars, membersVestings' = membersVestings,
         failures' = failures, call'[r].hash = call[r].hash,
         call'[r].fromBlock = call[r].fromBlock, NEW p, CacheOK(r, p)
  PROVE  CacheOK(r, p)'
<1>1. blocks' = blocks /\ chain' = chain
  BY DEF chainVars
<1>2. UpToDate(r)' = UpToDate(r) /\ Cached' = Cached
  BY <1>1 DEF UpToDate, Cached
<1> QED
  BY <1>1, <1>2 DEF CacheOK, NoVestingDropped, OnChain, NonVested

(* Steps of the call that leave its members, cache and events alone.       *)
LEMMA TracksKept ==
  ASSUME NEW r \in Runs, CallTracks(r), UNCHANGED chainVars, snapshot' = snapshot,
         membersAddresses' = membersAddresses, membersScan' = membersScan,
         membersVestings' = membersVestings, failures' = failures,
         call'[r].hash = call[r].hash, call'[r].fromBlock = call[r].fromBlock,
         call[r].rejected => call'[r].rejected,
         Running(r, "members")' <=> Running(r, "members"),
         Running(r, "vestings")' <=> Running(r, "vestings"),
         call'[r].holders = None <=> call[r].holders = None,
         (call[r].holders # None /\ ~ Running(r, "vestings")) \/ call'[r].toFetch = call[r].toFetch
  PROVE  CallTracks(r)'
<1> SUFFICES ASSUME NEW p \in DOMAIN chain, call[r].hash # None,
                    Fork(r, p), PhaseOK(r, p), CacheOK(r, p)
             PROVE  PhaseOK(r, p)' /\ CacheOK(r, p)'
  BY TracksByPhase
<1>1. CacheOK(r, p)'
  BY CacheKept
<1>2. blocks' = blocks /\ chain' = chain
  BY DEF chainVars
<1>3. PICK A, C, F, U : A = membersAddresses /\ C = Cached /\ F = call[r].toFetch /\ U = UpToDate(r)
  OBVIOUS
<1>4. membersAddresses' = A /\ Cached' = C /\ UpToDate(r)' = U
  BY <1>2, <1>3 DEF UpToDate, Cached
<1>5. CASE Running(r, "members")
  <2>1. ScanPhase(r, p)' <=> ScanPhase(r, p)
    BY <1>2 DEF ScanPhase, MembersService!Pending
  <2> QED
    BY <1>1, <1>5, <2>1 DEF PhaseOK
<1>6. CASE ~ Running(r, "members") /\ call[r].holders = None
  <2>1. call'[r].toFetch = F
    BY <1>3, <1>6
  <2>2. KnowsUpTo(A, p)' /\ NewUpTo(r, F, p)'
    BY <1>3, <1>6, KnownKept DEF PhaseOK
  <2>3. KnowsUpTo(membersAddresses, p)' /\ NewUpTo(r, call[r].toFetch, p)'
    BY <1>4, <2>1, <2>2
  <2> QED
    BY <1>1, <1>6, <2>3 DEF PhaseOK
<1>7. CASE ~ Running(r, "members") /\ call[r].holders # None /\ Running(r, "vestings")
  <2>1. call'[r].toFetch = F
    BY <1>3, <1>7
  <2>2. KnowsUpTo(C \cup F, p)' /\ NewUpTo(r, F, p)'
    BY <1>3, <1>7, KnownKept DEF PhaseOK
  <2>3. KnowsUpTo(Cached \cup call[r].toFetch, p)' /\ NewUpTo(r, call[r].toFetch, p)'
    BY <1>4, <2>1, <2>2
  <2> QED
    BY <1>1, <1>7, <2>3 DEF PhaseOK
<1>8. CASE ~ Running(r, "members") /\ call[r].holders # None /\ ~ Running(r, "vestings")
  <2>2. KnowsUpTo(C, p)' /\ NewUpTo(r, U, p)'
    BY <1>3, <1>8, KnownKept DEF PhaseOK
  <2>3. KnowsUpTo(Cached, p)' /\ NewUpTo(r, UpToDate(r), p)'
    BY <1>4, <2>2
  <2> QED
    BY <1>1, <1>8, <2>3 DEF PhaseOK
<1> QED
  BY <1>5, <1>6, <1>7, <1>8

LEMMA ServeMembersTracks ==
  ASSUME MembersService!IInv, NEW r \in Runs, CallTracks(r), ServeMembersQuery(r),
         UNCHANGED chainVars, failures' = failures
  PROVE  CallTracks(r)'
<1>1. PICK x \in membersScan[r].queries : MembersService!ServeQuery(r, x)
  BY DEF ServeMembersQuery
<1>2. /\ membersScan'[r].queries = membersScan[r].queries \ {x}
      /\ membersScan'[r].found = membersScan[r].found \cup MembersService!Answer(x)
      /\ membersAddresses' = membersAddresses
  BY <1>1 DEF MembersService!IInv, MembersService!TypeOK, MembersService!ServeQuery
<1>3. UNCHANGED <<call, snapshot, membersVestings>>
  BY DEF ServeMembersQuery
<1>4. blocks' = blocks /\ chain' = chain
  BY DEF chainVars
<1> SUFFICES ASSUME NEW p \in DOMAIN chain, call[r].hash # None,
                    Fork(r, p), PhaseOK(r, p), CacheOK(r, p)
             PROVE  PhaseOK(r, p)' /\ CacheOK(r, p)'
  BY <1>3, TracksByPhase
<1>5. CacheOK(r, p)'
  BY <1>3, CacheKept
<1>6. PICK A, C, F, U : A = membersAddresses /\ C = Cached /\ F = call[r].toFetch /\ U = UpToDate(r)
  OBVIOUS
<1>7. membersAddresses' = A /\ Cached' = C /\ UpToDate(r)' = U /\ call'[r].toFetch = F
  BY <1>2, <1>3, <1>4, <1>6 DEF UpToDate, Cached
<1>8. CASE Running(r, "members")
  <2>1. ASSUME NEW n \in DOMAIN chain, NEW f \in VestingFilters, MembersService!Pending(r, f, n)
        PROVE  \/ MembersService!Pending(r, f, n)'
               \/ blocks[chain[n]].events[f] \subseteq membersScan'[r].found
    <3>1. CASE x.filter = f /\ n \in x.from .. x.to
      <4>1. n \in DOMAIN EventLog(VestingFilters)
            /\ EventLog(VestingFilters)[n][x.filter] = blocks[chain[n]].events[f]
        BY <3>1 DEF EventLog
      <4>2. blocks[chain[n]].events[f] \subseteq MembersService!Answer(x)
        BY <3>1, <4>1 DEF MembersService!Answer
      <4> QED
        BY <1>2, <4>2
    <3>2. CASE ~ (x.filter = f /\ n \in x.from .. x.to)
      BY <1>2, <2>1, <3>2 DEF MembersService!Pending
    <3> QED
      BY <3>1, <3>2
  <2>2. ScanPhase(r, p)
    BY <1>8 DEF PhaseOK
  <2>3. ASSUME NEW n \in DOMAIN chain, NEW f \in VestingFilters, n <= p
        PROVE  IF call[r].fromBlock <= n
                 THEN \/ blocks[chain[n]].events[f] \subseteq membersScan'[r].found
                      \/ MembersService!Pending(r, f, n)'
                 ELSE blocks[chain[n]].events[f] \subseteq membersAddresses
    BY <1>2, <2>1, <2>2, <2>3 DEF ScanPhase
  <2>4. ScanPhase(r, p)'
    BY <1>2, <1>3, <1>4, <2>2, <2>3 DEF ScanPhase
  <2> QED
    BY <1>3, <1>5, <1>8, <2>4 DEF PhaseOK, Running
<1>9. CASE ~ Running(r, "members")
  <2>1. /\ KnowsUpTo(A, p)' <=> KnowsUpTo(A, p)
        /\ KnowsUpTo(C \cup F, p)' <=> KnowsUpTo(C \cup F, p)
        /\ KnowsUpTo(C, p)' <=> KnowsUpTo(C, p)
        /\ NewUpTo(r, F, p)' <=> NewUpTo(r, F, p)
        /\ NewUpTo(r, U, p)' <=> NewUpTo(r, U, p)
    BY <1>3, KnownKept
  <2>2. /\ KnowsUpTo(membersAddresses, p)' <=> KnowsUpTo(membersAddresses, p)
        /\ KnowsUpTo(Cached \cup call[r].toFetch, p)' <=> KnowsUpTo(Cached \cup call[r].toFetch, p)
        /\ KnowsUpTo(Cached, p)' <=> KnowsUpTo(Cached, p)
        /\ NewUpTo(r, call[r].toFetch, p)' <=> NewUpTo(r, call[r].toFetch, p)
        /\ NewUpTo(r, UpToDate(r), p)' <=> NewUpTo(r, UpToDate(r), p)
    BY <1>6, <1>7, <2>1
  <2> QED
    BY <1>3, <1>5, <1>9, <2>2 DEF PhaseOK, Running
<1> QED
  BY <1>8, <1>9

LEMMA CompleteMembersTracks ==
  ASSUME CallInv, CallTyped, MembersService!IInv, NEW r \in Runs, CallTracks(r), CompleteMembers(r),
         UNCHANGED chainVars, failures' = failures
  PROVE  CallTracks(r)'
<1>1. /\ MembersService!Scanning(r) /\ membersScan[r].queries = {}
      /\ membersAddresses' = membersAddresses \cup membersScan[r].found
      /\ UNCHANGED <<snapshot, membersVestings>>
  BY DEF CompleteMembers, MembersService!CompleteScan
<1>2. /\ call'[r].running = call[r].running \ {"members"}
      /\ call'[r].toFetch = membersScan[r].found
      /\ call'[r].hash = call[r].hash /\ call'[r].rejected = call[r].rejected
      /\ call'[r].fromBlock = call[r].fromBlock
      /\ call'[r].holders = call[r].holders
  BY CompleteMembersEffect
<1>3. Running(r, "members") /\ call[r].holders = None
  BY <1>1 DEF CallInv, CallOK
<1>4. ~ Running(r, "members")' /\ call'[r].holders = None
  BY <1>2, <1>3 DEF Running
<1> SUFFICES ASSUME NEW p \in DOMAIN chain, call[r].hash # None,
                    Fork(r, p), PhaseOK(r, p), CacheOK(r, p)
             PROVE  PhaseOK(r, p)' /\ CacheOK(r, p)'
  BY <1>2, TracksByPhase
<1>5. CacheOK(r, p)'
  BY <1>1, <1>2, CacheKept
<1>6. PICK A, F : A = membersAddresses' /\ F = membersScan[r].found
  OBVIOUS
<1>7. \A f, n : ~ MembersService!Pending(r, f, n)
  BY <1>1 DEF MembersService!Pending
<1>8. ScanPhase(r, p)
  BY <1>3 DEF PhaseOK
<1>9. KnowsUpTo(A, p) /\ NewUpTo(r, F, p)
  BY <1>1, <1>6, <1>7, <1>8 DEF ScanPhase, KnowsUpTo, NewUpTo
<1>10. KnowsUpTo(A, p)' /\ NewUpTo(r, F, p)'
  BY <1>1, <1>2, <1>9, KnownKept
<1>11. KnowsUpTo(membersAddresses, p)' /\ NewUpTo(r, call[r].toFetch, p)'
  BY <1>2, <1>6, <1>10
<1> QED
  BY <1>4, <1>5, <1>11 DEF PhaseOK

LEMMA StartFetchesTracks ==
  ASSUME CallTyped, FlowInv, BurnsService!IInv, MembersService!IInv, NEW r \in Runs,
         CallTracks(r), StartFetches(r), UNCHANGED chainVars, failures' = failures
  PROVE  CallTracks(r)'
<1>1. /\ call[r].holders = None /\ ~ Running(r, "members")
      /\ call'[r].running = call[r].running
           \cup (IF MembersToFetch(r) = {} THEN {} ELSE {"vestings"})
           \cup (IF burnsAddresses = {} THEN {} ELSE {"balances"})
      /\ call'[r].toFetch = MembersToFetch(r) /\ call'[r].holders = burnsAddresses
      /\ call'[r].hash = call[r].hash /\ call'[r].rejected = call[r].rejected
      /\ call'[r].fromBlock = call[r].fromBlock
  BY StartFetchesEffect
<1>2. UNCHANGED <<snapshot, membersVestings, membersAddresses>>
  BY DEF StartFetches, membersVars
<1>3. call'[r].holders # None
  BY <1>1, LdoServiceAssumption DEF BurnsService!IInv, BurnsService!TypeOK
<1>4. /\ ~ Running(r, "members")'
      /\ Running(r, "vestings")' <=> MembersToFetch(r) # {}
  <2>1. ~ Running(r, "vestings")
    BY <1>1 DEF FlowInv, CallFlow
  <2> QED
    BY <1>1, <2>1 DEF Running
<1> SUFFICES ASSUME NEW p \in DOMAIN chain, call[r].hash # None,
                    Fork(r, p), PhaseOK(r, p), CacheOK(r, p)
             PROVE  PhaseOK(r, p)' /\ CacheOK(r, p)'
  BY <1>1, TracksByPhase
<1>5. CacheOK(r, p)'
  BY <1>1, <1>2, CacheKept
<1>6. PICK C, F, U : C = Cached /\ F = MembersToFetch(r) /\ U = UpToDate(r)
  OBVIOUS
<1>7. Cached' = C /\ call'[r].toFetch = F /\ UpToDate(r)' = U
  BY <1>1, <1>2, <1>6 DEF Cached, UpToDate, chainVars
<1>8. KnowsUpTo(membersAddresses, p) /\ NewUpTo(r, call[r].toFetch, p)
  BY <1>1 DEF PhaseOK
<1>9. membersAddresses \subseteq C \cup F /\ call[r].toFetch \subseteq F
  BY <1>6 DEF MembersToFetch, Cached, MembersService!IInv, MembersService!TypeOK
<1>10. KnowsUpTo(C \cup F, p) /\ NewUpTo(r, F, p)
  BY <1>8, <1>9 DEF KnowsUpTo, NewUpTo
<1>11. KnowsUpTo(C \cup F, p)' /\ NewUpTo(r, F, p)'
  BY <1>1, <1>2, <1>10, KnownKept
<1>12. CASE F # {}
  <2>1. KnowsUpTo(Cached \cup call[r].toFetch, p)' /\ NewUpTo(r, call[r].toFetch, p)'
    BY <1>7, <1>11
  <2> QED
    BY <1>3, <1>4, <1>5, <1>6, <1>12, <2>1 DEF PhaseOK
<1>13. CASE F = {}
  <2>1. C \cup F = C /\ F \subseteq U
    BY <1>13
  <2>2. KnowsUpTo(C, p)'
    BY <1>11, <2>1
  <2>3. NewUpTo(r, U, p)
    BY <1>10, <2>1 DEF NewUpTo
  <2>4. NewUpTo(r, U, p)'
    BY <1>1, <1>2, <2>3, KnownKept
  <2>5. KnowsUpTo(Cached, p)' /\ NewUpTo(r, UpToDate(r), p)'
    BY <1>7, <2>2, <2>4
  <2> QED
    BY <1>3, <1>4, <1>5, <1>6, <1>13, <2>5 DEF PhaseOK
<1> QED
  BY <1>12, <1>13

LEMMA MergeTracks ==
  ASSUME ChainInv, CallTyped, VestingsTyped, FlowInv, NEW r \in Runs, CallTracks(r),
         MergeVestings(r), UNCHANGED chainVars, failures' = failures
  PROVE  CallTracks(r)'
<1>1. /\ call'[r].running = call[r].running \ {"vestings"}
      /\ call'[r].hash = call[r].hash /\ call'[r].rejected = call[r].rejected
      /\ call'[r].fromBlock = call[r].fromBlock /\ call'[r].toFetch = call[r].toFetch
      /\ call'[r].holders = call[r].holders
  BY EndEffect DEF MergeVestings
<1>2. /\ Running(r, "vestings") /\ UNCHANGED snapshot
      /\ membersVestings' = [m \in Members |->
           IF m \in call[r].toFetch THEN blocks[call[r].hash].nonVested[m] ELSE membersVestings[m]]
  BY DEF MergeVestings
<1>3. /\ call[r].holders # None /\ ~ Running(r, "members")
      /\ ~ Running(r, "members")' /\ ~ Running(r, "vestings")' /\ call'[r].holders # None
  BY <1>1, <1>2 DEF FlowInv, CallFlow, Running
<1> SUFFICES ASSUME NEW p \in DOMAIN chain, call[r].hash # None,
                    Fork(r, p), PhaseOK(r, p), CacheOK(r, p)
             PROVE  PhaseOK(r, p)' /\ CacheOK(r, p)'
  BY <1>1, TracksByPhase
<1>4. PICK h \in DOMAIN blocks : h = call[r].hash
  BY HashInBlocks DEF CallHash
<1>5. blocks' = blocks /\ chain' = chain /\ call'[r].hash = h
  BY <1>1, <1>4 DEF chainVars
<1>6. \A m \in Members : blocks[h].nonVested[m] # None
  <2>1. blocks[h] \in Block
    BY DEF ChainInv, ChainTypeOK
  <2> QED
    BY <2>1, LdoServiceAssumption DEF Block
<1>7. PICK C, F, U : C = Cached' /\ F = call[r].toFetch /\ U = UpToDate(r)'
  OBVIOUS
<1>8. F \subseteq Members
  BY <1>7 DEF CallTyped, CallType
<1>9. Cached \cup F \subseteq C /\ F \subseteq U
  BY <1>2, <1>4, <1>5, <1>6, <1>7, <1>8 DEF Cached, UpToDate
<1>10. KnowsUpTo(Cached \cup F, p) /\ NewUpTo(r, F, p)
  BY <1>2, <1>3, <1>7 DEF PhaseOK
<1>11. KnowsUpTo(C, p) /\ NewUpTo(r, U, p)
  BY <1>9, <1>10 DEF KnowsUpTo, NewUpTo
<1>12. KnowsUpTo(C, p)' /\ NewUpTo(r, U, p)'
  BY <1>1, <1>2, <1>11, KnownKept
<1>13. KnowsUpTo(Cached, p)' /\ NewUpTo(r, UpToDate(r), p)'
  BY <1>7, <1>12
<1>14. PhaseOK(r, p)'
  BY <1>3, <1>13 DEF PhaseOK
<1>15. CacheOK(r, p)'
  <2> SUFFICES ASSUME failures = 0, NoVestingDropped, NEW m \in C, m \notin U
               PROVE  \E q \in DOMAIN chain : /\ call[r].fromBlock <= q + 1 /\ q <= p
                                              /\ membersVestings'[m] = NonVested(q, m)
    BY <1>1, <1>5, <1>7 DEF CacheOK, NoVestingDropped, OnChain, NonVested
  <2>1. m \in Members /\ m \notin F
    BY <1>7, <1>9 DEF Cached
  <2>2. membersVestings'[m] = membersVestings[m]
    BY <1>2, <1>7, <2>1
  <2>3. m \in Cached /\ m \notin UpToDate(r)
    BY <1>4, <1>5, <1>7, <2>1, <2>2 DEF Cached, UpToDate
  <2> QED
    BY <2>2, <2>3 DEF CacheOK
<1> QED
  BY <1>14, <1>15

(* Every other step of the one call.                                       *)
LEMMA ProgressTracks ==
  ASSUME CoverIInv, BurnsService!IInv, CallTyped, VestingsTyped, FlowInv, BalInv, OneSlot,
         NEW r \in Runs, CallTracks(r), LdoProgress(r), UNCHANGED chainVars, failures' = failures
  PROVE  CallTracks(r)' /\ (call'[r].rejected => call[r].rejected)
<1>1. ChainInv /\ MembersService!IInv /\ CallInv
  BY DEF CoverIInv
<1>2. CASE ServeSupply(r) \/ CompleteBurns(r) \/ ServeBalances(r)
  <2>1. PICK x \in {"supply", "burns", "balances"} : End(r, {x})
    BY <1>2 DEF ServeSupply, CompleteBurns, ServeBalances
  <2>2. /\ call'[r].hash = call[r].hash /\ call'[r].rejected = call[r].rejected
        /\ call'[r].fromBlock = call[r].fromBlock /\ call'[r].toFetch = call[r].toFetch
        /\ call'[r].holders = call[r].holders
        /\ call'[r].running = call[r].running \ {x}
    BY <2>1, EndEffect
  <2>3. /\ Running(r, "members")' <=> Running(r, "members")
        /\ Running(r, "vestings")' <=> Running(r, "vestings")
    BY <2>1, <2>2 DEF Running
  <2>4. UNCHANGED <<snapshot, membersAddresses, membersScan, membersVestings>>
    BY <1>2 DEF ServeSupply, CompleteBurns, ServeBalances, membersVars
  <2> QED
    BY <2>2, <2>3, <2>4, TracksKept
<1>3. CASE ServeBurnsQuery(r)
  BY <1>3, TracksKept DEF ServeBurnsQuery, membersVars, Running
<1>4. CASE ServeMembersQuery(r)
  BY <1>1, <1>4, ServeMembersTracks DEF ServeMembersQuery
<1>5. CASE CompleteMembers(r)
  BY <1>1, <1>5, CompleteMembersTracks, CompleteMembersEffect
<1>6. CASE StartFetches(r)
  BY <1>1, <1>6, StartFetchesTracks, StartFetchesEffect
<1>7. CASE MergeVestings(r)
  <2>1. call'[r].rejected = call[r].rejected
    BY <1>7, EndEffect DEF MergeVestings
  <2> QED
    BY <1>1, <1>7, <2>1, MergeTracks
<1>8. CASE Calculate(r)
  <2>1. ~ BalanceMissing(r)
    BY <1>8 DEF BalInv, HoldersFixed, Calculate, ReadyToCalculate, BalanceMissing
  <2>2. /\ call[r].holders # None /\ ~ Running(r, "vestings")
        /\ call'[r].running = call[r].running \ {"locked"}
        /\ call'[r].hash = call[r].hash /\ call'[r].fromBlock = call[r].fromBlock
        /\ call'[r].rejected = call[r].rejected /\ call'[r].holders = {}
    BY <1>8, <2>1, CalculateEffect
  <2>3. {} # None
    BY LdoServiceAssumption
  <2>4. /\ Running(r, "members")' <=> Running(r, "members")
        /\ Running(r, "vestings")' <=> Running(r, "vestings")
    BY <2>2 DEF Running
  <2>5. UNCHANGED <<snapshot, membersAddresses, membersScan, membersVestings>>
    BY <1>8 DEF Calculate, membersVars
  <2> QED
    BY <2>2, <2>3, <2>4, <2>5, TracksKept
<1> QED
  BY <1>2, <1>3, <1>4, <1>5, <1>6, <1>7, <1>8 DEF LdoProgress

LEMMA BooksStep ==
  ASSUME CoverIInv, BurnsService!IInv, CallTyped, FlowInv, NEW r \in Runs, CallBooks(r),
         LdoProgress(r) \/ LdoFailure(r), UNCHANGED chainVars, cycle' = cycle,
         failures' \in Nat, failures' = 0 => ~ call'[r].rejected
  PROVE  CallBooks(r)'
<1>1. /\ call'[r].hash = call[r].hash /\ call'[r].fromBlock = call[r].fromBlock
      /\ Running(r, "members")' => Running(r, "members")
      /\ call[r].rejected => call'[r].rejected
      /\ call'[r].locked # call[r].locked => Calculate(r)
  BY StepEffect
<1>2. blocks' = blocks /\ highest' = highest
  BY DEF chainVars
<1>3. BlockInfo(call[r].hash)' = BlockInfo(call[r].hash) /\ BlockNumber(r)' = BlockNumber(r)
  BY <1>1, <1>2 DEF BlockInfo, BlockNumber
<1>4. call[r].hash = None => Cached' = Cached
  <2>1. CASE MergeVestings(r)
    <3>1. call[r].hash \in DOMAIN blocks
      BY <2>1, HashKnown DEF MergeVestings, Running
    <3> QED
      BY <3>1, LdoServiceAssumption DEF CoverIInv, ChainInv, ChainTypeOK
  <2>2. CASE ~ MergeVestings(r)
    <3>1. membersVestings' = membersVestings
      BY <2>2 DEF LdoProgress, LdoFailure, ServeSupply, ServeMembersQuery, ServeBurnsQuery,
         CompleteMembers, CompleteBurns, StartFetches, ServeBalances, Calculate,
         FailMembers, FailBurns, FailRead
    <3> QED
      BY <3>1 DEF Cached
  <2> QED
    BY <2>1, <2>2
<1>5. call[r].hash # None /\ ~ call'[r].rejected /\ ~ Running(r, "members")' =>
        membersLastFetchedBlock' = BlockNumber(r)
  <2> SUFFICES ASSUME call[r].hash # None, ~ call'[r].rejected, ~ Running(r, "members")'
               PROVE  membersLastFetchedBlock' = BlockNumber(r)
    OBVIOUS
  <2>1. CASE CompleteMembers(r)
    <3>1. MembersService!Scanning(r) /\ membersLastFetchedBlock' = membersScan[r].toBlock
      BY <2>1 DEF CompleteMembers, MembersService!CompleteScan
    <3> QED
      BY <3>1 DEF CoverIInv, CallInv, CallOK, BlockNumber
  <2>2. CASE FailMembers(r)
    <3>1. Fail(r, "members")
      BY <2>2 DEF FailMembers
    <3>2. call'[r].rejected
      BY <3>1, FailEffect
    <3> QED
      BY <3>2
  <2>3. CASE ~ CompleteMembers(r) /\ ~ FailMembers(r)
    <3>1. membersLastFetchedBlock' = membersLastFetchedBlock
      BY <2>3 DEF LdoProgress, LdoFailure, ServeSupply, ServeMembersQuery, ServeBurnsQuery,
         CompleteBurns, StartFetches, MergeVestings, ServeBalances, Calculate,
         FailBurns, FailRead, membersVars, MembersService!ServeQuery
    <3>2. Running(r, "members")' <=> Running(r, "members")
      <4>1. CASE ServeSupply(r) \/ CompleteBurns(r) \/ ServeBalances(r) \/ MergeVestings(r)
        <5>1. PICK x \in {"supply", "burns", "balances", "vestings"} : End(r, {x})
          BY <4>1 DEF ServeSupply, CompleteBurns, ServeBalances, MergeVestings
        <5>2. call'[r].running = call[r].running \ {x}
          BY <5>1, EndEffect
        <5> QED
          BY <5>1, <5>2 DEF Running
      <4>2. CASE ServeMembersQuery(r) \/ ServeBurnsQuery(r)
        BY <4>2 DEF ServeMembersQuery, ServeBurnsQuery, Running
      <4>3. CASE StartFetches(r)
        <5>1. "members" \in call'[r].running <=> "members" \in call[r].running
          BY <4>3, StartFetchesEffect
        <5> QED
          BY <5>1 DEF Running
      <4>4. CASE Calculate(r)
        <5>1. "members" \in call'[r].running <=> "members" \in call[r].running
          BY <4>4, CalculateEffect
        <5> QED
          BY <5>1 DEF Running
      <4>5. CASE FailBurns(r) \/ FailRead(r)
        <5>1. PICK x \in {"burns", "supply", "vestings", "balances"} : Fail(r, x)
          BY <4>5 DEF FailBurns, FailRead
        <5>2. "members" \in call'[r].running <=> "members" \in call[r].running
          BY <5>1, FailEffect
        <5> QED
          BY <5>2 DEF Running
      <4> QED
        BY <2>3, <4>1, <4>2, <4>3, <4>4, <4>5 DEF LdoProgress, LdoFailure
    <3> QED
      BY <1>1, <3>1, <3>2 DEF CallBooks
  <2> QED
    BY <2>1, <2>2, <2>3
<1>6. call'[r].locked # None => call'[r].locked = LockedSum(r)'
  <2>1. CASE Calculate(r)
    <3>1. UNCHANGED <<membersVestings, burnsAddresses>>
      BY <2>1 DEF Calculate, burnsVars
    <3>2. LockedSum(r)' = LockedSum(r)
      BY <1>1, <1>2, <3>1, LockedStays
    <3>3. call'[r].locked = call[r].locked \/ call'[r].locked = LockedSum(r)
      BY <2>1, CalculateEffect
    <3> QED
      BY <3>2, <3>3 DEF CallBooks
  <2>2. CASE ~ Calculate(r) /\ call[r].locked # None
    <3>1. ~ Running(r, "burns") /\ ~ Running(r, "vestings") /\ CallFlow(r)
      BY <2>2 DEF FlowInv, CallFlow
    <3>2. ~ CompleteBurns(r) /\ ~ MergeVestings(r)
      BY <3>1 DEF CompleteBurns, BurnsService!CompleteScan, CallFlow, MergeVestings
    <3>3. UNCHANGED <<membersVestings, burnsAddresses>>
      BY <3>2 DEF LdoProgress, LdoFailure, ServeSupply, ServeMembersQuery, ServeBurnsQuery,
         CompleteMembers, StartFetches, ServeBalances, Calculate,
         FailMembers, FailBurns, FailRead, burnsVars, BurnsService!ServeQuery,
         BurnsService!FailScan
    <3>4. LockedSum(r)' = LockedSum(r)
      BY <1>1, <1>2, <3>3, LockedStays
    <3> QED
      BY <1>1, <2>2, <3>4 DEF CallBooks
  <2> QED
    BY <1>1, <2>1, <2>2
<1> QED
  BY <1>1, <1>2, <1>3, <1>4, <1>5, <1>6 DEF CallBooks

LEMMA QuietTracks ==
  ASSUME CallsInv, VestingHistory, TrackInv, [Next]_vars, UNCHANGED <<ldoVars, cycle>>,
         failures \in Nat, failures' \in Nat, failures <= failures', NEW r \in Runs
  PROVE  CallTracks(r)' /\ CallBooks(r)'
<1>1. PICK L \in Nat : Cut(L)
  BY StepCuts DEF CallsInv, CoverIInv
<1>2. CallTracks(r) /\ CallBooks(r) /\ CallHash(r) /\ ChainInv
  BY HashInBlocks DEF TrackInv, CallsInv, CoverIInv
<1>3. CallTracks(r)'
  BY <1>1, <1>2, TracksCut
<1>4. /\ call' = call /\ Cached' = Cached /\ membersLastFetchedBlock' = membersLastFetchedBlock
      /\ UNCHANGED <<membersVestings, burnsAddresses>>
      /\ Running(r, "members")' <=> Running(r, "members")
  BY DEF ldoVars, Cached, Running
<1>5. ASSUME call[r].hash # None
      PROVE  /\ blocks'[call[r].hash] = blocks[call[r].hash]
             /\ BlockNumber(r)' = BlockNumber(r)
             /\ BlockInfo(call[r].hash)' = BlockInfo(call[r].hash)
  BY <1>1, <1>2, <1>4, <1>5 DEF CallHash, Cut, BlockNumber, BlockInfo
<1>6. call[r].locked # None => LockedSum(r)' = LockedSum(r)
  <2>1. ASSUME call[r].locked # None PROVE LockedSum(r)' = LockedSum(r)
    <3>1. call[r].hash \in DOMAIN blocks
      BY <2>1, HashKnown DEF CallsInv
    <3>2. blocks'[call[r].hash] = blocks[call[r].hash]
      BY <1>1, <3>1 DEF Cut
    <3> QED
      BY <1>4, <3>2, LockedStays
  <2> QED
    BY <2>1
<1>7. highest \in Nat /\ highest' \in Nat /\ highest <= highest' /\ MaxReorgDepth \in Nat
  BY <1>1, <1>2, EthChainAssumption DEF Cut, ChainInv, ChainTypeOK
<1>8. CallBooks(r)'
  <2>1. call[r].hash # None => call[r].fromBlock + MaxReorgDepth <= highest' + 1
    BY <1>2, <1>7 DEF CallBooks
  <2>2. failures' = 0 => failures = 0
    OBVIOUS
  <2> QED
    BY <1>2, <1>4, <1>5, <1>6, <2>1, <2>2 DEF CallBooks
<1> QED
  BY <1>3, <1>8

LEMMA TrackStep ==
  ASSUME CallsInv, History, LdoTypes, BalInv, TrackInv, OneSlot, [Next]_vars,
         failures \in Nat, failures' \in Nat, DOMAIN cycle = Runs
  PROVE  TrackInv'
<1> SUFFICES ASSUME NEW r \in Runs PROVE CallTracks(r)' /\ CallBooks(r)'
  BY DEF TrackInv
<1>1. /\ CoverIInv /\ BurnsService!IInv /\ CallTyped /\ FlowInv /\ VestingsTyped /\ CallDone
      /\ VestingHistory /\ CallTracks(r) /\ CallBooks(r)
  BY DEF CallsInv, LdoTypes, History, TrackInv
<1>2. CASE MineBlock \/ ReorgHead \/ UNCHANGED vars
  BY <1>1, <1>2, QuietTracks DEF MineBlock, ReorgHead, vars, workerVars
<1>3. ASSUME NEW t \in Runs, SaveLdo(t) \/ SaveOther(t) \/ EndCycle(t) \/ RejectLdo(t) \/ FailOther(t)
      PROVE  CallTracks(r)' /\ CallBooks(r)'
  <2>1. UNCHANGED <<ldoVars, cycle>> /\ failures <= failures'
    BY <1>3 DEF SaveLdo, SaveOther, EndCycle, RejectLdo, FailOther,
       Worker!SaveTokenData, Worker!EndCycle, Worker!FailToken
  <2> QED
    BY <1>1, <2>1, QuietTracks
<1>4. ASSUME NEW t \in Runs, BeginCycle(t) PROVE CallTracks(r)' /\ CallBooks(r)'
  <2>1. t = r
    BY DEF OneSlot
  <2> QED
    BY <1>1, <1>4, <2>1, BeginTracks
<1>5. ASSUME NEW t \in Runs, ProgressLdo(t) PROVE CallTracks(r)' /\ CallBooks(r)'
  <2>1. t = r
    BY DEF OneSlot
  <2>2. LdoProgress(r) /\ UNCHANGED chainVars /\ cycle' = cycle /\ failures' = failures
    BY <1>5, <2>1 DEF ProgressLdo, workerVars
  <2>3. CallTracks(r)' /\ (call'[r].rejected => call[r].rejected)
    BY <1>1, <2>2, ProgressTracks
  <2>4. failures' = 0 => ~ call'[r].rejected
    BY <1>1, <2>2, <2>3 DEF CallBooks
  <2> QED
    BY <1>1, <2>2, <2>3, <2>4, BooksStep
<1>6. ASSUME NEW t \in Runs, FailLdoRequest(t) PROVE CallTracks(r)' /\ CallBooks(r)'
  <2>1. t = r
    BY DEF OneSlot
  <2>2. LdoFailure(r) /\ UNCHANGED chainVars /\ cycle' = cycle /\ failures' = failures + 1
    BY <1>6, <2>1 DEF FailLdoRequest, workerVars
  <2>3. PICK x : Fail(r, x)
    BY <2>2 DEF LdoFailure, FailMembers, FailBurns, FailRead
  <2>4. call'[r].rejected
    BY <1>1, <2>3, FailEffect
  <2>5. failures' # 0
    BY <2>2
  <2> QED
    BY <1>1, <2>2, <2>4, <2>5, BooksStep DEF CallTracks
<1> QED
  BY <1>2, <1>3, <1>4, <1>5, <1>6 DEF Next, Progress

LEMMA TrackInit == Init => TrackInv
<1> SUFFICES ASSUME Init, NEW r \in Runs PROVE CallTracks(r) /\ CallBooks(r)
  BY DEF TrackInv
<1>1. call[r] = NoCall /\ membersVestings = [m \in Members |-> None]
  BY DEF Init, LdoInit
<1>2. call[r].hash = None /\ call[r].locked = None /\ call[r].rejected = FALSE
  BY <1>1 DEF NoCall
<1>3. Cached = {}
  BY <1>1 DEF Cached
<1> QED
  BY <1>2, <1>3 DEF CallTracks, CallBooks

(* The burned holders of the snapshot are in from the first scan on.       *)
BurnsNamed ==
  burnsLastFetchedBlock # None \/ (\E r \in Runs : call[r].hash # None) =>
    snapshot.burnsAddresses \subseteq burnsAddresses

LEMMA BurnsNamedStep ==
  ASSUME CallsInv, BurnsNamed, [Next]_vars PROVE BurnsNamed'
<1>1. burnsAddresses \subseteq burnsAddresses' /\ snapshot' = snapshot
  BY BurnsShared, SnapshotStays DEF CallsInv
<1>2. CallTyped /\ CoverIInv
  BY DEF CallsInv
<1>3. ASSUME NEW r \in Runs, BeginCycle(r) PROVE BurnsNamed'
  <2>1. burnsAddresses' = IF burnsLastFetchedBlock = None
                            THEN burnsAddresses \cup snapshot.burnsAddresses ELSE burnsAddresses
    BY <1>3 DEF BeginCycle, StartCall, BurnsService!StartScan
  <2> QED
    BY <1>1, <2>1 DEF BurnsNamed
<1>4. CASE UNCHANGED ldoVars
  BY <1>4 DEF ldoVars, BurnsNamed
<1>5. ASSUME NEW r \in Runs, LdoProgress(r) \/ LdoFailure(r) PROVE BurnsNamed'
  <2>1. call'[r].hash = call[r].hash /\ \A t \in Runs : t # r => call'[t] = call[t]
    BY <1>2, <1>5, StepEffect
  <2>2. CASE CompleteBurns(r)
    <3>1. Running(r, "burns")
      BY <2>2 DEF CompleteBurns, BurnsService!CompleteScan, CallsInv, FlowInv, CallFlow
    <3>2. call[r].hash \in DOMAIN blocks
      BY <1>2, <3>1, HashKnown DEF Running
    <3>3. call[r].hash # None
      BY <3>2, LdoServiceAssumption DEF CallsInv, CoverIInv, ChainInv, ChainTypeOK
    <3> QED
      BY <1>1, <3>3 DEF BurnsNamed
  <2>3. CASE ~ CompleteBurns(r)
    <3>1. burnsLastFetchedBlock' = burnsLastFetchedBlock
      <4>1. CASE ServeBurnsQuery(r) \/ FailBurns(r)
        BY <4>1 DEF ServeBurnsQuery, FailBurns, BurnsService!ServeQuery, BurnsService!FailScan
      <4> QED
        BY <1>2, <1>5, <2>3, <4>1, BurnsCases DEF burnsVars
    <3> QED
      BY <1>1, <2>1, <3>1 DEF BurnsNamed
  <2> QED
    BY <2>2, <2>3
<1> QED
  BY <1>3, <1>4, <1>5, StepCases

LEMMA BurnsNamedInit == Init => BurnsNamed
BY DEF Init, LdoInit, NoCall, BurnsNamed

(* The domains of the worker's functions.                                  *)
StoreShape == DOMAIN cycle = Runs /\ DOMAIN tokensData = Tokens

TruthInv == CallsInv /\ LdoTypes /\ History /\ BalInv /\ BurnsNamed /\ StoreShape
            /\ failures \in 0 .. MaxFailures

LEMMA TruthInvariance == Spec => []TruthInv
<1>1. WorkerProofs!WorkerInv => StoreShape
  <2>1. WorkerProofs!WorkerInv => Worker!WorkerTypeOK
    BY WorkerTranslates
  <2> QED
    BY <2>1 DEF Worker!WorkerTypeOK, StoreShape
<1>2. CallsInv /\ BurnsNamed /\ [Next]_vars => BurnsNamed'
  BY BurnsNamedStep
<1>3. Spec => []BurnsNamed
  BY <1>2, BurnsNamedInit, CallsInvariance, PTL DEF Spec
<1>4. CallsInv /\ LdoTypes /\ History /\ BalInv /\ BurnsNamed /\ StoreShape
      /\ failures \in 0 .. MaxFailures => TruthInv
  BY DEF TruthInv
<1> QED
  BY <1>1, <1>3, <1>4, CallsInvariance, LdoTypesInvariance, HistoryInvariance,
     BalancesInvariance, WorkerInvariant, FailuresInvariance, PTL

LEMMA TrackInvariance == ASSUME OneSlot PROVE Spec => []TrackInv
<1>1. TruthInv /\ TruthInv' /\ TrackInv /\ [Next]_vars => TrackInv'
  <2> SUFFICES ASSUME TruthInv, TruthInv', TrackInv, [Next]_vars PROVE TrackInv'
    OBVIOUS
  <2>1. failures \in Nat /\ failures' \in Nat
    BY CircSupplyAssumption DEF TruthInv
  <2> QED
    BY <2>1, TrackStep DEF TruthInv, StoreShape
<1> QED
  BY <1>1, TrackInit, TruthInvariance, PTL DEF Spec

-----------------------------------------------------------------------------
(* What is saved.                                                          *)

(* On the chain, when nothing cached is out of date and nobody is left     *)
(* out, the sum over the cache is the sum over all members: the balance    *)
(* counts for whom it should, as every burn up to the block is known, and  *)
(* for whom it should not it is no less than what is not vested.           *)
LEMMA SumIsTrue ==
  ASSUME ChainInv, History, VestingsTyped, BurnsNamed, NEW r \in Runs, BurnsKnown(r),
         call[r].hash # None, call[r].running = {}, call[r].locked # None, OnChain(call[r].hash),
         KnowsUpTo(Cached, BlockNumber(r)), \A m \in Cached : m \in UpToDate(r)
  PROVE  LockedSum(r) = LockedAt(call[r].hash)
<1>1. PICK h : h = call[r].hash
  OBVIOUS
<1>2. PICK p : p = BlockNumber(r)
  OBVIOUS
<1>3. h \in DOMAIN blocks /\ p \in DOMAIN chain /\ chain[p] = h
  BY <1>1, <1>2, OnChainPlace DEF BlockNumber
<1>4. blocks[h].balance \in [Members -> Nat] /\ blocks[h].nonVested \in [Members -> Nat]
  <2>1. blocks[h] \in Block
    BY <1>3 DEF ChainInv, ChainTypeOK
  <2> QED
    BY <2>1 DEF Block
<1>5. ASSUME NEW m \in Members PROVE Locked(h, m) \in Nat
  BY <1>4, <1>5 DEF Locked
<1>6. ASSUME NEW m \in Cached PROVE MemberLocked(r, m) = Locked(h, m) /\ m \in Members
  <2>1. m \in Members /\ membersVestings[m] = blocks[h].nonVested[m]
    BY <1>1, <1>6 DEF UpToDate, Cached
  <2>2. ASSUME m \notin burnsAddresses PROVE blocks[h].nonVested[m] <= blocks[h].balance[m]
    <3>1. m \notin snapshot.burnsAddresses
      BY <1>6, <2>2 DEF BurnsNamed
    <3>2. \A n \in DOMAIN chain : n <= p => ~ BurnAt(n, m)
      BY <1>2, <2>2 DEF BurnsKnown, BurnAt, BurnFilters, Running
    <3> QED
      BY <1>3, <2>1, <3>1, <3>2 DEF History, BurnHistory
  <2>3. blocks[h].nonVested[m] \in Nat /\ blocks[h].balance[m] \in Nat
    BY <1>4, <2>1
  <2>4. CASE m \in burnsAddresses
    BY <1>1, <2>1, <2>4 DEF MemberLocked, Locked
  <2>5. CASE m \notin burnsAddresses
    BY <1>1, <2>1, <2>2, <2>3, <2>5 DEF MemberLocked, Locked
  <2> QED
    BY <2>1, <2>4, <2>5
<1>7. ASSUME NEW m \in Members \ Cached PROVE Locked(h, m) = 0
  <2>1. m \notin snapshot.vestingMembers /\ \A n \in DOMAIN chain : n <= p => ~ VestingAt(n, m)
    BY <1>2, <1>7 DEF KnowsUpTo, VestingAt
  <2>2. blocks[h].nonVested[m] = 0
    <3>1. p \in Nat
      BY <1>3 DEF ChainInv, ChainTypeOK
    <3> QED
      BY <1>3, <2>1, <3>1 DEF History, GrantHistory, NonVested
  <2>3. blocks[h].balance[m] \in Nat
    BY <1>4
  <2> QED
    BY <2>2, <2>3 DEF Locked
<1> DEFINE f == [m \in Cached |-> MemberLocked(r, m)]
           g == [m \in Members |-> Locked(h, m)]
<1>8. f \in [Cached -> Nat] /\ g \in [Members -> Nat]
  BY <1>5, <1>6
<1>9. /\ \A m \in Cached : f[m] = g[m]
      /\ \A m \in Members \ Cached : g[m] = 0
  BY <1>6, <1>7
<1>10. SumFunction(f) = SumFunction(g)
  <2>1. Cached \in SUBSET Members
    BY DEF Cached
  <2> HIDE DEF f, g
  <2> QED
    BY <1>8, <1>9, <2>1, EthChainAssumption, SumOfSupport
<1> QED
  BY <1>1, <1>10 DEF LockedSum, LockedAt

(* What is stored names a block of the node.                               *)
StoreBlocks ==
  \A t \in Tokens : tokensData[t] # None => tokensData[t].block.number \in Int

LEMMA StoreBlocksInvariance == Spec => []StoreBlocks
<1>1. WorkerProofs!WorkerInv => StoreBlocks
  <2>1. WorkerProofs!WorkerInv => Worker!WorkerTypeOK
    BY WorkerTranslates
  <2>2. Worker!WorkerTypeOK => StoreBlocks
    BY DEF Worker!WorkerTypeOK, Worker!TokenData, Worker!BlockInfo, StoreBlocks
  <2> QED
    BY <2>1, <2>2
<1> QED
  BY <1>1, WorkerInvariant, PTL

(* What a call that has resolved knows.                                    *)
LEMMA ResolvedTracks ==
  ASSUME TruthInv, TrackInv, NEW r \in Runs, Resolved(r),
         OnChain(call[r].hash) \/ NoVestingDropped
  PROVE  /\ call[r].locked # None /\ call[r].locked = LockedSum(r)
         /\ call[r].fromBlock \in Int /\ cycle[r] = BlockInfo(call[r].hash)
         /\ \E p \in DOMAIN chain :
              /\ Fork(r, p) /\ CacheOK(r, p)
              /\ KnowsUpTo(Cached, p) /\ NewUpTo(r, UpToDate(r), p)
<1>1. /\ CallTyped /\ CallDone /\ CallFlow(r) /\ CallTracks(r) /\ CallBooks(r)
  BY DEF TruthInv, CallsInv, LdoTypes, FlowInv, TrackInv
<1>2. /\ call[r].hash # None /\ ~ call[r].rejected
      /\ \A part : ~ Running(r, part)
  BY DEF Resolved, Drained, Running
<1>3. call[r].locked # None /\ call[r].holders # None
  BY <1>1, <1>2 DEF CallDone, CallFlow
<1>4. PICK p \in DOMAIN chain : Fork(r, p) /\ PhaseOK(r, p) /\ CacheOK(r, p)
  BY <1>1, <1>2 DEF CallTracks
<1>5. KnowsUpTo(Cached, p) /\ NewUpTo(r, UpToDate(r), p)
  BY <1>2, <1>3, <1>4 DEF PhaseOK
<1> QED
  BY <1>1, <1>2, <1>3, <1>4, <1>5 DEF CallBooks

LEMMA SavedRecord ==
  ASSUME StoreShape, NEW r \in Runs, SaveLdo(r)
  PROVE  /\ Resolved(r)
         /\ tokensData' = [tokensData EXCEPT !["ldo"] = [block |-> cycle[r], info |-> call[r].locked]]
         /\ tokensData'["ldo"] = [block |-> cycle[r], info |-> call[r].locked]
         /\ UNCHANGED <<chainVars, ldoVars, failures>>
BY DEF SaveLdo, Worker!SaveTokenData, StoreShape, Tokens

LEMMA SavedTrue ==
  ASSUME TruthInv, TrackInv, NEW r \in Runs, SaveLdo(r), OnChain(call[r].hash),
         \A m \in Cached : m \in UpToDate(r)
  PROVE  TrueData("ldo")'
<1>1. /\ ChainInv /\ History /\ VestingsTyped /\ BurnsNamed /\ BurnsKnown(r) /\ StoreShape
  BY DEF TruthInv, CallsInv, CoverIInv, LdoTypes, BalInv
<1>2. /\ Resolved(r)
      /\ tokensData'["ldo"] = [block |-> cycle[r], info |-> call[r].locked]
      /\ UNCHANGED chainVars
  BY <1>1, SavedRecord
<1>3. /\ call[r].locked # None /\ call[r].locked = LockedSum(r) /\ cycle[r] = BlockInfo(call[r].hash)
  BY <1>2, ResolvedTracks
<1>4. PICK p \in DOMAIN chain : Fork(r, p) /\ KnowsUpTo(Cached, p)
  BY <1>2, ResolvedTracks
<1>5. KnowsUpTo(Cached, BlockNumber(r))
  BY <1>4 DEF Fork
<1>6. LockedSum(r) = LockedAt(call[r].hash)
  <2>1. call[r].hash # None /\ call[r].running = {}
    BY <1>2 DEF Resolved, Drained
  <2> QED
    BY <1>1, <1>3, <1>5, <2>1, SumIsTrue
<1>7. PICK h : h = call[r].hash
  OBVIOUS
<1>8. tokensData'["ldo"].info = LockedAt(h) /\ tokensData'["ldo"].block.hash = h
  BY <1>2, <1>3, <1>6, <1>7 DEF BlockInfo
<1>9. LockedAt(h)' = LockedAt(h)
  BY <1>2 DEF LockedAt, Locked, chainVars
<1> QED
  BY <1>8, <1>9 DEF TrueData, TrueInfo

(* Amounts that were right no earlier than where the scan began are right. *)
LEMMA CacheIsTrue ==
  ASSUME TruthInv, NEW r \in Runs, call[r].fromBlock \in Int,
         NEW p, Fork(r, p), NewUpTo(r, UpToDate(r), p),
         \A m \in Cached :
           \/ m \in UpToDate(r)
           \/ \E q \in DOMAIN chain :
                call[r].fromBlock <= q + 1 /\ q <= p /\ membersVestings[m] = NonVested(q, m)
  PROVE  \A m \in Cached : m \in UpToDate(r)
<1> SUFFICES ASSUME NEW m \in Cached PROVE m \in UpToDate(r)
  OBVIOUS
<1>1. ChainInv /\ VestingHistory /\ m \in Members
  BY DEF TruthInv, CallsInv, CoverIInv, History, Cached
<1> QED
  BY <1>1, FollowedIsTrue

(* As long as no call outlives its cycle, a failed cycle does no lasting   *)
(* harm: when nothing cached is older than the block of the last save and  *)
(* the next scan that leads to a save reaches back to it, what is saved    *)
(* for a block of the chain is the locked amount of that block, however    *)
(* deep the reorganisations and whatever fails in between.  So the overlap *)
(* of the scans bounds how many blocks an outage may last                  *)
(* (vesting-members.service.ts:34).                                        *)
THEOREM TruthKept == ASSUME OneSlot PROVE Spec => SaveKeepsTruth
<1> DEFINE saved == tokensData["ldo"].block.number
<1>1. ASSUME TruthInv, TrackInv, StoreBlocks, NEW r \in Runs, SaveLdo(r), OnChain(call[r].hash),
             tokensData["ldo"] # None, CachedBetween(saved, blocks[call[r].hash].number),
             call[r].fromBlock <= saved + 1
      PROVE  TrueData("ldo")'
  <2>1. Resolved(r)
    BY <1>1, SavedRecord DEF TruthInv
  <2>2. call[r].fromBlock \in Int
    BY <1>1, <2>1, ResolvedTracks
  <2>3. PICK p \in DOMAIN chain : Fork(r, p) /\ NewUpTo(r, UpToDate(r), p)
    BY <1>1, <2>1, ResolvedTracks
  <2>4. saved \in Int
    BY <1>1 DEF StoreBlocks, Tokens
  <2>5. ASSUME NEW m \in Cached
        PROVE \E q \in DOMAIN chain :
                call[r].fromBlock <= q + 1 /\ q <= p /\ membersVestings[m] = NonVested(q, m)
    <3>1. PICK q \in DOMAIN chain :
            saved <= q /\ q <= blocks[call[r].hash].number
            /\ membersVestings[m] = blocks[chain[q]].nonVested[m]
      BY <1>1, <2>5 DEF CachedBetween
    <3>2. q \in Nat
      BY <1>1 DEF TruthInv, CallsInv, CoverIInv, ChainInv, ChainTypeOK
    <3>3. q <= p
      BY <1>1, <2>3, <3>1 DEF Fork, BlockNumber
    <3>4. call[r].fromBlock <= q + 1
      BY <1>1, <2>2, <2>4, <3>1, <3>2
    <3> QED
      BY <3>1, <3>3, <3>4 DEF NonVested
  <2>6. \A m \in Cached : m \in UpToDate(r)
    <3> HIDE DEF saved
    <3> QED
      BY <1>1, <2>2, <2>3, <2>5, CacheIsTrue
  <2> QED
    BY <1>1, <2>6, SavedTrue
<1>2. TruthInv /\ TrackInv /\ StoreBlocks /\ [Next]_vars =>
        [\A r \in Runs :
           LET last == tokensData["ldo"].block.number
           IN  /\ SaveLdo(r)
               /\ OnChain(call[r].hash)
               /\ tokensData["ldo"] # None
               /\ CachedBetween(last, blocks[call[r].hash].number)
               /\ call[r].fromBlock <= last + 1
               => TrueData("ldo")']_vars
  BY <1>1
<1> QED
  BY <1>2, TruthInvariance, TrackInvariance, StoreBlocksInvariance, PTL DEF Spec, SaveKeepsTruth

-----------------------------------------------------------------------------
(* What is stored.                                                         *)

LdoStored == tokensData["ldo"] # None

StoredTrue ==
  /\ \A t \in OtherTokens : tokensData[t] # None => TrueData(t)
  /\ LdoStored =>
       /\ tokensData["ldo"].block.hash \in DOMAIN blocks
       /\ failures = 0 /\ NoVestingDropped /\ OnChain(tokensData["ldo"].block.hash)
            => TrueData("ldo")

(* What is locked at a block does not change.                              *)
LEMMA LockedAtStays ==
  ASSUME ChainInv, [Next]_vars, NEW h \in DOMAIN blocks
  PROVE  LockedAt(h)' = LockedAt(h)
<1>1. blocks'[h] = blocks[h]
  BY BlocksStay
<1> QED
  BY <1>1 DEF LockedAt, Locked

LEMMA StoredKept ==
  ASSUME ChainInv, StoredTrue, [Next]_vars, UNCHANGED tokensData["ldo"],
         failures' = 0 => failures = 0,
         \A t \in OtherTokens : (tokensData[t] # None => TrueData(t))'
  PROVE  StoredTrue'
<1> SUFFICES ASSUME LdoStored'
             PROVE  /\ (tokensData["ldo"].block.hash \in DOMAIN blocks)'
                    /\ (failures = 0 /\ NoVestingDropped /\ OnChain(tokensData["ldo"].block.hash))'
                         => TrueData("ldo")'
  BY DEF StoredTrue
<1>1. PICK h : h = tokensData["ldo"].block.hash
  OBVIOUS
<1>2. h \in DOMAIN blocks /\ tokensData'["ldo"] = tokensData["ldo"]
  BY <1>1 DEF StoredTrue, LdoStored
<1>3. h \in DOMAIN blocks' /\ blocks'[h] = blocks[h]
  BY <1>2, BlocksStay
<1>4. PICK L \in Nat : Cut(L)
  BY StepCuts
<1>5. ASSUME failures' = 0, NoVestingDropped', OnChain(h)' PROVE TrueData("ldo")'
  <2>1. NoVestingDropped /\ OnChain(h) /\ failures = 0
    BY <1>2, <1>4, <1>5, DroppedBefore, OnChainBefore
  <2>2. tokensData["ldo"].info = LockedAt(h)
    BY <1>1, <1>2, <2>1 DEF StoredTrue, LdoStored, TrueData, TrueInfo
  <2>3. LockedAt(h)' = LockedAt(h)
    BY <1>2, LockedAtStays
  <2>4. tokensData'["ldo"].info = LockedAt(h)' /\ tokensData'["ldo"].block.hash = h
    BY <1>1, <1>2, <2>2, <2>3
  <2> QED
    BY <2>4 DEF TrueData, TrueInfo
<1>6. OnChain(tokensData["ldo"].block.hash)' => OnChain(h)'
  BY <1>1, <1>2 DEF OnChain
<1>7. (tokensData["ldo"].block.hash \in DOMAIN blocks)'
  BY <1>1, <1>2, <1>3
<1> QED
  BY <1>5, <1>6, <1>7

LEMMA StoredSaveLdo ==
  ASSUME TruthInv, TrackInv, StoredTrue, [Next]_vars, NEW r \in Runs, SaveLdo(r)
  PROVE  StoredTrue'
<1>1. /\ Resolved(r)
      /\ tokensData' = [tokensData EXCEPT !["ldo"] = [block |-> cycle[r], info |-> call[r].locked]]
      /\ tokensData'["ldo"] = [block |-> cycle[r], info |-> call[r].locked]
      /\ UNCHANGED <<chainVars, ldoVars, failures>>
  BY SavedRecord DEF TruthInv
<1>2. PICK h : h = call[r].hash
  OBVIOUS
<1>3. h # None /\ CallBooks(r) /\ CallHash(r)
  BY <1>1, <1>2, HashInBlocks DEF Resolved, TrackInv, TruthInv, CallsInv
<1>4. h \in DOMAIN blocks /\ tokensData'["ldo"].block.hash = h
  BY <1>1, <1>2, <1>3 DEF CallBooks, CallHash, BlockInfo
<1>5. ASSUME NEW t \in OtherTokens PROVE (tokensData[t] # None => TrueData(t))'
  <2>1. tokensData'[t] = tokensData[t] /\ t # "ldo"
    BY <1>1, CircSupplyAssumption
  <2>2. tokensData[t] # None => tokensData[t].info = tokensData[t].block.hash
    BY <2>1 DEF StoredTrue, TrueData, TrueInfo
  <2> QED
    BY <2>1, <2>2 DEF TrueData, TrueInfo
<1>6. ASSUME failures = 0, NoVestingDropped, OnChain(h) PROVE TrueData("ldo")'
  <2>1. call[r].fromBlock \in Int
    BY <1>1, <1>6, ResolvedTracks
  <2>2. PICK p \in DOMAIN chain : Fork(r, p) /\ CacheOK(r, p) /\ NewUpTo(r, UpToDate(r), p)
    BY <1>1, <1>6, ResolvedTracks
  <2>3. \A m \in Cached :
          \/ m \in UpToDate(r)
          \/ \E q \in DOMAIN chain :
               call[r].fromBlock <= q + 1 /\ q <= p /\ membersVestings[m] = NonVested(q, m)
    BY <1>6, <2>2 DEF CacheOK
  <2>4. \A m \in Cached : m \in UpToDate(r)
    BY <2>1, <2>2, <2>3, CacheIsTrue
  <2> QED
    BY <1>2, <1>6, <2>4, SavedTrue
<1>7. /\ blocks' = blocks /\ chain' = chain /\ failures' = failures
  BY <1>1 DEF chainVars
<1>8. (tokensData["ldo"].block.hash \in DOMAIN blocks)'
  BY <1>4, <1>7
<1>9. (failures = 0 /\ NoVestingDropped /\ OnChain(tokensData["ldo"].block.hash))'
        => TrueData("ldo")'
  <2>1. OnChain(tokensData["ldo"].block.hash)' => OnChain(h)
    BY <1>4, <1>7 DEF OnChain
  <2>2. NoVestingDropped' => NoVestingDropped
    BY <1>7 DEF NoVestingDropped, OnChain
  <2> QED
    BY <1>6, <1>7, <2>1, <2>2
<1> QED
  BY <1>5, <1>8, <1>9 DEF StoredTrue

LEMMA StoredStep ==
  ASSUME TruthInv, failures' \in Nat, TrackInv, StoredTrue, [Next]_vars
  PROVE  StoredTrue'
<1>1. ChainInv /\ StoreShape /\ failures \in Nat
  BY CircSupplyAssumption DEF TruthInv, CallsInv, CoverIInv
<1>2. failures' = 0 => failures = 0
  <2>1. failures' = failures \/ failures' = failures + 1
    BY DEF Next, vars, MineBlock, ReorgHead, BeginCycle, Progress, ProgressLdo,
       SaveLdo, SaveOther, EndCycle, RejectLdo, FailLdoRequest, FailOther
  <2> QED
    BY <1>1, <2>1
<1>3. CASE UNCHANGED tokensData
  <2>1. ASSUME NEW t \in OtherTokens PROVE (tokensData[t] # None => TrueData(t))'
    <3>1. tokensData[t] # None => tokensData[t].info = tokensData[t].block.hash
      BY CircSupplyAssumption DEF StoredTrue, TrueData, TrueInfo
    <3> QED
      BY <1>3, <3>1, CircSupplyAssumption DEF TrueData, TrueInfo
  <2> QED
    BY <1>1, <1>2, <1>3, <2>1, StoredKept
<1>4. ASSUME NEW r \in Runs, SaveLdo(r) PROVE StoredTrue'
  BY <1>4, StoredSaveLdo
<1>5. ASSUME NEW r \in Runs, SaveOther(r) PROVE StoredTrue'
  <2>1. PICK u \in OtherTokens : Worker!SaveTokenData(r, u, cycle[r].hash)
    BY <1>5 DEF SaveOther
  <2>2. /\ tokensData' = [tokensData EXCEPT ![u] = [block |-> cycle[r], info |-> cycle[r].hash]]
        /\ u # "ldo" /\ u \in DOMAIN tokensData
    BY <1>1, <2>1, CircSupplyAssumption DEF Worker!SaveTokenData, StoreShape, Tokens
  <2>3. tokensData'["ldo"] = tokensData["ldo"]
    BY <2>2
  <2>4. ASSUME NEW t \in OtherTokens PROVE (tokensData[t] # None => TrueData(t))'
    <3>1. t # "ldo"
      BY CircSupplyAssumption
    <3>2. tokensData[t] # None => tokensData[t].info = tokensData[t].block.hash
      BY <3>1 DEF StoredTrue, TrueData, TrueInfo
    <3>3. tokensData'[t] # None => tokensData'[t].info = tokensData'[t].block.hash
      <4>1. CASE t = u
        <5>1. tokensData'[t] = [block |-> cycle[r], info |-> cycle[r].hash]
          BY <2>2, <4>1
        <5> QED
          BY <5>1
      <4>2. CASE t # u
        <5>1. tokensData'[t] = tokensData[t]
          BY <2>2, <4>2
        <5> QED
          BY <3>2, <5>1
      <4> QED
        BY <4>1, <4>2
    <3> QED
      BY <3>1, <3>3 DEF TrueData, TrueInfo
  <2> QED
    BY <1>1, <1>2, <2>3, <2>4, StoredKept
<1>6. ASSUME NEW r \in Runs, BeginCycle(r) \/ ProgressLdo(r) \/ EndCycle(r) \/ RejectLdo(r)
                             \/ FailLdoRequest(r) \/ FailOther(r)
      PROVE  UNCHANGED tokensData
  BY <1>6 DEF BeginCycle, ProgressLdo, EndCycle, RejectLdo, FailLdoRequest, FailOther, workerVars,
     Worker!StartCycle, Worker!EndCycle, Worker!FailToken
<1>7. MineBlock \/ ReorgHead \/ UNCHANGED vars => UNCHANGED tokensData
  BY DEF MineBlock, ReorgHead, vars, workerVars
<1> QED
  BY <1>3, <1>4, <1>5, <1>6, <1>7 DEF Next, Progress

LEMMA StoredInit == Init => StoredTrue
<1> SUFFICES ASSUME Init PROVE StoredTrue
  OBVIOUS
<1>1. tokensData = [t \in Tokens |-> None]
  BY DEF Init, Worker!WorkerInit
<1> QED
  BY <1>1 DEF StoredTrue, LdoStored, Tokens

LEMMA StoredInvariance == ASSUME OneSlot PROVE Spec => []StoredTrue
<1>1. TruthInv /\ TruthInv' /\ TrackInv /\ StoredTrue /\ [Next]_vars => StoredTrue'
  <2>1. TruthInv' => failures' \in Nat
    BY CircSupplyAssumption DEF TruthInv
  <2> QED
    BY <2>1, StoredStep
<1> QED
  BY <1>1, StoredInit, TruthInvariance, TrackInvariance, PTL DEF Spec

(* As long as no call outlives its cycle, and until a request fails, what  *)
(* is stored for a block of the chain is the locked amount of that block,  *)
(* unless a reorganisation within the overlap dropped a block with a       *)
(* vesting event: reading only the members with new events again           *)
(* (ldo-events.ts:32) misses nothing else, and dropped burns do no harm.   *)
THEOREM TrueUntilFailure ==
  ASSUME OneSlot
  PROVE  Spec => [](failures = 0 => TrueUnlessVestingDropped)
<1>1. StoredTrue /\ failures = 0 => TrueUnlessVestingDropped
  <2> SUFFICES ASSUME StoredTrue, failures = 0, NoVestingDropped,
                      NEW t \in Tokens, tokensData[t] # None, OnChain(tokensData[t].block.hash)
               PROVE  TrueData(t)
    BY DEF TrueUnlessVestingDropped, SavedOnChainIsTrue
  <2> QED
    BY DEF StoredTrue, LdoStored, Tokens
<1> QED
  BY <1>1, StoredInvariance, PTL

(* The same of a behaviour without failed requests: wrong data for a block *)
(* of the chain needs a dropped vesting event (ldo-events.ts:32).          *)
THEOREM TrueUnlessDropped ==
  ASSUME OneSlot, MaxFailures = 0
  PROVE  Spec => []TrueUnlessVestingDropped
<1>1. failures \in 0 .. MaxFailures => failures = 0
  OBVIOUS
<1> QED
  BY <1>1, TrueUntilFailure, FailuresInvariance, PTL

-----------------------------------------------------------------------------
(* Without reorganisations, and with no call that outlives its cycle, the  *)
(* update side is a feed: the step of SupplyFeed behind each of its steps. *)

(* No amount is above the bound of the chain.                              *)
AmountsBounded ==
  /\ \A h \in DOMAIN blocks, m \in Members : blocks[h].nonVested[m] <= MaxAmount
  /\ \A m \in Cached : membersVestings[m] <= MaxAmount

LEMMA SuccessorsBounded ==
  ASSUME NEW b \in Block, NEW c \in Successors(b), NEW m \in Members,
         \A x \in Members : b.nonVested[x] <= MaxAmount
  PROVE  c.nonVested[m] <= MaxAmount
<1>1. b.nonVested \in [Members -> Nat] /\ MaxAmount \in Nat
  BY EthChainAssumption DEF Block
<1>2. CASE c = Empty(b)
  BY <1>2 DEF Empty, Block
<1>3. ASSUME NEW x \in Members, b.nonVested[x] < MaxAmount, c = Granted(b, x)
      PROVE  c.nonVested[m] <= MaxAmount
  <2>1. c.nonVested = [b.nonVested EXCEPT ![x] = @ + 1]
    BY <1>3 DEF Granted, Empty, Block
  <2> QED
    BY <1>1, <1>3, <2>1
<1>4. ASSUME NEW x \in Members, c = Revoked(b, x) PROVE c.nonVested[m] <= MaxAmount
  <2>1. c.nonVested = [b.nonVested EXCEPT ![x] = 0]
    BY <1>4 DEF Revoked, Empty, Block
  <2> QED
    BY <1>1, <2>1
<1>5. ASSUME NEW x \in Members, c = Burned(b, x) PROVE c.nonVested[m] <= MaxAmount
  <2>1. c.nonVested = b.nonVested
    BY <1>5 DEF Burned, Empty, Block
  <2> QED
    BY <2>1
<1>6. ASSUME NEW x \in Members, c = Received(b, x) PROVE c.nonVested[m] <= MaxAmount
  <2>1. c.nonVested = b.nonVested
    BY <1>6 DEF Received, Empty, Block
  <2> QED
    BY <2>1
<1> QED
  BY <1>2, <1>3, <1>4, <1>5, <1>6 DEF Successors

LEMMA AmountsStep ==
  ASSUME CoverIInv, AmountsBounded, [Next]_vars PROVE AmountsBounded'
<1>1. ChainInv
  BY DEF CoverIInv
<1>2. PICK L \in Nat : Cut(L)
  BY <1>1, StepCuts
<1>3. ASSUME NEW h \in DOMAIN blocks', NEW m \in Members
      PROVE  blocks'[h].nonVested[m] <= MaxAmount
  <2>1. CASE h \in DOMAIN blocks
    <3>1. blocks'[h] = blocks[h]
      BY <1>2, <2>1 DEF Cut
    <3> QED
      BY <2>1, <3>1 DEF AmountsBounded
  <2>2. CASE h \notin DOMAIN blocks
    <3>1. PICK n \in DOMAIN chain' : chain'[n] = h
      BY <1>2, <2>2 DEF Cut, OnChain
    <3>2. n \in Nat \ {0} /\ L \in 1 .. L /\ L \in DOMAIN chain
      BY <1>2 DEF Cut
    <3>3. n > L
      <4>1. ASSUME n <= L PROVE h \in DOMAIN blocks
        <5>1. n \in 1 .. L
          BY <3>2, <4>1
        <5>2. n \in DOMAIN chain /\ chain[n] = h
          BY <1>2, <3>1, <5>1 DEF Cut
        <5> QED
          BY <1>1, <5>2 DEF ChainInv, ChainTypeOK
      <4> QED
        BY <2>2, <3>2, <4>1
    <3>4. blocks'[h] \in Successors(blocks[chain[L]])
      BY <1>2, <3>1, <3>3 DEF Cut
    <3>5. chain[L] \in DOMAIN blocks /\ blocks[chain[L]] \in Block
      BY <1>1, <3>2 DEF ChainInv, ChainTypeOK
    <3>6. \A x \in Members : blocks[chain[L]].nonVested[x] <= MaxAmount
      BY <3>5 DEF AmountsBounded
    <3> QED
      BY <3>4, <3>5, <3>6, SuccessorsBounded
  <2> QED
    BY <2>1, <2>2
<1>4. \/ UNCHANGED membersVestings
      \/ \E r \in Runs : MergeVestings(r)
  BY StepCases DEF ldoVars, LdoProgress, ServeSupply, ServeMembersQuery, ServeBurnsQuery,
     CompleteMembers, CompleteBurns, StartFetches, ServeBalances, Calculate,
     LdoFailure, FailMembers, FailBurns, FailRead, BeginCycle, StartCall
<1>5. ASSUME NEW m \in Cached' PROVE membersVestings'[m] <= MaxAmount
  <2>1. CASE UNCHANGED membersVestings
    BY <1>5, <2>1 DEF AmountsBounded, Cached
  <2>2. ASSUME NEW r \in Runs, MergeVestings(r) PROVE membersVestings'[m] <= MaxAmount
    <3>1. call[r].hash \in DOMAIN blocks
      BY <2>2, HashKnown DEF MergeVestings, Running
    <3>2. m \in Members
      BY <1>5 DEF Cached
    <3>3. membersVestings'[m] = IF m \in call[r].toFetch THEN blocks[call[r].hash].nonVested[m]
                                ELSE membersVestings[m]
      BY <2>2, <3>2 DEF MergeVestings
    <3>4. m \in call[r].toFetch \/ m \in Cached
      BY <1>5, <3>2, <3>3 DEF Cached
    <3> QED
      BY <3>1, <3>2, <3>3, <3>4 DEF AmountsBounded
  <2> QED
    BY <1>4, <2>1, <2>2
<1> QED
  BY <1>3, <1>5 DEF AmountsBounded

LEMMA AmountsInit == Init => AmountsBounded
<1> SUFFICES ASSUME Init PROVE AmountsBounded
  OBVIOUS
<1>1. PICK v \in [Members -> 0 .. MaxAmount], w \in [Members -> 0 .. MaxAmount] :
        blocks = [n \in 1 .. MaxReorgDepth + 1 |->
                   [number |-> n, nonVested |-> v, balance |-> w, events |-> NoEvents]]
  BY DEF Init, ChainInit
<1>2. \A h \in DOMAIN blocks : blocks[h].nonVested = v
  BY <1>1
<1>3. \A h \in DOMAIN blocks, m \in Members : blocks[h].nonVested[m] <= MaxAmount
  BY <1>2, EthChainAssumption
<1>4. Cached = {}
  BY DEF Init, LdoInit, Cached
<1> QED
  BY <1>3, <1>4 DEF AmountsBounded

LEMMA AmountsInvariance == Spec => []AmountsBounded
<1>1. CoverIInv /\ AmountsBounded /\ [Next]_vars => AmountsBounded'
  BY AmountsStep
<1> QED
  BY <1>1, AmountsInit, CoverInvariance, PTL DEF Spec

LEMMA LockedSumBound ==
  ASSUME ChainInv, VestingsTyped, AmountsBounded, NEW r \in Runs, call[r].hash \in DOMAIN blocks
  PROVE  LockedSum(r) \in 0 .. MaxAmount * Cardinality(Members)
<1>1. blocks[call[r].hash].balance \in [Members -> Nat]
  <2>1. blocks[call[r].hash] \in Block
    BY DEF ChainInv, ChainTypeOK
  <2> QED
    BY <2>1 DEF Block
<1>2. ASSUME NEW m \in Cached PROVE MemberLocked(r, m) \in 0 .. MaxAmount
  <2>1. membersVestings[m] \in 0 .. MaxAmount /\ blocks[call[r].hash].balance[m] \in Nat
    <3>1. membersVestings[m] \in Nat /\ m \in Members
      BY <1>2 DEF Cached, VestingsTyped
    <3>2. membersVestings[m] <= MaxAmount
      BY <1>2 DEF AmountsBounded
    <3> QED
      BY <1>1, <3>1, <3>2, EthChainAssumption
  <2> QED
    BY <2>1, EthChainAssumption DEF MemberLocked
<1> DEFINE f == [m \in Cached |-> MemberLocked(r, m)]
<1>3. IsFiniteSet(Cached) /\ Cached \subseteq Members
  BY EthChainAssumption, FS_Subset DEF Cached
<1>4. SumFunctionOnSet(f, Cached) \in 0 .. MaxAmount * Cardinality(Cached)
  <2>1. \A m \in Cached : f[m] \in 0 .. MaxAmount
    BY <1>2
  <2> HIDE DEF f
  <2> QED
    BY <1>3, <2>1, EthChainAssumption, SumOnBound
<1>5. Cardinality(Cached) <= Cardinality(Members) /\ Cardinality(Cached) \in Nat
      /\ Cardinality(Members) \in Nat
  BY <1>3, EthChainAssumption, FS_Subset, FS_CardinalityType
<1>6. MaxAmount * Cardinality(Cached) <= MaxAmount * Cardinality(Members)
      /\ MaxAmount * Cardinality(Cached) \in Nat /\ MaxAmount * Cardinality(Members) \in Nat
  <2> DEFINE c == Cardinality(Cached)
             d == Cardinality(Members)
  <2>1. MaxAmount \in Nat /\ c \in Nat /\ d \in Nat /\ c <= d
    BY <1>5, EthChainAssumption
  <2> HIDE DEF c, d
  <2>2. MaxAmount * c <= MaxAmount * d /\ MaxAmount * c \in Nat /\ MaxAmount * d \in Nat
    BY <2>1
  <2> QED
    BY <2>2 DEF c, d
<1>7. LockedSum(r) = SumFunctionOnSet(f, Cached)
  BY DEF LockedSum, SumFunction
<1> QED
  BY <1>4, <1>6, <1>7

FeedInfos == 0 .. MaxMined + MaxAmount * Cardinality(Members)

FeedTruth ==
  [h \in DOMAIN blocks |->
     [number |-> blocks[h].number, info |-> [t \in Tokens |-> TrueInfo(t, h)]]]

(* What is stored is of a block of the chain, and of none newer than the   *)
(* block of the cycle.                                                     *)
CyclesHaveBlocks ==
  \A r \in Runs : cycle[r] # None =>
    cycle[r].hash \in DOMAIN blocks /\ cycle[r] = BlockInfo(cycle[r].hash)

StoredHasBlock ==
  \A t \in Tokens : tokensData[t] # None =>
    \E h \in DOMAIN blocks :
      /\ tokensData[t].block = BlockInfo(h)
      /\ \A r \in Runs : cycle[r] # None /\ blocks[h].number <= cycle[r].number

FeedInv == CyclesHaveBlocks /\ StoredHasBlock

LEMMA BlockInfoStays ==
  ASSUME ChainInv, [Next]_vars, NEW h \in DOMAIN blocks
  PROVE  h \in DOMAIN blocks' /\ blocks'[h] = blocks[h] /\ BlockInfo(h)' = BlockInfo(h)
<1>1. h \in DOMAIN blocks' /\ blocks'[h] = blocks[h]
  BY BlocksStay
<1> QED
  BY <1>1 DEF BlockInfo

LEMMA FeedSave ==
  ASSUME FeedInv, StoreShape, Worker!RequestsHaveBlocks, failures \in Nat, NEW r \in Runs, NEW t \in Tokens, OneSlot,
         ChainInv, NEW info, Worker!SaveTokenData(r, t, info), UNCHANGED <<chainVars, failures>>
  PROVE  /\ FeedInv' /\ cycle[r].hash \in DOMAIN blocks
         /\ info \in FeedInfos /\ (failures = 0 => info = TrueInfo(t, cycle[r].hash))
              => Feed!Publish(t, cycle[r].hash)
<1>1. PICK h : h = cycle[r].hash
  OBVIOUS
<1>2. /\ h \in DOMAIN blocks /\ cycle[r] = BlockInfo(h) /\ cycle[r] # None
  <2>1. cycle[r] # None
    BY DEF Worker!SaveTokenData, Worker!RequestsHaveBlocks
  <2> QED
    BY <1>1, <2>1 DEF FeedInv, CyclesHaveBlocks
<1>3. /\ tokensData' = [tokensData EXCEPT ![t] = [block |-> BlockInfo(h), info |-> info]]
      /\ cycle' = cycle /\ blocks' = blocks /\ failures' = failures
  BY <1>2 DEF Worker!SaveTokenData, chainVars
<1>4. CyclesHaveBlocks'
  BY <1>3 DEF FeedInv, CyclesHaveBlocks, BlockInfo
<1>5. cycle[r].number = blocks[h].number /\ blocks[h].number \in Nat
  BY <1>2 DEF BlockInfo, ChainInv, ChainTypeOK
<1>6. StoredHasBlock'
  <2> SUFFICES ASSUME NEW u \in Tokens, tokensData'[u] # None
               PROVE  \E g \in DOMAIN blocks :
                        /\ tokensData'[u].block = BlockInfo(g)
                        /\ \A s \in Runs : cycle[s] # None /\ blocks[g].number <= cycle[s].number
    BY <1>3 DEF StoredHasBlock, BlockInfo
  <2>1. CASE u = t
    <3>1. tokensData'[u] = [block |-> BlockInfo(h), info |-> info]
      BY <1>3, <2>1 DEF StoreShape
    <3>2. tokensData'[u].block = BlockInfo(h)
      BY <3>1
    <3>3. \A s \in Runs : cycle[s] # None /\ blocks[h].number <= cycle[s].number
      BY <1>2, <1>5 DEF OneSlot
    <3> QED
      BY <1>2, <3>2, <3>3
  <2>2. CASE u # t
    <3>1. tokensData'[u] = tokensData[u]
      BY <1>3, <2>2
    <3> QED
      BY <2>2, <3>1 DEF FeedInv, StoredHasBlock
  <2> QED
    BY <2>1, <2>2
<1>7. ASSUME info \in FeedInfos, failures = 0 => info = TrueInfo(t, h)
      PROVE  Feed!Publish(t, h)
  <2>1. FeedTruth[h].number = blocks[h].number /\ FeedTruth[h].info[t] = TrueInfo(t, h)
    BY <1>2 DEF FeedTruth
  <2>2. tokensData[t] # None => tokensData[t].block.number <= FeedTruth[h].number
    <3> SUFFICES ASSUME tokensData[t] # None
                 PROVE  tokensData[t].block.number <= blocks[h].number
      BY <2>1
    <3>1. PICK g \in DOMAIN blocks :
            /\ tokensData[t].block = BlockInfo(g)
            /\ \A s \in Runs : cycle[s] # None /\ blocks[g].number <= cycle[s].number
      BY DEF FeedInv, StoredHasBlock
    <3>2. tokensData[t].block.number = blocks[g].number
      BY <3>1 DEF BlockInfo
    <3> QED
      BY <1>5, <3>1, <3>2
  <2>3. ~ (failures > 0) => info = FeedTruth[h].info[t]
    BY <1>7, <2>1
  <2>4. tokensData' = [tokensData EXCEPT ![t] =
          [block |-> [number |-> FeedTruth[h].number, hash |-> h], info |-> info]]
    BY <1>3, <2>1 DEF BlockInfo
  <2>5. FeedTruth' = FeedTruth /\ (failures > 0)' = (failures > 0)
    BY <1>3 DEF FeedTruth, TrueInfo, LockedAt, Locked
  <2> QED
    BY <1>7, <2>2, <2>3, <2>4, <2>5 DEF Feed!Publish, FeedTruth, FeedInfos
<1> QED
  BY <1>1, <1>2, <1>4, <1>6, <1>7 DEF FeedInv

LEMMA FeedMine ==
  ASSUME ChainInv, MineBlock, [Next]_vars
  PROVE  Feed!Extend
<1>1. PICK b \in Successors(blocks[head]) :
        /\ blocks' = Append(blocks, b) /\ chain' = Append(chain, Len(blocks) + 1)
        /\ highest' = IF highest < b.number THEN b.number ELSE highest
  BY DEF MineBlock, Mine
<1>2. Len(blocks) < MaxMined /\ UNCHANGED <<tokensData, failures>>
  BY DEF MineBlock, Mine, workerVars
<1>3. /\ blocks \in Seq(Block) /\ Len(blocks) \in Nat /\ DOMAIN blocks = 1 .. Len(blocks)
      /\ blocks' \in Seq(Block) /\ Len(blocks') = Len(blocks) + 1
  BY <1>1, <1>2, MineEffect DEF ChainInv, ChainTypeOK
<1>4. DOMAIN blocks' = 1 .. Len(blocks) + 1
  BY <1>3
<1>5. PICK n \in Nat : n = Len(blocks)
  BY <1>3
<1>6. ASSUME NEW h \in 1 .. n PROVE FeedTruth'[h] = FeedTruth[h]
  <2>1. blocks'[h] = blocks[h] /\ h \in DOMAIN blocks /\ h \in DOMAIN blocks'
    BY <1>3, <1>4, <1>5, <1>6, BlocksStay
  <2>2. LockedAt(h)' = LockedAt(h)
    BY <2>1 DEF LockedAt, Locked
  <2>3. /\ FeedTruth[h] = [number |-> blocks[h].number, info |-> [t \in Tokens |-> TrueInfo(t, h)]]
        /\ FeedTruth'[h] = [number |-> blocks'[h].number,
                            info |-> [t \in Tokens |-> TrueInfo(t, h)']]
    BY <2>1 DEF FeedTruth
  <2>4. [t \in Tokens |-> TrueInfo(t, h)'] = [t \in Tokens |-> TrueInfo(t, h)]
    BY <2>2 DEF TrueInfo
  <2> QED
    BY <2>1, <2>3, <2>4
<1>7. /\ FeedTruth \in Seq({FeedTruth[h] : h \in 1 .. n}) /\ Len(FeedTruth) = n
      /\ FeedTruth' \in Seq({FeedTruth'[h] : h \in 1 .. n + 1}) /\ Len(FeedTruth') = n + 1
  BY <1>3, <1>4, <1>5 DEF FeedTruth
<1>8. SubSeq(FeedTruth', 1, n) = FeedTruth
  <2>1. DOMAIN FeedTruth = 1 .. n /\ FeedTruth = [h \in 1 .. n |-> FeedTruth[h]]
    BY <1>3, <1>5 DEF FeedTruth
  <2>2. SubSeq(FeedTruth', 1, n) = [h \in 1 .. n |-> FeedTruth'[h]]
    BY <1>7
  <2> QED
    BY <1>6, <2>1, <2>2
<1>9. (failures > 0)' = (failures > 0) /\ tokensData' = tokensData
  BY <1>2
<1> QED
  BY <1>5, <1>7, <1>8, <1>9 DEF Feed!Extend, FeedTruth

(* Without reorganisations a cycle takes the highest block there is.       *)
LEMMA FeedBegin ==
  ASSUME FeedInv, ChainInv, [Next]_vars, MaxReorgDepth = 0, OneSlot, DOMAIN cycle = Runs,
         NEW r \in Runs, BeginCycle(r)
  PROVE  FeedInv'
<1>1. /\ cycle' = [cycle EXCEPT ![r] = BlockInfo(head)]
      /\ tokensData' = tokensData /\ blocks' = blocks /\ chain' = chain
  BY DEF BeginCycle, Worker!StartCycle, chainVars
<1>2. PICK h : h = head
  OBVIOUS
<1>3. /\ h \in DOMAIN blocks /\ blocks[h].number = Len(chain)
      /\ Len(chain) \in Nat /\ highest \in Nat /\ highest <= Len(chain)
      /\ \A g \in DOMAIN blocks : blocks[g].number \in Nat /\ blocks[g].number <= highest
  BY <1>2, EthChainAssumption DEF head, ChainInv, ChainTypeOK
<1>4. \A s \in Runs : cycle'[s] = BlockInfo(h)
  BY <1>1, <1>2 DEF OneSlot
<1>5. BlockInfo(h) # None /\ BlockInfo(h).hash = h /\ BlockInfo(h).number = blocks[h].number
  <2>1. BlockInfo(h) \in [number : Nat, hash : 1 .. MaxMined]
    BY <1>3, EthChainAssumption DEF BlockInfo, ChainInv, ChainTypeOK
  <2> QED
    BY <2>1, CircSupplyAssumption DEF BlockInfo
<1>6. CyclesHaveBlocks'
  <2>1. ASSUME NEW s \in Runs
        PROVE  (cycle[s].hash \in DOMAIN blocks)' /\ cycle'[s] = BlockInfo(cycle[s].hash)'
    <3>1. cycle'[s].hash = h
      BY <1>4, <1>5
    <3>2. BlockInfo(cycle[s].hash)' = BlockInfo(h)
      BY <1>1, <3>1 DEF BlockInfo
    <3> QED
      BY <1>1, <1>3, <1>4, <3>1, <3>2
  <2> QED
    BY <2>1 DEF CyclesHaveBlocks
<1>7. StoredHasBlock'
  <2> SUFFICES ASSUME NEW t \in Tokens, tokensData'[t] # None
               PROVE  \E g \in DOMAIN blocks' :
                        /\ tokensData'[t].block = BlockInfo(g)'
                        /\ \A s \in Runs : cycle'[s] # None /\ blocks'[g].number <= cycle'[s].number
    BY DEF StoredHasBlock
  <2>1. PICK g \in DOMAIN blocks : tokensData[t].block = BlockInfo(g)
    BY <1>1 DEF FeedInv, StoredHasBlock
  <2>2. blocks[g].number <= blocks[h].number
    BY <1>3
  <2>3. BlockInfo(g)' = BlockInfo(g)
    BY <1>1 DEF BlockInfo
  <2> QED
    BY <1>1, <1>4, <1>5, <2>1, <2>2, <2>3
<1> QED
  BY <1>6, <1>7 DEF FeedInv

LEMMA FeedKept ==
  ASSUME FeedInv, ChainInv, [Next]_vars, UNCHANGED <<tokensData, cycle>>
  PROVE  FeedInv'
<1>1. CyclesHaveBlocks'
  <2> SUFFICES ASSUME NEW r \in Runs, cycle[r] # None
               PROVE  cycle[r].hash \in DOMAIN blocks' /\ cycle[r] = BlockInfo(cycle[r].hash)'
    BY DEF CyclesHaveBlocks
  <2>1. PICK h : h = cycle[r].hash
    OBVIOUS
  <2>2. h \in DOMAIN blocks /\ cycle[r] = BlockInfo(h)
    BY <2>1 DEF FeedInv, CyclesHaveBlocks
  <2>3. h \in DOMAIN blocks' /\ BlockInfo(h)' = BlockInfo(h)
    BY <2>2, BlockInfoStays
  <2>4. BlockInfo(cycle[r].hash)' = BlockInfo(h)'
    BY <2>1 DEF BlockInfo
  <2> QED
    BY <2>1, <2>2, <2>3, <2>4
<1>2. StoredHasBlock'
  <2> SUFFICES ASSUME NEW t \in Tokens, tokensData[t] # None
               PROVE  \E g \in DOMAIN blocks' :
                        /\ tokensData[t].block = BlockInfo(g)'
                        /\ \A s \in Runs : cycle[s] # None /\ blocks'[g].number <= cycle[s].number
    BY DEF StoredHasBlock
  <2>1. PICK g \in DOMAIN blocks :
          /\ tokensData[t].block = BlockInfo(g)
          /\ \A s \in Runs : cycle[s] # None /\ blocks[g].number <= cycle[s].number
    BY DEF FeedInv, StoredHasBlock
  <2>2. g \in DOMAIN blocks' /\ blocks'[g] = blocks[g] /\ BlockInfo(g)' = BlockInfo(g)
    BY BlockInfoStays
  <2> QED
    BY <2>1, <2>2
<1> QED
  BY <1>1, <1>2 DEF FeedInv

LEMMA FeedStart ==
  ASSUME Init, MaxReorgDepth = 0
  PROVE  FeedInv /\ Feed!FeedInit
<1>1. cycle = [r \in Runs |-> None] /\ tokensData = [t \in Tokens |-> None] /\ failures = 0
  BY DEF Init, Worker!WorkerInit
<1>2. FeedInv
  BY <1>1 DEF FeedInv, CyclesHaveBlocks, StoredHasBlock
<1>3. DOMAIN blocks = 1 .. 1
  BY DEF Init, ChainInit
<1>4. Len(FeedTruth) = 1
  BY <1>3 DEF FeedTruth
<1>5. (failures > 0) = FALSE
  BY <1>1
<1> QED
  BY <1>1, <1>2, <1>4, <1>5 DEF Feed!FeedInit, FeedTruth

LEMMA FeedQuiet ==
  ASSUME UNCHANGED <<blocks, tokensData>>
  PROVE  /\ UNCHANGED failures => UNCHANGED Feed!feedVars
         /\ failures \in Nat /\ failures' = failures + 1 => Feed!Disturb
<1>1. FeedTruth' = FeedTruth
  BY DEF FeedTruth, TrueInfo, LockedAt, Locked
<1>2. ASSUME UNCHANGED failures PROVE UNCHANGED Feed!feedVars
  <2>1. (failures > 0)' = (failures > 0)
    BY <1>2
  <2> QED
    BY <1>1, <2>1 DEF Feed!feedVars, FeedTruth
<1>3. ASSUME failures \in Nat, failures' = failures + 1 PROVE Feed!Disturb
  <2>1. (failures > 0)' = TRUE
    BY <1>3
  <2> QED
    BY <1>1, <2>1 DEF Feed!Disturb, FeedTruth
<1> QED
  BY <1>2, <1>3

LEMMA FeedSaveLdo ==
  ASSUME TruthInv, TruthInv', TrackInv, StoredTrue', AmountsBounded, FeedInv,
         Worker!RequestsHaveBlocks, OneSlot, MaxReorgDepth = 0, NEW r \in Runs, SaveLdo(r)
  PROVE  FeedInv' /\ \E h \in DOMAIN blocks : Feed!Publish("ldo", h)
<1>1. /\ ChainInv /\ VestingsTyped /\ CallTyped /\ StoreShape /\ failures \in Nat /\ CallBooks(r)
      /\ AllOnChain'
  BY CircSupplyAssumption DEF TruthInv, CallsInv, CoverIInv, LdoTypes, TrackInv, BalInv
<1>2. /\ Resolved(r) /\ Worker!SaveTokenData(r, "ldo", call[r].locked)
      /\ tokensData'["ldo"] = [block |-> cycle[r], info |-> call[r].locked]
      /\ UNCHANGED <<chainVars, failures>>
  BY <1>1, SavedRecord DEF SaveLdo
<1>3. PICK h : h = call[r].hash
  OBVIOUS
<1>4. h # None /\ cycle[r] = BlockInfo(h) /\ h \in DOMAIN blocks
  BY <1>1, <1>2, <1>3, HashInBlocks DEF CallHash, CallBooks, Resolved
<1>5. call[r].locked = LockedSum(r)
  <2>1. OnChain(h)' /\ blocks' = blocks /\ chain' = chain
    BY <1>1, <1>2, <1>4 DEF AllOnChain, chainVars
  <2>2. OnChain(call[r].hash)
    BY <1>3, <2>1 DEF OnChain
  <2> QED
    BY <1>2, <2>2, ResolvedTracks
<1>6. PICK x : x = call[r].locked
  OBVIOUS
<1>7. x \in 0 .. MaxAmount * Cardinality(Members)
  BY <1>1, <1>3, <1>4, <1>5, <1>6, LockedSumBound
<1>8. Cardinality(Members) \in Nat
  BY EthChainAssumption, FS_CardinalityType
<1>9. x \in FeedInfos /\ x \in Nat
  <2>1. PICK b : b = MaxAmount * Cardinality(Members)
    OBVIOUS
  <2>2. b \in Nat
    <3> DEFINE c == Cardinality(Members)
    <3>1. c \in Nat /\ MaxAmount \in Nat /\ b = MaxAmount * c
      BY <1>8, <2>1, EthChainAssumption
    <3> HIDE DEF c
    <3> QED
      BY <3>1
  <2>3. x \in 0 .. b
    BY <1>7, <2>1
  <2>4. x \in 0 .. MaxMined + b
    BY <2>2, <2>3, EthChainAssumption
  <2> QED
    BY <2>1, <2>3, <2>4 DEF FeedInfos
<1>10. ASSUME failures = 0 PROVE x = TrueInfo("ldo", h)
  <2>1. tokensData'["ldo"] # None
    <3>1. BlockInfo(h) \in [number : Nat, hash : 1 .. MaxMined]
      BY <1>1, <1>4, EthChainAssumption DEF BlockInfo, ChainInv, ChainTypeOK
    <3>2. [block |-> cycle[r], info |-> call[r].locked]
            \in [block : [number : Nat, hash : 1 .. MaxMined], info : Nat]
      BY <1>4, <1>6, <1>9, <3>1
    <3> QED
      BY <1>2, <3>2, CircSupplyAssumption
  <2>2. tokensData'["ldo"].block.hash = h /\ tokensData'["ldo"].info = x
    BY <1>2, <1>4, <1>6 DEF BlockInfo
  <2>3. \A g \in DOMAIN blocks' : OnChain(g)'
    BY <1>1 DEF AllOnChain
  <2>4. NoVestingDropped'
    BY <2>3 DEF NoVestingDropped
  <2>5. h \in DOMAIN blocks'
    BY <1>2, <1>4 DEF chainVars
  <2>6. OnChain(tokensData["ldo"].block.hash)'
    BY <2>2, <2>3, <2>5 DEF OnChain
  <2>7. TrueData("ldo")'
    BY <1>2, <1>10, <2>1, <2>4, <2>6 DEF StoredTrue, LdoStored
  <2>8. LockedAt(h)' = LockedAt(h)
    BY <1>2 DEF LockedAt, Locked, chainVars
  <2> QED
    BY <2>2, <2>7, <2>8 DEF TrueData, TrueInfo
<1>11. cycle[r].hash = h /\ "ldo" \in Tokens
  BY <1>4 DEF BlockInfo, Tokens
<1> QED
  BY <1>1, <1>2, <1>4, <1>6, <1>9, <1>10, <1>11, FeedSave

LEMMA FeedSaveOther ==
  ASSUME TruthInv, FeedInv, Worker!RequestsHaveBlocks, OneSlot, NEW r \in Runs, SaveOther(r)
  PROVE  FeedInv' /\ \E t \in Tokens, h \in DOMAIN blocks : Feed!Publish(t, h)
<1>1. ChainInv /\ StoreShape /\ failures \in Nat
  BY CircSupplyAssumption DEF TruthInv, CallsInv, CoverIInv
<1>2. PICK t \in OtherTokens : Worker!SaveTokenData(r, t, cycle[r].hash)
  BY DEF SaveOther
<1>3. t \in Tokens /\ t # "ldo" /\ UNCHANGED <<chainVars, failures>>
  BY CircSupplyAssumption DEF Tokens, SaveOther
<1>4. PICK h : h = cycle[r].hash
  OBVIOUS
<1>5. /\ FeedInv' /\ h \in DOMAIN blocks
      /\ h \in FeedInfos /\ (failures = 0 => h = TrueInfo(t, h)) => Feed!Publish(t, h)
  BY <1>1, <1>2, <1>3, <1>4, FeedSave
<1>6. h \in FeedInfos
  <2>1. PICK b : b = MaxAmount * Cardinality(Members)
    OBVIOUS
  <2>2. b \in Nat
    <3> DEFINE c == Cardinality(Members)
    <3>1. c \in Nat /\ MaxAmount \in Nat /\ b = MaxAmount * c
      BY <2>1, EthChainAssumption, FS_CardinalityType
    <3> HIDE DEF c
    <3> QED
      BY <3>1
  <2>3. h \in 1 .. MaxMined
    BY <1>1, <1>5, EthChainAssumption DEF ChainInv, ChainTypeOK
  <2>4. h \in 0 .. MaxMined + b
    BY <2>2, <2>3, EthChainAssumption
  <2> QED
    BY <2>1, <2>4 DEF FeedInfos
<1>7. h = TrueInfo(t, h)
  BY <1>3 DEF TrueInfo
<1> QED
  BY <1>3, <1>5, <1>6, <1>7

LEMMA FeedStep ==
  ASSUME TruthInv, TruthInv', TrackInv, StoredTrue', AmountsBounded, FeedInv,
         Worker!RequestsHaveBlocks, OneSlot, MaxReorgDepth = 0, [Next]_vars
  PROVE  FeedInv' /\ [Feed!FeedNext]_(Feed!feedVars)
<1>1. ChainInv /\ StoreShape /\ failures \in Nat
  BY CircSupplyAssumption DEF TruthInv, CallsInv, CoverIInv
<1>2. CASE MineBlock
  <2>1. UNCHANGED <<tokensData, cycle>>
    BY <1>2 DEF MineBlock, workerVars
  <2>2. Feed!Extend
    BY <1>1, <1>2, FeedMine
  <2> QED
    BY <1>1, <2>1, <2>2, FeedKept DEF Feed!FeedNext
<1>3. CASE ReorgHead
  <2>1. PICK n \in 1 .. MaxMined : Reorg(n)
    BY <1>3 DEF ReorgHead
  <2>2. n < Len(chain) /\ highest <= n /\ Len(chain) <= highest
    BY <1>1, <2>1 DEF Reorg, ChainInv, ChainTypeOK
  <2>3. FALSE
    BY <1>1, <2>1, <2>2, EthChainAssumption DEF ChainInv, ChainTypeOK
  <2> QED
    BY <2>3
<1>4. ASSUME UNCHANGED <<blocks, tokensData, cycle, failures>>
      PROVE  FeedInv' /\ [Feed!FeedNext]_(Feed!feedVars)
  <2>1. FeedInv'
    BY <1>1, <1>4, FeedKept
  <2>2. UNCHANGED Feed!feedVars
    BY <1>4, FeedQuiet
  <2> QED
    BY <2>1, <2>2
<1>5. ASSUME NEW r \in Runs, BeginCycle(r)
      PROVE  FeedInv' /\ [Feed!FeedNext]_(Feed!feedVars)
  <2>1. UNCHANGED <<blocks, tokensData, failures>>
    BY <1>5 DEF BeginCycle, Worker!StartCycle, chainVars
  <2>2. FeedInv'
    BY <1>1, <1>5, FeedBegin DEF StoreShape
  <2>3. UNCHANGED Feed!feedVars
    BY <2>1, FeedQuiet
  <2> QED
    BY <2>2, <2>3
<1>6. ASSUME NEW r \in Runs, SaveLdo(r)
      PROVE  FeedInv' /\ [Feed!FeedNext]_(Feed!feedVars)
  <2>1. FeedInv' /\ \E h \in DOMAIN blocks : Feed!Publish("ldo", h)
    BY <1>6, FeedSaveLdo
  <2>2. DOMAIN FeedTruth = DOMAIN blocks /\ "ldo" \in Tokens
    BY DEF FeedTruth, Tokens
  <2> QED
    BY <2>1, <2>2 DEF Feed!FeedNext, FeedTruth
<1>7. ASSUME NEW r \in Runs, SaveOther(r)
      PROVE  FeedInv' /\ [Feed!FeedNext]_(Feed!feedVars)
  <2>1. FeedInv' /\ \E t \in Tokens, h \in DOMAIN blocks : Feed!Publish(t, h)
    BY <1>7, FeedSaveOther
  <2>2. DOMAIN FeedTruth = DOMAIN blocks
    BY DEF FeedTruth
  <2> QED
    BY <2>1, <2>2 DEF Feed!FeedNext, FeedTruth
<1>8. ASSUME NEW r \in Runs, FailLdoRequest(r) \/ FailOther(r)
      PROVE  FeedInv' /\ [Feed!FeedNext]_(Feed!feedVars)
  <2>1. UNCHANGED <<blocks, tokensData, cycle>> /\ failures' = failures + 1
    BY <1>8 DEF FailLdoRequest, FailOther, Worker!FailToken, workerVars, chainVars
  <2>2. Feed!Disturb
    BY <1>1, <2>1, FeedQuiet
  <2> QED
    BY <1>1, <2>1, <2>2, FeedKept DEF Feed!FeedNext
<1>9. ASSUME NEW r \in Runs, ProgressLdo(r) \/ EndCycle(r) \/ RejectLdo(r)
      PROVE  UNCHANGED <<blocks, tokensData, cycle, failures>>
  BY <1>9 DEF ProgressLdo, EndCycle, RejectLdo, Worker!EndCycle, Worker!FailToken,
     workerVars, chainVars
<1>10. UNCHANGED vars => UNCHANGED <<blocks, tokensData, cycle, failures>>
  BY DEF vars, workerVars, chainVars
<1> QED
  BY <1>2, <1>3, <1>4, <1>5, <1>6, <1>7, <1>8, <1>9, <1>10 DEF Next, Progress

LEMMA FeedInvariance ==
  ASSUME OneSlot, MaxReorgDepth = 0
  PROVE  Spec => [](FeedInv /\ Worker!RequestsHaveBlocks)
<1>1. WorkerProofs!WorkerInv => Worker!RequestsHaveBlocks
  BY WorkerTranslates
<1>2. TruthInv /\ TruthInv' /\ TrackInv /\ StoredTrue' /\ AmountsBounded /\ FeedInv
      /\ Worker!RequestsHaveBlocks /\ [Next]_vars => FeedInv'
  BY FeedStep
<1>3. Init => FeedInv
  BY FeedStart
<1> QED
  BY <1>1, <1>2, <1>3, TruthInvariance, TrackInvariance, StoredInvariance, AmountsInvariance,
     WorkerInvariant, PTL DEF Spec

(* Without reorganisations, and with no call that outlives its cycle, the  *)
(* update side does what SupplyFeed promises, but for how soon: for every  *)
(* token it stores data of a block of the chain, never of an older one     *)
(* than before, and until a request fails what it stores is the truth of   *)
(* that block ("Collecting data by blockHash ensures that all data is from *)
(* the same block", ldo.service.ts:23).                                    *)
THEOREM FeedIsSafe ==
  ASSUME OneSlot, MaxReorgDepth = 0
  PROVE  Spec => Feed!FeedInit /\ [][Feed!FeedNext]_(Feed!feedVars)
<1>1. Init => Feed!FeedInit
  BY FeedStart
<1>2. TruthInv /\ TruthInv' /\ TrackInv /\ StoredTrue' /\ AmountsBounded /\ FeedInv
      /\ Worker!RequestsHaveBlocks /\ [Next]_vars => [Feed!FeedNext]_(Feed!feedVars)
  BY FeedStep
<1> QED
  BY <1>1, <1>2, TruthInvariance, TrackInvariance, StoredInvariance, AmountsInvariance,
     FeedInvariance, PTL DEF Spec

LEMMA FeedNeverOlder ==
  ASSUME StoreShape, StoreBlocks, [Feed!FeedNext]_(Feed!feedVars), NEW t \in Tokens,
         tokensData[t] # None
  PROVE  tokensData[t].block.number <= tokensData'[t].block.number
<1>1. CASE UNCHANGED tokensData
  BY <1>1 DEF StoreBlocks
<1>2. ASSUME NEW u \in Tokens, NEW h \in DOMAIN FeedTruth, Feed!Publish(u, h)
      PROVE  tokensData[t].block.number <= tokensData'[t].block.number
  <2>1. tokensData[u] # None => tokensData[u].block.number <= FeedTruth[h].number
    BY <1>2 DEF Feed!Publish, FeedTruth
  <2>2. PICK info : tokensData' = [tokensData EXCEPT ![u] =
          [block |-> [number |-> FeedTruth[h].number, hash |-> h], info |-> info]]
    BY <1>2 DEF Feed!Publish, FeedTruth
  <2>3. CASE u = t
    <3>1. tokensData'[t] = [block |-> [number |-> FeedTruth[h].number, hash |-> h], info |-> info]
      BY <2>2, <2>3 DEF StoreShape
    <3> QED
      BY <2>1, <2>3, <3>1
  <2>4. CASE u # t
    <3>1. tokensData'[t] = tokensData[t]
      BY <2>2, <2>4
    <3> QED
      BY <3>1 DEF StoreBlocks
  <2> QED
    BY <2>3, <2>4
<1>3. Feed!Extend \/ Feed!Disturb \/ UNCHANGED Feed!feedVars => UNCHANGED tokensData
  BY DEF Feed!Extend, Feed!Disturb, Feed!feedVars
<1> QED
  BY <1>1, <1>2, <1>3 DEF Feed!FeedNext, FeedTruth

(* The block of the data served of a token never gets older ("Checks if    *)
(* the block is newer than the cached one", worker.service.ts:74), when    *)
(* nothing outlives its cycle and the chain is not reorganised, also when  *)
(* requests fail: what breaks the promise is a request that is left over.  *)
THEOREM NeverOlderWithoutStrays ==
  ASSUME OneSlot, MaxReorgDepth = 0
  PROVE  Spec => ServedNeverOlder
<1>1. TruthInv /\ StoreBlocks /\ [Feed!FeedNext]_(Feed!feedVars) =>
        \A t \in Tokens : tokensData[t] # None =>
          tokensData[t].block.number <= tokensData'[t].block.number
  BY FeedNeverOlder DEF TruthInv
<1>2. TruthInv /\ StoreBlocks /\ [Feed!FeedNext]_(Feed!feedVars) =>
        [\A t \in Tokens : tokensData[t] # None =>
           tokensData[t].block.number <= tokensData'[t].block.number]_vars
  BY <1>1
<1> QED
  BY <1>2, FeedIsSafe, TruthInvariance, StoreBlocksInvariance, PTL DEF ServedNeverOlder

(* Until a request fails, the supply served is true of the block it is     *)
(* served with ("Collecting data by blockHash ensures that all data is     *)
(* from the same block", ldo.service.ts:23), when nothing outlives its     *)
(* cycle and the chain is not reorganised.                                 *)
THEOREM TrueUndisturbed ==
  ASSUME OneSlot, MaxReorgDepth = 0
  PROVE  Spec => [](failures = 0 => SavedSupplyIsTrue)
<1>1. ASSUME TruthInv, StoredTrue, failures = 0 PROVE SavedSupplyIsTrue
  <2>1. \A h \in DOMAIN blocks : OnChain(h)
    BY <1>1 DEF TruthInv, BalInv, AllOnChain
  <2>2. NoVestingDropped
    BY <2>1 DEF NoVestingDropped
  <2>3. ASSUME NEW t \in Tokens, tokensData[t] # None PROVE TrueData(t)
    BY <1>1, <2>1, <2>2, <2>3 DEF StoredTrue, LdoStored, Tokens
  <2> QED
    BY <2>3 DEF SavedSupplyIsTrue
<1> QED
  BY <1>1, TruthInvariance, StoredInvariance, PTL
=============================================================================
