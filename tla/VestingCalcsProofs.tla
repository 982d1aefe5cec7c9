------------------------- MODULE VestingCalcsProofs -------------------------
(***************************************************************************)
(* Proofs about the calculation: for one vesting, every vesting the        *)
(* contract can hold and every pair of times; then for the sums over the   *)
(* vestings of a member and over all members, however many there are.      *)
(***************************************************************************)
EXTENDS VestingCalcs, SumTheorems

-----------------------------------------------------------------------------
(* The two nonlinear facts the proofs need.                                *)

(* Division rounds down.                                                   *)
LEMMA DivisionBounds ==
  ASSUME NEW d \in Nat, NEW s \in Nat \ {0}
  PROVE  /\ d \div s \in Nat
         /\ (d \div s) * s <= d
         /\ d < (d \div s) * s + s
BY SMT

(* A larger dividend has no smaller quotient.                              *)
LEMMA DivisionMonotone ==
  ASSUME NEW d \in Nat, NEW e \in Nat, NEW s \in Nat \ {0}, d <= e
  PROVE  d \div s <= e \div s
BY SMT

(* A product grows with its second factor.                                 *)
LEMMA ProductMonotone ==
  ASSUME NEW a \in Nat, NEW x \in Nat, NEW y \in Nat, x <= y
  PROVE  a * x \in Nat /\ a * y \in Nat /\ a * x <= a * y
BY SMT

(* The vested part of a vesting that runs.                                 *)
LEMMA VestedPart ==
  ASSUME NEW v, IsVesting(v), NEW t \in Nat, v.cliff <= t, t < v.vesting
  PROVE  LET vested == (v.amount * (t - v.start)) \div (v.vesting - v.start)
         IN  /\ CalculateOneVesting(v, t) = v.amount - vested
             /\ vested \in 0 .. v.amount
<1> DEFINE d == v.amount * (t - v.start)
           s == v.vesting - v.start
           vested == d \div s
<1>1. /\ v.amount \in Nat
      /\ t - v.start \in Nat /\ s \in Nat \ {0} /\ t - v.start <= s
      /\ ~ t >= v.vesting /\ ~ t < v.cliff
  BY DEF IsVesting
<1>2. CalculateOneVesting(v, t) = v.amount - vested
  BY <1>1 DEF CalculateOneVesting
<1>3. d \in Nat /\ d <= v.amount * s
  <2> HIDE DEF s
  <2> QED BY <1>1, ProductMonotone
<1>4. vested \in Nat /\ vested * s <= d
  <2> HIDE DEF s, d
  <2> QED BY <1>1, <1>3, DivisionBounds
<1>5. vested <= v.amount
  <2> HIDE DEF s, d, vested
  <2>1. vested * s <= v.amount * s
    BY <1>1, <1>3, <1>4
  <2> QED BY <2>1, <1>1, <1>4
<1> QED
  BY <1>2, <1>4, <1>5

(* What is not vested of a vesting is between nothing and all of it, at    *)
(* every time: BigNumber.sub never goes below 0, and the division is never *)
(* reached with a vesting of no duration.                                  *)
THEOREM OneVestingBounds ==
  ASSUME NEW v, IsVesting(v), NEW t \in Nat
  PROVE  CalculateOneVesting(v, t) \in 0 .. v.amount
<1>1. CASE t >= v.vesting
  BY <1>1 DEF CalculateOneVesting, IsVesting
<1>2. CASE t < v.vesting /\ t < v.cliff
  BY <1>2 DEF CalculateOneVesting, IsVesting
<1>3. CASE t < v.vesting /\ ~ t < v.cliff
  <2>1. v.cliff <= t
    BY <1>3 DEF IsVesting
  <2> DEFINE vested == (v.amount * (t - v.start)) \div (v.vesting - v.start)
  <2>2. /\ CalculateOneVesting(v, t) = v.amount - vested
        /\ vested \in 0 .. v.amount
    BY <1>3, <2>1, VestedPart
  <2> HIDE DEF vested
  <2> QED
    BY <2>2 DEF IsVesting
<1> QED
  BY <1>1, <1>2, <1>3 DEF IsVesting

(* Tokens of a vesting are never locked again: at a later block no more of *)
(* it is locked than at an earlier one, across the cliff and the end too.  *)
THEOREM OneVestingNeverIncreases ==
  ASSUME NEW v, IsVesting(v), NEW t \in Nat, NEW u \in Nat, t <= u
  PROVE  CalculateOneVesting(v, u) <= CalculateOneVesting(v, t)
<1>1. /\ CalculateOneVesting(v, t) \in 0 .. v.amount
      /\ CalculateOneVesting(v, u) \in 0 .. v.amount
      /\ v.amount \in Nat /\ v.cliff \in Nat /\ v.vesting \in Nat /\ v.start \in Nat
      /\ v.start <= v.cliff
  BY OneVestingBounds DEF IsVesting
<1>2. CASE u >= v.vesting
  <2>1. CalculateOneVesting(v, u) = 0
    BY <1>2 DEF CalculateOneVesting
  <2> QED BY <2>1, <1>1
<1>3. CASE u < v.vesting /\ t < v.cliff
  <2>1. CalculateOneVesting(v, t) = v.amount
    BY <1>1, <1>3 DEF CalculateOneVesting
  <2> QED BY <2>1, <1>1
<1>4. CASE u < v.vesting /\ ~ t < v.cliff
  <2> DEFINE s == v.vesting - v.start
             d == v.amount * (t - v.start)
             e == v.amount * (u - v.start)
  <2>1. /\ v.cliff <= t /\ t < v.vesting /\ v.cliff <= u
        /\ s \in Nat \ {0} /\ t - v.start \in Nat /\ u - v.start \in Nat
        /\ t - v.start <= u - v.start
    BY <1>1, <1>4
  <2>2. d \in Nat /\ e \in Nat /\ d <= e
    BY <1>1, <2>1, ProductMonotone
  <2>3. /\ d \div s \in Nat /\ e \div s \in Nat
        /\ d \div s <= e \div s
    <3> HIDE DEF s, d, e
    <3> QED BY <2>1, <2>2, DivisionMonotone, DivisionBounds
  <2>4. /\ CalculateOneVesting(v, t) = v.amount - d \div s
        /\ CalculateOneVesting(v, u) = v.amount - e \div s
    BY <1>4, <2>1, VestedPart
  <2> HIDE DEF s, d, e
  <2> QED
    BY <1>1, <2>3, <2>4
<1> QED
  BY <1>1, <1>2, <1>3, <1>4

(* The smaller of both amounts is taken.                                   *)
LEMMA BurnedTokensCap ==
  ASSUME NEW nonVested \in Nat, NEW balance \in Nat
  PROVE  /\ SubtractBurnedTokens(nonVested, balance) \in {nonVested, balance}
         /\ SubtractBurnedTokens(nonVested, balance) \in Nat
         /\ SubtractBurnedTokens(nonVested, balance) <= nonVested
         /\ SubtractBurnedTokens(nonVested, balance) <= balance
BY DEF SubtractBurnedTokens
-----------------------------------------------------------------------------
(* A product distributes over a difference.                                *)
LEMMA ProductDifference ==
  ASSUME NEW a \in Int, NEW x \in Int, NEW y \in Int
  PROVE  /\ a * (x - y) = a * x - a * y
         /\ (x - y) * a = x * a - y * a
BY SMT

(* Rounding goes one way: what is locked of a vesting that runs is its     *)
(* linear share, rounded up.                                               *)
LEMMA OneVestingIsLinear ==
  ASSUME NEW v, IsVesting(v), NEW t \in Nat, v.cliff <= t, t < v.vesting
  PROVE  LET locked == CalculateOneVesting(v, t)
             span == v.vesting - v.start
             share == v.amount * (v.vesting - t)
         IN  share <= locked * span /\ locked * span < share + span
<1> DEFINE a == v.amount
           span == v.vesting - v.start
           x == t - v.start
           d == a * x
           vested == d \div span
           locked == CalculateOneVesting(v, t)
<1>1. /\ a \in Nat /\ x \in Nat /\ span \in Nat \ {0}
      /\ v.vesting - t = span - x
  BY DEF IsVesting
<1>2. locked = a - vested
  BY VestedPart
<1>3. d \in Nat
  <2> HIDE DEF a, x
  <2> QED BY <1>1, ProductMonotone
<1>4. vested \in Nat /\ vested * span <= d /\ d < vested * span + span
  <2> HIDE DEF d, span
  <2> QED BY <1>1, <1>3, DivisionBounds
<1>5. locked * span = a * span - vested * span
  <2> HIDE DEF a, span, vested, locked
  <2> QED BY <1>1, <1>2, <1>4, ProductDifference
<1>6. a * (v.vesting - t) = a * span - d
  <2>1. a * (span - x) = a * span - a * x
    <3> HIDE DEF a, span, x
    <3> QED BY <1>1, ProductDifference
  <2> QED BY <2>1, <1>1
<1> DEFINE p == a * span
           q == vested * span
<1>7. p \in Int /\ q \in Int
  <2> HIDE DEF a, span, vested
  <2> QED BY <1>1, <1>4
<1>8. /\ a * (v.vesting - t) = p - d
      /\ locked * span = p - q
      /\ q <= d /\ d < q + span
  BY <1>4, <1>5, <1>6
<1> HIDE DEF p, q, d
<1>9. p - d <= p - q /\ p - q < p - d + span
  <2> HIDE DEF span
  <2> QED BY <1>1, <1>3, <1>7, <1>8
<1> QED
  BY <1>8, <1>9

-----------------------------------------------------------------------------
(* What the inputs are at every time.                                      *)
InputInv ==
  /\ \A m \in Members :
       /\ IsFiniteSet(DOMAIN vestings[m])
       /\ \A i \in DOMAIN vestings[m] : IsVesting(vestings[m][i])
       /\ balances[m] \in Nat
  /\ timestamp \in Nat

LEMMA InputsTyped == Spec => []InputInv
<1>1. Init => InputInv
  <2> SUFFICES ASSUME Init PROVE InputInv
    OBVIOUS
  <2>1. ASSUME NEW m \in Members
        PROVE  /\ IsFiniteSet(DOMAIN vestings[m])
               /\ \A i \in DOMAIN vestings[m] : IsVesting(vestings[m][i])
    <3>1. PICK n \in 0 .. MaxVestings : vestings[m] \in [1 .. n -> Vestings]
      BY DEF Init
    <3>2. DOMAIN vestings[m] = 1 .. n /\ IsFiniteSet(1 .. n)
      BY <3>1, FS_Interval
    <3>3. \A i \in DOMAIN vestings[m] : IsVesting(vestings[m][i])
      BY <3>1 DEF Vestings
    <3> QED
      BY <3>2, <3>3
  <2>2. \A m \in Members : balances[m] \in Nat
    BY VestingCalcsAssumption DEF Init
  <2>3. timestamp \in Nat
    BY DEF Init
  <2> QED
    BY <2>1, <2>2, <2>3 DEF InputInv
<1>2. InputInv /\ [Next]_vars => InputInv'
  <2> SUFFICES ASSUME InputInv, [Next]_vars PROVE InputInv'
    OBVIOUS
  <2>1. UNCHANGED <<vestings, balances>> /\ timestamp' \in Nat
    BY VestingCalcsAssumption DEF Next, Tick, vars, InputInv
  <2> QED
    BY <2>1 DEF InputInv
<1> QED
  BY <1>1, <1>2, PTL DEF Spec

(* At every time, each vesting that runs counts as its linear share of the *)
(* time left, rounded up, for every amount and every schedule.             *)
THEOREM LinearAlways == Spec => []LockedIsLinear
<1>1. InputInv => LockedIsLinear
  BY OneVestingIsLinear DEF InputInv, LockedIsLinear
<1> QED
  BY <1>1, InputsTyped, PTL

(* What is not vested of a member is an amount, and no more than granted.  *)
LEMMA MultiplyVestingsBounds ==
  ASSUME NEW vs, IsFiniteSet(DOMAIN vs), \A i \in DOMAIN vs : IsVesting(vs[i]),
         NEW t \in Nat
  PROVE  /\ CalculateMultiplyVestings(vs, t) \in Nat
         /\ CalculateMultiplyVestings(vs, t)
              <= SumFunction([i \in DOMAIN vs |-> vs[i].amount])
<1> DEFINE S == DOMAIN vs
           f == [i \in S |-> CalculateOneVesting(vs[i], t)]
           g == [i \in S |-> vs[i].amount]
<1>1. ASSUME NEW i \in S
      PROVE  /\ CalculateOneVesting(vs[i], t) \in Nat /\ vs[i].amount \in Nat
             /\ CalculateOneVesting(vs[i], t) <= vs[i].amount
  <2>1. CalculateOneVesting(vs[i], t) \in 0 .. vs[i].amount
    BY OneVestingBounds
  <2> QED BY <2>1 DEF IsVesting
<1>2. f \in [S -> Nat] /\ g \in [S -> Nat] /\ \A i \in S : f[i] <= g[i]
  BY <1>1
<1>3. SumFunction(f) \in Nat /\ SumFunction(f) <= SumFunction(g)
  <2> HIDE DEF f, g
  <2> QED BY <1>2, SumInNat, SumMonotone
<1> QED
  BY <1>3 DEF CalculateMultiplyVestings

(* What is not vested of a member never grows.                             *)
LEMMA MultiplyVestingsNeverIncreases ==
  ASSUME NEW vs, IsFiniteSet(DOMAIN vs), \A i \in DOMAIN vs : IsVesting(vs[i]),
         NEW t \in Nat, NEW u \in Nat, t <= u
  PROVE  CalculateMultiplyVestings(vs, u) <= CalculateMultiplyVestings(vs, t)
<1> DEFINE S == DOMAIN vs
           f == [i \in S |-> CalculateOneVesting(vs[i], u)]
           g == [i \in S |-> CalculateOneVesting(vs[i], t)]
<1>1. ASSUME NEW i \in S
      PROVE  /\ CalculateOneVesting(vs[i], t) \in Nat
             /\ CalculateOneVesting(vs[i], u) \in Nat
             /\ CalculateOneVesting(vs[i], u) <= CalculateOneVesting(vs[i], t)
  <2>1. /\ CalculateOneVesting(vs[i], t) \in 0 .. vs[i].amount
        /\ CalculateOneVesting(vs[i], u) \in 0 .. vs[i].amount
    BY OneVestingBounds
  <2> QED BY <2>1, OneVestingNeverIncreases DEF IsVesting
<1>2. f \in [S -> Nat] /\ g \in [S -> Nat] /\ \A i \in S : f[i] <= g[i]
  BY <1>1
<1>3. SumFunction(f) <= SumFunction(g)
  <2> HIDE DEF f, g
  <2> QED BY <1>2, SumMonotone
<1> QED
  BY <1>3 DEF CalculateMultiplyVestings

(* The same of what counts as locked of a member, burns subtracted.        *)
LEMMA MemberLockedBounds ==
  ASSUME InputInv, NEW m \in Members, NEW t \in Nat
  PROVE  /\ CalculateMultiplyVestings(vestings[m], t) \in Nat
         /\ MemberLockedTokens(m, t) \in Nat
         /\ MemberLockedTokens(m, t) <= CalculateMultiplyVestings(vestings[m], t)
         /\ m \in burns => MemberLockedTokens(m, t) <= balances[m]
<1>1. CalculateMultiplyVestings(vestings[m], t) \in Nat /\ balances[m] \in Nat
  BY MultiplyVestingsBounds DEF InputInv
<1> DEFINE notVested == CalculateMultiplyVestings(vestings[m], t)
<1>2. MemberLockedTokens(m, t)
        = IF m \in burns THEN SubtractBurnedTokens(notVested, balances[m]) ELSE notVested
  BY DEF MemberLockedTokens
<1> HIDE DEF notVested
<1>3. MemberLockedTokens(m, t) \in Nat /\ MemberLockedTokens(m, t) <= notVested
  BY <1>1, <1>2, BurnedTokensCap DEF notVested
<1>4. m \in burns => MemberLockedTokens(m, t) <= balances[m]
  BY <1>1, <1>2, BurnedTokensCap DEF notVested
<1> QED
  BY <1>1, <1>3, <1>4 DEF notVested

(* No member counts for less than nothing or more than was granted to it,  *)
(* at any time, for any number of vestings.                                *)
THEOREM GrantsBoundLocked == Spec => []LockedWithinGrants
<1>1. InputInv => LockedWithinGrants
  <2> SUFFICES ASSUME InputInv, NEW m \in Members
               PROVE  /\ MemberLockedTokens(m, timestamp) >= 0
                      /\ MemberLockedTokens(m, timestamp)
                           <= SumFunction([i \in DOMAIN vestings[m] |->
                                             vestings[m][i].amount])
    BY DEF LockedWithinGrants
  <2> DEFINE granted == SumFunction([i \in DOMAIN vestings[m] |-> vestings[m][i].amount])
  <2>1. timestamp \in Nat
    BY DEF InputInv
  <2>2. CalculateMultiplyVestings(vestings[m], timestamp) <= granted
    BY <2>1, MultiplyVestingsBounds DEF InputInv
  <2>3. granted \in Nat
    <3> DEFINE S == DOMAIN vestings[m]
               g == [i \in S |-> vestings[m][i].amount]
    <3>1. IsFiniteSet(S) /\ g \in [S -> Nat]
      BY DEF InputInv, IsVesting
    <3>2. SumFunction(g) \in Nat
      <4> HIDE DEF g
      <4> QED BY <3>1, SumInNat
    <3> QED BY <3>2
  <2> HIDE DEF granted
  <2>4. MemberLockedTokens(m, timestamp) >= 0 /\ MemberLockedTokens(m, timestamp) <= granted
    BY <2>1, <2>2, <2>3, MemberLockedBounds
  <2> QED BY <2>4 DEF granted
<1> QED
  BY <1>1, InputsTyped, PTL

(* Burned tokens are subtracted exactly: a member who burned counts for    *)
(* what is not vested or the balance, whichever is less, so for its whole  *)
(* balance when that is less; the others are counted in full               *)
(* (vesting-calcs.service.ts:27).                                          *)
THEOREM BurnsSubtracted == Spec => []BurnsAreSubtracted
<1>1. InputInv => BurnsAreSubtracted
  <2> SUFFICES ASSUME InputInv, NEW m \in Members
               PROVE  LET notVested == CalculateMultiplyVestings(vestings[m], timestamp)
                          locked == MemberLockedTokens(m, timestamp)
                      IN  /\ m \in burns =>
                               /\ locked <= notVested /\ locked <= balances[m]
                               /\ locked \in {notVested, balances[m]}
                          /\ m \notin burns => locked = notVested
    BY DEF BurnsAreSubtracted
  <2> DEFINE notVested == CalculateMultiplyVestings(vestings[m], timestamp)
  <2>1. notVested \in Nat /\ balances[m] \in Nat
    BY MemberLockedBounds DEF InputInv
  <2>2. MemberLockedTokens(m, timestamp)
          = IF m \in burns THEN SubtractBurnedTokens(notVested, balances[m]) ELSE notVested
    BY DEF MemberLockedTokens
  <2> HIDE DEF notVested
  <2>3. m \in burns => /\ MemberLockedTokens(m, timestamp) <= notVested
                       /\ MemberLockedTokens(m, timestamp) <= balances[m]
                       /\ MemberLockedTokens(m, timestamp) \in {notVested, balances[m]}
    BY <2>1, <2>2, BurnedTokensCap
  <2> QED
    BY <2>2, <2>3 DEF notVested
<1> QED
  BY <1>1, InputsTyped, PTL

(* The locked amount of a later block is never more, for any number of     *)
(* members and vestings and any two timestamps.                            *)
THEOREM LockedDecreases == Spec => LockedNeverIncreases
<1>1. ASSUME InputInv, [Next]_vars
      PROVE  CalculateLockedTokens(timestamp') <= CalculateLockedTokens(timestamp)
  <2> DEFINE f == [m \in Members |-> MemberLockedTokens(m, timestamp)]
             g == [m \in Members |-> MemberLockedTokens(m, timestamp')]
  <2>1. timestamp \in Nat /\ timestamp' \in Nat /\ timestamp <= timestamp'
    BY <1>1, VestingCalcsAssumption DEF Next, Tick, vars, InputInv
  <2>2. ASSUME NEW m \in Members
        PROVE  /\ MemberLockedTokens(m, timestamp) \in Nat
               /\ MemberLockedTokens(m, timestamp') \in Nat
               /\ MemberLockedTokens(m, timestamp') <= MemberLockedTokens(m, timestamp)
    <3>1. /\ CalculateMultiplyVestings(vestings[m], timestamp) \in Nat
          /\ CalculateMultiplyVestings(vestings[m], timestamp') \in Nat
          /\ CalculateMultiplyVestings(vestings[m], timestamp')
               <= CalculateMultiplyVestings(vestings[m], timestamp)
          /\ balances[m] \in Nat
      BY <1>1, <2>1, MultiplyVestingsBounds, MultiplyVestingsNeverIncreases DEF InputInv
    <3> QED
      BY <3>1 DEF MemberLockedTokens, SubtractBurnedTokens
  <2>3. f \in [Members -> Nat] /\ g \in [Members -> Nat] /\ \A m \in Members : g[m] <= f[m]
    BY <2>2
  <2>4. SumFunction(g) <= SumFunction(f)
    <3> HIDE DEF f, g
    <3> QED BY <2>3, VestingCalcsAssumption, SumMonotone
  <2> QED
    BY <2>4 DEF CalculateLockedTokens
<1>2. InputInv /\ [Next]_vars
        => [CalculateLockedTokens(timestamp') <= CalculateLockedTokens(timestamp)]_vars
  BY <1>1
<1> QED
  BY <1>2, InputsTyped, PTL DEF Spec, LockedNeverIncreases
=============================================================================
