---------------------------- MODULE VestingCalcs ----------------------------
(***************************************************************************)
(* LdoVestingCalcsService: the amount of tokens locked at a time, from the *)
(* vestings of the members, the holders who burned tokens and balances.    *)
(*                                                                         *)
(* The operators are the service.  The state machine around them holds the *)
(* inputs still and lets time go on, from one block timestamp to a later   *)
(* one, so that results at different times can be compared.  A member who  *)
(* burned tokens has a balance here; LdoService shows when it has none.    *)
(***************************************************************************)
EXTENDS Integers, Sequences, FiniteSets, Functions

CONSTANTS
  Members,
  Amounts,      \* amounts of vestings
  Balances,     \* balances of members
  MaxTime,      \* bound: times of vestings and timestamps
  MaxVestings   \* bound: vestings of one member

ASSUME VestingCalcsAssumption ==
  /\ IsFiniteSet(Members)
  /\ Amounts \subseteq Nat /\ Balances \subseteq Nat
  /\ MaxTime \in Nat /\ MaxVestings \in Nat

VARIABLES
  vestings,   \* vestings[m]: the vestings of m
  burns,      \* holders who burned tokens
  balances,
  timestamp   \* of the block the calculation is for

vars == <<vestings, burns, balances, timestamp>>

(* What the token manager contract holds of a vesting: the cliff is within *)
(* it (assignVested requires so), and all is 0 once it is revoked.         *)
IsVesting(v) ==
  /\ v.amount \in Nat /\ v.start \in Nat /\ v.cliff \in Nat /\ v.vesting \in Nat
  /\ v.start <= v.cliff /\ v.cliff <= v.vesting

-----------------------------------------------------------------------------
(* Mutant: the part that is not vested is rounded down.                    *)
CalculateOneVestingRoundDown(v, t) ==
  IF t >= v.vesting THEN 0
  ELSE IF t < v.cliff THEN v.amount
  ELSE (v.amount * (v.vesting - t)) \div (v.vesting - v.start)

(* Mutant: the vested part is returned before the cliff.                   *)
CalculateOneVestingNoCliff(v, t) ==
  IF t >= v.vesting THEN 0
  ELSE IF t < v.cliff THEN 0
  ELSE v.amount - (v.amount * (t - v.start)) \div (v.vesting - v.start)

(* Amount of v not vested at time t.                                       *)
CalculateOneVesting(v, t) ==
  IF t >= v.vesting THEN 0
  ELSE IF t < v.cliff THEN v.amount
  ELSE v.amount - (v.amount * (t - v.start)) \div (v.vesting - v.start)

CalculateMultiplyVestings(vs, t) ==
  SumFunction([i \in DOMAIN vs |-> CalculateOneVesting(vs[i], t)])

(* Mutant: what was burned is taken for what is left.                      *)
SubtractBurnedTokensSwapped(nonVested, balance) ==
  IF balance < nonVested THEN nonVested ELSE balance

(* Mutant: a member who burned too much counts for nothing.                *)
SubtractBurnedTokensToZero(nonVested, balance) ==
  IF balance < nonVested THEN 0 ELSE nonVested

SubtractBurnedTokens(nonVested, balance) ==
  IF balance < nonVested THEN balance ELSE nonVested

MemberLockedTokens(m, t) ==
  LET notVested == CalculateMultiplyVestings(vestings[m], t)
  IN  IF m \in burns THEN SubtractBurnedTokens(notVested, balances[m]) ELSE notVested

CalculateLockedTokens(t) ==
  SumFunction([m \in Members |-> MemberLockedTokens(m, t)])

-----------------------------------------------------------------------------
Times == 0 .. MaxTime

Vestings ==
  { v \in [amount : Amounts, start : Times, cliff : Times, vesting : Times] : IsVesting(v) }

Init ==
  /\ vestings \in [Members -> UNION { [1 .. n -> Vestings] : n \in 0 .. MaxVestings }]
  /\ burns \in SUBSET Members
  /\ balances \in [Members -> Balances]
  /\ timestamp = 0

(* A later block.                                                          *)
Tick ==
  /\ timestamp < MaxTime
  /\ timestamp' \in timestamp + 1 .. MaxTime
  /\ UNCHANGED <<vestings, burns, balances>>

Next == Tick

Spec == Init /\ [][Next]_vars

-----------------------------------------------------------------------------
(* The result is a token amount, and no member counts for more than was    *)
(* granted to it: an amount is never negative and nothing divides by 0.    *)
LockedWithinGrants ==
  \A m \in Members :
    /\ MemberLockedTokens(m, timestamp) >= 0
    /\ MemberLockedTokens(m, timestamp)
         <= SumFunction([i \in DOMAIN vestings[m] |-> vestings[m][i].amount])

(* Of a vesting that runs, what counts as locked is the exact linear share *)
(* of the time left, rounded up to a whole unit: the reference is the      *)
(* contract's formula the source links to (vesting-calcs.service.ts:68).   *)
LockedIsLinear ==
  \A m \in Members : \A i \in DOMAIN vestings[m] :
    LET v == vestings[m][i]
        locked == CalculateOneVesting(v, timestamp)
        span == v.vesting - v.start
        share == v.amount * (v.vesting - timestamp)
    IN  v.cliff <= timestamp /\ timestamp < v.vesting =>
          /\ share <= locked * span
          /\ locked * span < share + span

(* Tokens that are locked are never more at a later block, as long as no   *)
(* vesting is granted and no balance changes: not at the cliff, not at the *)
(* end, not by rounding.  (A member who burned locks more again when it    *)
(* receives tokens.)                                                       *)
LockedNeverIncreases ==
  [][CalculateLockedTokens(timestamp') <= CalculateLockedTokens(timestamp)]_vars

(* A member who burned tokens locks what is not vested or what is left of  *)
(* its tokens, the smaller of both, neither more nor less ("we need to     *)
(* subtract the burned tokens to get the locked tokens",                   *)
(* vesting-calcs.service.ts:27); the others are not affected, whatever     *)
(* they hold.                                                              *)
BurnsAreSubtracted ==
  \A m \in Members :
    LET notVested == CalculateMultiplyVestings(vestings[m], timestamp)
        locked == MemberLockedTokens(m, timestamp)
    IN  /\ m \in burns => /\ locked <= notVested /\ locked <= balances[m]
                          /\ locked \in {notVested, balances[m]}
        /\ m \notin burns => locked = notVested
=============================================================================
