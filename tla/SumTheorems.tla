---------------------------- MODULE SumTheorems ----------------------------
(***************************************************************************)
(* What SumFunctionOnSet of the community modules computes on a finite     *)
(* set.  It folds over a recursive function; what that function is on a    *)
(* set is proved from a smallest set on which it would be something else.  *)
(***************************************************************************)
EXTENDS Integers, FiniteSets, Functions, FiniteSetTheorems, WellFoundedInduction, TLAPS

(* The element the fold takes next.                                        *)
Element(s) == CHOOSE x \in s : TRUE

(* iter[s] is the sum of f on s, for every subset s of S.                  *)
IsSum(iter, f, S) ==
  iter = [s \in SUBSET S |->
            IF s = {} THEN 0 ELSE f[Element(s)] + iter[s \ {Element(s)}]]

SumsOf(f, S) == CHOOSE iter : IsSum(iter, f, S)

(* Of some subsets of a finite set, one has no other below it.             *)
LEMMA MinimalSubset ==
  ASSUME NEW S, IsFiniteSet(S), NEW Bad, Bad \subseteq SUBSET S, Bad # {}
  PROVE  \E T \in Bad : \A U \in Bad : U \subseteq T => U = T
<1>1. IsWellFoundedOn(StrictSubsetOrdering(S), SUBSET S)
  BY FS_StrictSubsetOrderingWellFounded, FS_FiniteSubsetsOfFinite
<1>2. PICK T \in Bad : \A U \in Bad : ~ (<<U, T>> \in StrictSubsetOrdering(S))
  BY <1>1, WFMin
<1> QED
  BY <1>2 DEF StrictSubsetOrdering

-----------------------------------------------------------------------------
(* The recursive function exists, and there is one of it.                  *)

LEMMA ElementIsMember ==
  ASSUME NEW s, s # {}
  PROVE  Element(s) \in s
BY DEF Element

LEMMA IsSumStep ==
  ASSUME NEW g, NEW f, NEW S, IsSum(g, f, S), NEW s \in SUBSET S
  PROVE  g[s] = IF s = {} THEN 0 ELSE f[Element(s)] + g[s \ {Element(s)}]
BY DEF IsSum

(* Two of them agree where both are defined.                               *)
LEMMA SumsAgree ==
  ASSUME NEW f, NEW S, IsFiniteSet(S), NEW A \in SUBSET S, NEW B \in SUBSET S,
         NEW g, IsSum(g, f, A), NEW h, IsSum(h, f, B),
         NEW s, s \subseteq A, s \subseteq B
  PROVE  g[s] = h[s]
<1> DEFINE Bad == { w \in SUBSET S : w \subseteq A /\ w \subseteq B /\ g[w] # h[w] }
<1> SUFFICES ASSUME Bad # {} PROVE FALSE
  OBVIOUS
<1>1. PICK w \in Bad : \A u \in Bad : u \subseteq w => u = w
  <2>1. Bad \subseteq SUBSET S
    OBVIOUS
  <2> HIDE DEF Bad
  <2> QED BY <2>1, MinimalSubset
<1>2. CASE w = {}
  BY <1>1, <1>2, IsSumStep
<1>3. CASE w # {}
  <2> DEFINE u == w \ {Element(w)}
  <2>1. Element(w) \in w
    BY <1>3, ElementIsMember
  <2>2. g[u] = h[u]
    BY <1>1, <2>1
  <2>3. g[w] = f[Element(w)] + g[u] /\ h[w] = f[Element(w)] + h[u]
    BY <1>1, <1>3, IsSumStep
  <2> QED BY <2>2, <2>3, <1>1
<1> QED BY <1>2, <1>3

(* A smallest set without one would get one from those of its subsets.     *)
LEMMA SumExists ==
  ASSUME NEW f, NEW S, IsFiniteSet(S)
  PROVE  IsSum(SumsOf(f, S), f, S)
<1> DEFINE Bad == { T \in SUBSET S : ~ \E g : IsSum(g, f, T) }
<1> SUFFICES ASSUME Bad # {} PROVE FALSE
  BY DEF SumsOf
<1>1. PICK T \in Bad : \A U \in Bad : U \subseteq T => U = T
  <2>1. Bad \subseteq SUBSET S
    OBVIOUS
  <2> HIDE DEF Bad
  <2> QED BY <2>1, MinimalSubset
<1> DEFINE G(u) == SumsOf(f, u)
           g == [s \in SUBSET T |->
                   IF s = {} THEN 0
                   ELSE f[Element(s)] + G(s \ {Element(s)})[s \ {Element(s)}]]
<1>2. ASSUME NEW u \in SUBSET T, u # T
      PROVE  IsSum(G(u), f, u)
  <2>1. \E k : IsSum(k, f, u)
    BY <1>1, <1>2
  <2> QED BY <2>1 DEF SumsOf
<1>3. ASSUME NEW s \in SUBSET T, s # {}
      PROVE  g[s \ {Element(s)}] = G(s \ {Element(s)})[s \ {Element(s)}]
  <2> DEFINE u == s \ {Element(s)}
             v == u \ {Element(u)}
  <2>1. u \in SUBSET T /\ u # T
    BY <1>3, ElementIsMember
  <2>2. IsSum(G(u), f, u)
    BY <2>1, <1>2
  <2>3. G(u)[u] = IF u = {} THEN 0 ELSE f[Element(u)] + G(u)[v]
    <3> HIDE DEF G, u
    <3> QED BY <2>2, IsSumStep
  <2>4. g[u] = IF u = {} THEN 0 ELSE f[Element(u)] + G(v)[v]
    <3> HIDE DEF G, u
    <3> QED BY <2>1
  <2>5. ASSUME u # {} PROVE G(u)[v] = G(v)[v]
    <3>1. v \in SUBSET T /\ v # T
      BY <2>1, <2>5, ElementIsMember
    <3>2. IsSum(G(v), f, v)
      BY <3>1, <1>2
    <3>3. u \in SUBSET S /\ v \in SUBSET S /\ v \subseteq u
      BY <2>1, <3>1, <1>1
    <3> HIDE DEF G, u, v
    <3> QED BY <2>2, <3>2, <3>3, SumsAgree
  <2>6. g[u] = G(u)[u]
    <3> HIDE DEF G, u, v, g
    <3> QED BY <2>3, <2>4, <2>5
  <2> QED BY <2>6
<1> DEFINE k == [s \in SUBSET T |->
                   IF s = {} THEN 0 ELSE f[Element(s)] + g[s \ {Element(s)}]]
<1>4. ASSUME NEW s \in SUBSET T PROVE g[s] = k[s]
  <2>1. CASE s = {}
    BY <2>1
  <2>2. CASE s # {}
    <3>1. g[s] = f[Element(s)] + G(s \ {Element(s)})[s \ {Element(s)}]
      <4> HIDE DEF G
      <4> QED BY <2>2
    <3>2. k[s] = f[Element(s)] + g[s \ {Element(s)}]
      <4> HIDE DEF g
      <4> QED BY <2>2
    <3> HIDE DEF G, g, k
    <3> QED BY <3>1, <3>2, <1>3, <2>2
  <2> QED BY <2>1, <2>2
<1>5. g = k
  <2>1. /\ g = [s \in SUBSET T |-> g[s]]
        /\ k = [s \in SUBSET T |-> k[s]]
    OBVIOUS
  <2> HIDE DEF g, k
  <2> QED BY <1>4, <2>1
<1>6. IsSum(g, f, T)
  <2> HIDE DEF g
  <2> QED BY <1>5 DEF IsSum
<1> QED BY <1>6, <1>1

-----------------------------------------------------------------------------
(* The sum over a finite set.                                              *)

LEMMA SumUnfolds ==
  ASSUME NEW f, NEW S
  PROVE  SumFunctionOnSet(f, S) = SumsOf(f, S)[S]
BY DEF SumFunctionOnSet, FoldFunctionOnSet, MapThenFoldSet, SumsOf, IsSum, Element

LEMMA SumOnEmpty ==
  ASSUME NEW f
  PROVE  SumFunctionOnSet(f, {}) = 0
<1>1. IsSum(SumsOf(f, {}), f, {})
  BY SumExists, FS_EmptySet
<1> QED BY <1>1, SumUnfolds, IsSumStep

LEMMA SumOnChosen ==
  ASSUME NEW f, NEW S, IsFiniteSet(S), S # {}
  PROVE  SumFunctionOnSet(f, S)
           = f[Element(S)] + SumFunctionOnSet(f, S \ {Element(S)})
<1> DEFINE R == S \ {Element(S)}
<1>1. IsFiniteSet(R) /\ R \in SUBSET S
  BY FS_Subset
<1>2. IsSum(SumsOf(f, S), f, S) /\ IsSum(SumsOf(f, R), f, R)
  BY <1>1, SumExists
<1>3. SumsOf(f, S)[S] = f[Element(S)] + SumsOf(f, S)[R]
  BY <1>2, IsSumStep
<1>4. SumsOf(f, S)[R] = SumsOf(f, R)[R]
  <2> HIDE DEF R
  <2> QED BY <1>1, <1>2, SumsAgree
<1> HIDE DEF R
<1>5. SumFunctionOnSet(f, S) = f[Element(S)] + SumFunctionOnSet(f, R)
  BY <1>3, <1>4, SumUnfolds
<1> QED BY <1>5 DEF R

(* A sum of integers is one.                                               *)
LEMMA SumOnInt ==
  ASSUME NEW S, IsFiniteSet(S), NEW f, \A x \in S : f[x] \in Int
  PROVE  SumFunctionOnSet(f, S) \in Int
<1> DEFINE Bad == { T \in SUBSET S : SumFunctionOnSet(f, T) \notin Int }
<1> SUFFICES ASSUME Bad # {} PROVE FALSE
  OBVIOUS
<1>1. PICK T \in Bad : \A U \in Bad : U \subseteq T => U = T
  <2>1. Bad \subseteq SUBSET S
    OBVIOUS
  <2> HIDE DEF Bad
  <2> QED BY <2>1, MinimalSubset
<1>2. T # {}
  <2>1. SumFunctionOnSet(f, {}) \in Int
    BY SumOnEmpty
  <2> QED BY <2>1, <1>1
<1> DEFINE e == Element(T)
           R == T \ {e}
<1>3. e \in T /\ f[e] \in Int
  BY <1>1, <1>2, ElementIsMember
<1>4. SumFunctionOnSet(f, R) \in Int
  BY <1>1, <1>3
<1>5. SumFunctionOnSet(f, T) = f[e] + SumFunctionOnSet(f, R)
  BY <1>1, <1>2, SumOnChosen, FS_Subset
<1> QED
  <2> HIDE DEF e, R
  <2> QED BY <1>1, <1>3, <1>4, <1>5

(* Any element can be taken off.                                           *)
LEMMA SumOnRemove ==
  ASSUME NEW S, IsFiniteSet(S), NEW f, \A x \in S : f[x] \in Int, NEW x \in S
  PROVE  SumFunctionOnSet(f, S) = f[x] + SumFunctionOnSet(f, S \ {x})
<1> DEFINE Bad == { T \in SUBSET S : \E y \in T :
                     SumFunctionOnSet(f, T) # f[y] + SumFunctionOnSet(f, T \ {y}) }
<1> SUFFICES ASSUME Bad # {} PROVE FALSE
  OBVIOUS
<1>1. PICK T \in Bad : \A U \in Bad : U \subseteq T => U = T
  <2>1. Bad \subseteq SUBSET S
    OBVIOUS
  <2> HIDE DEF Bad
  <2> QED BY <2>1, MinimalSubset
<1>2. PICK y \in T : SumFunctionOnSet(f, T) # f[y] + SumFunctionOnSet(f, T \ {y})
  BY <1>1
<1> DEFINE e == Element(T)
           R == (T \ {e}) \ {y}
<1>3. IsFiniteSet(T) /\ T \subseteq S /\ e \in T
  BY <1>1, <1>2, ElementIsMember, FS_Subset
<1>4. SumFunctionOnSet(f, T) = f[e] + SumFunctionOnSet(f, T \ {e})
  BY <1>2, <1>3, SumOnChosen
<1>5. e # y
  BY <1>2, <1>4
<1>6. SumFunctionOnSet(f, T \ {e}) = f[y] + SumFunctionOnSet(f, R)
  <2>1. (T \ {e}) \notin Bad
    BY <1>1, <1>3
  <2> QED BY <2>1, <1>3, <1>5
<1>7. SumFunctionOnSet(f, T \ {y}) = f[e] + SumFunctionOnSet(f, R)
  <2>1. (T \ {y}) \notin Bad
    BY <1>1, <1>2
  <2>2. R = (T \ {y}) \ {e}
    OBVIOUS
  <2> HIDE DEF R
  <2> QED BY <2>1, <2>2, <1>3, <1>5
<1>8. f[e] \in Int /\ f[y] \in Int /\ SumFunctionOnSet(f, R) \in Int
  <2>1. IsFiniteSet(R) /\ R \subseteq S
    BY <1>3, FS_Subset
  <2> HIDE DEF R
  <2> QED BY <2>1, <1>3, SumOnInt
<1> QED
  <2> HIDE DEF e, R
  <2> QED BY <1>2, <1>4, <1>6, <1>7, <1>8

(* Sums compare as their terms do.                                         *)
LEMMA SumOnMonotone ==
  ASSUME NEW S, IsFiniteSet(S), NEW f, NEW g,
         \A x \in S : f[x] \in Int /\ g[x] \in Int /\ f[x] <= g[x]
  PROVE  SumFunctionOnSet(f, S) <= SumFunctionOnSet(g, S)
<1> DEFINE Bad == { T \in SUBSET S :
                     ~ SumFunctionOnSet(f, T) <= SumFunctionOnSet(g, T) }
<1> SUFFICES ASSUME Bad # {} PROVE FALSE
  OBVIOUS
<1>1. PICK T \in Bad : \A U \in Bad : U \subseteq T => U = T
  <2>1. Bad \subseteq SUBSET S
    OBVIOUS
  <2> HIDE DEF Bad
  <2> QED BY <2>1, MinimalSubset
<1>2. T # {}
  <2>1. SumFunctionOnSet(f, {}) <= SumFunctionOnSet(g, {})
    BY SumOnEmpty
  <2> QED BY <2>1, <1>1
<1> DEFINE e == Element(T)
           R == T \ {e}
<1>3. e \in T /\ f[e] \in Int /\ g[e] \in Int /\ f[e] <= g[e]
  BY <1>1, <1>2, ElementIsMember
<1>4. IsFiniteSet(T) /\ IsFiniteSet(R) /\ R \subseteq S /\ R \notin Bad
  BY <1>1, <1>3, FS_Subset
<1>5. /\ SumFunctionOnSet(f, T) = f[e] + SumFunctionOnSet(f, R)
      /\ SumFunctionOnSet(g, T) = g[e] + SumFunctionOnSet(g, R)
  BY <1>2, <1>4, SumOnChosen
<1>6. SumFunctionOnSet(f, R) <= SumFunctionOnSet(g, R)
  BY <1>4
<1>7. SumFunctionOnSet(f, R) \in Int /\ SumFunctionOnSet(g, R) \in Int
  <2> HIDE DEF R
  <2> QED BY <1>4, SumOnInt
<1> QED
  <2> HIDE DEF e, R
  <2> QED BY <1>1, <1>3, <1>5, <1>6, <1>7

(* Terms that are 0 can be left out.                                       *)
LEMMA SumOnSupport ==
  ASSUME NEW S, IsFiniteSet(S), NEW f, \A x \in S : f[x] \in Int,
         NEW R \in SUBSET S, \A x \in S \ R : f[x] = 0
  PROVE  SumFunctionOnSet(f, S) = SumFunctionOnSet(f, R)
<1> DEFINE Bad == { T \in SUBSET S :
                     SumFunctionOnSet(f, T) # SumFunctionOnSet(f, T \cap R) }
<1> SUFFICES ASSUME Bad # {} PROVE FALSE
  <2>1. S \cap R = R /\ S \in SUBSET S
    OBVIOUS
  <2> QED BY <2>1
<1>1. PICK T \in Bad : \A U \in Bad : U \subseteq T => U = T
  <2>1. Bad \subseteq SUBSET S
    OBVIOUS
  <2> HIDE DEF Bad
  <2> QED BY <2>1, MinimalSubset
<1>2. IsFiniteSet(T) /\ IsFiniteSet(T \cap R) /\ T \subseteq S
  BY <1>1, FS_Subset
<1>3. PICK e \in T : e \notin R
  <2>1. T \cap R # T
    BY <1>1
  <2> QED BY <2>1
<1>4. SumFunctionOnSet(f, T) = f[e] + SumFunctionOnSet(f, T \ {e})
  BY <1>2, SumOnRemove
<1>5. SumFunctionOnSet(f, T \ {e}) = SumFunctionOnSet(f, T \cap R)
  <2>1. (T \ {e}) \notin Bad
    BY <1>1
  <2>2. (T \ {e}) \cap R = T \cap R
    BY <1>3
  <2> QED BY <2>1, <2>2, <1>2
<1>6. f[e] = 0 /\ SumFunctionOnSet(f, T \cap R) \in Int
  BY <1>2, <1>3, SumOnInt
<1> QED BY <1>1, <1>4, <1>5, <1>6

(* A sum of n terms of at most k is at most k * n.                         *)
LEMMA SumOnBound ==
  ASSUME NEW S, IsFiniteSet(S), NEW f, NEW k \in Nat, \A x \in S : f[x] \in 0 .. k
  PROVE  SumFunctionOnSet(f, S) \in 0 .. k * Cardinality(S)
<1> DEFINE Bad == { T \in SUBSET S :
                     SumFunctionOnSet(f, T) \notin 0 .. k * Cardinality(T) }
<1> SUFFICES ASSUME Bad # {} PROVE FALSE
  OBVIOUS
<1>1. PICK T \in Bad : \A U \in Bad : U \subseteq T => U = T
  <2>1. Bad \subseteq SUBSET S
    OBVIOUS
  <2> HIDE DEF Bad
  <2> QED BY <2>1, MinimalSubset
<1>2. T # {}
  <2>1. SumFunctionOnSet(f, {}) \in 0 .. k * Cardinality({})
    <3>1. SumFunctionOnSet(f, {}) = 0 /\ Cardinality({}) = 0
      BY SumOnEmpty, FS_EmptySet
    <3> QED BY <3>1
  <2> QED BY <2>1, <1>1
<1> DEFINE e == Element(T)
           R == T \ {e}
<1>3. e \in T /\ f[e] \in 0 .. k
  BY <1>1, <1>2, ElementIsMember
<1>4. IsFiniteSet(T) /\ R \notin Bad /\ R \in SUBSET S
  BY <1>1, <1>3, FS_Subset
<1>5. SumFunctionOnSet(f, T) = f[e] + SumFunctionOnSet(f, R)
  BY <1>2, <1>4, SumOnChosen
<1>6. SumFunctionOnSet(f, R) \in 0 .. k * Cardinality(R)
  BY <1>4
<1>7. /\ Cardinality(T) \in Nat /\ Cardinality(R) \in Nat
      /\ Cardinality(R) = Cardinality(T) - 1
  BY <1>3, <1>4, FS_CardinalityType, FS_RemoveElement
<1> HIDE DEF e, R
<1>8. k * Cardinality(T) = k * Cardinality(R) + k
  <2> DEFINE n == Cardinality(R)
  <2>1. Cardinality(T) = n + 1 /\ n \in Nat
    BY <1>7
  <2> HIDE DEF n
  <2>2. k * (n + 1) = k * n + k
    BY <2>1
  <2> QED BY <2>1, <2>2 DEF n
<1>9. k * Cardinality(R) \in Nat
  BY <1>7
<1> QED BY <1>1, <1>3, <1>5, <1>6, <1>8, <1>9

-----------------------------------------------------------------------------
(* The same of SumFunction, the sum over a whole function.                 *)

LEMMA SumInNat ==
  ASSUME NEW S, IsFiniteSet(S), NEW f \in [S -> Nat]
  PROVE  SumFunction(f) \in Nat
<1>1. SumFunctionOnSet(f, S) \in Int
  BY SumOnInt
<1> DEFINE z == [x \in S |-> 0]
<1>2. SumFunctionOnSet(z, S) <= SumFunctionOnSet(f, S)
  BY SumOnMonotone
<1>3. SumFunctionOnSet(z, S) = SumFunctionOnSet(z, {})
  <2>1. /\ \A x \in S : z[x] \in Int
        /\ \A x \in S \ {} : z[x] = 0
        /\ {} \in SUBSET S
    OBVIOUS
  <2> HIDE DEF z
  <2> QED BY <2>1, SumOnSupport
<1>4. SumFunctionOnSet(z, S) = 0
  BY <1>3, SumOnEmpty
<1> HIDE DEF z
<1> QED BY <1>1, <1>2, <1>4 DEF SumFunction

LEMMA SumMonotone ==
  ASSUME NEW S, IsFiniteSet(S), NEW f \in [S -> Nat], NEW g \in [S -> Nat],
         \A x \in S : f[x] <= g[x]
  PROVE  SumFunction(f) <= SumFunction(g)
<1>1. \A x \in S : f[x] \in Int /\ g[x] \in Int /\ f[x] <= g[x]
  OBVIOUS
<1>2. DOMAIN f = S /\ DOMAIN g = S
  OBVIOUS
<1> QED BY <1>1, <1>2, SumOnMonotone DEF SumFunction

(* A sum over part of a set, when the rest counts for nothing.             *)
LEMMA SumOfSupport ==
  ASSUME NEW S, IsFiniteSet(S), NEW R \in SUBSET S, NEW f \in [R -> Nat],
         NEW g \in [S -> Nat],
         \A x \in R : f[x] = g[x], \A x \in S \ R : g[x] = 0
  PROVE  SumFunction(f) = SumFunction(g)
<1>1. IsFiniteSet(R)
  BY FS_Subset
<1>2. SumFunctionOnSet(g, S) = SumFunctionOnSet(g, R)
  BY SumOnSupport
<1>3. /\ SumFunctionOnSet(f, R) <= SumFunctionOnSet(g, R)
      /\ SumFunctionOnSet(g, R) <= SumFunctionOnSet(f, R)
  <2>1. \A x \in R : f[x] \in Int /\ g[x] \in Int /\ f[x] <= g[x] /\ g[x] <= f[x]
    OBVIOUS
  <2> QED BY <2>1, <1>1, SumOnMonotone
<1>4. SumFunctionOnSet(f, R) \in Int /\ SumFunctionOnSet(g, R) \in Int
  <2>1. \A x \in R : f[x] \in Int /\ g[x] \in Int
    OBVIOUS
  <2> QED BY <2>1, <1>1, SumOnInt
<1> QED BY <1>2, <1>3, <1>4 DEF SumFunction
=============================================================================
