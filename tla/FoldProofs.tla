----------------------------- MODULE FoldProofs ------------------------------
(***************************************************************************)
(* Lemmas about the folds of the community modules: a fold over a finite   *)
(* set exists, and a sum does not depend on the order it is taken in.      *)
(*                                                                         *)
(* A fold is a recursive function over the subsets of its set, so what it  *)
(* yields is shown by induction on their size.  The provers cannot         *)
(* instantiate an induction theorem's predicate; a set of numbers takes    *)
(* its place here, and the function a fold chooses is an ordinary          *)
(* function `iter', of which IsFold and IsSum say what it satisfies.       *)
(***************************************************************************)
EXTENDS FiniteSetsExt, FiniteSetTheorems, WellFoundedInduction, TLAPS

\* Induction over the numbers, for a set of them instead of a predicate.
LEMMA SetOfNaturals ==
  ASSUME NEW P \in SUBSET Nat, 0 \in P, \A n \in P : n + 1 \in P
  PROVE  P = Nat
<1> SUFFICES ASSUME Nat \ P # {} PROVE FALSE
  OBVIOUS
<1>1. PICK m \in Nat \ P : \A k \in Nat \ P : <<k, m>> \notin OpToRel(<, Nat)
  BY NatLessThanWellFounded, WFMin, Zenon
<1>2. m # 0 /\ m - 1 \in Nat /\ m - 1 < m
  OBVIOUS
<1>3. m - 1 \in P
  <2>1. <<m - 1, m>> \in OpToRel(<, Nat)
    BY <1>2 DEF OpToRel
  <2> QED BY <1>1, <1>2, <2>1
<1> QED BY <1>2, <1>3, (m - 1) + 1 = m

\* What holds of the empty set and of a set that has an element without which
\* it holds, holds of every subset of a finite set.
LEMMA SetOfSubsets ==
  ASSUME NEW S, IsFiniteSet(S), NEW P \in SUBSET (SUBSET S), {} \in P,
         \A s \in SUBSET S : (\A x \in s : s \ {x} \in P) => s \in P
  PROVE  P = SUBSET S
<1> DEFINE N == {n \in Nat : \A s \in SUBSET S : Cardinality(s) <= n => s \in P}
<1>1. \A s \in SUBSET S : IsFiniteSet(s) /\ Cardinality(s) \in Nat /\ (Cardinality(s) = 0 <=> s = {})
  BY FS_Subset, FS_CardinalityType, FS_EmptySet
<1>2. 0 \in N
  <2>1. ASSUME NEW s \in SUBSET S, Cardinality(s) <= 0 PROVE s = {}
    BY <1>1, <2>1
  <2> QED BY <2>1
<1>3. ASSUME NEW n \in N PROVE n + 1 \in N
  <2> SUFFICES ASSUME NEW s \in SUBSET S, Cardinality(s) <= n + 1 PROVE s \in P
    OBVIOUS
  <2>1. ASSUME NEW x \in s PROVE s \ {x} \in P
    <3>1. Cardinality(s \ {x}) = Cardinality(s) - 1
      BY <1>1, FS_RemoveElement
    <3>2. Cardinality(s \ {x}) <= n
      BY <1>1, <3>1
    <3> QED BY <3>2
  <2> QED BY <2>1
<1> HIDE DEF N
<1>4. N = Nat
  BY <1>2, <1>3, SetOfNaturals DEF N
<1>5. ASSUME NEW s \in SUBSET S PROVE s \in P
  <2>1. Cardinality(s) \in N
    BY <1>1, <1>4
  <2> QED BY <1>1, <2>1 DEF N
<1> QED BY <1>5

-----------------------------------------------------------------------------
(* Folds *)

IsFold(iter, base, G, pick, S) ==
  iter = [s \in SUBSET S |-> IF s = {} THEN base ELSE G[pick[s]][iter[s \ {pick[s]}]]]

Picks(pick, S) == \A s \in SUBSET S : s # {} => pick[s] \in s

LEMMA FoldExists ==
  ASSUME NEW base, NEW G, NEW S, IsFiniteSet(S), NEW pick, Picks(pick, S)
  PROVE  \E iter : IsFold(iter, base, G, pick, S)
<1> DEFINE Then(it, s) == IF s = {} THEN base ELSE G[pick[s]][it[s \ {pick[s]}]]
           Upto(it, n) == \A s \in SUBSET S : Cardinality(s) <= n => it[s] = Then(it, s)
           N == {n \in Nat : \E it : Upto(it, n)}
<1>1. \A s \in SUBSET S : IsFiniteSet(s) /\ Cardinality(s) \in Nat /\ (Cardinality(s) = 0 <=> s = {}) /\ Cardinality(s) <= Cardinality(S)
  BY FS_Subset, FS_CardinalityType, FS_EmptySet
<1>2. \A s \in SUBSET S : s # {} => s \ {pick[s]} \in SUBSET S /\ Cardinality(s \ {pick[s]}) = Cardinality(s) - 1
  BY <1>1, FS_RemoveElement DEF Picks
<1>3. \A it : Then(it, {}) = base
  OBVIOUS
<1>4. \A it, jt, s : s # {} /\ it[s \ {pick[s]}] = jt[s \ {pick[s]}] => Then(it, s) = Then(jt, s)
  OBVIOUS
<1>5. \A it : IsFold(it, base, G, pick, S) <=> it = [s \in SUBSET S |-> Then(it, s)]
  BY DEF IsFold
<1> HIDE DEF Then
<1>6. 0 \in N
  <2> DEFINE it == [s \in SUBSET S |-> base]
  <2>1. \A s \in SUBSET S : it[s] = base
    OBVIOUS
  <2> HIDE DEF it
  <2>2. Upto(it, 0)
    <3> SUFFICES ASSUME NEW s \in SUBSET S, Cardinality(s) <= 0 PROVE it[s] = Then(it, s)
      OBVIOUS
    <3>1. s = {}
      BY <1>1
    <3> QED BY <1>3, <2>1, <3>1
  <2> QED BY <2>2
<1>7. ASSUME NEW n \in N PROVE n + 1 \in N
  <2>1. n \in Nat /\ \E it : Upto(it, n)
    OBVIOUS
  <2>2. PICK it : Upto(it, n)
    BY <2>1
  <2> DEFINE next == [s \in SUBSET S |-> Then(it, s)]
  <2>3. \A s \in SUBSET S : next[s] = Then(it, s)
    OBVIOUS
  <2> HIDE DEF next
  <2>4. \A s \in SUBSET S : Cardinality(s) <= n => next[s] = it[s]
    BY <2>2, <2>3
  <2>5. ASSUME NEW s \in SUBSET S, Cardinality(s) <= n + 1 PROVE next[s] = Then(next, s)
    <3>1. CASE s = {}
      BY <1>3, <2>3, <3>1
    <3>2. CASE s # {}
      <4>1. s \ {pick[s]} \in SUBSET S /\ Cardinality(s \ {pick[s]}) <= n
        BY <1>1, <1>2, <2>1, <2>5, <3>2
      <4>2. next[s \ {pick[s]}] = it[s \ {pick[s]}]
        BY <2>4, <4>1
      <4>3. Then(next, s) = Then(it, s)
        BY <1>4, <3>2, <4>2
      <4> QED BY <2>3, <4>3
    <3> QED BY <3>1, <3>2
  <2>6. Upto(next, n + 1)
    BY <2>5
  <2> QED BY <2>1, <2>6
<1> HIDE DEF Upto
<1>8. \E it : Upto(it, Cardinality(S))
  <2> HIDE DEF N
  <2>1. N = Nat
    <3>1. N \in SUBSET Nat
      BY DEF N
    <3> QED BY <1>6, <1>7, <3>1, SetOfNaturals
  <2>2. Cardinality(S) \in N
    BY <1>1, <2>1
  <2> QED BY <2>2 DEF N
<1>9. PICK it : Upto(it, Cardinality(S))
  BY <1>8
<1>10. \A s \in SUBSET S : it[s] = Then(it, s)
  BY <1>1, <1>9 DEF Upto
<1> DEFINE f == [s \in SUBSET S |-> it[s]]
<1>11. \A s \in SUBSET S : f[s] = it[s]
  OBVIOUS
<1>12. f = [s \in SUBSET S |-> f[s]]
  OBVIOUS
<1> HIDE DEF f
<1>13. ASSUME NEW s \in SUBSET S PROVE f[s] = Then(f, s)
  <2>1. CASE s = {}
    BY <1>10, <1>11, <1>3, <2>1
  <2>2. CASE s # {}
    <3>1. f[s \ {pick[s]}] = it[s \ {pick[s]}]
      BY <1>2, <1>11, <2>2
    <3> QED BY <1>10, <1>11, <1>4, <2>2, <3>1
  <2> QED BY <2>1, <2>2
<1>14. f = [s \in SUBSET S |-> Then(f, s)]
  BY <1>12, <1>13
<1> QED BY <1>14, <1>5

-----------------------------------------------------------------------------
(* Sums *)

\* The sum of a function over a set.
Total(h, S) == MapThenSumSet(LAMBDA x : h[x], S)

OneOf(s) == CHOOSE x \in s : TRUE

IsSum(iter, h, S) ==
  iter = [s \in SUBSET S |-> IF s = {} THEN 0 ELSE h[OneOf(s)] + iter[s \ {OneOf(s)}]]

IntsOn(h, S) == \A x \in S : h[x] \in Int

LEMMA SumExists ==
  ASSUME NEW S, IsFiniteSet(S), NEW h, IntsOn(h, S)
  PROVE  \E iter : IsSum(iter, h, S) /\ \A s \in SUBSET S : iter[s] \in Int
<1> DEFINE G == [x \in S |-> [a \in Int |-> h[x] + a]]
           pick == [s \in SUBSET S |-> OneOf(s)]
<1>1. \A s \in SUBSET S : pick[s] = OneOf(s)
  OBVIOUS
<1>2. \A s \in SUBSET S : s # {} => OneOf(s) \in s
  BY DEF OneOf
<1>3. \A x \in S, a \in Int : G[x][a] = h[x] + a /\ h[x] \in Int
  BY DEF IntsOn
<1> HIDE DEF G, pick
<1>4. PICK it : IsFold(it, 0, G, pick, S)
  <2>1. Picks(pick, S)
    BY <1>1, <1>2 DEF Picks
  <2> QED BY <2>1, FoldExists
<1>5. \A s \in SUBSET S : it[s] = IF s = {} THEN 0 ELSE G[pick[s]][it[s \ {pick[s]}]]
  BY <1>4 DEF IsFold
<1>6. it = [s \in SUBSET S |-> it[s]]
  BY <1>4 DEF IsFold
<1> DEFINE P == {s \in SUBSET S : it[s] \in Int}
<1>7. {} \in P
  <2>1. {} \in SUBSET S
    OBVIOUS
  <2>2. it[{}] = 0
    BY <1>5, <2>1, Zenon
  <2> QED BY <2>1, <2>2
<1>8. ASSUME NEW s \in SUBSET S, \A x \in s : s \ {x} \in P PROVE s \in P
  <2>1. CASE s = {}
    BY <1>7, <2>1
  <2>2. CASE s # {}
    <3>1. OneOf(s) \in s /\ OneOf(s) \in S /\ pick[s] = OneOf(s)
      BY <1>1, <1>2, <2>2
    <3>2. it[s \ {OneOf(s)}] \in Int
      BY <1>8, <3>1
    <3>3. it[s] = h[OneOf(s)] + it[s \ {OneOf(s)}] /\ h[OneOf(s)] \in Int
      BY <1>5, <1>3, <2>2, <3>1, <3>2
    <3> QED BY <3>2, <3>3
  <2> QED BY <2>1, <2>2
<1>9. P = SUBSET S
  <2>1. P \in SUBSET (SUBSET S)
    OBVIOUS
  <2> HIDE DEF P
  <2> QED BY <1>7, <1>8, <2>1, SetOfSubsets
<1>10. \A s \in SUBSET S : it[s] \in Int
  BY <1>9
<1> HIDE DEF P
<1>11. ASSUME NEW s \in SUBSET S PROVE it[s] = IF s = {} THEN 0 ELSE h[OneOf(s)] + it[s \ {OneOf(s)}]
  <2>1. CASE s = {}
    BY <1>5, <2>1
  <2>2. CASE s # {}
    <3>1. OneOf(s) \in S /\ pick[s] = OneOf(s) /\ s \ {OneOf(s)} \in SUBSET S
      BY <1>1, <1>2, <2>2
    <3>2. it[s \ {OneOf(s)}] \in Int
      BY <1>10, <3>1
    <3> QED BY <1>5, <1>3, <2>2, <3>1, <3>2
  <2> QED BY <2>1, <2>2
<1>12. IsSum(it, h, S)
  BY <1>11, <1>6 DEF IsSum
<1> QED BY <1>10, <1>12

\* A sum of integers is an integer.
LEMMA SumIsInt ==
  ASSUME NEW S, IsFiniteSet(S), NEW h, IntsOn(h, S), NEW it, IsSum(it, h, S)
  PROVE  \A s \in SUBSET S : it[s] \in Int
<1>1. /\ it[{}] = 0
      /\ \A s \in SUBSET S : s # {} => it[s] = h[OneOf(s)] + it[s \ {OneOf(s)}]
  BY DEF IsSum
<1>2. \A s \in SUBSET S : s # {} => OneOf(s) \in s
  BY DEF OneOf
<1>3. \A x \in S : h[x] \in Int
  BY DEF IntsOn
<1> DEFINE P == {s \in SUBSET S : it[s] \in Int}
<1>4. ASSUME NEW s \in SUBSET S, \A x \in s : s \ {x} \in P PROVE s \in P
  <2>1. CASE s = {}
    BY <1>1, <2>1
  <2>2. CASE s # {}
    <3>1. OneOf(s) \in s /\ OneOf(s) \in S /\ h[OneOf(s)] \in Int
      BY <1>2, <1>3, <2>2
    <3>2. it[s \ {OneOf(s)}] \in Int
      BY <1>4, <3>1
    <3>3. it[s] = h[OneOf(s)] + it[s \ {OneOf(s)}]
      BY <1>1, <2>2
    <3>4. it[s] \in Int
      BY <3>1, <3>2, <3>3
    <3> QED BY <3>4
  <2> QED BY <2>1, <2>2
<1>5. P = SUBSET S
  <2>1. P \in SUBSET (SUBSET S)
    OBVIOUS
  <2>2. {} \in SUBSET S /\ \A x \in {} : {} \ {x} \in P
    OBVIOUS
  <2>3. {} \in P
    BY <1>4, <2>2
  <2> HIDE DEF P
  <2> QED BY <1>4, <2>1, <2>3, SetOfSubsets
<1> QED BY <1>5

\* A sum is the same whichever element is taken first.
LEMMA SumInAnyOrder ==
  ASSUME NEW S, IsFiniteSet(S), NEW h, IntsOn(h, S), NEW it, IsSum(it, h, S)
  PROVE  \A s \in SUBSET S : it[s] \in Int /\ \A x \in s : it[s] = h[x] + it[s \ {x}]
<1>1. \A s \in SUBSET S : s # {} => it[s] = h[OneOf(s)] + it[s \ {OneOf(s)}]
  BY DEF IsSum
<1>2. \A s \in SUBSET S : s # {} => OneOf(s) \in s
  BY DEF OneOf
<1>3. \A x \in S : h[x] \in Int
  BY DEF IntsOn
<1>4. \A s \in SUBSET S : it[s] \in Int
  BY SumIsInt
<1> DEFINE Q(s) == it[s] \in Int /\ \A x \in s : it[s] = h[x] + it[s \ {x}]
           P == {s \in SUBSET S : Q(s)}
<1>5. Q({})
  BY <1>4
<1>6. ASSUME NEW s \in SUBSET S, \A x \in s : Q(s \ {x}) PROVE Q(s)
  <2>1. CASE s = {}
    BY <1>5, <2>1
  <2>2. CASE s # {}
    <3> DEFINE p == OneOf(s)
    <3>1. p \in s /\ h[p] \in Int /\ it[s] = h[p] + it[s \ {p}]
      BY <1>1, <1>2, <1>3, <2>2
    <3> HIDE DEF p
    <3>2. it[s \ {p}] \in Int
      BY <1>6, <3>1
    <3>3. ASSUME NEW x \in s, x # p PROVE it[s] = h[x] + it[s \ {x}]
      <4> DEFINE r == (s \ {p}) \ {x}
      <4>1. r = (s \ {x}) \ {p} /\ r \in SUBSET S /\ x \in s \ {p} /\ p \in s \ {x}
        BY <3>1, <3>3
      <4>2. it[s \ {p}] = h[x] + it[r]
        BY <1>6, <3>1, <4>1
      <4>3. it[s \ {x}] = h[p] + it[(s \ {x}) \ {p}] /\ it[s \ {x}] \in Int
        BY <1>6, <4>1
      <4>4. it[s \ {x}] = h[p] + it[r]
        BY <4>1, <4>3
      <4>5. h[x] \in Int
        BY <1>3
      <4>6. it[r] \in Int
        BY <1>4, <4>1
      <4> HIDE DEF r
      <4> QED BY <3>1, <3>2, <4>2, <4>3, <4>4, <4>5, <4>6
    <3>4. \A x \in s : it[s] = h[x] + it[s \ {x}]
      BY <3>1, <3>3
    <3>5. it[s] \in Int
      BY <3>1, <3>2
    <3> QED BY <3>4, <3>5
  <2> QED BY <2>1, <2>2
<1> HIDE DEF Q
<1>7. P = SUBSET S
  <2>1. P \in SUBSET (SUBSET S) /\ {} \in P
    BY <1>5
  <2>2. \A s \in SUBSET S : (\A x \in s : s \ {x} \in P) => s \in P
    BY <1>6
  <2> HIDE DEF P
  <2> QED BY <2>1, <2>2, SetOfSubsets
<1>8. \A s \in SUBSET S : Q(s)
  BY <1>7
<1> QED BY <1>8 DEF Q

\* Two sums agree where their functions do.
LEMMA SumsAgree ==
  ASSUME NEW S, IsFiniteSet(S), NEW T, IsFiniteSet(T), NEW h, IntsOn(h, S), NEW g, IntsOn(g, T),
         NEW it, IsSum(it, h, S), NEW jt, IsSum(jt, g, T),
         NEW U \in SUBSET (S \cap T), \A x \in U : h[x] = g[x]
  PROVE  it[U] = jt[U]
<1>1. \A s \in SUBSET S : it[s] \in Int /\ \A x \in s : it[s] = h[x] + it[s \ {x}]
  BY SumInAnyOrder
<1>2. \A s \in SUBSET T : jt[s] \in Int /\ \A x \in s : jt[s] = g[x] + jt[s \ {x}]
  BY SumInAnyOrder
<1>3. it[{}] = 0 /\ jt[{}] = 0
  BY DEF IsSum
<1>4. IsFiniteSet(U)
  BY FS_Subset
<1> DEFINE P == {u \in SUBSET U : it[u] = jt[u]}
<1>5. {} \in P
  BY <1>3
<1>6. ASSUME NEW u \in SUBSET U, \A x \in u : u \ {x} \in P PROVE u \in P
  <2>1. CASE u = {}
    BY <1>5, <2>1
  <2>2. CASE u # {}
    <3>1. PICK x \in u : TRUE
      BY <2>2
    <3>2. u \in SUBSET S /\ u \in SUBSET T /\ h[x] = g[x] /\ it[u \ {x}] = jt[u \ {x}]
      BY <1>6, <3>1
    <3>3. it[u] = h[x] + it[u \ {x}] /\ jt[u] = g[x] + jt[u \ {x}]
      BY <1>1, <1>2, <3>1, <3>2
    <3> QED BY <3>2, <3>3
  <2> QED BY <2>1, <2>2
<1>7. P = SUBSET U
  <2>1. P \in SUBSET (SUBSET U)
    OBVIOUS
  <2> HIDE DEF P
  <2> QED BY <1>4, <1>5, <1>6, <2>1, SetOfSubsets
<1> QED BY <1>7

\* A total is the value of a function that satisfies the recursion of a sum.
LEMMA TotalIsSum ==
  ASSUME NEW S, IsFiniteSet(S), NEW h, IntsOn(h, S)
  PROVE  \E iter : IsSum(iter, h, S) /\ Total(h, S) = iter[S]
<1> DEFINE J(it) == it = [s \in SUBSET S |-> IF s = {} THEN 0 ELSE h[CHOOSE x \in s : TRUE] + it[s \ {CHOOSE x \in s : TRUE}]]
<1>1. \A it : J(it) <=> IsSum(it, h, S)
  BY DEF IsSum, OneOf
<1>2. Total(h, S) = (CHOOSE it : J(it))[S]
  BY Zenon DEF Total, MapThenSumSet, MapThenFoldSet
<1> HIDE DEF J
<1>3. \E it : J(it)
  <2>1. \E it : IsSum(it, h, S)
    BY SumExists
  <2> QED BY <1>1, <2>1
<1>4. J(CHOOSE it : J(it))
  BY <1>3
<1> QED BY <1>1, <1>2, <1>4

\* Whatever function satisfies the recursion of a sum yields the total.
LEMMA SumIsTotal ==
  ASSUME NEW S, IsFiniteSet(S), NEW h, IntsOn(h, S), NEW it, IsSum(it, h, S)
  PROVE  it[S] = Total(h, S)
<1>1. PICK jt : IsSum(jt, h, S) /\ Total(h, S) = jt[S]
  BY TotalIsSum
<1> QED BY <1>1, SumsAgree

LEMMA TotalOfNone == ASSUME NEW h PROVE Total(h, {}) = 0
<1>1. IsFiniteSet({}) /\ IntsOn(h, {})
  BY FS_EmptySet DEF IntsOn
<1>2. PICK it : IsSum(it, h, {}) /\ Total(h, {}) = it[{}]
  BY <1>1, TotalIsSum
<1> QED BY <1>2 DEF IsSum

LEMMA TotalsAgree ==
  ASSUME NEW S, IsFiniteSet(S), NEW h, NEW g, IntsOn(h, S), \A x \in S : h[x] = g[x]
  PROVE  Total(h, S) = Total(g, S)
<1>1. IntsOn(g, S)
  BY DEF IntsOn
<1>2. PICK it : IsSum(it, h, S) /\ Total(h, S) = it[S]
  BY TotalIsSum
<1>3. PICK jt : IsSum(jt, g, S) /\ Total(g, S) = jt[S]
  BY <1>1, TotalIsSum
<1> QED BY <1>1, <1>2, <1>3, SumsAgree

LEMMA TotalWithout ==
  ASSUME NEW S, IsFiniteSet(S), NEW h, IntsOn(h, S), NEW x \in S
  PROVE  Total(h, S) \in Int /\ Total(h, S \ {x}) \in Int /\ Total(h, S) = h[x] + Total(h, S \ {x})
<1> DEFINE R == S \ {x}
<1>1. IsFiniteSet(R) /\ IntsOn(h, R) /\ R \in SUBSET S /\ R \in SUBSET (S \cap R)
  BY FS_RemoveElement DEF IntsOn
<1>2. PICK it : IsSum(it, h, S) /\ Total(h, S) = it[S]
  BY TotalIsSum
<1>3. PICK jt : IsSum(jt, h, R) /\ Total(h, R) = jt[R]
  BY <1>1, TotalIsSum
<1>4. it[R] = jt[R]
  BY <1>1, <1>2, <1>3, SumsAgree
<1>5. it[S] \in Int /\ it[R] \in Int /\ it[S] = h[x] + it[R]
  BY <1>1, <1>2, SumInAnyOrder
<1> QED BY <1>2, <1>3, <1>4, <1>5

LEMMA TotalType ==
  ASSUME NEW S, IsFiniteSet(S), NEW h, IntsOn(h, S)
  PROVE  Total(h, S) \in Int
<1>1. PICK it : IsSum(it, h, S) /\ Total(h, S) = it[S]
  BY TotalIsSum
<1> QED BY <1>1, SumInAnyOrder

LEMMA TotalWith ==
  ASSUME NEW S, IsFiniteSet(S), NEW x, x \notin S, NEW h, IntsOn(h, S \cup {x})
  PROVE  Total(h, S \cup {x}) = Total(h, S) + h[x]
<1> DEFINE T == S \cup {x}
<1>1. IsFiniteSet(T) /\ T \ {x} = S /\ h[x] \in Int
  BY FS_AddElement DEF IntsOn
<1>2. Total(h, T) = h[x] + Total(h, T \ {x}) /\ Total(h, T \ {x}) \in Int
  BY <1>1, TotalWithout
<1> HIDE DEF T
<1>3. Total(h, T \ {x}) = Total(h, S)
  BY <1>1
<1>4. Total(h, T) = Total(h, S) + h[x]
  BY <1>1, <1>2, <1>3
<1> QED BY <1>4 DEF T

\* A set grows by one element and the summands of the others stay.
LEMMA TotalGrows ==
  ASSUME NEW S, IsFiniteSet(S), NEW x, x \notin S, NEW T, T = S \cup {x}, NEW h, IntsOn(h, S),
         NEW g, g[x] \in Int, \A y \in S : g[y] = h[y]
  PROVE  Total(g, T) = Total(h, S) + g[x]
<1>1. IntsOn(g, S \cup {x})
  BY DEF IntsOn
<1>2. Total(g, S) = Total(h, S)
  BY TotalsAgree
<1> QED BY <1>1, <1>2, TotalWith

LEMMA TotalOfOne ==
  ASSUME NEW x, NEW h, h[x] \in Int
  PROVE  Total(h, {x}) = h[x]
<1>1. IsFiniteSet({}) /\ IntsOn(h, {} \cup {x}) /\ {} \cup {x} = {x}
  BY FS_EmptySet DEF IntsOn
<1>2. Total(h, {} \cup {x}) = Total(h, {}) + h[x]
  BY <1>1, TotalWith
<1> QED BY <1>1, <1>2, TotalOfNone

\* The larger sum is the one over more elements with larger summands, as long as
\* what comes on top is not negative.
LEMMA TotalMonotone ==
  ASSUME NEW T, IsFiniteSet(T), NEW S \in SUBSET T, NEW h, IntsOn(h, S), NEW g, IntsOn(g, T),
         \A x \in S : h[x] <= g[x], \A x \in T \ S : g[x] >= 0
  PROVE  Total(h, S) <= Total(g, T)
<1>1. \A s \in SUBSET T : IsFiniteSet(s)
  BY FS_Subset
<1> DEFINE Q(s) == Total(h, s \cap S) <= Total(g, s)
           P == {s \in SUBSET T : Q(s)}
<1>2. ASSUME NEW s \in SUBSET T, \A x \in s : Q(s \ {x}) PROVE Q(s)
  <2>1. CASE s = {}
    <3>1. s \cap S = {}
      BY <2>1
    <3>2. Total(h, s \cap S) = 0 /\ Total(g, s) = 0
      BY <2>1, <3>1, TotalOfNone
    <3> QED BY <3>2
  <2>2. CASE s # {}
    <3>1. PICK x \in s : TRUE
      BY <2>2
    <3> DEFINE r == s \ {x}
               hs == s \cap S
    <3>2. IsFiniteSet(s) /\ IsFiniteSet(r) /\ IsFiniteSet(hs) /\ IsFiniteSet(r \cap S)
      BY <1>1
    <3>3. IntsOn(g, s) /\ IntsOn(h, hs) /\ IntsOn(h, r \cap S)
      BY DEF IntsOn
    <3>4. Total(g, s) \in Int /\ Total(g, r) \in Int /\ Total(g, s) = g[x] + Total(g, r)
      BY <3>1, <3>2, <3>3, TotalWithout
    <3>5. Total(h, r \cap S) <= Total(g, r) /\ Total(h, r \cap S) \in Int /\ g[x] \in Int
      <4>1. Q(r)
        BY <1>2, <3>1
      <4>2. Total(h, r \cap S) \in Int
        BY <3>2, <3>3, TotalType
      <4> QED BY <4>1, <4>2, <3>1 DEF IntsOn
    <3>6. CASE x \in S
      <4>1. hs \ {x} = r \cap S /\ x \in hs /\ h[x] \in Int /\ h[x] <= g[x]
        BY <3>1, <3>6 DEF IntsOn
      <4> HIDE DEF hs, r
      <4>2. Total(h, hs) = h[x] + Total(h, hs \ {x})
        BY <3>2, <3>3, <4>1, TotalWithout
      <4>3. Total(h, hs) = h[x] + Total(h, r \cap S)
        BY <4>1, <4>2
      <4> QED BY <3>4, <3>5, <4>1, <4>3 DEF hs
    <3>7. CASE x \notin S
      <4>1. hs = r \cap S /\ g[x] >= 0
        BY <3>1, <3>7
      <4> HIDE DEF hs, r
      <4>2. Total(h, hs) = Total(h, r \cap S)
        BY <4>1
      <4> QED BY <3>4, <3>5, <4>1, <4>2 DEF hs
    <3> QED BY <3>6, <3>7
  <2> QED BY <2>1, <2>2
<1>3. {} \in P
  <2>1. Q({})
    BY <1>2
  <2> QED BY <2>1
<1> HIDE DEF Q
<1>4. P = SUBSET T
  <2>1. P \in SUBSET (SUBSET T) /\ \A s \in SUBSET T : (\A x \in s : s \ {x} \in P) => s \in P
    BY <1>2
  <2> HIDE DEF P
  <2> QED BY <1>3, <2>1, SetOfSubsets
<1>5. Q(T)
  BY <1>4
<1>6. T \cap S = S
  OBVIOUS
<1> QED BY <1>5, <1>6 DEF Q

LEMMA TotalPositive ==
  ASSUME NEW S, IsFiniteSet(S), NEW h, IntsOn(h, S), \A x \in S : h[x] >= 0
  PROVE  Total(h, S) >= 0
<1>1. {} \in SUBSET S /\ IntsOn(h, {})
  BY DEF IntsOn
<1>2. Total(h, {}) <= Total(h, S)
  BY <1>1, TotalMonotone
<1> QED BY <1>2, TotalOfNone

\* No summand is more than the sum of summands that are not negative.
LEMMA TotalCovers ==
  ASSUME NEW S, IsFiniteSet(S), NEW h, IntsOn(h, S), \A x \in S : h[x] >= 0, NEW y \in S
  PROVE  h[y] <= Total(h, S)
<1>1. {y} \in SUBSET S /\ IntsOn(h, {y}) /\ h[y] \in Int /\ \A x \in {y} : h[x] <= h[x]
  BY DEF IntsOn
<1>2. Total(h, {y}) <= Total(h, S)
  BY <1>1, TotalMonotone
<1> QED BY <1>1, <1>2, TotalOfOne

LEMMA TotalOfZeros ==
  ASSUME NEW S, IsFiniteSet(S), NEW h, \A x \in S : h[x] = 0
  PROVE  Total(h, S) = 0
<1> DEFINE P == {s \in SUBSET S : Total(h, s) = 0}
<1>1. {} \in P
  BY TotalOfNone
<1>2. ASSUME NEW s \in SUBSET S, \A x \in s : s \ {x} \in P PROVE s \in P
  <2>1. CASE s = {}
    BY <1>1, <2>1
  <2>2. CASE s # {}
    <3>1. PICK x \in s : TRUE
      BY <2>2
    <3>2. IsFiniteSet(s) /\ IntsOn(h, s) /\ h[x] = 0
      BY <3>1, FS_Subset DEF IntsOn
    <3>3. Total(h, s) = h[x] + Total(h, s \ {x})
      BY <3>1, <3>2, TotalWithout
    <3>4. Total(h, s \ {x}) = 0
      BY <1>2, <3>1
    <3> QED BY <3>2, <3>3, <3>4
  <2> QED BY <2>1, <2>2
<1>3. P = SUBSET S
  <2>1. P \in SUBSET (SUBSET S)
    OBVIOUS
  <2> HIDE DEF P
  <2> QED BY <1>1, <1>2, <2>1, SetOfSubsets
<1> QED BY <1>3

LEMMA TotalOfSums ==
  ASSUME NEW S, IsFiniteSet(S), NEW f, IntsOn(f, S), NEW g, IntsOn(g, S),
         NEW h, \A x \in S : h[x] = f[x] + g[x]
  PROVE  Total(h, S) = Total(f, S) + Total(g, S)
<1> DEFINE Q(s) == Total(h, s) = Total(f, s) + Total(g, s)
           P == {s \in SUBSET S : Q(s)}
<1>1. {} \in P
  <2>1. Total(h, {}) = 0 /\ Total(f, {}) = 0 /\ Total(g, {}) = 0
    BY TotalOfNone
  <2> QED BY <2>1
<1>2. ASSUME NEW s \in SUBSET S, \A x \in s : Q(s \ {x}) PROVE Q(s)
  <2>1. CASE s = {}
    BY <1>1, <2>1
  <2>2. CASE s # {}
    <3>1. PICK x \in s : TRUE
      BY <2>2
    <3>2. IsFiniteSet(s)
      BY FS_Subset
    <3>3. IntsOn(f, s) /\ IntsOn(g, s) /\ IntsOn(h, s) /\ h[x] = f[x] + g[x] /\ f[x] \in Int /\ g[x] \in Int
      BY <3>1 DEF IntsOn
    <3>4. Total(h, s \ {x}) = Total(f, s \ {x}) + Total(g, s \ {x})
      BY <1>2, <3>1
    <3> DEFINE r == s \ {x}
    <3>5. Total(h, s) = h[x] + Total(h, r)
      BY <3>1, <3>2, <3>3, TotalWithout
    <3>6. Total(f, s) = f[x] + Total(f, r) /\ Total(f, r) \in Int
      BY <3>1, <3>2, <3>3, TotalWithout
    <3>7. Total(g, s) = g[x] + Total(g, r) /\ Total(g, r) \in Int
      BY <3>1, <3>2, <3>3, TotalWithout
    <3>8. Total(h, r) = Total(f, r) + Total(g, r)
      BY <3>4
    <3> HIDE DEF r, Q
    <3>9. Total(h, s) = Total(f, s) + Total(g, s)
      BY <3>3, <3>5, <3>6, <3>7, <3>8
    <3> QED BY <3>9 DEF Q
  <2> QED BY <2>1, <2>2
<1>3. ASSUME NEW s \in SUBSET S, \A x \in s : s \ {x} \in P PROVE s \in P
  BY <1>2, <1>3
<1> HIDE DEF Q
<1>4. P = SUBSET S
  <2>1. P \in SUBSET (SUBSET S)
    OBVIOUS
  <2> HIDE DEF P
  <2> QED BY <1>1, <1>3, <2>1, SetOfSubsets
<1>5. Q(S)
  BY <1>4
<1> QED BY <1>5 DEF Q

\* Summands of zero can be left out.
LEMMA TotalSupported ==
  ASSUME NEW T, IsFiniteSet(T), NEW S \in SUBSET T, NEW h, IntsOn(h, S), \A x \in T \ S : h[x] = 0
  PROVE  Total(h, S) = Total(h, T)
<1> DEFINE g == [x \in T |-> -h[x]]
           z == [x \in T |-> 0]
<1>1. IsFiniteSet(S) /\ IntsOn(h, T)
  BY FS_Subset DEF IntsOn
<1>2. IntsOn(g, T) /\ IntsOn(g, S) /\ \A x \in T : z[x] = h[x] + g[x] /\ z[x] = 0
  BY <1>1 DEF IntsOn
<1>3. \A x \in T \ S : h[x] >= 0 /\ g[x] >= 0
  OBVIOUS
<1>4. \A x \in T : h[x] \in Int /\ g[x] \in Int
  BY <1>1, <1>2 DEF IntsOn
<1> HIDE DEF g, z
<1>5. Total(h, S) <= Total(h, T) /\ Total(g, S) <= Total(g, T)
  BY <1>1, <1>2, <1>3, <1>4, TotalMonotone
<1>6. Total(z, S) = Total(h, S) + Total(g, S) /\ Total(z, S) = 0
  BY <1>1, <1>2, TotalOfSums, TotalOfZeros
<1>7. Total(z, T) = Total(h, T) + Total(g, T) /\ Total(z, T) = 0
  BY <1>1, <1>2, TotalOfSums, TotalOfZeros
<1>8. Total(h, S) \in Int /\ Total(h, T) \in Int /\ Total(g, S) \in Int /\ Total(g, T) \in Int
  BY <1>1, <1>2, TotalType
<1> QED BY <1>5, <1>6, <1>7, <1>8

\* A sum over a set is the sum, over the groups its elements fall into, of the
\* sums of the groups.
LEMMA TotalByGroup ==
  ASSUME NEW S, IsFiniteSet(S), NEW K, IsFiniteSet(K), NEW key \in [S -> K],
         NEW h, IntsOn(h, S), NEW sub, \A k \in K : sub[k] = Total(h, {x \in S : key[x] = k})
  PROVE  Total(sub, K) = Total(h, S)
<1> DEFINE In(s, k) == {x \in s : key[x] = k}
           Sub(s) == [k \in K |-> Total(h, In(s, k))]
           Q(s) == Total(Sub(s), K) = Total(h, s)
           P == {s \in SUBSET S : Q(s)}
<1>1. \A s \in SUBSET S : IsFiniteSet(s) /\ IntsOn(h, s)
  BY FS_Subset DEF IntsOn
<1>2. \A s \in SUBSET S : Sub(s) \in [K -> Int]
  <2> SUFFICES ASSUME NEW s \in SUBSET S, NEW k \in K PROVE Total(h, In(s, k)) \in Int
    OBVIOUS
  <2>1. In(s, k) \in SUBSET S
    OBVIOUS
  <2>2. IsFiniteSet(In(s, k)) /\ IntsOn(h, In(s, k))
    BY <1>1, <2>1, Zenon
  <2> HIDE DEF In
  <2> QED BY <2>2, TotalType
<1>3. Q({})
  <2>1. \A k \in K : Sub({})[k] = Total(h, {})
    <3>1. \A k \in K : In({}, k) = {}
      OBVIOUS
    <3> QED BY <3>1
  <2>2. \A k \in K : Sub({})[k] = 0
    BY <2>1, TotalOfNone
  <2> HIDE DEF Sub
  <2>3. Total(Sub({}), K) = 0
    BY <2>2, TotalOfZeros
  <2> QED BY <2>3, TotalOfNone
<1>4. ASSUME NEW s \in SUBSET S, \A x \in s : Q(s \ {x}) PROVE Q(s)
  <2>1. CASE s = {}
    BY <1>3, <2>1
  <2>2. CASE s # {}
    <3>1. PICK x \in s : TRUE
      BY <2>2
    <3> DEFINE r == s \ {x}
               c == key[x]
               g == Sub(s)
               f == Sub(r)
    <3>2. r \in SUBSET S /\ c \in K
      BY <3>1
    <3>3. \A k \in K \ {c} : g[k] = f[k]
      <4>1. \A k \in K \ {c} : In(s, k) = In(r, k)
        BY <3>1
      <4> QED BY <4>1
    <3>4. g[c] = f[c] + h[x]
      <4> DEFINE A == In(s, c)
      <4>1. x \in A /\ A \ {x} = In(r, c) /\ A \in SUBSET S
        BY <3>1
      <4>2. IsFiniteSet(A) /\ IntsOn(h, A)
        BY <1>1, <4>1
      <4>3. g[c] = Total(h, A) /\ f[c] = Total(h, In(r, c))
        BY <3>2
      <4> HIDE DEF A, g, f, In
      <4>4. Total(h, A) = h[x] + Total(h, A \ {x}) /\ Total(h, A \ {x}) \in Int
        BY <4>1, <4>2, TotalWithout
      <4>5. h[x] \in Int
        BY <3>1 DEF IntsOn
      <4>6. Total(h, A \ {x}) = f[c]
        BY <4>1, <4>3
      <4>7. Total(h, A) = g[c]
        BY <4>3
      <4> QED BY <4>4, <4>5, <4>6, <4>7
    <3>5. g \in [K -> Int] /\ f \in [K -> Int]
      BY <1>2, <3>2
    <3>6. Total(f, K) = Total(h, r)
      BY <1>4, <3>1
    <3> HIDE DEF r, c, g, f, In
    <3>7. IntsOn(g, K) /\ IntsOn(f, K) /\ IntsOn(f, K \ {c}) /\ IsFiniteSet(K \ {c})
      BY <3>5, FS_RemoveElement, FS_Subset DEF IntsOn
    <3>8. Total(g, K) = g[c] + Total(g, K \ {c}) /\ Total(f, K) = f[c] + Total(f, K \ {c})
      BY <3>2, <3>7, TotalWithout
    <3>9. Total(f, K \ {c}) = Total(g, K \ {c}) /\ Total(f, K \ {c}) \in Int
      <4>1. Total(f, K \ {c}) = Total(g, K \ {c})
        BY <3>3, <3>7, TotalsAgree
      <4>2. Total(f, K \ {c}) \in Int
        BY <3>7, TotalType
      <4> QED BY <4>1, <4>2
    <3>10. Total(h, s) = h[x] + Total(h, r)
      BY <3>1, <1>1, TotalWithout DEF r
    <3>11. h[x] \in Int /\ f[c] \in Int
      BY <3>1, <3>2, <3>5 DEF IntsOn
    <3>12. Total(g, K) = Total(h, s)
      <4>1. Total(g, K) = (f[c] + h[x]) + Total(f, K \ {c})
        BY <3>4, <3>8, <3>9
      <4>2. Total(h, s) = h[x] + (f[c] + Total(f, K \ {c}))
        BY <3>6, <3>8, <3>10
      <4> QED BY <3>9, <3>11, <4>1, <4>2
    <3> QED BY <3>12 DEF g
  <2> QED BY <2>1, <2>2
<1> HIDE DEF Q
<1>5. P = SUBSET S
  <2>1. P \in SUBSET (SUBSET S) /\ {} \in P
    BY <1>3
  <2>2. \A s \in SUBSET S : (\A x \in s : s \ {x} \in P) => s \in P
    BY <1>4
  <2> HIDE DEF P
  <2> QED BY <2>1, <2>2, SetOfSubsets
<1>6. Q(S)
  BY <1>5
<1>7. \A k \in K : sub[k] = Sub(S)[k]
  OBVIOUS
<1>8. Sub(S) \in [K -> Int]
  BY <1>2
<1>9. Total(Sub(S), K) = Total(h, S)
  BY <1>6 DEF Q
<1> HIDE DEF Sub
<1>10. Total(Sub(S), K) = Total(sub, K)
  BY <1>7, <1>8, TotalsAgree DEF IntsOn
<1> QED BY <1>9, <1>10

\* SumSet adds the elements of a set themselves.
LEMMA SumSetIsTotal ==
  ASSUME NEW S, IsFiniteSet(S), S \subseteq Int
  PROVE  SumSet(S) = Total([x \in S |-> x], S)
<1> DEFINE h == [x \in S |-> x]
           J(it) == it = [s \in SUBSET S |-> IF s = {} THEN 0 ELSE (CHOOSE x \in s : TRUE) + it[s \ {CHOOSE x \in s : TRUE}]]
<1>1. SumSet(S) = (CHOOSE it : J(it))[S]
  BY Zenon DEF SumSet, FoldSet, MapThenFoldSet
<1>2. \A it : J(it) <=> IsSum(it, h, S)
  <2>1. \A s \in SUBSET S : s # {} => OneOf(s) \in s /\ h[OneOf(s)] = OneOf(s)
    BY DEF OneOf
  <2>2. \A it, s : s \in SUBSET S =>
          (IF s = {} THEN 0 ELSE OneOf(s) + it[s \ {OneOf(s)}]) = (IF s = {} THEN 0 ELSE h[OneOf(s)] + it[s \ {OneOf(s)}])
    BY <2>1
  <2> HIDE DEF h
  <2>3. \A it : J(it) <=> it = [s \in SUBSET S |-> IF s = {} THEN 0 ELSE OneOf(s) + it[s \ {OneOf(s)}]]
    BY DEF OneOf
  <2> HIDE DEF J
  <2> QED BY <2>2, <2>3 DEF IsSum
<1>3. IntsOn(h, S)
  BY DEF IntsOn
<1> HIDE DEF J, h
<1>4. \E it : J(it)
  <2>1. \E it : IsSum(it, h, S)
    BY <1>3, SumExists
  <2> QED BY <1>2, <2>1
<1>5. J(CHOOSE it : J(it))
  BY <1>4
<1>6. (CHOOSE it : J(it))[S] = Total(h, S)
  BY <1>2, <1>3, <1>5, SumIsTotal
<1> QED BY <1>1, <1>6 DEF h

LEMMA SumSetOfOne == ASSUME NEW n \in Int PROVE SumSet({n}) = n
<1> DEFINE h == [x \in {n} |-> x]
<1>1. IsFiniteSet({n}) /\ {n} \subseteq Int /\ h[n] = n
  BY FS_Singleton
<1>2. SumSet({n}) = Total(h, {n})
  BY <1>1, SumSetIsTotal
<1> HIDE DEF h
<1> QED BY <1>1, <1>2, TotalOfOne

LEMMA SumSetOfNone == SumSet({}) = 0
<1>1. IsFiniteSet({}) /\ {} \subseteq Int
  BY FS_EmptySet
<1>2. SumSet({}) = Total([x \in {} |-> x], {})
  BY <1>1, SumSetIsTotal
<1> QED BY <1>2, TotalOfNone
=============================================================================
