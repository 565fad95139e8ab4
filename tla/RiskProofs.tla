------------------------------ MODULE RiskProofs ------------------------------
(***************************************************************************)
(* Theorems about the limits of RiskCheck, for every batch, account and    *)
(* configuration.                                                          *)
(***************************************************************************)
EXTENDS RiskLimits, FoldProofs

-----------------------------------------------------------------------------
(* Sets in ascending order *)

LEMMA LargestExists ==
  ASSUME NEW S \in SUBSET Int, IsFiniteSet(S), S # {}
  PROVE  \E m \in S : \A x \in S : x <= m
<1> DEFINE P == {s \in SUBSET S : s = {} \/ \E m \in s : \A x \in s : x <= m}
<1>1. {} \in P
  OBVIOUS
<1>2. ASSUME NEW s \in SUBSET S, \A x \in s : s \ {x} \in P PROVE s \in P
  <2>1. CASE s = {}
    BY <2>1
  <2>2. CASE s # {}
    <3>1. PICK x \in s : TRUE
      BY <2>2
    <3>2. s \ {x} = {} \/ \E m \in s \ {x} : \A y \in s \ {x} : y <= m
      BY <1>2, <3>1
    <3>3. CASE s \ {x} = {}
      <4>1. s = {x}
        BY <3>1, <3>3
      <4>2. \A y \in s : y <= x
        BY <4>1
      <4> QED BY <3>1, <4>2
    <3>4. CASE \E m \in s \ {x} : \A y \in s \ {x} : y <= m
      <4>1. PICK m \in s \ {x} : \A y \in s \ {x} : y <= m
        BY <3>4
      <4>2. CASE x <= m
        <5>1. \A y \in s : y <= m
          BY <4>1, <4>2
        <5> QED BY <4>1, <5>1
      <4>3. CASE ~(x <= m)
        <5>1. \A y \in s : y <= x
          BY <4>1, <4>3
        <5> QED BY <3>1, <5>1
      <4> QED BY <4>2, <4>3
    <3> QED BY <3>2, <3>3, <3>4
  <2> QED BY <2>1, <2>2
<1>3. P = SUBSET S
  <2>1. P \in SUBSET (SUBSET S)
    OBVIOUS
  <2> HIDE DEF P
  <2> QED BY <1>1, <1>2, <2>1, SetOfSubsets
<1>4. S \in P
  BY <1>3
<1> QED BY <1>4

Sorts(f, S) == f \in [1..Cardinality(S) -> S] /\ \A j, k \in 1..Cardinality(S) : j < k => f[j] < f[k]

LEMMA SortExists ==
  ASSUME NEW S \in SUBSET Int, IsFiniteSet(S)
  PROVE  \E f : Sorts(f, S)
<1> DEFINE P == {s \in SUBSET S : \E f : Sorts(f, s)}
<1>1. \A s \in SUBSET S : IsFiniteSet(s) /\ Cardinality(s) \in Nat
  BY FS_Subset, FS_CardinalityType
<1>2. {} \in P
  <2> DEFINE f == [k \in 1..0 |-> 0]
  <2>1. Cardinality({}) = 0
    BY FS_EmptySet
  <2>2. Sorts(f, {})
    BY <2>1 DEF Sorts
  <2> HIDE DEF f
  <2> QED BY <2>2
<1>3. ASSUME NEW s \in SUBSET S, \A x \in s : s \ {x} \in P PROVE s \in P
  <2>1. CASE s = {}
    BY <1>2, <2>1
  <2>2. CASE s # {}
    <3>1. PICK m \in s : \A x \in s : x <= m
      BY <1>1, <2>2, LargestExists
    <3> DEFINE n == Cardinality(s)
               r == s \ {m}
    <3>2. PICK f : Sorts(f, r)
      BY <1>3, <3>1
    <3>3. n \in Nat /\ Cardinality(r) = n - 1 /\ Cardinality(r) \in Nat
      BY <1>1, <3>1, FS_RemoveElement
    <3> HIDE DEF n
    <3> DEFINE c == Cardinality(r)
    <3>10. f \in [1..c -> r] /\ \A j, k \in 1..c : j < k => f[j] < f[k]
      BY <3>2 DEF Sorts
    <3>11. c = n - 1 /\ c \in Nat
      BY <3>3
    <3> HIDE DEF c
    <3>12. \A k \in 1..n : k # n => k \in 1..c
      BY <3>3, <3>11
    <3>4. \A k \in 1..n : k # n => f[k] \in r
      BY <3>10, <3>12
    <3>5. \A j, k \in 1..n : j < k /\ k # n => f[j] < f[k]
      <4> SUFFICES ASSUME NEW j \in 1..n, NEW k \in 1..n, j < k, k # n PROVE f[j] < f[k]
        OBVIOUS
      <4>1. j # n
        BY <3>3
      <4>2. j \in 1..c /\ k \in 1..c
        BY <3>12, <4>1
      <4> QED BY <3>10, <4>2
    <3>6. \A x \in r : x < m
      BY <3>1
    <3> DEFINE g == [k \in 1..n |-> IF k = n THEN m ELSE f[k]]
    <3>7. g \in [1..n -> s]
      BY <3>1, <3>4
    <3>8. \A j, k \in 1..n : j < k => g[j] < g[k]
      <4> SUFFICES ASSUME NEW j \in 1..n, NEW k \in 1..n, j < k PROVE g[j] < g[k]
        OBVIOUS
      <4>1. j # n /\ g[j] = f[j] /\ f[j] \in r
        BY <3>3, <3>4
      <4>2. CASE k = n
        BY <3>6, <4>1, <4>2
      <4>3. CASE k # n
        BY <3>5, <4>1, <4>3
      <4> QED BY <4>2, <4>3
    <3>9. Sorts(g, s)
      <4> HIDE DEF g
      <4> QED BY <3>7, <3>8 DEF Sorts, n
    <3> HIDE DEF g
    <3> QED BY <3>9
  <2> QED BY <2>1, <2>2
<1>4. P = SUBSET S
  <2>1. P \in SUBSET (SUBSET S)
    OBVIOUS
  <2> HIDE DEF P
  <2> QED BY <1>2, <1>3, <2>1, SetOfSubsets
<1>5. S \in P
  BY <1>4
<1> QED BY <1>5

\* A list in ascending order names every element once.
LEMMA SortsLists ==
  ASSUME NEW S \in SUBSET Int, IsFiniteSet(S), NEW f, Sorts(f, S)
  PROVE  /\ Cardinality(S) \in Nat
         /\ \A j, k \in 1..Cardinality(S) : f[j] = f[k] => j = k
         /\ \A x \in S : \E k \in 1..Cardinality(S) : f[k] = x
<1> DEFINE n == Cardinality(S)
<1>1. n \in Nat
  BY FS_CardinalityType
<1>2. f \in [1..n -> S] /\ \A j, k \in 1..n : j < k => f[j] < f[k]
  BY DEF Sorts
<1> HIDE DEF n
<1>3. \A j, k \in 1..n : f[j] = f[k] => j = k
  <2> SUFFICES ASSUME NEW j \in 1..n, NEW k \in 1..n, f[j] = f[k], j # k PROVE FALSE
    OBVIOUS
  <2>1. f[j] \in Int /\ f[k] \in Int
    BY <1>2
  <2>2. j < k \/ k < j
    BY <1>1
  <2> QED BY <1>2, <2>1, <2>2
<1>4. f \in Injection(1..n, S)
  BY <1>2, <1>3 DEF Injection, IsInjective
<1>5. Cardinality(1..n) = n
  BY <1>1, FS_Interval
<1>6. f \in Surjection(1..n, S)
  BY <1>4, <1>5, FS_Injection DEF n
<1>7. \A x \in S : \E k \in 1..n : f[k] = x
  BY <1>6 DEF Surjection
<1> QED BY <1>1, <1>3, <1>7 DEF n

LEMMA InOrderIsSorted ==
  ASSUME NEW S \in SUBSET Int, IsFiniteSet(S)
  PROVE  Sorts(InOrder(S), S)
<1> DEFINE f == InOrder(S)
<1>1. PICK g : Sorts(g, S)
  BY SortExists
<1>2. g \in [1..Cardinality(S) -> S] /\ \A j, k \in DOMAIN g : j < k => g[j] < g[k]
  BY <1>1 DEF Sorts
<1>3. f \in [1..Cardinality(S) -> S] /\ \A j, k \in DOMAIN f : j < k => f[j] < f[k]
  BY <1>2, Zenon DEF InOrder
<1>4. DOMAIN f = 1..Cardinality(S)
  BY <1>3
<1> HIDE DEF f
<1>5. Sorts(f, S)
  BY <1>3, <1>4 DEF Sorts
<1> QED BY <1>5 DEF f

\* There is but one.
LEMMA SortsAgree ==
  ASSUME NEW S \in SUBSET Int, IsFiniteSet(S), NEW f, Sorts(f, S), NEW g, Sorts(g, S)
  PROVE  f = g
<1> DEFINE n == Cardinality(S)
           P == {j \in Nat : \A k \in 1..n : k <= j => f[k] = g[k]}
<1> HIDE DEF P
<1>1. n \in Nat
  BY SortsLists
<1>21. f \in [1..n -> S] /\ \A j, k \in 1..n : j < k => f[j] < f[k]
  BY Zenon DEF Sorts
<1>22. \A j, k \in 1..n : f[j] = f[k] => j = k
  BY SortsLists, Zenon
<1>23. \A x \in S : \E k \in 1..n : f[k] = x
  BY SortsLists
<1>31. g \in [1..n -> S] /\ \A j, k \in 1..n : j < k => g[j] < g[k]
  BY Zenon DEF Sorts
<1>32. \A j, k \in 1..n : g[j] = g[k] => j = k
  BY SortsLists, Zenon
<1>33. \A x \in S : \E k \in 1..n : g[k] = x
  BY SortsLists
<1> HIDE DEF n
<1>4. ASSUME NEW k \in 1..n, NEW h, NEW e,
             h \in [1..n -> S], \A i, j \in 1..n : i < j => h[i] < h[j],
             \A x \in S : \E j \in 1..n : h[j] = x,
             e \in [1..n -> S], \A i, j \in 1..n : e[i] = e[j] => i = j,
             \A j \in 1..n : j < k => h[j] = e[j]
      PROVE  h[k] <= e[k]
  <2>1. PICK x \in 1..n : h[x] = e[k]
    BY <1>4
  <2>2. ~(x < k)
    <3> SUFFICES ASSUME x < k PROVE FALSE
      OBVIOUS
    <3>1. e[x] = e[k] /\ x # k
      BY <1>4, <2>1
    <3> QED BY <1>4, <3>1
  <2>3. x = k \/ k < x
    BY <1>1, <2>2
  <2>4. h[k] \in Int /\ h[x] \in Int
    BY <1>4
  <2> QED BY <1>4, <2>1, <2>3, <2>4
<1> USE DEF P
<1>5. 0 \in P
  BY <1>1
<1>6. ASSUME NEW j \in P PROVE j + 1 \in P
  <2> SUFFICES ASSUME NEW k \in 1..n, k = j + 1 PROVE f[k] = g[k]
    BY <1>1
  <2>1. \A i \in 1..n : i < k => f[i] = g[i]
    BY <1>1
  <2>2. f[k] <= g[k]
    BY <1>21, <1>23, <1>31, <1>32, <1>4, <2>1, Zenon
  <2>3. \A i \in 1..n : i < k => g[i] = f[i]
    BY <2>1
  <2>4. g[k] <= f[k]
    BY <1>31, <1>33, <1>21, <1>22, <1>4, <2>3, Zenon
  <2>5. f[k] \in Int /\ g[k] \in Int
    BY <1>21, <1>31
  <2> QED BY <2>2, <2>4, <2>5
<1>7. P = Nat
  <2>1. P \in SUBSET Nat
    OBVIOUS
  <2> HIDE DEF P
  <2> QED BY <1>5, <1>6, <2>1, SetOfNaturals
<1> HIDE DEF P
<1>8. \A k \in 1..n : k \in P
  BY <1>1, <1>7
<1>9. \A k \in 1..n : f[k] = g[k]
  BY <1>1, <1>8 DEF P
<1>10. f = [k \in 1..n |-> f[k]] /\ g = [k \in 1..n |-> g[k]]
  BY <1>21, <1>31
<1> QED BY <1>9, <1>10

\* InOrder lists every element once, in ascending order.
LEMMA InOrderSorts ==
  ASSUME NEW S \in SUBSET Int, IsFiniteSet(S)
  PROVE  /\ InOrder(S) \in [1..Cardinality(S) -> S]
         /\ Cardinality(S) \in Nat
         /\ \A j, k \in 1..Cardinality(S) : InOrder(S)[j] = InOrder(S)[k] => j = k
         /\ \A x \in S : \E k \in 1..Cardinality(S) : InOrder(S)[k] = x
<1>1. Sorts(InOrder(S), S)
  BY InOrderIsSorted
<1>2. InOrder(S) \in [1..Cardinality(S) -> S]
  BY <1>1 DEF Sorts
<1> QED BY <1>1, <1>2, SortsLists

-----------------------------------------------------------------------------
(* The binary search *)

LEMMA MaxOfRange == ASSUME NEW n \in Nat PROVE Max(0..n) = n
<1>1. n \in 0..n /\ \A y \in 0..n : n >= y
  OBVIOUS
<1>2. Max(0..n) \in 0..n /\ \A y \in 0..n : Max(0..n) >= y
  BY <1>1 DEF Max
<1> QED BY <1>1, <1>2

\* What MaxWithin finds lies in the range and, unless it is 0, fits, one more does
\* not fit, and what fits as a whole is found at once.
LEMMA MaxWithinFits ==
  ASSUME NEW n \in Nat, NEW fits, DOMAIN fits = 0..n
  PROVE  /\ MaxWithin(fits) \in 0..n
         /\ MaxWithin(fits) > 0 => fits[MaxWithin(fits)]
         /\ MaxWithin(fits) < n => ~fits[MaxWithin(fits) + 1]
         /\ n > 0 /\ fits[1] /\ fits[n] => MaxWithin(fits) = n
<1> DEFINE cap == Max(DOMAIN fits)
           R == (1..cap) \X (1..cap)
           Mid(r) == r[1] + (r[2] - r[1] + 1) \div 2
           Half(r) == IF fits[Mid(r)] THEN <<Mid(r), r[2]>> ELSE <<r[1], Mid(r) - 1>>
           Then(f, r) == IF r[1] >= r[2] THEN r[1] ELSE f[Half(r)]
           End(k) == ~fits[k + 1]
           J(f) == f = [r \in (1..cap) \X (1..cap) |->
                          LET lo == r[1]
                              hi == r[2]
                              mid == lo + (hi - lo + 1) \div 2
                          IN  IF lo >= hi THEN lo ELSE f[IF fits[mid] THEN <<mid, hi>> ELSE <<lo, mid - 1>>]]
<1>1. MaxWithin(fits) = IF cap <= 0 \/ ~fits[1] THEN 0 ELSE IF fits[cap] THEN cap ELSE (CHOOSE f : J(f))[<<1, cap>>]
  BY Zenon DEF MaxWithin
<1>2. \A f : J(f) <=> f = [r \in R |-> Then(f, r)]
  BY Zenon
<1>3. cap = n
  BY MaxOfRange
<1> HIDE DEF J, cap
<1>4. CASE n = 0 \/ ~fits[1] \/ fits[n]
  BY <1>1, <1>3, <1>4
<1>5. CASE n > 0 /\ fits[1] /\ ~fits[n]
  <2>1. R = (1..n) \X (1..n)
    BY <1>3
  <2> HIDE DEF R
  <2>2. \A r \in R : r[1] \in 1..n /\ r[2] \in 1..n /\ r = <<r[1], r[2]>>
    BY <2>1
  <2>3. ASSUME NEW r \in R, r[1] < r[2]
        PROVE  /\ Mid(r) \in r[1]..r[2] /\ Mid(r) > r[1]
               /\ Half(r) \in R /\ Half(r)[2] - Half(r)[1] < r[2] - r[1]
               /\ Half(r)[1] >= r[1] /\ Half(r)[2] <= r[2]
               /\ Half(r)[1] <= Half(r)[2]
               /\ fits[r[1]] => fits[Half(r)[1]]
               /\ r[2] = n \/ End(r[2]) => Half(r)[2] = n \/ End(Half(r)[2])
    <3>1. r[1] \in 1..n /\ r[2] \in 1..n
      BY <2>2
    <3>2. Mid(r) \in r[1]..r[2] /\ Mid(r) > r[1]
      BY <2>3, <3>1
    <3> HIDE DEF Mid
    <3>3. CASE fits[Mid(r)]
      <4>1. Half(r) = <<Mid(r), r[2]>>
        BY <3>3
      <4> HIDE DEF Half
      <4>2. Half(r)[1] = Mid(r) /\ Half(r)[2] = r[2]
        BY <4>1
      <4> QED BY <2>1, <3>1, <3>2, <3>3, <4>1, <4>2
    <3>4. CASE ~fits[Mid(r)]
      <4>1. Half(r) = <<r[1], Mid(r) - 1>>
        BY <3>4
      <4> HIDE DEF Half
      <4>2. Half(r)[1] = r[1] /\ Half(r)[2] = Mid(r) - 1
        BY <4>1
      <4>3. End(Mid(r) - 1)
        <5>1. Mid(r) - 1 + 1 = Mid(r)
          BY <3>1, <3>2
        <5> QED BY <3>4, <5>1
      <4> QED BY <2>1, <3>1, <3>2, <3>4, <4>1, <4>2, <4>3
    <3> QED BY <3>3, <3>4
  <2> HIDE DEF Half, Mid, End
  <2>4. \A f, g, r : r[1] >= r[2] \/ f[Half(r)] = g[Half(r)] => Then(f, r) = Then(g, r)
    OBVIOUS
  <2> DEFINE Upto(f, k) == \A r \in R : r[2] - r[1] <= k => f[r] = Then(f, r)
             N == {k \in Nat : \E f : Upto(f, k)}
  <2>5. 0 \in N
    <3> DEFINE f == [r \in R |-> r[1]]
    <3>1. \A r \in R : f[r] = r[1]
      OBVIOUS
    <3> HIDE DEF f
    <3>2. \A r \in R : r[2] - r[1] <= 0 => f[r] = Then(f, r)
      BY <2>2, <3>1
    <3> QED BY <3>2
  <2>6. ASSUME NEW k \in N PROVE k + 1 \in N
    <3>1. k \in Nat /\ \E f : Upto(f, k)
      OBVIOUS
    <3>2. PICK f : Upto(f, k)
      BY <3>1
    <3> DEFINE g == [r \in R |-> Then(f, r)]
    <3>3. \A r \in R : g[r] = Then(f, r)
      OBVIOUS
    <3> HIDE DEF g, Then
    <3>4. \A r \in R : r[2] - r[1] <= k => g[r] = f[r]
      BY <3>2, <3>3
    <3>5. ASSUME NEW r \in R, r[2] - r[1] <= k + 1 PROVE g[r] = Then(g, r)
      <4>1. CASE r[1] >= r[2]
        BY <2>4, <3>3, <4>1
      <4>2. CASE ~(r[1] >= r[2])
        <5>1. r[1] < r[2] /\ r[1] \in Int /\ r[2] \in Int
          BY <2>2, <4>2
        <5>2. Half(r) \in R /\ Half(r)[2] - Half(r)[1] < r[2] - r[1]
          BY <2>3, <5>1
        <5>3. Half(r)[1] \in Int /\ Half(r)[2] \in Int
          BY <2>2, <5>2
        <5>4. Half(r)[2] - Half(r)[1] <= k
          BY <3>1, <3>5, <5>1, <5>2, <5>3
        <5>5. g[Half(r)] = f[Half(r)]
          BY <3>4, <5>2, <5>4
        <5> QED BY <2>4, <3>3, <5>5
      <4> QED BY <4>1, <4>2
    <3>6. Upto(g, k + 1)
      BY <3>5
    <3> QED BY <3>1, <3>6
  <2> HIDE DEF Then, Upto
  <2>7. n \in N
    <3>1. N \in SUBSET Nat
      OBVIOUS
    <3> HIDE DEF N
    <3>2. N = Nat
      BY <2>5, <2>6, <3>1, SetOfNaturals
    <3> QED BY <3>2
  <2>8. \E f : J(f)
    <3>1. PICK f : Upto(f, n)
      BY <2>7
    <3> DEFINE g == [r \in R |-> f[r]]
    <3>2. \A r \in R : r[2] - r[1] <= n
      BY <2>2
    <3>3. \A r \in R : f[r] = Then(f, r) /\ g[r] = f[r]
      BY <3>1, <3>2 DEF Upto
    <3>4. \A r \in R : Then(g, r) = Then(f, r)
      <4> SUFFICES ASSUME NEW r \in R PROVE r[1] >= r[2] \/ g[Half(r)] = f[Half(r)]
        BY <2>4
      <4>1. r[1] \in Int /\ r[2] \in Int
        BY <2>2
      <4>2. CASE r[1] < r[2]
        BY <2>3, <3>3, <4>2
      <4> QED BY <4>1, <4>2
    <3>5. g = [r \in R |-> Then(g, r)]
      BY <3>3, <3>4
    <3> HIDE DEF g
    <3> QED BY <1>2, <3>5
  <2> DEFINE f == CHOOSE f : J(f)
  <2>9. J(f)
    BY <2>8
  <2> HIDE DEF f
  <2>10. \A r \in R : f[r] = Then(f, r)
    BY <1>2, <2>9
  <2> DEFINE Good(k) == \A r \in R : r[1] <= r[2] /\ r[2] - r[1] <= k /\ fits[r[1]] /\ (r[2] = n \/ End(r[2])) =>
                          f[r] \in r[1]..r[2] /\ fits[f[r]] /\ (f[r] = n \/ End(f[r]))
             M == {k \in Nat : Good(k)}
  <2>11. Good(0)
    <3> SUFFICES ASSUME NEW r \in R, r[1] <= r[2], r[2] - r[1] <= 0, fits[r[1]], r[2] = n \/ End(r[2])
                 PROVE  f[r] \in r[1]..r[2] /\ fits[f[r]] /\ (f[r] = n \/ End(f[r]))
      OBVIOUS
    <3>1. r[1] = r[2] /\ r[1] \in Int
      BY <2>2
    <3>2. f[r] = r[1]
      BY <2>10, <3>1 DEF Then
    <3> QED BY <3>1, <3>2
  <2>12. ASSUME NEW k \in M PROVE k + 1 \in M
    <3>1. k \in Nat /\ Good(k)
      OBVIOUS
    <3> SUFFICES ASSUME NEW r \in R, r[1] <= r[2], r[2] - r[1] <= k + 1, fits[r[1]], r[2] = n \/ End(r[2])
                 PROVE  f[r] \in r[1]..r[2] /\ fits[f[r]] /\ (f[r] = n \/ End(f[r]))
      OBVIOUS
    <3>2. r[1] \in Int /\ r[2] \in Int
      BY <2>2
    <3>3. CASE r[1] = r[2]
      <4>1. f[r] = r[1]
        BY <2>10, <3>2, <3>3 DEF Then
      <4> QED BY <3>2, <3>3, <4>1
    <3>4. CASE r[1] < r[2]
      <4> DEFINE s == Half(r)
      <4>1. /\ s \in R /\ s[2] - s[1] < r[2] - r[1] /\ s[1] >= r[1] /\ s[2] <= r[2] /\ s[1] <= s[2]
            /\ fits[s[1]] /\ (s[2] = n \/ End(s[2]))
        BY <2>3, <3>4
      <4>2. f[r] = f[s]
        BY <2>10, <3>2, <3>4 DEF Then
      <4> HIDE DEF s
      <4>3. s[1] \in Int /\ s[2] \in Int
        BY <2>2, <4>1
      <4>4. s[2] - s[1] <= k
        BY <3>1, <3>2, <4>1, <4>3
      <4>5. f[s] \in s[1]..s[2] /\ fits[f[s]] /\ (f[s] = n \/ End(f[s]))
        BY <3>1, <4>1, <4>4
      <4> QED BY <3>2, <4>1, <4>2, <4>3, <4>5
    <3> QED BY <3>2, <3>3, <3>4
  <2>13. Good(n)
    <3>1. M \in SUBSET Nat /\ 0 \in M
      BY <2>11
    <3> HIDE DEF M
    <3>2. M = Nat
      BY <2>12, <3>1, SetOfNaturals
    <3> QED BY <3>2 DEF M
  <2> DEFINE r == <<1, n>>
  <2>14. r \in R /\ r[1] = 1 /\ r[2] = n
    BY <1>5, <2>1
  <2>15. MaxWithin(fits) = f[r]
    BY <1>1, <1>3, <1>5 DEF f
  <2> HIDE DEF r
  <2>16. f[r] \in r[1]..r[2] /\ fits[f[r]] /\ (f[r] = n \/ End(f[r]))
    BY <1>5, <2>13, <2>14
  <2>17. ~fits[f[r] + 1]
    BY <1>5, <2>16 DEF End
  <2> QED BY <1>5, <2>14, <2>15, <2>16, <2>17
<1> QED BY <1>4, <1>5

-----------------------------------------------------------------------------
(* Prices and notionals *)

LEMMA ModBelow ==
  ASSUME NEW a \in Nat, NEW w \in Nat \ {0}
  PROVE  a % w \in Nat /\ a % w <= a
OBVIOUS

LEMMA DivTimes ==
  ASSUME NEW a \in Nat, NEW d \in Nat \ {0}
  PROVE  a \div d \in Nat /\ d * (a \div d) <= a
OBVIOUS

\* A product that divides back to its factor has not wrapped (sharesFor).
LEMMA SharesExact ==
  ASSUME NEW q \in Int, NEW l \in Int, NEW n \in SharesFor(q, l)
  PROVE  q > 0 /\ l > 0 /\ n = q * l /\ n > 0
<1> DEFINE x == q * l
           m == MaxInt + 1
<1>1. q > 0 /\ l > 0 /\ n = Wrapped(x) /\ TruncDiv(n, l) = q
  BY DEF SharesFor
<1>2. x \in Nat /\ x > 0
  BY <1>1
<1> HIDE DEF x
<1>3. MaxInt \in Nat /\ m \in Nat /\ 2 * m \in Nat \ {0} /\ x + m \in Nat /\ x + MaxInt + 1 = x + m
  BY <1>2, WidthAssumption
<1>4. n = ((x + m) % (2 * m)) - m
  <2>1. Wrapped(x) = ((x + MaxInt + 1) % (2 * (MaxInt + 1))) - (MaxInt + 1)
    BY DEF Wrapped
  <2> QED BY <1>1, <1>3, <2>1
<1> HIDE DEF m
<1>5. (x + m) % (2 * m) \in Nat /\ (x + m) % (2 * m) <= x + m
  BY <1>3, ModBelow
<1>6. n \in Int /\ n <= x
  BY <1>2, <1>3, <1>4, <1>5
<1>7. n > 0
  <2>1. CASE n >= 0
    <3>1. TruncDiv(n, l) = n \div l
      BY <2>1 DEF TruncDiv
    <3> QED BY <1>1, <1>6, <2>1, <3>1
  <2>2. CASE n < 0
    <3>1. TruncDiv(n, l) = -((-n) \div l) /\ -n \in Nat
      BY <1>6, <2>2 DEF TruncDiv
    <3>2. (-n) \div l \in Nat
      BY <1>1, <3>1, DivTimes
    <3> QED BY <1>1, <3>1, <3>2
  <2> QED BY <1>6, <2>1, <2>2
<1>8. l * (n \div l) <= n /\ n \div l = q
  <2>1. TruncDiv(n, l) = n \div l
    BY <1>6, <1>7 DEF TruncDiv
  <2>2. n \in Nat /\ l \in Nat \ {0}
    BY <1>1, <1>6, <1>7
  <2> QED BY <1>1, <2>1, <2>2, DivTimes
<1>9. l * q <= n
  BY <1>8
<1>10. l * q = q * l
  OBVIOUS
<1>11. q * l <= n /\ n <= q * l
  BY <1>6, <1>9, <1>10 DEF x
<1> QED BY <1>1, <1>6, <1>7, <1>11

\* A notional is the product it stands for, and the whole of it is positive.
LEMMA NotionalExact ==
  ASSUME NEW q \in Int, NEW l \in Int, NEW p \in Int, NEW n \in NotionalOf(q, l, p)
  PROVE  q > 0 /\ l > 0 /\ p > 0 /\ n = p * (q * l) /\ n \in Nat /\ n > 0
<1>1. PICK shares \in SharesFor(q, l) : n = p * shares /\ p > 0
  BY DEF NotionalOf
<1>2. q > 0 /\ l > 0 /\ shares = q * l /\ shares > 0 /\ shares \in Int
  BY <1>1, SharesExact
<1>3. p * shares \in Int /\ p * shares > 0
  BY <1>1, <1>2
<1> QED BY <1>1, <1>2, <1>3

LEMMA DivBack ==
  ASSUME NEW m \in Nat, NEW l \in Nat \ {0}
  PROVE  (m * l) \div l = m
<1> DEFINE x == m * l
           d == x \div l
           r == x % l
<1>1. x \in Nat /\ x = l * m
  OBVIOUS
<1> HIDE DEF x
<1>2. d \in Nat /\ r \in Nat /\ r < l /\ x = l * d + r
  BY <1>1
<1> HIDE DEF d, r
<1>3. ASSUME d < m PROVE FALSE
  <2>1. m >= d + 1
    BY <1>2, <1>3
  <2>2. l * m >= l * (d + 1) /\ l * (d + 1) = l * d + l
    BY <1>2, <2>1
  <2> QED BY <1>1, <1>2, <2>2
<1>4. ASSUME d > m PROVE FALSE
  <2>1. d >= m + 1
    BY <1>2, <1>4
  <2>2. l * d >= l * (m + 1) /\ l * (m + 1) = l * m + l
    BY <1>2, <2>1
  <2> QED BY <1>1, <1>2, <2>2
<1>5. d = m
  BY <1>2, <1>3, <1>4
<1> QED BY <1>5 DEF d, x

\* A product that fits the 64 bits is known.
LEMMA NotionalKnown ==
  ASSUME NEW q \in Nat \ {0}, NEW l \in Nat \ {0}, NEW p \in Nat \ {0}, q * l * p <= MaxInt
  PROVE  p * (q * l) \in NotionalOf(q, l, p)
<1> DEFINE x == q * l
           w == MaxInt + 1
           v == p * x
<1>1. x \in Nat \ {0} /\ MaxInt \in Nat /\ w \in Nat \ {0} /\ 2 * w \in Nat \ {0}
  BY WidthAssumption
<1>2. q * l * p = v
  BY <1>1
<1>3. TruncDiv(x, l) = q
  BY <1>1, DivBack DEF TruncDiv
<1>4. Wrapped(x) = ((x + MaxInt + 1) % (2 * (MaxInt + 1))) - (MaxInt + 1)
  BY DEF Wrapped
<1>5. x + MaxInt + 1 = x + w
  BY <1>1
<1> HIDE DEF x
<1>6. x <= v /\ v \in Nat
  BY <1>1
<1>7. v <= MaxInt
  BY <1>2
<1> HIDE DEF v
<1>8. x < w /\ x + w \in Nat /\ x + w < 2 * w
  BY <1>1, <1>6, <1>7
<1> HIDE DEF w
<1>9. (x + w) % (2 * w) = x + w
  BY <1>1, <1>8
<1>10. Wrapped(x) = x
  BY <1>1, <1>4, <1>5, <1>9 DEF w
<1>11. x \in SharesFor(q, l)
  BY <1>3, <1>10 DEF SharesFor, x
<1>12. InRange(v)
  BY <1>1, <1>6, <1>7 DEF InRange
<1>13. v \in NotionalOf(q, l, p)
  BY <1>11, <1>12 DEF NotionalOf, v
<1> QED BY <1>13 DEF v, x

LEMMA NoNotionalOfNothing == ASSUME NEW l, NEW p PROVE NotionalOf(0, l, p) = {}
BY DEF NotionalOf, SharesFor

-----------------------------------------------------------------------------
(* Batches *)

Proposal == [action : Actions, uid : Uids, qty : Nat, type : OrderTypes, limit : Int, tif : TimesInForce]
RuleNames == {"daily_loss_kill_switch", "operational_halt", "allowlist", "currency_mismatch",
              "max_orders_per_cycle", "max_orders_per_day", "max_position_notional", "max_total_exposure",
              "cash_floor", "oversell"}
Entry(n) == [index : 1..n, rule : RuleNames, qty : Nat]
BatchOf(n) == [dec : [1..n -> Proposal], live : SUBSET (1..n), log : Seq(Entry(n))]

\* A decision of another quantity.
Sized(d, k) ==
  [action |-> d.action, uid |-> d.uid, qty |-> k, type |-> d.type, limit |-> d.limit, tif |-> d.tif]

LEMMA SizedIsExcept ==
  ASSUME NEW d \in Proposal, NEW k \in Nat
  PROVE  /\ [d EXCEPT !.qty = k] = Sized(d, k)
         /\ Sized(d, k) \in Proposal
         /\ Sized(d, d.qty) = d
BY DEF Proposal, Sized

LEMMA SizedKeeps ==
  ASSUME NEW d, NEW k
  PROVE  /\ Sized(d, k).action = d.action /\ Sized(d, k).uid = d.uid /\ Sized(d, k).qty = k
         /\ Sized(d, k).type = d.type /\ Sized(d, k).limit = d.limit /\ Sized(d, k).tif = d.tif
BY DEF Sized

\* Only the quantity of a decision ever changes, and it only shrinks.
Cut(b, c, n) ==
  \A i \in 1..n : c.dec[i] = Sized(b.dec[i], c.dec[i].qty) /\ c.dec[i].qty <= b.dec[i].qty

Strips(S, r) == [k \in 1..Cardinality(S) |-> Adjustment(InOrder(S)[k], r, 0)]

\* What Strip makes of a batch.
Stripped(b, S, r, n, c) ==
  /\ c \in BatchOf(n)
  /\ c.dec = b.dec
  /\ c.live = b.live \ S
  /\ c.log = b.log \o Strips(S, r)

LEMMA StripEffect ==
  ASSUME NEW n \in Nat, NEW b \in BatchOf(n), NEW S \in SUBSET (1..n), NEW r \in RuleNames
  PROVE  Stripped(b, S, r, n, Strip(b, S, r))
<1> DEFINE c == Strip(b, S, r)
<1> DEFINE added == [k \in 1..Cardinality(S) |-> Adjustment(InOrder(S)[k], r, 0)]
<1>1. IsFiniteSet(S) /\ S \in SUBSET Int
  <2>1. 1 \in Int /\ n \in Int
    OBVIOUS
  <2>2. IsFiniteSet(1..n)
    BY <2>1, FS_Interval
  <2>3. IsFiniteSet(S)
    BY <2>2, FS_Subset
  <2> QED BY <2>3
<1>2. InOrder(S) \in [1..Cardinality(S) -> S] /\ Cardinality(S) \in Nat
  BY <1>1, InOrderSorts
<1>3. \A k \in 1..Cardinality(S) : Adjustment(InOrder(S)[k], r, 0) \in Entry(n)
  <2> SUFFICES ASSUME NEW k \in 1..Cardinality(S) PROVE Adjustment(InOrder(S)[k], r, 0) \in Entry(n)
    OBVIOUS
  <2>1. InOrder(S)[k] \in 1..n
    BY <1>2
  <2> QED BY <2>1 DEF Adjustment, Entry
<1>4. added \in Seq(Entry(n))
  <2> DEFINE E == Entry(n)
             size == Cardinality(S)
  <2>1. added \in [1..size -> E]
    BY <1>3
  <2> HIDE DEF added, E, size
  <2>2. added \in Seq(E)
    BY <1>2, <2>1 DEF size
  <2> QED BY <2>2 DEF E
<1> HIDE DEF added
<1>5. b.dec \in [1..n -> Proposal] /\ b.live \in SUBSET (1..n) /\ b.log \in Seq(Entry(n))
  BY DEF BatchOf
<1>6. b.log \o added \in Seq(Entry(n))
  <2> DEFINE E == Entry(n)
  <2> HIDE DEF E
  <2>1. b.log \in Seq(E) /\ added \in Seq(E)
    BY <1>4, <1>5 DEF E
  <2>2. b.log \o added \in Seq(E)
    BY <2>1
  <2> QED BY <2>2 DEF E
<1>7. c = [b EXCEPT !.live = b.live \ S, !.log = b.log \o added]
  BY DEF Strip, added
<1>12. Strips(S, r) = added
  BY DEF Strips, added
<1>8. b.live \ S \in SUBSET (1..n)
  BY <1>5
<1>9. c = [dec |-> b.dec, live |-> b.live \ S, log |-> b.log \o added]
  BY <1>7 DEF BatchOf
<1> DEFINE live == b.live \ S
           log == b.log \o added
           dec == b.dec
<1> HIDE DEF live, log, dec
<1>10. [dec |-> dec, live |-> live, log |-> log] \in BatchOf(n)
  BY <1>5, <1>6, <1>8 DEF BatchOf, live, log, dec
<1>11. c = [dec |-> dec, live |-> live, log |-> log]
  BY <1>9 DEF live, log, dec
<1>13. c.dec = dec /\ c.live = live /\ c.log = log
  BY <1>11
<1> HIDE DEF c
<1>14. c \in BatchOf(n)
  BY <1>10, <1>11
<1>15. Stripped(b, S, r, n, c)
  BY <1>12, <1>13, <1>14 DEF Stripped, live, log, dec
<1> QED BY <1>15 DEF c

\* What Shrink makes of a batch.
Shrunk(b, i, k, r, n, c) ==
  /\ c \in BatchOf(n)
  /\ k = b.dec[i].qty => c = b
  /\ k = 0 => Stripped(b, {i}, r, n, c)
  /\ k > 0 => /\ c.dec = [b.dec EXCEPT ![i] = Sized(b.dec[i], k)]
              /\ c.live = b.live
              /\ k # b.dec[i].qty => c.log = b.log \o <<Adjustment(i, r, k)>>

LEMMA ShrinkEffect ==
  ASSUME NEW n \in Nat, NEW b \in BatchOf(n), NEW i \in b.live, NEW r \in RuleNames,
         b.dec[i].qty > 0, NEW k \in 0..b.dec[i].qty
  PROVE  Shrunk(b, i, k, r, n, Shrink(b, i, k, r))
<1> DEFINE c == Shrink(b, i, k, r)
<1>1. b.dec \in [1..n -> Proposal] /\ b.live \in SUBSET (1..n) /\ b.log \in Seq(Entry(n)) /\ i \in 1..n
  BY DEF BatchOf
<1>2. b.dec[i] \in Proposal /\ b.dec[i].qty \in Nat /\ k \in Nat
  BY <1>1 DEF Proposal
<1>3. CASE k = b.dec[i].qty
  <2>1. c = b
    BY <1>3 DEF Shrink
  <2>2. Sized(b.dec[i], k) = b.dec[i]
    BY <1>2, <1>3, SizedIsExcept
  <2>3. [b.dec EXCEPT ![i] = Sized(b.dec[i], k)] = b.dec
    BY <1>1, <2>2
  <2> HIDE DEF c
  <2>4. Shrunk(b, i, k, r, n, c)
    BY <1>2, <1>3, <2>1, <2>3 DEF Shrunk
  <2> QED BY <2>4 DEF c
<1>4. CASE k = 0
  <2> DEFINE S == {i}
  <2>1. c = Strip(b, S, r)
    BY <1>2, <1>4 DEF Shrink
  <2>2. S \in SUBSET (1..n)
    BY <1>1
  <2> HIDE DEF S, c
  <2>3. Stripped(b, S, r, n, Strip(b, S, r))
    BY <2>2, StripEffect
  <2>4. Stripped(b, S, r, n, c)
    BY <2>1, <2>3
  <2>5. c \in BatchOf(n)
    BY <2>4 DEF Stripped
  <2>6. Shrunk(b, i, k, r, n, c)
    BY <1>4, <2>4, <2>5 DEF S, Shrunk
  <2> QED BY <2>6 DEF c
<1>5. CASE k # 0 /\ k # b.dec[i].qty
  <2> DEFINE e == Adjustment(i, r, k)
             d == [b.dec EXCEPT ![i] = Sized(b.dec[i], k)]
             log == Append(b.log, e)
  <2>1. c = [b EXCEPT !.dec[i].qty = k, !.log = Append(b.log, e)]
    <3>1. ~(k <= 0)
      BY <1>2, <1>5
    <3> QED BY <1>5, <3>1, Zenon DEF Shrink
  <2> HIDE DEF c
  <2>2. e \in Entry(n)
    BY <1>1, <1>2 DEF Adjustment, Entry
  <2> HIDE DEF e
  <2>3. log \in Seq(Entry(n)) /\ log = b.log \o <<e>>
    <3> DEFINE E == Entry(n)
               old == b.log
    <3> HIDE DEF E, old
    <3>1. old \in Seq(E) /\ e \in E
      BY <1>1, <2>2 DEF E, old
    <3>2. Append(old, e) \in Seq(E) /\ Append(old, e) = old \o <<e>>
      BY <3>1
    <3> QED BY <3>2 DEF E, old
  <2>4. d \in [1..n -> Proposal]
    <3>1. Sized(b.dec[i], k) \in Proposal
      BY <1>2, SizedIsExcept
    <3> QED BY <1>1, <3>1
  <2>5. [b.dec[i] EXCEPT !.qty = k] = Sized(b.dec[i], k)
    BY <1>2, SizedIsExcept
  <2>6. c = [b EXCEPT !.dec = d, !.log = log]
    BY <2>1, <2>5, Zenon
  <2> HIDE DEF d, log
  <2>7. c = [dec |-> d, live |-> b.live, log |-> log]
    BY <2>6 DEF BatchOf
  <2>8. c \in BatchOf(n) /\ c.dec = d /\ c.live = b.live /\ c.log = log
    BY <1>1, <2>3, <2>4, <2>7 DEF BatchOf
  <2>9. Shrunk(b, i, k, r, n, c)
    BY <1>2, <1>5, <2>3, <2>8 DEF d, e, Shrunk
  <2> QED BY <2>9 DEF c
<1> QED BY <1>2, <1>3, <1>4, <1>5

-----------------------------------------------------------------------------
(* A ration, decision by decision *)

LEMMA DecisionCount ==
  ASSUME NEW n \in Nat, NEW b \in BatchOf(n)
  PROVE  Len(b.dec) = n /\ DOMAIN b.dec = 1..n
<1> DEFINE d == b.dec
           P == Proposal
<1>1. d \in [1..n -> P]
  BY DEF BatchOf
<1> HIDE DEF d, P
<1>2. d \in Seq(P)
  BY <1>1
<1>3. Len(d) = n /\ DOMAIN d = 1..n
  BY <1>1, <1>2
<1> QED BY <1>3 DEF d

\* What a ration has done after the first k decisions.
Runs(acc, b, n, tag, action, budget, account, cost) ==
  /\ acc[0] = [batch |-> b, left |-> budget]
  /\ \A k \in 1..n : acc[k] = Give(acc[k - 1], k, tag, action, account, cost)

LEMMA RationRuns ==
  ASSUME NEW n \in Nat, NEW b \in BatchOf(n), NEW r, NEW action, NEW budget, NEW account, NEW cost
  PROVE  \E acc : /\ Runs(acc, b, n, r, action, budget, account, cost)
                  /\ Ration(b, r, action, budget, account, cost) = acc[n].batch
<1> DEFINE base == [batch |-> b, left |-> budget]
           Then(f, k) == IF k = 0 THEN base ELSE Give(f[k - 1], k, r, action, account, cost)
           Upto(f, m) == \A k \in 0..n : k <= m => f[k] = Then(f, k)
           N == {m \in Nat : \E f : Upto(f, m)}
<1>1. \A f : Then(f, 0) = base
  OBVIOUS
<1>2. \A f, g, k : f[k - 1] = g[k - 1] => Then(f, k) = Then(g, k)
  OBVIOUS
<1>3. \A f : \A k \in 1..n : Then(f, k) = Give(f[k - 1], k, r, action, account, cost)
  OBVIOUS
<1>4. Ration(b, r, action, budget, account, cost)
        = (CHOOSE f : f = [k \in 0..n |-> Then(f, k)])[n].batch
  <2>1. Len(b.dec) = n
    BY DecisionCount
  <2> QED BY <2>1, Zenon DEF Ration
<1> HIDE DEF Then
<1>5. 0 \in N
  <2> DEFINE f == [k \in 0..n |-> base]
  <2>1. \A k \in 0..n : f[k] = base
    OBVIOUS
  <2> HIDE DEF f
  <2>2. Upto(f, 0)
    BY <1>1, <2>1
  <2> QED BY <2>2
<1>6. ASSUME NEW m \in N PROVE m + 1 \in N
  <2>1. m \in Nat /\ \E f : Upto(f, m)
    OBVIOUS
  <2>2. PICK f : Upto(f, m)
    BY <2>1
  <2> DEFINE g == [k \in 0..n |-> Then(f, k)]
  <2>3. \A k \in 0..n : g[k] = Then(f, k)
    OBVIOUS
  <2> HIDE DEF g
  <2>4. ASSUME NEW k \in 0..n, k <= m + 1 PROVE g[k] = Then(g, k)
    <3>1. CASE k = 0
      BY <1>1, <2>3, <3>1
    <3>2. CASE k # 0
      <4>1. k - 1 \in 0..n /\ k - 1 <= m
        BY <2>1, <2>4, <3>2
      <4>2. g[k - 1] = f[k - 1]
        BY <2>2, <2>3, <4>1
      <4> QED BY <1>2, <2>3, <4>2
    <3> QED BY <3>1, <3>2
  <2> HIDE DEF Upto
  <2>5. Upto(g, m + 1)
    BY <2>4 DEF Upto
  <2> QED BY <2>1, <2>5
<1> HIDE DEF Upto
<1>7. \E f : Upto(f, n)
  <2> HIDE DEF N
  <2>1. N = Nat
    <3>1. N \in SUBSET Nat
      BY DEF N
    <3> QED BY <1>5, <1>6, <3>1, SetOfNaturals
  <2>2. n \in N
    BY <2>1
  <2> QED BY <2>2 DEF N
<1>8. PICK f : Upto(f, n)
  BY <1>7
<1> DEFINE g == [k \in 0..n |-> f[k]]
<1>9. \A k \in 0..n : g[k] = f[k]
  OBVIOUS
<1>10. g = [k \in 0..n |-> g[k]]
  OBVIOUS
<1> HIDE DEF g
<1>11. ASSUME NEW k \in 0..n PROVE g[k] = Then(g, k)
  <2>1. f[k] = Then(f, k)
    BY <1>8 DEF Upto
  <2>2. CASE k = 0
    BY <1>1, <1>9, <2>1, <2>2
  <2>3. CASE k # 0
    <3>1. k - 1 \in 0..n
      BY <2>3
    <3>2. g[k - 1] = f[k - 1]
      BY <1>9, <3>1
    <3> QED BY <1>2, <1>9, <2>1, <3>2
  <2> QED BY <2>2, <2>3
<1>12. g = [k \in 0..n |-> Then(g, k)]
  BY <1>10, <1>11
<1> DEFINE acc == CHOOSE h : h = [k \in 0..n |-> Then(h, k)]
<1>13. acc = [k \in 0..n |-> Then(acc, k)]
  BY <1>12
<1>14. Ration(b, r, action, budget, account, cost) = acc[n].batch
  BY <1>4
<1> HIDE DEF acc
<1>15. \A k \in 0..n : acc[k] = Then(acc, k)
  <2> DEFINE h == [k \in 0..n |-> Then(acc, k)]
  <2>1. \A k \in 0..n : h[k] = Then(acc, k)
    OBVIOUS
  <2>2. acc = h
    BY <1>13
  <2> HIDE DEF h
  <2> QED BY <2>1, <2>2
<1>16. Runs(acc, b, n, r, action, budget, account, cost)
  BY <1>1, <1>3, <1>15 DEF Runs
<1> QED BY <1>14, <1>16

-----------------------------------------------------------------------------
(* What the adjustments tell of a batch *)

Silent(log, i) == \A k \in DOMAIN log : log[k].index # i
Latest(log, i, k) ==
  k \in DOMAIN log /\ log[k].index = i /\ \A j \in DOMAIN log : log[j].index = i => j <= k

\* The last adjustment to decision i of p tells what b makes of it, and there is
\* none when b leaves it as it is.
ToldAt(p, b, i) ==
  \/ Silent(b.log, i) /\ i \in b.live /\ b.dec[i] = p[i]
  \/ \E k \in Nat : /\ Latest(b.log, i, k)
                    /\ b.dec[i] = Sized(p[i], b.dec[i].qty)
                    /\ i \in b.live => b.log[k].qty = b.dec[i].qty /\ b.dec[i].qty > 0
                    /\ i \notin b.live => b.log[k].qty = 0
Told(p, b, n) == \A i \in 1..n : ToldAt(p, b, i)

LEMMA LogGrows ==
  ASSUME NEW E, NEW log \in Seq(E), NEW more \in Seq(E), NEW i
  PROVE  /\ Silent(log, i) /\ Silent(more, i) => Silent(log \o more, i)
         /\ \A k \in Nat : Silent(more, i) /\ Latest(log, i, k) =>
              Latest(log \o more, i, k) /\ (log \o more)[k] = log[k]
         /\ \A k \in Nat : Latest(more, i, k) =>
              /\ Latest(log \o more, i, Len(log) + k)
              /\ (log \o more)[Len(log) + k] = more[k]
<1> DEFINE all == log \o more
           l == Len(log)
           m == Len(more)
<1>1. l \in Nat /\ m \in Nat /\ DOMAIN log = 1..l /\ DOMAIN more = 1..m /\ DOMAIN all = 1..(l + m)
  OBVIOUS
<1>2. \A k \in 1..l : all[k] = log[k]
  OBVIOUS
<1>3. \A k \in 1..m : all[l + k] = more[k]
  OBVIOUS
<1> HIDE DEF all, l, m
<1>4. \A k \in (1..(l + m)) \ (1..l) : \E j \in 1..m : k = l + j
  <2> SUFFICES ASSUME NEW k \in (1..(l + m)) \ (1..l) PROVE \E j \in 1..m : k = l + j
    OBVIOUS
  <2>1. k - l \in 1..m /\ k = l + (k - l)
    BY <1>1
  <2> QED BY <2>1
<1>5. ASSUME Silent(log, i), Silent(more, i) PROVE Silent(all, i)
  <2> SUFFICES ASSUME NEW k \in 1..(l + m) PROVE all[k].index # i
    BY <1>1 DEF Silent
  <2>1. CASE k \in 1..l
    BY <1>1, <1>2, <1>5, <2>1 DEF Silent
  <2>2. CASE k \notin 1..l
    <3>1. PICK x \in 1..m : k = l + x
      BY <1>4, <2>2
    <3> QED BY <1>1, <1>3, <1>5, <3>1 DEF Silent
  <2> QED BY <2>1, <2>2
<1>6. ASSUME NEW k \in Nat, Silent(more, i), Latest(log, i, k) PROVE Latest(all, i, k) /\ all[k] = log[k]
  <2>1. k \in 1..l /\ log[k].index = i /\ \A j \in 1..l : log[j].index = i => j <= k
    BY <1>1, <1>6 DEF Latest
  <2>2. k \in 1..(l + m) /\ all[k] = log[k]
    BY <1>1, <1>2, <2>1
  <2>3. ASSUME NEW j \in 1..(l + m), all[j].index = i PROVE j <= k
    <3>1. CASE j \in 1..l
      BY <1>2, <2>1, <2>3, <3>1
    <3>2. CASE j \notin 1..l
      <4>1. PICK x \in 1..m : j = l + x
        BY <1>4, <3>2
      <4>2. more[x].index = i
        BY <1>3, <2>3, <4>1
      <4> QED BY <1>1, <1>6, <4>1, <4>2 DEF Silent
    <3> QED BY <3>1, <3>2
  <2> QED BY <1>1, <2>1, <2>2, <2>3 DEF Latest
<1>7. ASSUME NEW k \in Nat, Latest(more, i, k) PROVE Latest(all, i, l + k) /\ all[l + k] = more[k]
  <2>1. k \in 1..m /\ more[k].index = i /\ \A j \in 1..m : more[j].index = i => j <= k
    BY <1>1, <1>7 DEF Latest
  <2>2. l + k \in 1..(l + m) /\ all[l + k] = more[k]
    BY <1>1, <1>3, <2>1
  <2>3. ASSUME NEW j \in 1..(l + m), all[j].index = i PROVE j <= l + k
    <3>1. CASE j \in 1..l
      BY <1>1, <2>1, <3>1
    <3>2. CASE j \notin 1..l
      <4>1. PICK x \in 1..m : j = l + x
        BY <1>4, <3>2
      <4>2. x <= k
        BY <1>3, <2>1, <2>3, <4>1
      <4> QED BY <1>1, <2>1, <4>1, <4>2
    <3> QED BY <3>1, <3>2
  <2> QED BY <1>1, <2>1, <2>2, <2>3 DEF Latest
<1> QED BY <1>5, <1>6, <1>7 DEF all, l

\* Each stripped decision is named once, with no lots.
LEMMA StripsTell ==
  ASSUME NEW S \in SUBSET Int, IsFiniteSet(S), NEW r, NEW i
  PROVE  /\ i \notin S => Silent(Strips(S, r), i)
         /\ i \in S => \E k \in Nat : Latest(Strips(S, r), i, k) /\ Strips(S, r)[k].qty = 0
<1> DEFINE log == Strips(S, r)
           size == Cardinality(S)
           f == InOrder(S)
<1>1. size \in Nat /\ f \in [1..size -> S] /\ (\A j, k \in 1..size : f[j] = f[k] => j = k)
      /\ \A x \in S : \E k \in 1..size : f[k] = x
  BY InOrderSorts
<1>2. DOMAIN log = 1..size /\ \A k \in 1..size : log[k].index = f[k] /\ log[k].qty = 0
  BY DEF Strips, Adjustment
<1> HIDE DEF log, size, f
<1>3. i \notin S => Silent(log, i)
  BY <1>1, <1>2 DEF Silent
<1>4. ASSUME i \in S PROVE \E k \in Nat : Latest(log, i, k) /\ log[k].qty = 0
  <2>1. PICK k \in 1..size : f[k] = i
    BY <1>1, <1>4
  <2>2. \A j \in 1..size : log[j].index = i => j = k
    BY <1>1, <1>2, <2>1
  <2>3. k \in Nat /\ Latest(log, i, k) /\ log[k].qty = 0
    BY <1>1, <1>2, <2>1, <2>2 DEF Latest
  <2> QED BY <2>3
<1> QED BY <1>3, <1>4 DEF log

LEMMA StripTold ==
  ASSUME NEW n \in Nat, NEW b \in BatchOf(n), NEW S \in SUBSET b.live, NEW r \in RuleNames,
         NEW c, Stripped(b, S, r, n, c), NEW p \in [1..n -> Proposal], Told(p, b, n)
  PROVE  Told(p, c, n)
<1> SUFFICES ASSUME NEW i \in 1..n PROVE ToldAt(p, c, i)
  BY DEF Told
<1> DEFINE more == Strips(S, r)
           E == Entry(n)
<1>1. b.live \in SUBSET (1..n) /\ b.log \in Seq(E) /\ p[i] \in Proposal
  BY DEF BatchOf
<1>2. c.dec = b.dec /\ c.live = b.live \ S /\ c.log = b.log \o more /\ c.log \in Seq(E)
  BY DEF Stripped, BatchOf
<1>3. S \in SUBSET Int /\ IsFiniteSet(S)
  <2>1. 1 \in Int /\ n \in Int
    OBVIOUS
  <2>2. IsFiniteSet(1..n) /\ S \in SUBSET (1..n)
    BY <1>1, <2>1, FS_Interval
  <2>3. IsFiniteSet(S)
    BY <2>2, FS_Subset
  <2> QED BY <2>2, <2>3
<1>4. more \in Seq(E)
  <2> DEFINE size == Cardinality(S)
  <2>1. InOrder(S) \in [1..size -> S] /\ size \in Nat
    BY <1>3, InOrderSorts
  <2>2. ASSUME NEW k \in 1..size PROVE Adjustment(InOrder(S)[k], r, 0) \in Entry(n)
    <3>1. InOrder(S)[k] \in 1..n
      BY <1>1, <2>1
    <3> QED BY <3>1 DEF Adjustment, Entry
  <2>3. more \in [1..size -> E]
    BY <2>2 DEF Strips
  <2> HIDE DEF more, E, size
  <2> QED BY <2>1, <2>3
<1>5. /\ i \notin S => Silent(more, i)
      /\ i \in S => \E k \in Nat : Latest(more, i, k) /\ more[k].qty = 0
  BY <1>3, StripsTell
<1> DEFINE log == b.log
           all == b.log \o more
<1>6. /\ Silent(log, i) /\ Silent(more, i) => Silent(all, i)
      /\ \A k \in Nat : Silent(more, i) /\ Latest(log, i, k) => Latest(all, i, k) /\ all[k] = log[k]
      /\ \A k \in Nat : Latest(more, i, k) => Latest(all, i, Len(log) + k) /\ all[Len(log) + k] = more[k]
  <2> HIDE DEF E, more
  <2> QED BY <1>1, <1>4, LogGrows
<1>7. Len(log) \in Nat
  <2> HIDE DEF E
  <2> QED BY <1>1
<1>8. ToldAt(p, b, i)
  BY DEF Told
<1> HIDE DEF more, E, log, all
<1>9. p[i] = Sized(p[i], p[i].qty)
  <2>1. p[i].qty \in Nat
    BY <1>1 DEF Proposal
  <2> QED BY <1>1, <2>1, SizedIsExcept
<1>10. b.dec[i] = Sized(p[i], b.dec[i].qty)
  BY <1>8, <1>9 DEF ToldAt
<1>11. CASE i \in S
  <2>1. PICK k \in Nat : Latest(more, i, k) /\ more[k].qty = 0
    BY <1>5, <1>11
  <2>2. Len(log) + k \in Nat /\ Latest(all, i, Len(log) + k) /\ all[Len(log) + k].qty = 0
    BY <1>6, <1>7, <2>1
  <2> QED BY <1>2, <1>10, <1>11, <2>2 DEF ToldAt, all
<1>12. CASE i \notin S
  <2>1. CASE Silent(log, i) /\ i \in b.live /\ b.dec[i] = p[i]
    BY <1>2, <1>5, <1>6, <1>12, <2>1 DEF ToldAt, all
  <2>2. CASE ~(Silent(log, i) /\ i \in b.live /\ b.dec[i] = p[i])
    <3>1. PICK k \in Nat : /\ Latest(log, i, k)
                           /\ i \in b.live => log[k].qty = b.dec[i].qty /\ b.dec[i].qty > 0
                           /\ i \notin b.live => log[k].qty = 0
      BY <1>8, <2>2 DEF ToldAt, log
    <3>2. Latest(all, i, k) /\ all[k] = log[k]
      BY <1>5, <1>6, <1>12, <3>1
    <3> QED BY <1>2, <1>10, <1>12, <3>1, <3>2 DEF ToldAt, all
  <2> QED BY <2>1, <2>2
<1> QED BY <1>11, <1>12

LEMMA ShrinkTold ==
  ASSUME NEW n \in Nat, NEW b \in BatchOf(n), NEW i \in b.live, NEW r \in RuleNames, b.dec[i].qty > 0,
         NEW k \in 0..b.dec[i].qty, NEW c, Shrunk(b, i, k, r, n, c),
         NEW p \in [1..n -> Proposal], Told(p, b, n)
  PROVE  Told(p, c, n)
<1>1. CASE k = b.dec[i].qty
  BY <1>1 DEF Shrunk
<1>2. CASE k = 0
  <2>1. Stripped(b, {i}, r, n, c) /\ {i} \in SUBSET b.live
    BY <1>2 DEF Shrunk
  <2> QED BY <2>1, StripTold
<1>3. CASE k # 0 /\ k # b.dec[i].qty
  <2> SUFFICES ASSUME NEW j \in 1..n PROVE ToldAt(p, c, j)
    BY DEF Told
  <2> DEFINE e == Adjustment(i, r, k)
             more == <<e>>
             E == Entry(n)
             log == b.log
             all == b.log \o more
  <2>1. /\ b.dec \in [1..n -> Proposal] /\ b.live \in SUBSET (1..n) /\ log \in Seq(E)
        /\ p[j] \in Proposal /\ i \in 1..n /\ b.dec[i].qty \in Nat
    BY DEF BatchOf, Proposal
  <2>2. k \in Nat /\ k > 0
    BY <1>3, <2>1
  <2>3. c.dec = [b.dec EXCEPT ![i] = Sized(b.dec[i], k)] /\ c.live = b.live /\ c.log = all
    BY <1>3, <2>2 DEF Shrunk
  <2>4. e \in E /\ e.index = i /\ e.qty = k
    BY <2>1, <2>2 DEF Adjustment, Entry
  <2> HIDE DEF E, e
  <2>5. more \in Seq(E) /\ DOMAIN more = 1..1 /\ more[1] = e
    BY <2>4
  <2> HIDE DEF more
  <2>6. /\ Silent(log, j) /\ Silent(more, j) => Silent(all, j)
        /\ \A x \in Nat : Silent(more, j) /\ Latest(log, j, x) => Latest(all, j, x) /\ all[x] = log[x]
        /\ \A x \in Nat : Latest(more, j, x) => Latest(all, j, Len(log) + x) /\ all[Len(log) + x] = more[x]
    BY <2>1, <2>5, LogGrows
  <2>7. Len(log) \in Nat
    BY <2>1
  <2>8. ToldAt(p, b, j)
    BY DEF Told
  <2> HIDE DEF log, all
  <2>9. p[j] = Sized(p[j], p[j].qty)
    <3>1. p[j].qty \in Nat
      BY <2>1 DEF Proposal
    <3> QED BY <2>1, <3>1, SizedIsExcept
  <2>10. b.dec[j] = Sized(p[j], b.dec[j].qty)
    BY <2>8, <2>9 DEF ToldAt
  <2>11. CASE j = i
    <3>1. Latest(more, j, 1) /\ more[1].qty = k
      BY <2>4, <2>5, <2>11 DEF Latest
    <3>2. Len(log) + 1 \in Nat /\ Latest(all, j, Len(log) + 1) /\ all[Len(log) + 1].qty = k
      BY <2>6, <2>7, <3>1
    <3>3. c.dec[j] = Sized(b.dec[j], k) /\ c.dec[j].qty = k
      BY <2>1, <2>3, <2>11 DEF Sized
    <3>4. c.dec[j] = Sized(p[j], k)
      BY <2>10, <3>3 DEF Sized
    <3> QED BY <2>2, <2>3, <2>11, <3>2, <3>3, <3>4 DEF ToldAt
  <2>12. CASE j # i
    <3>1. Silent(more, j)
      BY <2>4, <2>5, <2>12 DEF Silent
    <3>2. c.dec[j] = b.dec[j]
      BY <2>1, <2>3, <2>12
    <3>3. CASE Silent(log, j) /\ j \in b.live /\ b.dec[j] = p[j]
      BY <2>3, <2>6, <3>1, <3>2, <3>3 DEF ToldAt
    <3>4. CASE ~(Silent(log, j) /\ j \in b.live /\ b.dec[j] = p[j])
      <4>1. PICK x \in Nat : /\ Latest(log, j, x)
                             /\ j \in b.live => log[x].qty = b.dec[j].qty /\ b.dec[j].qty > 0
                             /\ j \notin b.live => log[x].qty = 0
        BY <2>8, <3>4 DEF ToldAt, log
      <4>2. Latest(all, j, x) /\ all[x] = log[x]
        BY <2>6, <3>1, <4>1
      <4> QED BY <2>3, <2>10, <3>2, <4>1, <4>2 DEF ToldAt
    <3> QED BY <3>3, <3>4
  <2> QED BY <2>11, <2>12
<1> QED BY <1>1, <1>2, <1>3

\* cost[i][m] is what m lots of decision i of b cost, if that is known; no lots
\* cost nothing.
CostsOf(cost, b, i) ==
  /\ DOMAIN cost[i] = 0..b.dec[i].qty
  /\ \A m \in 0..b.dec[i].qty : cost[i][m] \in SUBSET Int /\ \A x, y \in cost[i][m] : x = y
  /\ \A x \in cost[i][0] : x = 0
Costs(cost, b, n) == \A i \in 1..n : CostsOf(cost, b, i)

\* What decision i of a batch draws from its budget.
Drawn(b, action, cost, i) == IF i \in Those(b, {action}) THEN SumSet(cost[i][b.dec[i].qty]) ELSE 0

LEMMA KnownCost ==
  ASSUME NEW s \in SUBSET Int, \A x, y \in s : x = y
  PROVE  /\ SumSet(s) \in Int
         /\ \A x \in s : SumSet(s) = x
         /\ s = {} => SumSet(s) = 0
<1>1. CASE s = {}
  BY <1>1, SumSetOfNone
<1>2. CASE s # {}
  <2>1. PICK x \in s : TRUE
    BY <1>2
  <2>2. s = {x} /\ x \in Int
    BY <2>1
  <2>3. SumSet({x}) = x
    BY <2>2, SumSetOfOne
  <2> QED BY <2>1, <2>2, <2>3
<1> QED BY <1>1, <1>2

\* The lots a batch leaves to decision i.
Lots(b, i) == IF i \in b.live THEN b.dec[i].qty ELSE 0

\* What is left does not pay for one of the lots that decision i lost.
GaveAll(acc, c, i, action, account, cost) ==
  i \in Those(acc.batch, {action}) /\ Lots(c, i) < acc.batch.dec[i].qty =>
    \A x \in cost[i][Lots(c, i) + 1] : ~(x <= acc.left[account[i]])

\* What one Give does.
GivenTo(acc, c, left, i, n, action, account, cost, accounts) ==
  LET b == acc.batch
  IN  /\ c \in BatchOf(n) /\ left \in [accounts -> Int]
      /\ c.live \subseteq b.live
      /\ \A j \in 1..n : j # i \/ i \notin Those(b, {action}) =>
           c.dec[j] = b.dec[j] /\ (j \in c.live <=> j \in b.live)
      /\ c.dec[i] = Sized(b.dec[i], c.dec[i].qty) /\ c.dec[i].qty <= b.dec[i].qty
      /\ \A a \in accounts :
           left[a] = acc.left[a] - IF account[i] = a THEN Drawn(c, action, cost, i) ELSE 0
      /\ Drawn(c, action, cost, i) \in Int
      /\ i \in Those(c, {action}) =>
           c.dec[i].qty > 0 /\ cost[i][c.dec[i].qty] # {} /\ left[account[i]] >= 0
      /\ (\A m \in 1..b.dec[i].qty : \E x \in cost[i][m] : x <= acc.left[account[i]]) => c = b
      /\ GaveAll(acc, c, i, action, account, cost)
      /\ \A p \in [1..n -> Proposal] : Told(p, b, n) => Told(p, c, n)
Given(acc, i, n, action, account, cost, accounts, next) ==
  GivenTo(acc, next.batch, next.left, i, n, action, account, cost, accounts)

LEMMA GiveEffect ==
  ASSUME NEW n \in Nat, NEW accounts, NEW acc, acc.batch \in BatchOf(n), acc.left \in [accounts -> Int],
         NEW i \in 1..n, NEW r \in RuleNames, NEW action, NEW account \in [1..n -> accounts],
         NEW cost, CostsOf(cost, acc.batch, i),
         i \in Those(acc.batch, {action}) => acc.batch.dec[i].qty > 0
  PROVE  Given(acc, i, n, action, account, cost, accounts, Give(acc, i, r, action, account, cost))
<1> DEFINE next == Give(acc, i, r, action, account, cost)
           b == acc.batch
           q == b.dec[i].qty
           a0 == account[i]
<1>1. b.dec \in [1..n -> Proposal] /\ b.live \in SUBSET (1..n) /\ b.dec[i] \in Proposal /\ q \in Nat /\ a0 \in accounts
  BY DEF BatchOf, Proposal
<1>2. acc.left[a0] \in Int
  BY <1>1
<1>3. b.dec[i] = Sized(b.dec[i], q)
  BY <1>1, SizedIsExcept
<1>4. CASE i \notin Those(b, {action})
  <2>1. next = acc
    BY <1>4 DEF Give
  <2> HIDE DEF next
  <2>2. Drawn(b, action, cost, i) = 0
    BY <1>4 DEF Drawn
  <2>3. \A a \in accounts : acc.left[a] \in Int
    OBVIOUS
  <2>4. GaveAll(acc, b, i, action, account, cost)
    BY <1>4 DEF GaveAll
  <2>5. Given(acc, i, n, action, account, cost, accounts, next)
    BY <1>1, <1>3, <1>4, <2>1, <2>2, <2>3, <2>4 DEF Given, GivenTo
  <2> QED BY <2>5 DEF next
<1>5. CASE i \in Those(b, {action})
  <2> DEFINE fits == [m \in DOMAIN cost[i] |-> \E x \in cost[i][m] : x <= acc.left[account[i]]]
             k == MaxWithin(fits)
             c == Shrink(b, i, k, r)
             w == SumSet(cost[i][k])
             left == [acc.left EXCEPT ![a0] = @ - w]
  <2>1. next = [batch |-> c, left |-> left]
    BY <1>5 DEF Give
  <2> HIDE DEF next
  <2>2. DOMAIN cost[i] = 0..q /\ (\A m \in 0..q : cost[i][m] \in SUBSET Int /\ \A x, y \in cost[i][m] : x = y)
        /\ \A x \in cost[i][0] : x = 0
    BY DEF CostsOf
  <2>3. DOMAIN fits = 0..q /\ \A m \in 0..q : fits[m] <=> \E x \in cost[i][m] : x <= acc.left[a0]
    BY <2>2
  <2> HIDE DEF fits
  <2>4. k \in 0..q /\ (k > 0 => fits[k]) /\ (k < q => ~fits[k + 1]) /\ (q > 0 /\ fits[1] /\ fits[q] => k = q)
    BY <1>1, <2>3, MaxWithinFits
  <2>5. k = 0 \/ k > 0
    BY <2>4
  <2> HIDE DEF k
  <2>6. i \in b.live /\ b.dec[i].action = action /\ b.dec[i].qty > 0
    BY <1>5 DEF Those
  <2>7. Shrunk(b, i, k, r, n, c)
    BY <2>4, <2>6, ShrinkEffect
  <2> HIDE DEF c
  <2>8. w \in Int /\ (\A x \in cost[i][k] : w = x) /\ (cost[i][k] = {} => w = 0)
    BY <2>2, <2>4, KnownCost
  <2> HIDE DEF w
  <2>9. left \in [accounts -> Int] /\ left[a0] = acc.left[a0] - w /\ \A a \in accounts : a # a0 => left[a] = acc.left[a]
    BY <1>1, <1>2, <2>8
  <2> HIDE DEF left
  <2>10. /\ c \in BatchOf(n) /\ c.live \subseteq b.live
         /\ \A j \in 1..n : j # i => c.dec[j] = b.dec[j] /\ (j \in c.live <=> j \in b.live)
         /\ c.dec[i] = Sized(b.dec[i], c.dec[i].qty) /\ c.dec[i].qty <= q
    <3>1. CASE k = 0
      BY <1>1, <1>3, <3>1, <2>7 DEF Shrunk, Stripped
    <3>2. CASE k > 0
      <4>1. c.dec = [b.dec EXCEPT ![i] = Sized(b.dec[i], k)] /\ c.live = b.live /\ c \in BatchOf(n)
        BY <3>2, <2>7 DEF Shrunk
      <4>2. c.dec[i] = Sized(b.dec[i], k) /\ c.dec[i].qty = k
        BY <1>1, <4>1 DEF Sized
      <4> QED BY <1>1, <2>4, <4>1, <4>2
    <3> QED BY <2>5, <3>1, <3>2
  <2>11. /\ Drawn(c, action, cost, i) = w
         /\ i \in Those(c, {action}) => c.dec[i].qty > 0 /\ cost[i][c.dec[i].qty] # {} /\ left[a0] >= 0
    <3>1. CASE k = 0
      <4>1. i \notin c.live
        BY <3>1, <2>7 DEF Shrunk, Stripped
      <4>2. w = 0
        BY <2>2, <2>8, <3>1
      <4> QED BY <4>1, <4>2 DEF Drawn, Those
    <3>2. CASE k > 0
      <4>1. c.dec = [b.dec EXCEPT ![i] = Sized(b.dec[i], k)] /\ c.live = b.live
        BY <3>2, <2>7 DEF Shrunk
      <4>2. c.dec[i].action = action /\ c.dec[i].qty = k
        BY <1>1, <2>6, <4>1 DEF Sized
      <4>3. i \in Those(c, {action})
        BY <2>6, <4>1, <4>2 DEF Those
      <4>4. PICK x \in cost[i][k] : x <= acc.left[a0]
        BY <2>3, <2>4, <3>2
      <4>5. w = x /\ left[a0] >= 0
        BY <1>2, <2>8, <2>9, <4>4
      <4>6. Drawn(c, action, cost, i) = w
        BY <4>2, <4>3 DEF Drawn, w
      <4> QED BY <3>2, <4>2, <4>4, <4>5, <4>6
    <3> QED BY <2>5, <3>1, <3>2
  <2>12. ASSUME \A m \in 1..q : \E x \in cost[i][m] : x <= acc.left[a0] PROVE c = b
    <3>1. q > 0 /\ 1 \in 1..q /\ q \in 1..q /\ 1 \in 0..q /\ q \in 0..q
      BY <1>1, <2>6
    <3>2. fits[1] /\ fits[q]
      BY <2>3, <2>12, <3>1
    <3> QED BY <2>4, <2>7, <3>1, <3>2 DEF Shrunk
  <2>13. ASSUME NEW p \in [1..n -> Proposal], Told(p, b, n) PROVE Told(p, c, n)
    BY <2>4, <2>6, <2>7, <2>13, ShrinkTold
  <2>14. next.batch = c /\ next.left = left
    BY <2>1
  <2>15. \A a \in accounts : left[a] = acc.left[a] - IF a0 = a THEN w ELSE 0
    BY <2>9
  <2>16. Lots(c, i) = k
    <3>1. CASE k = 0
      BY <3>1, <2>7 DEF Shrunk, Stripped, Lots
    <3>2. CASE k > 0
      BY <1>1, <2>6, <2>7, <3>2 DEF Shrunk, Lots, Sized
    <3> QED BY <2>5, <3>1, <3>2
  <2>17. ASSUME k < q, NEW x \in cost[i][k + 1] PROVE ~(x <= acc.left[a0])
    <3>1. k + 1 \in 0..q
      BY <1>1, <2>4, <2>17
    <3>2. ~fits[k + 1]
      BY <2>4, <2>17
    <3> QED BY <2>3, <2>17, <3>1, <3>2
  <2>18. GaveAll(acc, c, i, action, account, cost)
    <3> SUFFICES ASSUME Lots(c, i) < q, NEW x \in cost[i][Lots(c, i) + 1] PROVE ~(x <= acc.left[a0])
      BY DEF GaveAll
    <3>1. k < q /\ x \in cost[i][k + 1]
      BY <2>16, Zenon
    <3> QED BY <2>17, <3>1
  <2>19. /\ \A a \in accounts : left[a] = acc.left[a] - IF a0 = a THEN Drawn(c, action, cost, i) ELSE 0
         /\ Drawn(c, action, cost, i) \in Int
         /\ i \in Those(c, {action}) => c.dec[i].qty > 0 /\ cost[i][c.dec[i].qty] # {} /\ left[a0] >= 0
    BY <2>8, <2>11, <2>15
  <2>20. ASSUME NEW j \in 1..n, j # i \/ i \notin Those(b, {action})
         PROVE  c.dec[j] = b.dec[j] /\ (j \in c.live <=> j \in b.live)
    BY <1>5, <2>10, <2>20, Zenon
  <2> HIDE DEF w
  <2>21. GivenTo(acc, c, left, i, n, action, account, cost, accounts)
    <3>1. c \in BatchOf(n) /\ left \in [accounts -> Int] /\ c.live \subseteq b.live
      BY <2>9, <2>10
    <3>2. \A j \in 1..n : j # i \/ i \notin Those(b, {action}) => c.dec[j] = b.dec[j] /\ (j \in c.live <=> j \in b.live)
      BY <2>20, Zenon
    <3>3. c.dec[i] = Sized(b.dec[i], c.dec[i].qty) /\ c.dec[i].qty <= b.dec[i].qty
      BY <2>10
    <3>4. (\A m \in 1..b.dec[i].qty : \E x \in cost[i][m] : x <= acc.left[account[i]]) => c = b
      BY <2>12, Zenon
    <3>5. \A p \in [1..n -> Proposal] : Told(p, b, n) => Told(p, c, n)
      BY <2>13, Zenon
    <3> HIDE DEF q
    <3> QED BY <2>18, <2>19, <3>1, <3>2, <3>3, <3>4, <3>5, Zenon DEF GivenTo
  <2>22. Given(acc, i, n, action, account, cost, accounts, next)
    BY <2>14, <2>21, Zenon DEF Given
  <2> QED BY <2>22 DEF next
<1> QED BY <1>4, <1>5

Draws(b, n, action, cost) == [i \in 1..n |-> Drawn(b, action, cost, i)]
Sharing(account, k, a) == {i \in 1..k : account[i] = a}

\* The decision is the only live one of its action that draws on its account.
Alone(b, action, account, i) ==
  \A j \in Those(b, {action}) : account[j] = account[i] => j = i
Affordable(b, budget, account, cost, i) ==
  \A m \in 1..b.dec[i].qty : \E x \in cost[i][m] : x <= budget[account[i]]
Unchanged(b, c, i) == c.dec[i] = b.dec[i] /\ (i \in c.live <=> i \in b.live)

\* What was left of its budget when decision i had its turn paid for none of the
\* lots it lost.
Tight(b, c, n, action, budget, account, cost, i) ==
  i \in Those(b, {action}) /\ Lots(c, i) < b.dec[i].qty =>
    \A x \in cost[i][Lots(c, i) + 1] :
      ~(x <= budget[account[i]] - Total(Draws(c, n, action, cost), Sharing(account, i - 1, account[i])))

\* After k decisions of b: what was drawn so far is what the kept ones cost, and
\* no budget that any of them draws on is exceeded.
SoFar(k, acc, b, n, action, budget, account, cost, accounts) ==
  LET c == acc.batch
  IN  /\ c \in BatchOf(n) /\ acc.left \in [accounts -> Int]
      /\ c.live \subseteq b.live
      /\ Cut(b, c, n)
      /\ \A j \in 1..n : j > k \/ j \notin Those(b, {action}) => Unchanged(b, c, j)
      /\ \A a \in accounts :
           acc.left[a] = budget[a] - Total(Draws(c, n, action, cost), Sharing(account, k, a))
      /\ \A j \in 1..k : j \in Those(c, {action}) =>
           c.dec[j].qty > 0 /\ cost[j][c.dec[j].qty] # {} /\ acc.left[account[j]] >= 0
      /\ \A j \in 1..k : Alone(b, action, account, j) /\ Affordable(b, budget, account, cost, j) => Unchanged(b, c, j)
      /\ \A j \in 1..k : Tight(b, c, n, action, budget, account, cost, j)
      /\ \A p \in [1..n -> Proposal] : Told(p, b, n) => Told(p, c, n)

LEMMA DrawnType ==
  ASSUME NEW n \in Nat, NEW b \in BatchOf(n), NEW c \in BatchOf(n), Cut(b, c, n), NEW action, NEW cost,
         Costs(cost, b, n)
  PROVE  \A i \in 1..n : Drawn(c, action, cost, i) \in Int /\ Draws(c, n, action, cost)[i] = Drawn(c, action, cost, i)
<1> SUFFICES ASSUME NEW i \in 1..n PROVE Drawn(c, action, cost, i) \in Int
  BY DEF Draws
<1>1. b.dec[i].qty \in Nat /\ c.dec[i].qty \in Nat /\ c.dec[i].qty <= b.dec[i].qty
  BY DEF BatchOf, Proposal, Cut
<1> DEFINE s == cost[i][c.dec[i].qty]
<1>2. s \in SUBSET Int /\ \A x, y \in s : x = y
  BY <1>1 DEF Costs, CostsOf
<1> HIDE DEF s
<1>3. SumSet(s) \in Int
  BY <1>2, KnownCost
<1> QED BY <1>3 DEF Drawn, s

SharingGrows(account, k, a) ==
  LET S == Sharing(account, k, a)
  IN  /\ IsFiniteSet(S) /\ S \in SUBSET (1..k) /\ k + 1 \notin S
      /\ account[k + 1] = a => Sharing(account, k + 1, a) = S \cup {k + 1}
      /\ account[k + 1] # a => Sharing(account, k + 1, a) = S

LEMMA SharingMore ==
  ASSUME NEW k \in Nat, NEW account, NEW a
  PROVE  SharingGrows(account, k, a)
<1>1. IsFiniteSet(1..k) /\ Sharing(account, k, a) \in SUBSET (1..k)
  <2>1. 1 \in Int /\ k \in Int
    OBVIOUS
  <2> QED BY <2>1, FS_Interval DEF Sharing
<1>2. IsFiniteSet(Sharing(account, k, a))
  BY <1>1, FS_Subset
<1>3. \A x : x \in 1..(k + 1) <=> x \in 1..k \/ x = k + 1
  OBVIOUS
<1>4. k + 1 \notin 1..k
  OBVIOUS
<1>5. ASSUME account[k + 1] = a PROVE Sharing(account, k + 1, a) = Sharing(account, k, a) \cup {k + 1}
  BY <1>3, <1>5 DEF Sharing
<1>6. ASSUME account[k + 1] # a PROVE Sharing(account, k + 1, a) = Sharing(account, k, a)
  BY <1>3, <1>6 DEF Sharing
<1> QED BY <1>1, <1>2, <1>4, <1>5, <1>6 DEF SharingGrows

LEMMA RationStep ==
  ASSUME NEW n \in Nat, NEW b \in BatchOf(n), NEW action, NEW accounts, NEW budget \in [accounts -> Int],
         NEW account \in [1..n -> accounts], NEW cost, Costs(cost, b, n),
         \A j \in Those(b, {action}) : b.dec[j].qty > 0,
         NEW k \in Nat, k + 1 \in 1..n, NEW acc, SoFar(k, acc, b, n, action, budget, account, cost, accounts),
         NEW r \in RuleNames, NEW next, next = Give(acc, k + 1, r, action, account, cost)
  PROVE  SoFar(k + 1, next, b, n, action, budget, account, cost, accounts)
<1> DEFINE i == k + 1
           old == acc.batch
           c == next.batch
           h == Draws(old, n, action, cost)
           g == Draws(c, n, action, cost)
           S(a) == Sharing(account, k, a)
<1>1. /\ old \in BatchOf(n) /\ acc.left \in [accounts -> Int]
      /\ old.live \subseteq b.live
      /\ Cut(b, old, n)
      /\ \A j \in 1..n : j > k \/ j \notin Those(b, {action}) => Unchanged(b, old, j)
  BY DEF SoFar
<1>2. /\ \A a \in accounts : acc.left[a] = budget[a] - Total(h, S(a))
      /\ \A j \in 1..k : j \in Those(old, {action}) =>
           old.dec[j].qty > 0 /\ cost[j][old.dec[j].qty] # {} /\ acc.left[account[j]] >= 0
  BY DEF SoFar
<1>3. /\ \A j \in 1..k : Alone(b, action, account, j) /\ Affordable(b, budget, account, cost, j) => Unchanged(b, old, j)
      /\ \A p \in [1..n -> Proposal] : Told(p, b, n) => Told(p, old, n)
      /\ \A j \in 1..k : Tight(b, old, n, action, budget, account, cost, j)
  BY DEF SoFar
<1>4. /\ i \in 1..n /\ i > k /\ i \notin 1..k /\ (\A j : j \in 1..i <=> j \in 1..k \/ j = i)
      /\ \A j \in 1..k : j \in 1..n /\ j # i
  OBVIOUS
<1>5. Unchanged(b, old, i)
  BY <1>1, <1>4
<1>6. \A j \in 1..n : /\ b.dec[j] \in Proposal /\ old.dec[j] \in Proposal
                      /\ b.dec[j].qty \in Nat /\ old.dec[j].qty \in Nat
                      /\ old.dec[j].action = b.dec[j].action
  <2>1. ASSUME NEW j \in 1..n PROVE old.dec[j].action = b.dec[j].action
    <3>1. old.dec[j] = Sized(b.dec[j], old.dec[j].qty)
      BY <1>1 DEF Cut
    <3> QED BY <3>1, SizedKeeps
  <2> QED BY <1>1, <2>1 DEF BatchOf, Proposal
<1>7. \A j \in 1..n : j \in Those(old, {action}) => j \in Those(b, {action})
  BY <1>1, <1>6 DEF Those
<1>8. Given(acc, i, n, action, account, cost, accounts, next)
  <2>1. CostsOf(cost, old, i)
    BY <1>4, <1>5 DEF Costs, CostsOf, Unchanged
  <2>2. i \in Those(old, {action}) => old.dec[i].qty > 0
    BY <1>4, <1>5, <1>7 DEF Unchanged
  <2> QED BY <1>1, <1>4, <2>1, <2>2, GiveEffect
<1> HIDE DEF i
<1>9. /\ c \in BatchOf(n) /\ next.left \in [accounts -> Int]
      /\ c.live \subseteq old.live
      /\ \A j \in 1..n : j # i \/ i \notin Those(old, {action}) =>
           c.dec[j] = old.dec[j] /\ (j \in c.live <=> j \in old.live)
      /\ c.dec[i] = Sized(old.dec[i], c.dec[i].qty) /\ c.dec[i].qty <= old.dec[i].qty
  BY <1>8 DEF Given, GivenTo
<1>10. /\ \A a \in accounts :
            next.left[a] = acc.left[a] - IF account[i] = a THEN Drawn(c, action, cost, i) ELSE 0
       /\ Drawn(c, action, cost, i) \in Int
       /\ i \in Those(c, {action}) =>
            c.dec[i].qty > 0 /\ cost[i][c.dec[i].qty] # {} /\ next.left[account[i]] >= 0
  BY <1>8 DEF Given, GivenTo
<1>11. /\ (\A m \in 1..old.dec[i].qty : \E x \in cost[i][m] : x <= acc.left[account[i]]) => c = old
       /\ \A p \in [1..n -> Proposal] : Told(p, old, n) => Told(p, c, n)
       /\ i \in Those(old, {action}) /\ Lots(c, i) < old.dec[i].qty =>
            \A x \in cost[i][Lots(c, i) + 1] : ~(x <= acc.left[account[i]])
  BY <1>8 DEF Given, GivenTo, GaveAll
<1> HIDE DEF old, c
<1>12. Cut(b, c, n)
  <2> SUFFICES ASSUME NEW j \in 1..n
               PROVE  c.dec[j] = Sized(b.dec[j], c.dec[j].qty) /\ c.dec[j].qty <= b.dec[j].qty
    BY DEF Cut
  <2>1. CASE j # i
    BY <1>1, <1>9, <2>1 DEF Cut
  <2>2. CASE j = i
    BY <1>5, <1>9, <2>2 DEF Unchanged
  <2> QED BY <2>1, <2>2
<1>13. \A j \in 1..n : j > i \/ j \notin Those(b, {action}) => Unchanged(b, c, j)
  <2> SUFFICES ASSUME NEW j \in 1..n, j > i \/ j \notin Those(b, {action}) PROVE Unchanged(b, c, j)
    OBVIOUS
  <2>1. j # i \/ i \notin Those(old, {action})
    <3>1. CASE j > i
      BY <1>4, <3>1
    <3>2. CASE j \notin Those(b, {action})
      BY <1>7, <3>2
    <3> QED BY <3>1, <3>2
  <2>2. j > k \/ j \notin Those(b, {action})
    BY <1>4 DEF i
  <2>3. Unchanged(b, old, j)
    BY <1>1, <2>2
  <2> QED BY <1>9, <2>1, <2>3 DEF Unchanged
<1>14. \A j \in 1..k : /\ Unchanged(old, c, j)
                       /\ j \in Those(c, {action}) <=> j \in Those(old, {action})
                       /\ Drawn(c, action, cost, j) = Drawn(old, action, cost, j)
  <2> SUFFICES ASSUME NEW j \in 1..k
               PROVE  /\ Unchanged(old, c, j)
                      /\ j \in Those(c, {action}) <=> j \in Those(old, {action})
                      /\ Drawn(c, action, cost, j) = Drawn(old, action, cost, j)
    OBVIOUS
  <2>1. c.dec[j] = old.dec[j] /\ (j \in c.live <=> j \in old.live)
    BY <1>4, <1>9
  <2>2. j \in Those(c, {action}) <=> j \in Those(old, {action})
    BY <2>1 DEF Those
  <2> QED BY <2>1, <2>2 DEF Unchanged, Drawn
<1>15. \A j \in 1..n : /\ Drawn(old, action, cost, j) \in Int /\ h[j] = Drawn(old, action, cost, j)
                       /\ Drawn(c, action, cost, j) \in Int /\ g[j] = Drawn(c, action, cost, j)
  <2>1. \A j \in 1..n : Drawn(old, action, cost, j) \in Int /\ h[j] = Drawn(old, action, cost, j)
    <3>1. old \in BatchOf(n) /\ Cut(b, old, n)
      BY <1>1
    <3> QED BY <3>1, DrawnType
  <2>2. \A j \in 1..n : Drawn(c, action, cost, j) \in Int /\ g[j] = Drawn(c, action, cost, j)
    BY <1>9, <1>12, DrawnType
  <2> QED BY <2>1, <2>2
<1> HIDE DEF h, g
<1>16. ASSUME NEW a \in accounts PROVE next.left[a] = budget[a] - Total(g, Sharing(account, i, a))
  <2>1. /\ IsFiniteSet(S(a)) /\ S(a) \in SUBSET (1..k) /\ i \notin S(a)
        /\ account[i] = a => Sharing(account, i, a) = S(a) \cup {i}
        /\ account[i] # a => Sharing(account, i, a) = S(a)
    <3>1. SharingGrows(account, k, a)
      BY SharingMore
    <3> QED BY <3>1 DEF SharingGrows, i
  <2> DEFINE T == S(a)
             U == Sharing(account, i, a)
  <2>2. acc.left[a] = budget[a] - Total(h, T) /\ acc.left[a] \in Int /\ budget[a] \in Int
    BY <1>1, <1>2
  <2> HIDE DEF T, U
  <2>3. \A x \in T : h[x] \in Int /\ g[x] \in Int /\ g[x] = h[x]
    BY <1>4, <1>14, <1>15, <2>1 DEF T
  <2>4. IntsOn(h, T)
    BY <2>3 DEF IntsOn
  <2>5. IsFiniteSet(T) /\ i \notin T
    BY <2>1 DEF T
  <2>6. Total(h, T) \in Int
    BY <2>4, <2>5, TotalType
  <2>7. CASE account[i] = a
    <3>1. U = T \cup {i}
      BY <2>1, <2>7 DEF T, U
    <3>2. g[i] \in Int /\ g[i] = Drawn(c, action, cost, i)
      BY <1>4, <1>15
    <3>3. Total(g, U) = Total(h, T) + g[i]
      <4>1. Total(g, T) = Total(h, T)
        BY <2>3, <2>4, <2>5, TotalsAgree
      <4>2. IntsOn(g, T \cup {i})
        BY <2>3, <3>2 DEF IntsOn
      <4>3. Total(g, T \cup {i}) = Total(g, T) + g[i]
        BY <2>5, <4>2, TotalWith
      <4>4. Total(g, U) = Total(g, T \cup {i})
        BY <3>1, Zenon
      <4> QED BY <4>1, <4>3, <4>4
    <3>4. next.left[a] = acc.left[a] - g[i]
      BY <1>10, <2>7, <3>2
    <3> QED BY <2>2, <2>6, <3>2, <3>3, <3>4 DEF U
  <2>8. CASE account[i] # a
    <3>1. U = T
      BY <2>1, <2>8 DEF T, U
    <3>2. Total(g, T) = Total(h, T)
      BY <2>3, <2>4, <2>5, TotalsAgree
    <3>3. next.left[a] = acc.left[a]
      BY <1>10, <2>2, <2>8
    <3> QED BY <2>2, <3>1, <3>2, <3>3 DEF U
  <2> QED BY <2>7, <2>8
<1>17. ASSUME NEW j \in 1..i, j \in Those(c, {action})
       PROVE  c.dec[j].qty > 0 /\ cost[j][c.dec[j].qty] # {} /\ next.left[account[j]] >= 0
  <2>1. CASE j = i
    BY <1>10, <1>17, <2>1
  <2>2. CASE j # i
    <3>1. j \in 1..k /\ j \in 1..n /\ account[j] \in accounts
      BY <1>4, <2>2
    <3>2. j \in Those(old, {action}) /\ c.dec[j] = old.dec[j]
      BY <1>14, <1>17, <3>1 DEF Unchanged
    <3>3. old.dec[j].qty > 0 /\ cost[j][old.dec[j].qty] # {} /\ acc.left[account[j]] >= 0
      BY <1>2, <3>1, <3>2
    <3>4. next.left[account[j]] >= 0
      <4>1. CASE i \in Those(c, {action}) /\ account[i] = account[j]
        BY <1>10, <4>1
      <4>2. CASE i \notin Those(c, {action}) \/ account[i] # account[j]
        <5>1. i \notin Those(c, {action}) => Drawn(c, action, cost, i) = 0
          BY DEF Drawn
        <5>2. next.left[account[j]] = acc.left[account[j]]
          <6>1. acc.left[account[j]] \in Int
            BY <1>1, <3>1
          <6> QED BY <1>10, <3>1, <4>2, <5>1, <6>1
        <5> QED BY <3>3, <5>2
      <4> QED BY <4>1, <4>2
    <3> QED BY <3>2, <3>3, <3>4
  <2> QED BY <2>1, <2>2
<1>18. ASSUME NEW j \in 1..i, Alone(b, action, account, j), Affordable(b, budget, account, cost, j)
       PROVE  Unchanged(b, c, j)
  <2>1. CASE j # i
    <3>1. j \in 1..k
      BY <1>4, <2>1
    <3>2. Unchanged(b, old, j) /\ Unchanged(old, c, j)
      BY <1>3, <1>14, <1>18, <3>1
    <3> QED BY <3>2 DEF Unchanged
  <2>2. CASE j = i /\ i \notin Those(old, {action})
    BY <1>4, <1>5, <1>9, <2>2 DEF Unchanged
  <2>3. CASE j = i /\ i \in Those(old, {action})
    <3> DEFINE a == account[i]
               T == S(a)
    <3>1. a \in accounts
      BY <1>4
    <3>2. IsFiniteSet(T) /\ T \in SUBSET (1..k) /\ \A x \in T : account[x] = a
      <4>1. IsFiniteSet(S(a)) /\ S(a) \in SUBSET (1..k)
        <5>1. SharingGrows(account, k, a)
          BY SharingMore
        <5> QED BY <5>1 DEF SharingGrows
      <4> QED BY <4>1 DEF Sharing
    <3>3. ASSUME NEW x \in T PROVE h[x] = 0
      <4>1. x \in 1..k /\ x \in 1..n /\ x # i /\ account[x] = account[i]
        BY <1>4, <3>2
      <4>2. x \notin Those(b, {action})
        BY <1>18, <2>3, <4>1 DEF Alone
      <4>3. x \notin Those(old, {action})
        BY <1>7, <4>1, <4>2
      <4> QED BY <1>15, <4>1, <4>3 DEF Drawn
    <3>4. acc.left[a] = budget[a] - Total(h, T) /\ budget[a] \in Int
      BY <1>2, <3>1
    <3> HIDE DEF T
    <3>5. Total(h, T) = 0
      BY <3>2, <3>3, TotalOfZeros
    <3>6. acc.left[a] = budget[a]
      BY <3>4, <3>5
    <3>7. old.dec[i] = b.dec[i]
      BY <1>5 DEF Unchanged
    <3>8. \A m \in 1..old.dec[i].qty : \E x \in cost[i][m] : x <= acc.left[account[i]]
      BY <1>18, <2>3, <3>6, <3>7 DEF Affordable
    <3>9. c = old
      BY <1>11, <3>8
    <3> QED BY <1>5, <2>3, <3>9
  <2> QED BY <2>1, <2>2, <2>3
<1>19. c.live \subseteq b.live /\ \A p \in [1..n -> Proposal] : Told(p, b, n) => Told(p, c, n)
  BY <1>1, <1>3, <1>9, <1>11
\* What the decisions before j drew is the same when decision i has had its turn.
<1>20. ASSUME NEW j \in 1..i
       PROVE  Total(g, Sharing(account, j - 1, account[j])) = Total(h, Sharing(account, j - 1, account[j]))
  <2> DEFINE T == Sharing(account, j - 1, account[j])
  <2>1. j \in Nat /\ j - 1 \in Nat /\ \A x \in 1..(j - 1) : x \in 1..k
    BY DEF i
  <2>2. IsFiniteSet(T) /\ T \in SUBSET (1..(j - 1))
    <3>1. SharingGrows(account, j - 1, account[j])
      BY <2>1, SharingMore
    <3> QED BY <3>1 DEF SharingGrows
  <2> HIDE DEF T
  <2>3. \A x \in T : h[x] \in Int /\ h[x] = g[x]
    BY <1>4, <1>14, <1>15, <2>1, <2>2
  <2>4. IntsOn(h, T)
    BY <2>3 DEF IntsOn
  <2>5. Total(g, T) = Total(h, T)
    BY <2>2, <2>3, <2>4, TotalsAgree
  <2> QED BY <2>5 DEF T
<1>21. ASSUME NEW j \in 1..i, j \in Those(b, {action}), Lots(c, j) < b.dec[j].qty,
              NEW x \in cost[j][Lots(c, j) + 1]
       PROVE  ~(x <= budget[account[j]] - Total(g, Sharing(account, j - 1, account[j])))
  <2> DEFINE drawn == Total(g, Sharing(account, j - 1, account[j]))
  <2>1. drawn = Total(h, Sharing(account, j - 1, account[j]))
    BY <1>20
  <2>2. CASE j # i
    <3>1. j \in 1..k
      BY <1>4, <2>2
    <3>2. Lots(c, j) = Lots(old, j)
      BY <1>14, <3>1 DEF Unchanged, Lots
    <3>3. Tight(b, old, n, action, budget, account, cost, j)
      BY <1>3, <3>1
    <3>4. Lots(old, j) < b.dec[j].qty /\ x \in cost[j][Lots(old, j) + 1]
      BY <1>21, <3>2, Zenon
    <3>5. ~(x <= budget[account[j]] - Total(h, Sharing(account, j - 1, account[j])))
      BY <1>21, <3>3, <3>4 DEF Tight, h
    <3> QED BY <2>1, <3>5, Zenon
  <2>3. CASE j = i
    <3>1. i \in Those(old, {action}) /\ old.dec[i] = b.dec[i]
      BY <1>5, <1>21, <2>3 DEF Those, Unchanged
    <3>2. ~(x <= acc.left[account[i]])
      <4>1. Lots(c, i) < old.dec[i].qty /\ x \in cost[i][Lots(c, i) + 1]
        BY <1>21, <2>3, <3>1
      <4> QED BY <1>11, <3>1, <4>1
    <3>3. account[i] \in accounts /\ i - 1 = k
      BY <1>4 DEF i
    <3>4. acc.left[account[i]] = budget[account[i]] - Total(h, S(account[i]))
      BY <1>2, <3>3
    <3> QED BY <2>1, <2>3, <3>2, <3>3, <3>4
  <2> QED BY <2>2, <2>3
<1>22. \A j \in 1..i : Tight(b, c, n, action, budget, account, cost, j)
  BY <1>21 DEF Tight, g
<1>23. SoFar(i, next, b, n, action, budget, account, cost, accounts)
  BY <1>9, <1>12, <1>13, <1>16, <1>17, <1>18, <1>19, <1>22, Zenon DEF SoFar, c, g
<1> QED BY <1>23 DEF i

\* What a ration makes of a batch.
Rationed(b, c, n, action, budget, account, cost) ==
  /\ c \in BatchOf(n) /\ c.live \subseteq b.live
  /\ Cut(b, c, n)
  /\ \A j \in 1..n : j \notin Those(b, {action}) => Unchanged(b, c, j)
  /\ \A j \in Those(c, {action}) :
       /\ c.dec[j].qty > 0 /\ cost[j][c.dec[j].qty] # {}
       /\ Total(Draws(c, n, action, cost), Sharing(account, n, account[j])) <= budget[account[j]]
  /\ \A j \in 1..n : Alone(b, action, account, j) /\ Affordable(b, budget, account, cost, j) => Unchanged(b, c, j)
  /\ \A j \in 1..n : Tight(b, c, n, action, budget, account, cost, j)
  /\ \A p \in [1..n -> Proposal] : Told(p, b, n) => Told(p, c, n)

\* At every moment of a ration.
LEMMA RunsSoFar ==
  ASSUME NEW n \in Nat, NEW b \in BatchOf(n), NEW action, NEW accounts, NEW budget \in [accounts -> Int],
         NEW account \in [1..n -> accounts], NEW cost, Costs(cost, b, n),
         \A j \in Those(b, {action}) : b.dec[j].qty > 0, NEW r \in RuleNames,
         NEW acc, Runs(acc, b, n, r, action, budget, account, cost), NEW m \in 0..n
  PROVE  SoFar(m, acc[m], b, n, action, budget, account, cost, accounts)
<1> DEFINE So(k) == SoFar(k, acc[k], b, n, action, budget, account, cost, accounts)
           N == {k \in Nat : k <= n => So(k)}
<1>1. acc[0] = [batch |-> b, left |-> budget] /\ \A k \in 1..n : acc[k] = Give(acc[k - 1], k, r, action, account, cost)
  BY DEF Runs
<1>2. So(0)
  <2> DEFINE a0 == acc[0]
             h == Draws(b, n, action, cost)
  <2>1. a0.batch = b /\ a0.left = budget
    BY <1>1
  <2> HIDE DEF a0
  <2>2. Cut(b, b, n)
    <3>1. \A i \in 1..n : b.dec[i] \in Proposal /\ b.dec[i].qty \in Nat
      BY DEF BatchOf, Proposal
    <3>2. \A i \in 1..n : b.dec[i] = Sized(b.dec[i], b.dec[i].qty)
      BY <3>1, SizedIsExcept
    <3> QED BY <3>1, <3>2 DEF Cut
  <2>3. ASSUME NEW a \in accounts PROVE budget[a] = budget[a] - Total(h, Sharing(account, 0, a))
    <3> DEFINE S == Sharing(account, 0, a)
    <3>1. S = {}
      BY DEF Sharing
    <3> HIDE DEF S
    <3>2. budget[a] \in Int
      OBVIOUS
    <3> HIDE DEF h
    <3>3. Total(h, {}) = 0
      BY TotalOfNone
    <3>4. Total(h, S) = 0
      BY <3>1, <3>3, Zenon
    <3>5. budget[a] = budget[a] - Total(h, S)
      BY <3>2, <3>4
    <3> QED BY <3>5 DEF S
  <2>4. \A j \in 1..n : Unchanged(b, b, j)
    BY DEF Unchanged
  <2>5. ~ \E j : j \in 1..0
    OBVIOUS
  <2> HIDE DEF h
  <2>6. SoFar(0, a0, b, n, action, budget, account, cost, accounts)
    BY <2>1, <2>2, <2>3, <2>4, <2>5 DEF SoFar, h
  <2> QED BY <2>6 DEF a0
<1>3. ASSUME NEW k \in N PROVE k + 1 \in N
  <2>1. k \in Nat
    OBVIOUS
  <2>2. ASSUME k + 1 <= n PROVE So(k + 1)
    <3>1. So(k) /\ k + 1 \in 1..n /\ (k + 1) - 1 = k
      BY <2>1, <2>2
    <3> DEFINE from == acc[k]
               next == acc[k + 1]
    <3>2. next = Give(from, k + 1, r, action, account, cost)
      BY <1>1, <3>1
    <3>3. SoFar(k, from, b, n, action, budget, account, cost, accounts)
      BY <3>1
    <3> HIDE DEF from, next
    <3>4. SoFar(k + 1, next, b, n, action, budget, account, cost, accounts)
      BY <2>1, <3>1, <3>2, <3>3, RationStep
    <3> QED BY <3>4 DEF next
  <2> HIDE DEF So
  <2> QED BY <2>1, <2>2
<1> HIDE DEF So
<1>4. N = Nat
  <2>1. 0 \in N /\ N \in SUBSET Nat
    BY <1>2
  <2> HIDE DEF N
  <2> QED BY <1>3, <2>1, SetOfNaturals
<1>5. So(m)
  BY <1>4
<1> QED BY <1>5 DEF So

LEMMA RationEffect ==
  ASSUME NEW n \in Nat, NEW b \in BatchOf(n), NEW action, NEW accounts, NEW budget \in [accounts -> Int],
         NEW account \in [1..n -> accounts], NEW cost, Costs(cost, b, n),
         \A j \in Those(b, {action}) : b.dec[j].qty > 0, NEW r \in RuleNames
  PROVE  Rationed(b, Ration(b, r, action, budget, account, cost), n, action, budget, account, cost)
<1>1. PICK acc : /\ Runs(acc, b, n, r, action, budget, account, cost)
                 /\ Ration(b, r, action, budget, account, cost) = acc[n].batch
  BY RationRuns
<1> DEFINE last == acc[n]
           c == last.batch
           h == Draws(c, n, action, cost)
<1>2. SoFar(n, last, b, n, action, budget, account, cost, accounts)
  <2>1. n \in 0..n
    OBVIOUS
  <2> QED BY <1>1, <2>1, RunsSoFar
<1> HIDE DEF last
<1>3. /\ c \in BatchOf(n) /\ last.left \in [accounts -> Int]
      /\ c.live \subseteq b.live
      /\ Cut(b, c, n)
      /\ \A j \in 1..n : j > n \/ j \notin Those(b, {action}) => Unchanged(b, c, j)
  BY <1>2 DEF SoFar
<1>4. /\ \A a \in accounts : last.left[a] = budget[a] - Total(h, Sharing(account, n, a))
      /\ \A j \in 1..n : j \in Those(c, {action}) =>
           c.dec[j].qty > 0 /\ cost[j][c.dec[j].qty] # {} /\ last.left[account[j]] >= 0
  BY <1>2 DEF SoFar
<1>5. /\ \A j \in 1..n : Alone(b, action, account, j) /\ Affordable(b, budget, account, cost, j) => Unchanged(b, c, j)
      /\ \A p \in [1..n -> Proposal] : Told(p, b, n) => Told(p, c, n)
      /\ \A j \in 1..n : Tight(b, c, n, action, budget, account, cost, j)
  BY <1>2 DEF SoFar
<1> HIDE DEF c
<1>6. ASSUME NEW a \in accounts, last.left[a] >= 0 PROVE Total(h, Sharing(account, n, a)) <= budget[a]
  <2> DEFINE S == Sharing(account, n, a)
  <2>1. IsFiniteSet(S) /\ S \in SUBSET (1..n)
    <3>1. SharingGrows(account, n, a)
      BY SharingMore
    <3> QED BY <3>1 DEF SharingGrows
  <2>2. \A j \in 1..n : Drawn(c, action, cost, j) \in Int /\ h[j] = Drawn(c, action, cost, j)
    <3>1. c \in BatchOf(n) /\ Cut(b, c, n)
      BY <1>3
    <3> QED BY <3>1, DrawnType
  <2> HIDE DEF h, S
  <2>3. IntsOn(h, S)
    BY <2>1, <2>2 DEF IntsOn
  <2>4. Total(h, S) \in Int
    BY <2>1, <2>3, TotalType
  <2>5. last.left[a] = budget[a] - Total(h, S) /\ budget[a] \in Int
    BY <1>4 DEF S
  <2> QED BY <1>6, <2>4, <2>5 DEF S
<1>7. ASSUME NEW j \in Those(c, {action})
      PROVE  /\ c.dec[j].qty > 0 /\ cost[j][c.dec[j].qty] # {}
             /\ Total(h, Sharing(account, n, account[j])) <= budget[account[j]]
  <2>1. j \in 1..n
    BY <1>3 DEF Those, BatchOf
  <2>2. account[j] \in accounts /\ last.left[account[j]] >= 0
    BY <1>4, <2>1
  <2> QED BY <1>4, <1>6, <2>1, <2>2
<1>8. Rationed(b, c, n, action, budget, account, cost)
  BY <1>3, <1>5, <1>7, Zenon DEF Rationed
<1> QED BY <1>1, <1>8 DEF c, last

-----------------------------------------------------------------------------
(* What validation leaves *)

\* Known actions of a quantity that fits, none twice on an instrument.
Proposed(p, n) ==
  /\ p \in [1..n -> Proposal]
  /\ \A i \in 1..n : p[i].action \in {"buy", "sell"} => p[i].qty > 0
  /\ \A i, j \in 1..n : p[i].uid = p[j].uid /\ p[i].action = p[j].action => i = j

LEMMA AcceptedIsProposed ==
  ASSUME NEW answer \in Answers
  PROVE  \E n \in Nat : Proposed(Accepted(answer, Request), n)
<1> DEFINE S == DOMAIN answer \ Bad(answer, Request)
           f == InOrder(S)
           n == Cardinality(S)
           Of(a) == [uid |-> a.uid, action |-> a.action, qty |-> a.qty, type |-> a.type,
                     limit |-> SumSet(a.limit), tif |-> a.tif]
           p == [k \in DOMAIN f |-> Of(answer[f[k]])]
           m == Len(answer)
<1>1. /\ m \in Nat /\ DOMAIN answer = 1..m
      /\ \A i \in 1..m : answer[i].qty \in Int /\ answer[i].limit \in SUBSET Int /\ \A x, y \in answer[i].limit : x = y
      /\ DOMAIN Request = Uids
  BY RiskAssumption
<1>2. S \in SUBSET (1..m) /\ IsFiniteSet(S)
  <2>1. 1 \in Int /\ m \in Int /\ S \in SUBSET (1..m)
    BY <1>1
  <2>2. IsFiniteSet(1..m)
    BY <2>1, FS_Interval
  <2> QED BY <2>1, <2>2, FS_Subset
<1>3. f \in [1..n -> S] /\ n \in Nat /\ \A j, k \in 1..n : f[j] = f[k] => j = k
  <2>1. S \in SUBSET Int
    BY <1>1, <1>2
  <2> HIDE DEF S
  <2> QED BY <1>2, <2>1, InOrderSorts
<1>4. \A i \in S : i \in 1..m /\ ~BadShape(answer, i) /\ ~BadSemantics(answer[i], Request)
  BY <1>1 DEF Bad
<1>5. Accepted(answer, Request) = p
  BY DEF Accepted
<1> HIDE DEF S, f, n, m, p
<1>6. \A k \in 1..n : p[k] = Of(answer[f[k]]) /\ DOMAIN f = 1..n /\ f[k] \in S
  BY <1>3 DEF p
<1>7. DOMAIN p = 1..n /\ p = [k \in 1..n |-> p[k]]
  BY <1>3 DEF p
<1>8. ASSUME NEW i \in S
      PROVE  /\ answer[i].action \in Actions /\ answer[i].type \in OrderTypes /\ answer[i].tif \in TimesInForce
             /\ answer[i].uid \in Uids /\ answer[i].qty \in Nat /\ ~Repeats(answer, i)
             /\ answer[i].action \in {"buy", "sell"} => answer[i].qty > 0
             /\ SumSet(answer[i].limit) \in Int
  <2>1. i \in 1..m /\ ~BadShape(answer, i) /\ ~BadSemantics(answer[i], Request)
    BY <1>4
  <2>2. /\ answer[i].action \in Actions /\ answer[i].type \in OrderTypes /\ answer[i].tif \in TimesInForce
        /\ ~Repeats(answer, i)
        /\ answer[i].action \in {"buy", "sell"} => ~(answer[i].qty <= 0)
    BY <2>1 DEF BadShape, Sided
  <2>3. answer[i].uid \in Uids /\ (answer[i].action \in {"hold", "close"} => answer[i].qty = 0)
    BY <1>1, <2>1 DEF BadSemantics
  <2>4. answer[i].qty \in Int
    BY <1>1, <2>1
  <2>5. SumSet(answer[i].limit) \in Int
    BY <1>1, <2>1, KnownCost
  <2> QED BY <2>2, <2>3, <2>4, <2>5 DEF Actions
<1>9. ASSUME NEW k \in 1..n PROVE p[k] \in Proposal /\ (p[k].action \in {"buy", "sell"} => p[k].qty > 0)
  <2> DEFINE a == answer[f[k]]
  <2>1. /\ a.action \in Actions /\ a.type \in OrderTypes /\ a.tif \in TimesInForce
        /\ a.uid \in Uids /\ a.qty \in Nat /\ SumSet(a.limit) \in Int
        /\ a.action \in {"buy", "sell"} => a.qty > 0
    BY <1>6, <1>8
  <2> DEFINE x == SumSet(a.limit)
  <2>2. p[k] = [uid |-> a.uid, action |-> a.action, qty |-> a.qty, type |-> a.type, limit |-> x, tif |-> a.tif]
    BY <1>6
  <2> HIDE DEF a, x
  <2>3. x \in Int
    BY <2>1 DEF x
  <2> QED BY <2>1, <2>2, <2>3 DEF Proposal
<1>10. ASSUME NEW k \in 1..n PROVE p[k].uid = answer[f[k]].uid /\ p[k].action = answer[f[k]].action
  <2> DEFINE a == answer[f[k]]
             x == SumSet(a.limit)
  <2>1. p[k] = [uid |-> a.uid, action |-> a.action, qty |-> a.qty, type |-> a.type, limit |-> x, tif |-> a.tif]
    BY <1>6
  <2> HIDE DEF x
  <2> QED BY <2>1
<1>11. ASSUME NEW j \in 1..n, NEW k \in 1..n, p[j].uid = p[k].uid, p[j].action = p[k].action, f[j] < f[k]
       PROVE  FALSE
  <2>1. f[j] \in S /\ f[k] \in S /\ f[j] \in 1..m /\ f[k] \in 1..m
    BY <1>4, <1>6
  <2>2. answer[f[j]].uid = answer[f[k]].uid /\ answer[f[j]].action = answer[f[k]].action
    BY <1>11, <1>10
  <2>3. f[j] \in 1..(f[k] - 1)
    BY <1>11, <2>1
  <2> QED BY <1>8, <2>1, <2>2, <2>3 DEF Repeats
<1>12. ASSUME NEW j \in 1..n, NEW k \in 1..n, p[j].uid = p[k].uid, p[j].action = p[k].action
       PROVE  j = k
  <2>1. f[j] \in 1..m /\ f[k] \in 1..m
    BY <1>4, <1>6
  <2>2. f[j] < f[k] \/ f[k] < f[j] \/ f[j] = f[k]
    BY <1>1, <2>1
  <2> QED BY <1>3, <1>11, <1>12, <2>2
<1>13. p \in [1..n -> Proposal]
  BY <1>7, <1>9
<1>14. Proposed(p, n)
  BY <1>9, <1>12, <1>13 DEF Proposed
<1> QED BY <1>3, <1>5, <1>14

-----------------------------------------------------------------------------
(* The batch of a check: its type, and the rules that only strip *)

Rules == {"kill_switch", "halt", "allowlist", "currency", "per_cycle", "per_day",
          "position", "exposure", "cash", "oversell", "done"}

N == Len(proposed)
Sound ==
  /\ N \in Nat /\ Proposed(proposed, N)
  /\ state \in States /\ limits \in Limits /\ rule \in Rules
  /\ batch \in BatchOf(N)
  /\ Told(proposed, batch, N)

\* A decision of a batch is the proposed one but for its quantity.
LEMMA ToldMeans ==
  ASSUME NEW n \in Nat, NEW p, Proposed(p, n), NEW b \in BatchOf(n), Told(p, b, n), NEW i \in 1..n
  PROVE  /\ b.dec[i] \in Proposal /\ p[i] \in Proposal /\ b.dec[i].qty \in Nat
         /\ b.dec[i] = Sized(p[i], b.dec[i].qty)
         /\ b.dec[i].action = p[i].action /\ b.dec[i].uid = p[i].uid /\ b.dec[i].uid \in Uids
         /\ i \in b.live /\ p[i].action \in {"buy", "sell"} => b.dec[i].qty > 0
<1>1. b.dec[i] \in Proposal /\ p[i] \in Proposal /\ b.dec[i].qty \in Nat /\ p[i].qty \in Nat
  BY DEF Proposed, BatchOf, Proposal
<1>2. ToldAt(p, b, i)
  BY DEF Told
<1>3. b.dec[i] = Sized(p[i], b.dec[i].qty)
  <2>1. CASE b.dec[i] = p[i]
    <3>1. p[i] = Sized(p[i], p[i].qty)
      BY <1>1, SizedIsExcept
    <3> QED BY <2>1, <3>1
  <2>2. CASE b.dec[i] # p[i]
    BY <1>2, <2>2 DEF ToldAt
  <2> QED BY <2>1, <2>2
<1>4. b.dec[i].action = p[i].action /\ b.dec[i].uid = p[i].uid
  BY <1>3, SizedKeeps
<1>5. b.dec[i].uid \in Uids
  BY <1>1 DEF Proposal
<1>6. i \in b.live /\ p[i].action \in {"buy", "sell"} => b.dec[i].qty > 0
  <2>1. CASE b.dec[i] = p[i]
    BY <2>1 DEF Proposed
  <2>2. CASE b.dec[i] # p[i]
    BY <1>2, <2>2 DEF ToldAt
  <2> QED BY <2>1, <2>2
<1> QED BY <1>1, <1>3, <1>4, <1>5, <1>6

LEMMA BatchStarts ==
  ASSUME NEW n \in Nat, NEW p \in [1..n -> Proposal]
  PROVE  /\ Batch(p) \in BatchOf(n) /\ Told(p, Batch(p), n)
         /\ Batch(p).dec = p /\ Batch(p).live = 1..n
<1> DEFINE b == Batch(p)
<1>1. b = [dec |-> p, live |-> 1..n, log |-> <<>>]
  BY DEF Batch
<1>2. <<>> \in Seq(Entry(n)) /\ DOMAIN <<>> = {}
  OBVIOUS
<1> HIDE DEF b
<1>3. b.dec = p /\ b.live = 1..n /\ b.log = <<>>
  BY <1>1
<1>4. b \in BatchOf(n)
  BY <1>1, <1>2 DEF BatchOf
<1>5. Told(p, b, n)
  <2> SUFFICES ASSUME NEW i \in 1..n PROVE ToldAt(p, b, i)
    BY DEF Told
  <2>1. Silent(b.log, i)
    BY <1>2, <1>3 DEF Silent
  <2> QED BY <1>3, <2>1 DEF ToldAt
<1> QED BY <1>3, <1>4, <1>5 DEF b

\* What a rule makes of a batch that only strips.
Thinned(b, c, n) ==
  /\ c \in BatchOf(n) /\ c.dec = b.dec /\ c.live \subseteq b.live
  /\ \A p \in [1..n -> Proposal] : Told(p, b, n) => Told(p, c, n)

LEMMA StripThins ==
  ASSUME NEW n \in Nat, NEW b \in BatchOf(n), NEW S \in SUBSET b.live, NEW r \in RuleNames
  PROVE  /\ Thinned(b, Strip(b, S, r), n)
         /\ Strip(b, S, r).live = b.live \ S
<1> DEFINE c == Strip(b, S, r)
<1>1. S \in SUBSET (1..n)
  BY DEF BatchOf
<1>2. Stripped(b, S, r, n, c)
  BY <1>1, StripEffect
<1> HIDE DEF c
<1>3. \A p \in [1..n -> Proposal] : Told(p, b, n) => Told(p, c, n)
  BY <1>2, StripTold
<1>4. Thinned(b, c, n) /\ c.live = b.live \ S
  BY <1>2, <1>3 DEF Stripped, Thinned
<1> QED BY <1>4 DEF c

LEMMA ThinnedSelf == ASSUME NEW n, NEW b \in BatchOf(n) PROVE Thinned(b, b, n)
BY DEF Thinned

\* The rules before the rations, and what each of them leaves alone.
LEMMA GateEffects ==
  ASSUME NEW n \in Nat, NEW b \in BatchOf(n), NEW s, NEW lim
  PROVE  /\ Thinned(b, ApplyKillSwitch(b, s, lim), n)
         /\ Thinned(b, ApplyOperationalHalt(b, s), n)
         /\ Thinned(b, ApplyAllowlist(b, s, lim), n)
         /\ Thinned(b, ApplyCurrencyMismatch(b, s), n)
         /\ \A cap, r : r \in RuleNames => Thinned(b, ApplyOrderCap(b, cap, r), n)
<1>1. \A actions : Those(b, actions) \in SUBSET b.live
  BY DEF Those
<1>2. \A S \in SUBSET b.live, r \in RuleNames : Thinned(b, Strip(b, S, r), n)
  BY StripThins
<1>3. /\ "daily_loss_kill_switch" \in RuleNames /\ "operational_halt" \in RuleNames
      /\ "allowlist" \in RuleNames /\ "currency_mismatch" \in RuleNames
  BY DEF RuleNames
<1>4. Thinned(b, ApplyKillSwitch(b, s, lim), n)
  <2> DEFINE S == Those(b, {"buy", "hold"})
  <2>1. S \in SUBSET b.live
    BY <1>1
  <2> HIDE DEF S
  <2>2. Thinned(b, Strip(b, S, "daily_loss_kill_switch"), n)
    BY <1>2, <1>3, <2>1, Zenon
  <2> QED BY <2>2, ThinnedSelf DEF ApplyKillSwitch, S
<1>5. Thinned(b, ApplyOperationalHalt(b, s), n)
  <2> DEFINE S == Those(b, {"buy"})
  <2>1. S \in SUBSET b.live
    BY <1>1
  <2> HIDE DEF S
  <2>2. Thinned(b, Strip(b, S, "operational_halt"), n)
    BY <1>2, <1>3, <2>1, Zenon
  <2> QED BY <2>2, ThinnedSelf DEF ApplyOperationalHalt, S
<1>6. Thinned(b, ApplyAllowlist(b, s, lim), n)
  <2> DEFINE S == {i \in Those(b, {"buy"}) : ~Listed(b.dec[i].uid, s, lim)}
  <2>1. S \in SUBSET b.live
    BY <1>1
  <2> HIDE DEF S
  <2>2. Thinned(b, Strip(b, S, "allowlist"), n)
    BY <1>2, <1>3, <2>1, Zenon
  <2> QED BY <2>2, ThinnedSelf DEF ApplyAllowlist, S
<1>7. Thinned(b, ApplyCurrencyMismatch(b, s), n)
  <2> DEFINE S == {i \in Those(b, Orders) : /\ b.dec[i].uid \in DOMAIN s.info
                                            /\ s.info[b.dec[i].uid].currency # s.base}
  <2>1. S \in SUBSET b.live
    BY <1>1
  <2> HIDE DEF S
  <2>2. Thinned(b, Strip(b, S, "currency_mismatch"), n)
    BY <1>2, <1>3, <2>1, Zenon
  <2> QED BY <2>2 DEF ApplyCurrencyMismatch, S
<1>8. ASSUME NEW cap, NEW r \in RuleNames PROVE Thinned(b, ApplyOrderCap(b, cap, r), n)
  <2> DEFINE S == {i \in Those(b, Orders) : Cardinality({j \in Those(b, Orders) : j < i}) >= cap}
  <2>1. S \in SUBSET b.live
    BY <1>1
  <2> HIDE DEF S
  <2>2. Thinned(b, Strip(b, S, r), n)
    BY <1>2, <2>1, Zenon
  <2> QED BY <2>2 DEF ApplyOrderCap, S
<1> QED BY <1>4, <1>5, <1>6, <1>7, <1>8

-----------------------------------------------------------------------------
(* The account *)

AccountOK ==
  /\ \A u \in Uids : /\ state.pos[u].qty \in Nat /\ state.sells[u] \in Nat
                     /\ state.buys[u] \in Seq([lots : Nat \ {0}, limit : Int])
                     /\ Mark(u) \in Int
  /\ \A d \in Proposal : Quoted(d) \in Int
  /\ DOMAIN state.info \subseteq Uids
  /\ \A u \in DOMAIN state.info : LotOf(u, state) \in Int
  /\ state.dayPnL \in Int /\ state.cash \in Int
  /\ state.ordersToday \in Nat /\ state.slippage \in Nat /\ state.feeBps \in Nat
  /\ limits.maxPosition \in Nat /\ limits.maxTotal \in Nat /\ limits.cashFloor \in Nat
  /\ limits.perCycle \in Nat /\ limits.perDay \in Nat
  /\ limits.maxPosition <= MaxInt /\ limits.maxTotal <= MaxInt

LEMMA AccountTypes ==
  ASSUME state \in States, limits \in Limits
  PROVE  AccountOK
<1>1. /\ state.pos \in [Uids -> [qty : Nat, last : Int]]
      /\ state.buys \in [Uids -> Seq([lots : Nat \ {0}, limit : Int])]
      /\ state.sells \in [Uids -> Nat]
      /\ state.quotes \in [Uids -> [ask : Int, last : Int]]
      /\ DOMAIN state.info \subseteq Uids /\ \A u \in DOMAIN state.info : state.info[u].lot \in Int
      /\ {state.dayPnL, state.cash} \subseteq Int /\ {state.ordersToday, state.slippage, state.feeBps} \subseteq Nat
  BY RiskAssumption
<1>2. {limits.maxDailyLoss, limits.perCycle, limits.perDay, limits.maxPosition, limits.maxTotal, limits.cashFloor}
        \subseteq 0..MaxInt
  BY RiskAssumption
<1>3. \A u \in Uids : /\ state.pos[u].qty \in Nat /\ state.pos[u].last \in Int /\ state.sells[u] \in Nat
                      /\ state.quotes[u].ask \in Int /\ state.quotes[u].last \in Int
                      /\ state.buys[u] \in Seq([lots : Nat \ {0}, limit : Int])
  <2> SUFFICES ASSUME NEW u \in Uids
               PROVE  /\ state.pos[u].qty \in Nat /\ state.pos[u].last \in Int /\ state.sells[u] \in Nat
                      /\ state.quotes[u].ask \in Int /\ state.quotes[u].last \in Int
                      /\ state.buys[u] \in Seq([lots : Nat \ {0}, limit : Int])
    OBVIOUS
  <2>1. state.pos[u] \in [qty : Nat, last : Int]
    BY <1>1
  <2>2. state.quotes[u] \in [ask : Int, last : Int]
    BY <1>1
  <2>3. state.buys[u] \in Seq([lots : Nat \ {0}, limit : Int])
    BY <1>1, Zenon
  <2>4. state.sells[u] \in Nat
    BY <1>1
  <2> QED BY <2>1, <2>2, <2>3, <2>4
<1>4. \A u \in Uids : Mark(u) \in Int
  BY <1>3 DEF Mark
<1>5. ASSUME NEW d \in Proposal PROVE Quoted(d) \in Int
  <2>1. d.uid \in Uids /\ d.limit \in Int
    BY DEF Proposal
  <2> QED BY <1>3, <2>1 DEF Quoted
<1>6. \A u \in DOMAIN state.info : LotOf(u, state) \in Int
  BY <1>1 DEF LotOf
<1>7. /\ state.dayPnL \in Int /\ state.cash \in Int
      /\ state.ordersToday \in Nat /\ state.slippage \in Nat /\ state.feeBps \in Nat
  BY <1>1
<1>8. /\ limits.maxPosition \in Nat /\ limits.maxTotal \in Nat /\ limits.cashFloor \in Nat
      /\ limits.perCycle \in Nat /\ limits.perDay \in Nat
      /\ limits.maxPosition <= MaxInt /\ limits.maxTotal <= MaxInt
  BY <1>2, WidthAssumption
<1> QED BY <1>1, <1>3, <1>4, <1>5, <1>6, <1>7, <1>8, Zenon DEF AccountOK

LEMMA PendingLotsType ==
  ASSUME AccountOK, NEW u \in Uids
  PROVE  /\ PendingLots(u, state) \in Nat
         /\ \A k \in DOMAIN state.buys[u] : state.buys[u][k].lots <= PendingLots(u, state)
<1> DEFINE q == state.buys[u]
           S == DOMAIN q
           h == [k \in S |-> q[k].lots]
           J(it) == it = [s \in SUBSET S |-> IF s = {} THEN 0
                            ELSE state.buys[u][CHOOSE x \in s : TRUE].lots + it[s \ {CHOOSE x \in s : TRUE}]]
<1>1. q \in Seq([lots : Nat \ {0}, limit : Int])
  BY DEF AccountOK
<1>2. IsFiniteSet(S) /\ \A k \in S : h[k] \in Nat /\ h[k] = q[k].lots
  <2> DEFINE R == [lots : Nat \ {0}, limit : Int]
             len == Len(q)
             p == q
  <2>1. p \in Seq(R)
    BY <1>1
  <2> HIDE DEF R, p
  <2>2. Len(p) \in Nat /\ DOMAIN p = 1..Len(p) /\ \A k \in DOMAIN p : p[k] \in R
    BY <2>1
  <2>3. IsFiniteSet(1..Len(p))
    BY <2>2, 1 \in Int, Len(p) \in Int, FS_Interval
  <2>4. \A k \in DOMAIN p : p[k].lots \in Nat
    BY <2>2 DEF R
  <2> QED BY <2>2, <2>3, <2>4 DEF p
<1>3. PendingLots(u, state) = (CHOOSE it : J(it))[S]
  BY Zenon DEF PendingLots, MapThenSumSet, MapThenFoldSet
<1>4. \A s \in SUBSET S : s # {} => h[OneOf(s)] = state.buys[u][CHOOSE x \in s : TRUE].lots
  BY <1>2 DEF OneOf
<1> HIDE DEF h, S
<1>5. \A it : J(it) <=> IsSum(it, h, S)
  BY <1>4 DEF IsSum, OneOf
<1>6. IntsOn(h, S) /\ \A x \in S : h[x] >= 0
  BY <1>2 DEF IntsOn
<1> HIDE DEF J
<1>7. J(CHOOSE it : J(it))
  BY <1>2, <1>5, <1>6, SumExists
<1>8. PendingLots(u, state) = Total(h, S)
  BY <1>2, <1>3, <1>5, <1>6, <1>7, SumIsTotal
<1>9. Total(h, S) >= 0 /\ Total(h, S) \in Int /\ \A k \in S : h[k] <= Total(h, S)
  BY <1>2, <1>6, TotalPositive, TotalType, TotalCovers
<1>10. \A k \in S : state.buys[u][k].lots <= PendingLots(u, state)
  BY <1>2, <1>8, <1>9
<1> QED BY <1>8, <1>9, <1>10 DEF S

-----------------------------------------------------------------------------
(* What decisions and positions are worth, without widths *)

LEMMA MulBpsType ==
  ASSUME NEW d \in Int, NEW bps \in Nat
  PROVE  MulBps(d, bps) \in Int /\ (d >= 0 => MulBps(d, bps) >= 0)
<1> DEFINE x == d * bps
           t == TruncDiv(x, 10000)
           r == TruncRem(x, 10000)
<1>1. x \in Int /\ (d >= 0 => x >= 0)
  OBVIOUS
<1>2. MulBps(d, bps) = t + RoundQuotient(r, 10000, "halfAwayFromZero")
  BY DEF MulBps, MulRat, AbsOf
<1> HIDE DEF x
<1>3. t \in Int /\ (x >= 0 => t \in Nat /\ 10000 * t <= x)
  <2>1. CASE x >= 0
    <3>1. x \in Nat /\ t = x \div 10000
      BY <1>1, <2>1 DEF TruncDiv
    <3>2. x \div 10000 \in Nat /\ 10000 * (x \div 10000) <= x
      BY <3>1, DivTimes
    <3> QED BY <3>1, <3>2
  <2>2. CASE ~(x >= 0)
    <3>1. -x \in Nat /\ t = -((-x) \div 10000)
      BY <1>1, <2>2 DEF TruncDiv
    <3>2. (-x) \div 10000 \in Nat
      BY <3>1, DivTimes
    <3> QED BY <2>2, <3>1, <3>2
  <2> QED BY <2>1, <2>2
<1>4. r = x - 10000 * t
  BY DEF TruncRem
<1> HIDE DEF t, r
<1>5. r \in Int /\ (x >= 0 => r >= 0)
  BY <1>1, <1>3, <1>4
<1> DEFINE y == RoundQuotient(r, 10000, "halfAwayFromZero")
<1>6. y \in Int /\ (r >= 0 => y >= 0)
  BY <1>5 DEF RoundQuotient, SignOf
<1> HIDE DEF y
<1>7. MulBps(d, bps) = t + y
  BY <1>2 DEF y
<1> QED BY <1>1, <1>3, <1>5, <1>6, <1>7

\* The instrument of a decision is known, and the decision has a price.
Priced(d) == d.uid \in DOMAIN state.info /\ LotOf(d.uid, state) > 0 /\ Quoted(d) > 0
\* What is held and resting of an instrument can be valued.
Known(u) == LotsAtRisk(u) > 0 => u \in DOMAIN state.info /\ LotOf(u, state) > 0 /\ Mark(u) > 0
AtRisk(u) == IF LotsAtRisk(u) = 0 THEN 0 ELSE Worth(u, LotsAtRisk(u), Mark(u))

LEMMA NotionalIsWorth ==
  ASSUME AccountOK, NEW u \in DOMAIN state.info, NEW m \in Nat, NEW p \in Int,
         NEW x \in NotionalOf(m, LotOf(u, state), p)
  PROVE  m > 0 /\ LotOf(u, state) > 0 /\ p > 0 /\ x = Worth(u, m, p) /\ x \in Nat /\ x > 0
<1> DEFINE l == LotOf(u, state)
<1>1. l \in Int
  BY DEF AccountOK
<1>2. Worth(u, m, p) = m * l * p
  BY DEF Worth
<1> HIDE DEF l
<1>3. x \in NotionalOf(m, l, p)
  BY DEF l
<1>4. m > 0 /\ l > 0 /\ p > 0 /\ x = p * (m * l) /\ x \in Nat /\ x > 0
  BY <1>1, <1>3, NotionalExact
<1>5. p * (m * l) = m * l * p
  BY <1>1
<1>6. x = m * l * p
  BY <1>4, <1>5
<1> QED BY <1>2, <1>4, <1>6 DEF l

LEMMA BuyNotionalIs ==
  ASSUME AccountOK, NEW d \in Proposal, NEW m \in Nat, NEW x \in BuyNotional(d, m, state)
  PROVE  Priced(d) /\ m > 0 /\ x = Worth(d.uid, m, Quoted(d)) /\ x \in Nat /\ x > 0
<1>1. d.uid \in DOMAIN state.info
  BY DEF BuyNotional
<1>2. PICK p \in PriceForBuy(d, state.quotes[d.uid]) : x \in NotionalOf(m, LotOf(d.uid, state), p)
  BY <1>1 DEF BuyNotional
<1>3. p = Quoted(d) /\ p > 0
  BY DEF PriceForBuy, Positive, Quoted
<1>4. p \in Int
  BY <1>3 DEF AccountOK
<1>5. m > 0 /\ LotOf(d.uid, state) > 0 /\ x = Worth(d.uid, m, p) /\ x \in Nat /\ x > 0
  BY <1>1, <1>2, <1>4, NotionalIsWorth
<1> QED BY <1>1, <1>3, <1>5 DEF Priced

LEMMA ValuedIs ==
  ASSUME AccountOK, NEW u \in Uids, NEW q \in Nat, NEW x \in Valued(u, q, state)
  PROVE  /\ x \in Nat
         /\ q = 0 => x = 0
         /\ q > 0 => x = Worth(u, q, Mark(u)) /\ u \in DOMAIN state.info /\ LotOf(u, state) > 0 /\ Mark(u) > 0
<1>1. CASE q = 0
  BY <1>1 DEF Valued
<1>2. CASE q # 0
  <2>1. PICK p \in ExposurePrice(u, state) : x \in NotionalOf(q, LotOf(u, state), p) /\ u \in DOMAIN state.info
    BY <1>2 DEF Valued
  <2>2. p = Mark(u) /\ p > 0
    BY DEF ExposurePrice, Positive, Mark
  <2>3. p \in Int
    BY <2>2 DEF AccountOK
  <2>4. LotOf(u, state) > 0 /\ x = Worth(u, q, p) /\ x \in Nat
    BY <2>1, <2>3, NotionalIsWorth
  <2> QED BY <1>2, <2>1, <2>2, <2>4
<1> QED BY <1>1, <1>2

LEMMA ExistingIs ==
  ASSUME AccountOK, NEW u \in Uids, NEW x \in ExistingExposure(u, state)
  PROVE  Known(u) /\ x = AtRisk(u) /\ x \in Nat
<1> DEFINE q1 == state.pos[u].qty
           q2 == PendingLots(u, state)
           l == LotOf(u, state)
           m == Mark(u)
<1>1. q1 \in Nat /\ q2 \in Nat /\ LotsAtRisk(u) = q1 + q2 /\ m \in Int
  BY PendingLotsType DEF AccountOK, LotsAtRisk
<1>2. PICK held \in Valued(u, q1, state), pending \in Valued(u, q2, state) : x = held + pending
  BY DEF ExistingExposure
<1>3. /\ held \in Nat /\ (q1 = 0 => held = 0)
      /\ q1 > 0 => held = Worth(u, q1, m) /\ u \in DOMAIN state.info /\ l > 0 /\ m > 0
  BY <1>1, ValuedIs
<1>4. /\ pending \in Nat /\ (q2 = 0 => pending = 0)
      /\ q2 > 0 => pending = Worth(u, q2, m) /\ u \in DOMAIN state.info /\ l > 0 /\ m > 0
  BY <1>1, ValuedIs
<1> DEFINE w == Worth(u, q1, m)
           v == Worth(u, q2, m)
           z == Worth(u, q1 + q2, m)
<1>5. w = q1 * l * m /\ v = q2 * l * m /\ z = (q1 + q2) * l * m
  BY DEF Worth
<1>6. u \in DOMAIN state.info => l \in Int
  BY DEF AccountOK
<1>7. Known(u) <=> (q1 + q2 > 0 => u \in DOMAIN state.info /\ l > 0 /\ m > 0)
  BY <1>1 DEF Known
<1>8. AtRisk(u) = IF q1 + q2 = 0 THEN 0 ELSE z
  BY <1>1 DEF AtRisk
<1> HIDE DEF q1, q2, l, m, w, v, z
<1>9. Known(u)
  BY <1>1, <1>3, <1>4, <1>7
<1>10. x \in Nat
  BY <1>2, <1>3, <1>4
<1>11. CASE q1 = 0 /\ q2 = 0
  BY <1>2, <1>3, <1>4, <1>8, <1>9, <1>10, <1>11
<1>12. CASE q1 > 0 /\ q2 = 0
  <2>1. q1 + q2 = q1
    BY <1>1, <1>12
  <2>2. z = w
    BY <1>5, <2>1
  <2>3. x = w
    BY <1>2, <1>3, <1>4, <1>12 DEF w
  <2> QED BY <1>8, <1>9, <1>10, <1>12, <2>1, <2>2, <2>3
<1>13. CASE q1 = 0 /\ q2 > 0
  <2>1. q1 + q2 = q2
    BY <1>1, <1>13
  <2>2. z = v
    BY <1>5, <2>1
  <2>3. x = v
    BY <1>2, <1>3, <1>4, <1>13 DEF v
  <2> QED BY <1>8, <1>9, <1>10, <1>13, <2>1, <2>2, <2>3
<1>14. CASE q1 > 0 /\ q2 > 0
  <2>1. l \in Int
    BY <1>3, <1>6, <1>14
  <2>2. x = w + v
    BY <1>2, <1>3, <1>4, <1>14 DEF w, v
  <2>3. (q1 + q2) * l = q1 * l + q2 * l
    BY <1>1, <2>1
  <2>4. \A a, b \in Int : (a + b) * m = a * m + b * m
    BY <1>1
  <2>5. q1 * l \in Int /\ q2 * l \in Int
    BY <1>1, <2>1
  <2>6. z = w + v
    BY <1>5, <2>3, <2>4, <2>5
  <2>7. q1 + q2 # 0
    BY <1>1, <1>14
  <2> QED BY <1>8, <1>9, <1>10, <2>2, <2>6, <2>7
<1> QED BY <1>1, <1>11, <1>12, <1>13, <1>14

LEMMA CostWithFeeIs ==
  ASSUME AccountOK, NEW d \in Proposal, NEW m \in Nat, NEW x \in CostWithFee(d, m, state)
  PROVE  m > 0 /\ x = WithCommission(Worth(d.uid, m, KeptPrice(d))) /\ x \in Nat /\ x > 0
<1>1. d.uid \in DOMAIN state.info
  BY DEF CostWithFee
<1> DEFINE l == LotOf(d.uid, state)
<1>2. PICK p \in PriceForBuy(d, state.quotes[d.uid]) :
        \E n \in NotionalOf(m, l, EffectivePrice(d, p, state)) : x \in WithFee(n, state)
  BY <1>1 DEF CostWithFee
<1>3. PICK n \in NotionalOf(m, l, EffectivePrice(d, p, state)) : x \in WithFee(n, state)
  BY <1>2
<1>4. p = Quoted(d) /\ p \in Int /\ p > 0
  <2>1. p = Quoted(d) /\ p > 0
    BY DEF PriceForBuy, Positive, Quoted
  <2> QED BY <2>1 DEF AccountOK
<1> DEFINE z == Slipped(p)
<1>5. z \in Int /\ Padded(p, state) = {q \in {z} : InRange(q)}
  <2>1. 10000 + state.slippage \in Nat
    BY DEF AccountOK
  <2> DEFINE bps == 10000 + state.slippage
  <2>2. z = MulBps(p, bps) /\ Padded(p, state) = {q \in {z} : InRange(q)}
    BY DEF Slipped, Padded
  <2> HIDE DEF bps, z
  <2>3. bps \in Nat
    BY <2>1 DEF bps
  <2>4. MulBps(p, bps) \in Int
    BY <1>4, <2>3, MulBpsType
  <2> QED BY <2>2, <2>4
<1>6. EffectivePrice(d, p, state) = KeptPrice(d) /\ KeptPrice(d) \in Int
  <2> HIDE DEF z
  <2>1. KeptPrice(d) = IF d.type = "market" /\ InRange(z) THEN z ELSE p
    BY <1>4 DEF KeptPrice, z
  <2>2. CASE d.type = "market" /\ InRange(z)
    <3>1. Padded(p, state) = {z}
      BY <1>5, <2>2
    <3>2. SumSet({z}) = z
      BY <1>5, SumSetOfOne
    <3> QED BY <1>5, <2>1, <2>2, <3>1, <3>2 DEF EffectivePrice
  <2>3. CASE ~(d.type = "market" /\ InRange(z))
    <3>1. ~(d.type = "market" /\ Padded(p, state) # {})
      BY <1>5, <2>3
    <3> QED BY <1>4, <2>1, <2>3, <3>1 DEF EffectivePrice
  <2> QED BY <2>2, <2>3
<1> DEFINE k == KeptPrice(d)
<1>7. n \in NotionalOf(m, LotOf(d.uid, state), k) /\ k \in Int
  BY <1>3, <1>6
<1> HIDE DEF k, l
<1>8. m > 0 /\ n = Worth(d.uid, m, k) /\ n \in Nat /\ n > 0
  <2> DEFINE u == d.uid
  <2>1. u \in DOMAIN state.info /\ n \in NotionalOf(m, LotOf(u, state), k) /\ k \in Int
    BY <1>1, <1>7
  <2> HIDE DEF u
  <2>2. m > 0 /\ n = Worth(u, m, k) /\ n \in Nat /\ n > 0
    BY <2>1, NotionalIsWorth
  <2> QED BY <2>2 DEF u
<1>9. x = WithCommission(n)
  BY <1>3 DEF WithFee, WithCommission
<1>10. MulBps(n, state.feeBps) \in Int /\ MulBps(n, state.feeBps) >= 0
  <2> DEFINE fee == state.feeBps
  <2>1. fee \in Nat /\ n \in Int /\ n >= 0
    BY <1>8 DEF AccountOK
  <2> HIDE DEF fee
  <2>2. MulBps(n, fee) \in Int /\ MulBps(n, fee) >= 0
    BY <2>1, MulBpsType
  <2> QED BY <2>2 DEF fee
<1>11. x \in Nat /\ x > 0
  BY <1>8, <1>9, <1>10 DEF WithCommission
<1> QED BY <1>8, <1>9, <1>11 DEF k

-----------------------------------------------------------------------------
(* What the kept decisions of a batch spend *)

\* A ration's draws under another name: w is what each kept decision costs.
DrawnAre(c, n, action, cost, w) ==
  \A i \in 1..n : Draws(c, n, action, cost)[i] \in Int /\ Draws(c, n, action, cost)[i] = w[i]

\* What each decision draws is what its kept lots cost.
LEMMA DrawsAre ==
  ASSUME NEW n \in Nat, NEW b \in BatchOf(n), NEW action, NEW accounts, NEW budget \in [accounts -> Int],
         NEW account \in [1..n -> accounts], NEW cost, Costs(cost, b, n),
         NEW c, Rationed(b, c, n, action, budget, account, cost),
         NEW w, \A j \in 1..n : j \notin Those(c, {action}) => w[j] = 0,
         \A j \in Those(c, {action}) : \A x \in cost[j][c.dec[j].qty] : x = w[j]
  PROVE  DrawnAre(c, n, action, cost, w)
<1> DEFINE h == Draws(c, n, action, cost)
<1>1. /\ c \in BatchOf(n) /\ Cut(b, c, n)
      /\ \A i \in Those(c, {action}) : cost[i][c.dec[i].qty] # {} /\ c.dec[i].qty <= b.dec[i].qty
  <2>1. c \in BatchOf(n) /\ Cut(b, c, n) /\ \A i \in Those(c, {action}) : cost[i][c.dec[i].qty] # {}
    BY DEF Rationed
  <2>2. \A i \in Those(c, {action}) : i \in 1..n
    BY <2>1 DEF Those, BatchOf
  <2> QED BY <2>1, <2>2 DEF Cut
<1>2. \A i \in 1..n : Drawn(c, action, cost, i) \in Int /\ h[i] = Drawn(c, action, cost, i)
  BY <1>1, DrawnType
<1>3. ASSUME NEW i \in 1..n PROVE Drawn(c, action, cost, i) = w[i]
  <2>1. CASE i \notin Those(c, {action})
    BY <2>1 DEF Drawn
  <2>2. CASE i \in Those(c, {action})
    <3> DEFINE s == cost[i][c.dec[i].qty]
    <3>1. c.dec[i].qty \in 0..b.dec[i].qty
      <4> DEFINE q == c.dec[i].qty
                 o == b.dec[i].qty
      <4>1. q \in Nat /\ o \in Nat
        BY <1>1 DEF BatchOf, Proposal
      <4>2. q <= o
        BY <1>1, <2>2
      <4> HIDE DEF q, o
      <4>3. q \in 0..o
        BY <4>1, <4>2
      <4> QED BY <4>3 DEF q, o
    <3>2. s \in SUBSET Int /\ \A x, y \in s : x = y
      BY <3>1 DEF Costs, CostsOf
    <3>3. s # {} /\ \A x \in s : x = w[i]
      BY <1>1, <2>2
    <3> HIDE DEF s
    <3>4. SumSet(s) = w[i]
      BY <3>2, <3>3, KnownCost
    <3> QED BY <2>2, <3>4 DEF Drawn, s
  <2> QED BY <2>1, <2>2
<1> HIDE DEF h
<1>4. \A i \in 1..n : h[i] \in Int /\ h[i] = w[i]
  BY <1>2, <1>3
<1> QED BY <1>4 DEF h, DrawnAre

LEMMA RationSpends ==
  ASSUME NEW n \in Nat, NEW b \in BatchOf(n), NEW action, NEW accounts, NEW budget \in [accounts -> Int],
         NEW account \in [1..n -> accounts], NEW cost, Costs(cost, b, n),
         NEW c, Rationed(b, c, n, action, budget, account, cost),
         NEW w, \A j \in 1..n : j \notin Those(c, {action}) => w[j] = 0,
         \A j \in Those(c, {action}) : \A x \in cost[j][c.dec[j].qty] : x = w[j],
         NEW j \in Those(c, {action})
  PROVE  Total(w, Sharing(account, n, account[j])) <= budget[account[j]]
<1> DEFINE h == Draws(c, n, action, cost)
           S == Sharing(account, n, account[j])
<1>1. Total(h, S) <= budget[account[j]]
  BY DEF Rationed
<1>2. \A i \in 1..n : h[i] \in Int /\ h[i] = w[i]
  <2>1. DrawnAre(c, n, action, cost, w)
    BY DrawsAre
  <2> QED BY <2>1 DEF DrawnAre
<1>3. IsFiniteSet(S) /\ S \in SUBSET (1..n)
  <2>1. SharingGrows(account, n, account[j])
    BY SharingMore
  <2> QED BY <2>1 DEF SharingGrows
<1> HIDE DEF h, S
<1>4. IntsOn(h, S) /\ \A x \in S : h[x] = w[x]
  BY <1>2, <1>3 DEF IntsOn
<1>5. Total(h, S) = Total(w, S)
  BY <1>3, <1>4, TotalsAgree
<1>6. Total(w, S) <= budget[account[j]]
  BY <1>1, <1>5
<1> QED BY <1>6 DEF S

LEMMA SizedAgree ==
  ASSUME NEW d \in Proposal, NEW k, NEW e, e = Sized(d, k)
  PROVE  /\ Quoted(e) = Quoted(d) /\ KeptPrice(e) = KeptPrice(d) /\ (Priced(e) <=> Priced(d))
         /\ e.uid = d.uid /\ e.action = d.action /\ e.qty = k
<1>1. /\ e.action = d.action /\ e.uid = d.uid /\ e.qty = k
      /\ e.type = d.type /\ e.limit = d.limit
  BY SizedKeeps
<1>2. Quoted(e) = Quoted(d)
  BY <1>1 DEF Quoted
<1>3. KeptPrice(e) = KeptPrice(d)
  BY <1>1, <1>2 DEF KeptPrice
<1>4. Priced(e) <=> Priced(d)
  BY <1>1, <1>2 DEF Priced
<1> QED BY <1>1, <1>2, <1>3, <1>4

\* A batch on its way through a check of what was proposed.
BatchOK(b) == N \in Nat /\ Proposed(proposed, N) /\ b \in BatchOf(N) /\ Told(proposed, b, N)

BuyWorth(b) ==
  [j \in 1..N |-> IF j \in Those(b, {"buy"}) THEN Worth(b.dec[j].uid, b.dec[j].qty, Quoted(b.dec[j])) ELSE 0]
BuyCost(b) == [j \in 1..N |-> IF j \in Those(b, {"buy"}) THEN KeptCost(b.dec[j]) ELSE 0]
Sold(b) == [j \in 1..N |-> IF j \in Those(b, {"sell"}) THEN b.dec[j].qty ELSE 0]

BuyCosts(b) == [i \in DOMAIN b.dec |-> [m \in 0..b.dec[i].qty |-> CostWithFee(b.dec[i], m, state)]]
SellLots(b) == [i \in DOMAIN b.dec |-> [m \in 0..b.dec[i].qty |-> {m}]]

LEMMA CostFunctions ==
  ASSUME AccountOK, NEW b, BatchOK(b)
  PROVE  /\ Costs(BuyNotionals(b, state), b, N) /\ Costs(BuyCosts(b), b, N) /\ Costs(SellLots(b), b, N)
         /\ \A j \in 1..N : \A m \in 0..b.dec[j].qty :
              /\ BuyNotionals(b, state)[j][m] = BuyNotional(b.dec[j], m, state)
              /\ BuyCosts(b)[j][m] = CostWithFee(b.dec[j], m, state)
              /\ SellLots(b)[j][m] = {m}
<1>1. N \in Nat /\ b \in BatchOf(N)
  BY DEF BatchOK
<1>2. DOMAIN b.dec = 1..N
  BY <1>1, DecisionCount
<1>3. \A j \in 1..N : b.dec[j] \in Proposal /\ b.dec[j].qty \in Nat
  BY <1>1 DEF BatchOf, Proposal
<1>4. \A j \in 1..N : /\ BuyNotionals(b, state)[j] = [m \in 0..b.dec[j].qty |-> BuyNotional(b.dec[j], m, state)]
                      /\ BuyCosts(b)[j] = [m \in 0..b.dec[j].qty |-> CostWithFee(b.dec[j], m, state)]
                      /\ SellLots(b)[j] = [m \in 0..b.dec[j].qty |-> {m}]
  BY <1>2 DEF BuyNotionals, BuyCosts, SellLots
<1>5. \A j \in 1..N : \A m \in 0..b.dec[j].qty :
        /\ BuyNotionals(b, state)[j][m] = BuyNotional(b.dec[j], m, state)
        /\ BuyCosts(b)[j][m] = CostWithFee(b.dec[j], m, state)
        /\ SellLots(b)[j][m] = {m}
  BY <1>4
<1>6. ASSUME NEW j \in 1..N
      PROVE  /\ CostsOf(BuyNotionals(b, state), b, j) /\ CostsOf(BuyCosts(b), b, j) /\ CostsOf(SellLots(b), b, j)
  <2> DEFINE q == b.dec[j].qty
             d == b.dec[j]
  <2>1. q \in Nat /\ d \in Proposal /\ 0 \in 0..q /\ \A m \in 0..q : m \in Nat
    BY <1>3
  <2>2. /\ DOMAIN BuyNotionals(b, state)[j] = 0..q /\ DOMAIN BuyCosts(b)[j] = 0..q /\ DOMAIN SellLots(b)[j] = 0..q
    BY <1>4
  <2>3. \A m \in 0..q : /\ BuyNotionals(b, state)[j][m] = BuyNotional(d, m, state)
                        /\ BuyCosts(b)[j][m] = CostWithFee(d, m, state)
                        /\ SellLots(b)[j][m] = {m}
    BY <1>5
  <2> HIDE DEF q, d
  <2>4. \A m \in 0..q : \A x \in BuyNotional(d, m, state) :
          x \in Int /\ m > 0 /\ x = Worth(d.uid, m, Quoted(d))
    BY <2>1, BuyNotionalIs
  <2>5. \A m \in 0..q : \A x \in CostWithFee(d, m, state) :
          x \in Int /\ m > 0 /\ x = WithCommission(Worth(d.uid, m, KeptPrice(d)))
    BY <2>1, CostWithFeeIs
  <2>6. /\ \A m \in 0..q : BuyNotionals(b, state)[j][m] \in SUBSET Int
                           /\ \A x, y \in BuyNotionals(b, state)[j][m] : x = y
        /\ \A x \in BuyNotionals(b, state)[j][0] : x = 0
    BY <2>1, <2>3, <2>4
  <2>7. /\ \A m \in 0..q : BuyCosts(b)[j][m] \in SUBSET Int /\ \A x, y \in BuyCosts(b)[j][m] : x = y
        /\ \A x \in BuyCosts(b)[j][0] : x = 0
    BY <2>1, <2>3, <2>5
  <2>8. /\ \A m \in 0..q : SellLots(b)[j][m] \in SUBSET Int /\ \A x, y \in SellLots(b)[j][m] : x = y
        /\ \A x \in SellLots(b)[j][0] : x = 0
    BY <2>1, <2>3
  <2>9. CostsOf(BuyNotionals(b, state), b, j)
    BY <2>2, <2>6 DEF CostsOf, q
  <2>10. CostsOf(BuyCosts(b), b, j)
    BY <2>2, <2>7 DEF CostsOf, q
  <2>11. CostsOf(SellLots(b), b, j)
    BY <2>2, <2>8 DEF CostsOf, q
  <2> QED BY <2>9, <2>10, <2>11
<1> QED BY <1>5, <1>6 DEF Costs

-----------------------------------------------------------------------------
(* What each ration keeps to *)

UidOf == [i \in 1..N |-> proposed[i].uid]
AtRiskOf == [u \in Uids |-> AtRisk(u)]

Shrinks(b, c) == c.live \subseteq b.live /\ Cut(b, c, N)

WithinPosition(b) ==
  \A i \in Those(b, {"buy"}) : LET u == b.dec[i].uid IN
    /\ Priced(b.dec[i]) /\ Known(u)
    /\ AtRisk(u) + Total(BuyWorth(b), Sharing(UidOf, N, u)) <= limits.maxPosition

WithinTotal(b) ==
  Those(b, {"buy"}) # {} =>
    /\ \A u \in Uids : Known(u)
    /\ Total(AtRiskOf, Uids) + Total(BuyWorth(b), 1..N) <= limits.maxTotal

\* What BatchOK says of each decision.
LEMMA BatchMeans ==
  ASSUME NEW b, BatchOK(b)
  PROVE  /\ N \in Nat /\ IsFiniteSet(1..N) /\ DOMAIN b.dec = 1..N /\ b.live \in SUBSET (1..N)
         /\ \A i \in 1..N : b.dec[i] \in Proposal /\ b.dec[i].qty \in Nat /\ b.dec[i].uid \in Uids
                            /\ b.dec[i].uid = UidOf[i] /\ b.dec[i].action = proposed[i].action
         /\ \A i \in b.live : b.dec[i].action \in {"buy", "sell"} => b.dec[i].qty > 0
         /\ PerInstrument(b) = UidOf /\ UidOf \in [1..N -> Uids]
<1>1. N \in Nat /\ Proposed(proposed, N) /\ b \in BatchOf(N) /\ Told(proposed, b, N)
  BY DEF BatchOK
<1>2. DOMAIN b.dec = 1..N /\ b.live \in SUBSET (1..N)
  BY <1>1, DecisionCount DEF BatchOf
<1>3. IsFiniteSet(1..N)
  BY <1>1, 1 \in Int, N \in Int, FS_Interval
<1>4. \A i \in 1..N : /\ b.dec[i] \in Proposal /\ b.dec[i].qty \in Nat /\ b.dec[i].uid \in Uids
                      /\ b.dec[i].uid = proposed[i].uid /\ b.dec[i].action = proposed[i].action
                      /\ i \in b.live /\ proposed[i].action \in {"buy", "sell"} => b.dec[i].qty > 0
  <2> HIDE DEF N
  <2> QED BY <1>1, ToldMeans
<1>5. \A i \in 1..N : UidOf[i] = proposed[i].uid
  BY DEF UidOf
<1>6. UidOf \in [1..N -> Uids]
  <2>1. \A i \in 1..N : proposed[i].uid \in Uids
    BY <1>4
  <2> QED BY <2>1 DEF UidOf
<1>7. PerInstrument(b) = UidOf
  BY <1>2, <1>4 DEF PerInstrument, UidOf
<1>8. \A i \in b.live : b.dec[i].action \in {"buy", "sell"} => b.dec[i].qty > 0
  BY <1>2, <1>4
<1> QED BY <1>1, <1>2, <1>3, <1>4, <1>5, <1>6, <1>7, <1>8

LEMMA RationKeeps ==
  ASSUME NEW b, BatchOK(b), NEW c, NEW action, NEW budget, NEW account, NEW cost,
         Rationed(b, c, N, action, budget, account, cost)
  PROVE  /\ BatchOK(c) /\ Shrinks(b, c)
         /\ \A j \in 1..N : j \notin Those(b, {action}) => Unchanged(b, c, j)
<1>1. proposed \in [1..N -> Proposal]
  BY DEF BatchOK, Proposed
<1>2. /\ c \in BatchOf(N) /\ c.live \subseteq b.live /\ Cut(b, c, N)
      /\ \A j \in 1..N : j \notin Those(b, {action}) => Unchanged(b, c, j)
      /\ \A p \in [1..N -> Proposal] : Told(p, b, N) => Told(p, c, N)
  BY DEF Rationed
<1> QED BY <1>1, <1>2, Zenon DEF BatchOK, Shrinks

LEMMA PositiveQty ==
  ASSUME NEW b, BatchOK(b), NEW action \in {"buy", "sell"}
  PROVE  \A j \in Those(b, {action}) : b.dec[j].qty > 0
BY BatchMeans DEF Those

\* A ration by worth: what every kept buy is worth is known and within the budget.
LEMMA WorthRationed ==
  ASSUME AccountOK, NEW b, BatchOK(b), NEW accounts, NEW budget \in [accounts -> Int],
         NEW account \in [1..N -> accounts], NEW c,
         Rationed(b, c, N, "buy", budget, account, BuyNotionals(b, state))
  PROVE  /\ \A j \in 1..N : BuyWorth(c)[j] \in Nat
         /\ \A i \in Those(c, {"buy"}) :
              /\ Priced(c.dec[i]) /\ BuyWorth(c)[i] > 0
              /\ Total(BuyWorth(c), Sharing(account, N, account[i])) <= budget[account[i]]
              /\ budget[account[i]] > 0
<1> DEFINE w == BuyWorth(c)
           cost == BuyNotionals(b, state)
           n == N
<1>1. BatchOK(c) /\ Shrinks(b, c)
  BY RationKeeps
<1>2. /\ n \in Nat /\ b \in BatchOf(n) /\ Costs(cost, b, n)
      /\ \A j \in 1..n : \A m \in 0..b.dec[j].qty : cost[j][m] = BuyNotional(b.dec[j], m, state)
  BY CostFunctions DEF BatchOK
<1>3. \A j \in 1..n : b.dec[j] \in Proposal /\ b.dec[j].qty \in Nat /\ c.dec[j].qty \in Nat
  BY <1>1, BatchMeans
<1>4. \A j \in Those(c, {"buy"}) : j \in 1..n /\ c.dec[j].qty > 0 /\ cost[j][c.dec[j].qty] # {}
  <2>1. \A j \in Those(c, {"buy"}) : c.dec[j].qty > 0 /\ cost[j][c.dec[j].qty] # {}
    BY DEF Rationed
  <2>2. c.live \in SUBSET (1..n)
    BY <1>1, BatchMeans
  <2> QED BY <2>1, <2>2 DEF Those
<1>5. \A j \in 1..n : c.dec[j] = Sized(b.dec[j], c.dec[j].qty) /\ c.dec[j].qty \in 0..b.dec[j].qty
  <2>1. \A j \in 1..n : c.dec[j] = Sized(b.dec[j], c.dec[j].qty) /\ c.dec[j].qty <= b.dec[j].qty
    BY <1>1 DEF Shrinks, Cut
  <2> SUFFICES ASSUME NEW j \in 1..n PROVE c.dec[j].qty \in 0..b.dec[j].qty
    BY <2>1
  <2> DEFINE q == c.dec[j].qty
             o == b.dec[j].qty
  <2>2. q \in Nat /\ o \in Nat /\ q <= o
    BY <1>3, <2>1
  <2> HIDE DEF q, o
  <2>3. q \in 0..o
    BY <2>2
  <2> QED BY <2>3 DEF q, o
<1> HIDE DEF n, cost
<1>6. \A j \in 1..n : j \notin Those(c, {"buy"}) => w[j] = 0
  BY DEF BuyWorth, n
<1>7. ASSUME NEW j \in Those(c, {"buy"})
      PROVE  /\ Priced(c.dec[j]) /\ w[j] \in Nat /\ w[j] > 0
             /\ \A x \in cost[j][c.dec[j].qty] : x = w[j]
  <2> DEFINE d == b.dec[j]
             e == c.dec[j]
             q == c.dec[j].qty
  <2>1. j \in 1..n /\ d \in Proposal /\ q \in Nat /\ e = Sized(d, q) /\ cost[j][q] = BuyNotional(d, q, state)
    BY <1>2, <1>3, <1>4, <1>5
  <2>2. w[j] = Worth(e.uid, q, Quoted(e))
    BY <2>1 DEF BuyWorth, n
  <2>3. PICK x \in cost[j][q] : TRUE
    BY <1>4
  <2> HIDE DEF d, e, q
  <2>4. Quoted(e) = Quoted(d) /\ (Priced(e) <=> Priced(d)) /\ e.uid = d.uid
    BY <2>1, SizedAgree
  <2>5. \A y \in cost[j][q] : Priced(d) /\ y = Worth(d.uid, q, Quoted(d)) /\ y \in Nat /\ y > 0
    BY <2>1, BuyNotionalIs
  <2>6. \A y \in cost[j][q] : y = w[j]
    BY <2>2, <2>4, <2>5
  <2> QED BY <2>3, <2>4, <2>5, <2>6 DEF q, e
<1>8. \A j \in 1..n : w[j] \in Nat
  BY <1>6, <1>7
<1> HIDE DEF w
<1>9. ASSUME NEW i \in Those(c, {"buy"})
      PROVE  Total(w, Sharing(account, n, account[i])) <= budget[account[i]] /\ budget[account[i]] > 0
  <2> DEFINE S == Sharing(account, n, account[i])
  <2>1. Rationed(b, c, n, "buy", budget, account, cost) /\ account \in [1..n -> accounts]
    BY DEF n, cost
  <2>2. Total(w, S) <= budget[account[i]]
    BY <1>2, <1>6, <1>7, <2>1, RationSpends
  <2>3. IsFiniteSet(S) /\ S \in SUBSET (1..n) /\ i \in S
    <3>1. SharingGrows(account, n, account[i])
      BY <1>2, SharingMore
    <3>2. i \in 1..n
      BY <1>4
    <3> QED BY <3>1, <3>2 DEF SharingGrows, Sharing
  <2>4. account[i] \in accounts /\ budget[account[i]] \in Int
    BY <1>4, <2>1
  <2> HIDE DEF S
  <2>5. IntsOn(w, S) /\ (\A x \in S : w[x] >= 0) /\ w[i] > 0
    BY <1>7, <1>8, <2>3 DEF IntsOn
  <2>6. w[i] <= Total(w, S) /\ Total(w, S) \in Int
    BY <2>3, <2>5, TotalCovers, TotalType
  <2>7. w[i] \in Int
    BY <1>7
  <2>8. budget[account[i]] > 0
    BY <2>2, <2>4, <2>5, <2>6, <2>7
  <2> QED BY <2>2, <2>8 DEF S
<1> QED BY <1>7, <1>8, <1>9 DEF n, w

LEMMA ExistingTypes ==
  ASSUME AccountOK, NEW u \in Uids
  PROVE  /\ SumSet(ExistingExposure(u, state)) \in Int
         /\ ExistingExposure(u, state) # {} => Known(u) /\ SumSet(ExistingExposure(u, state)) = AtRisk(u) /\ AtRisk(u) \in Nat
<1> DEFINE s == ExistingExposure(u, state)
<1>1. \A x \in s : Known(u) /\ x = AtRisk(u) /\ x \in Nat
  BY ExistingIs
<1> HIDE DEF s
<1>2. s \in SUBSET Int /\ \A x, y \in s : x = y
  BY <1>1
<1>3. SumSet(s) \in Int /\ \A x \in s : SumSet(s) = x
  BY <1>2, KnownCost
<1>4. s # {} => Known(u) /\ SumSet(s) = AtRisk(u) /\ AtRisk(u) \in Nat
  BY <1>1, <1>3
<1> QED BY <1>3, <1>4 DEF s

LEMMA PositionEffect ==
  ASSUME AccountOK, NEW b, BatchOK(b), NEW c, c = ApplyPositionNotional(b, state, limits)
  PROVE  /\ BatchOK(c) /\ Shrinks(b, c) /\ WithinPosition(c)
         /\ \A j \in 1..N : j \notin Those(b, {"buy"}) => Unchanged(b, c, j)
<1> DEFINE room == [u \in Uids |-> IF ExistingExposure(u, state) = {} THEN 0
                                   ELSE limits.maxPosition - SumSet(ExistingExposure(u, state))]
           cost == BuyNotionals(b, state)
           r == "max_position_notional"
<1>1. c = Ration(b, r, "buy", room, UidOf, cost)
  BY BatchMeans DEF ApplyPositionNotional
<1>2. limits.maxPosition \in Int
  BY DEF AccountOK
<1>3. room \in [Uids -> Int]
  BY <1>2, ExistingTypes
<1>4. \A u \in Uids : room[u] > 0 => Known(u) /\ room[u] = limits.maxPosition - AtRisk(u) /\ AtRisk(u) \in Nat
  BY ExistingTypes
<1> HIDE DEF room, cost, r
<1>5. r \in RuleNames
  BY DEF r, RuleNames
<1>6. /\ N \in Nat /\ b \in BatchOf(N) /\ UidOf \in [1..N -> Uids] /\ Costs(cost, b, N)
      /\ \A j \in Those(b, {"buy"}) : b.dec[j].qty > 0
  BY BatchMeans, CostFunctions, PositiveQty DEF BatchOK, cost
<1>7. Rationed(b, c, N, "buy", room, UidOf, cost)
  <2> DEFINE n == N
             action == "buy"
  <2> HIDE DEF n, action
  <2>1. Rationed(b, Ration(b, r, action, room, UidOf, cost), n, action, room, UidOf, cost)
    <3>1. n \in Nat /\ b \in BatchOf(n) /\ UidOf \in [1..n -> Uids] /\ Costs(cost, b, n)
          /\ \A j \in Those(b, {action}) : b.dec[j].qty > 0
      BY <1>6 DEF n, action
    <3> QED BY <1>3, <1>5, <3>1, RationEffect
  <2> QED BY <1>1, <2>1 DEF n, action
<1>8. /\ BatchOK(c) /\ Shrinks(b, c)
      /\ \A j \in 1..N : j \notin Those(b, {"buy"}) => Unchanged(b, c, j)
  BY <1>7, RationKeeps
<1>9. /\ \A j \in 1..N : BuyWorth(c)[j] \in Nat
      /\ \A i \in Those(c, {"buy"}) :
           /\ Priced(c.dec[i])
           /\ Total(BuyWorth(c), Sharing(UidOf, N, UidOf[i])) <= room[UidOf[i]]
           /\ room[UidOf[i]] > 0
  <2>1. UidOf \in [1..N -> Uids]
    BY <1>6
  <2>2. Rationed(b, c, N, "buy", room, UidOf, BuyNotionals(b, state))
    BY <1>7 DEF cost
  <2> QED BY <1>3, <2>1, <2>2, WorthRationed
<1>10. ASSUME NEW i \in Those(c, {"buy"})
       PROVE  LET u == c.dec[i].uid IN
                /\ Priced(c.dec[i]) /\ Known(u)
                /\ AtRisk(u) + Total(BuyWorth(c), Sharing(UidOf, N, u)) <= limits.maxPosition
  <2>1. i \in 1..N /\ c.dec[i].uid = UidOf[i] /\ UidOf[i] \in Uids
    BY <1>8, BatchMeans DEF Those
  <2> DEFINE u == UidOf[i]
             w == BuyWorth(c)
             S == Sharing(UidOf, N, u)
  <2>2. u \in Uids /\ Total(w, S) <= room[u] /\ room[u] > 0
    BY <1>9, <2>1
  <2>3. Known(u) /\ room[u] = limits.maxPosition - AtRisk(u) /\ AtRisk(u) \in Nat
    BY <1>4, <2>2
  <2>4. Total(w, S) \in Int
    <3>1. SharingGrows(UidOf, N, u)
      BY <1>6, SharingMore
    <3>2. IsFiniteSet(S) /\ S \in SUBSET (1..N)
      BY <3>1 DEF SharingGrows
    <3>3. \A j \in 1..N : w[j] \in Nat
      BY <1>9
    <3> HIDE DEF w, S
    <3>4. IntsOn(w, S)
      BY <3>2, <3>3 DEF IntsOn
    <3> QED BY <3>2, <3>4, TotalType
  <2> HIDE DEF u, w, S
  <2>5. AtRisk(u) + Total(w, S) <= limits.maxPosition
    BY <1>2, <2>2, <2>3, <2>4
  <2>6. c.dec[i].uid = u /\ Priced(c.dec[i])
    BY <1>9, <2>1 DEF u
  <2> QED BY <2>3, <2>5, <2>6 DEF S, w
<1>11. WithinPosition(c)
  BY <1>10 DEF WithinPosition
<1> QED BY <1>8, <1>11

\* Fewer lots of fewer decisions are worth less.
LEMMA WorthShrinks ==
  ASSUME AccountOK, NEW b, BatchOK(b), NEW c, BatchOK(c), Shrinks(b, c),
         \A i \in Those(b, {"buy"}) : Priced(b.dec[i])
  PROVE  /\ Those(c, {"buy"}) \subseteq Those(b, {"buy"})
         /\ \A i \in Those(c, {"buy"}) : Priced(c.dec[i])
         /\ \A j \in 1..N : BuyWorth(c)[j] \in Nat /\ BuyWorth(b)[j] \in Nat /\ BuyWorth(c)[j] <= BuyWorth(b)[j]
<1>1. \A j \in 1..N : /\ b.dec[j] \in Proposal /\ b.dec[j].qty \in Nat /\ c.dec[j].qty \in Nat
                      /\ b.dec[j].action = c.dec[j].action
  BY BatchMeans
<1>2. \A j \in 1..N : c.dec[j] = Sized(b.dec[j], c.dec[j].qty) /\ c.dec[j].qty <= b.dec[j].qty
  BY DEF Shrinks, Cut
<1>3. Those(c, {"buy"}) \subseteq Those(b, {"buy"}) /\ \A j \in Those(c, {"buy"}) : j \in 1..N
  <2>1. c.live \subseteq b.live /\ b.live \in SUBSET (1..N)
    BY BatchMeans DEF Shrinks
  <2> QED BY <1>1, <2>1 DEF Those
<1>4. \A j \in 1..N : Quoted(c.dec[j]) = Quoted(b.dec[j]) /\ (Priced(c.dec[j]) <=> Priced(b.dec[j]))
                      /\ c.dec[j].uid = b.dec[j].uid
  BY <1>1, <1>2, SizedAgree
<1>5. \A i \in Those(c, {"buy"}) : Priced(c.dec[i])
  BY <1>3, <1>4
<1>6. ASSUME NEW j \in 1..N
      PROVE  BuyWorth(c)[j] \in Nat /\ BuyWorth(b)[j] \in Nat /\ BuyWorth(c)[j] <= BuyWorth(b)[j]
  <2> DEFINE u == b.dec[j].uid
             q == b.dec[j].qty
             k == c.dec[j].qty
             p == Quoted(b.dec[j])
             l == LotOf(u, state)
  <2>1. /\ BuyWorth(b)[j] = IF j \in Those(b, {"buy"}) THEN q * l * p ELSE 0
        /\ BuyWorth(c)[j] = IF j \in Those(c, {"buy"}) THEN k * l * p ELSE 0
    BY <1>4 DEF BuyWorth, Worth
  <2>2. q \in Nat /\ k \in Nat /\ k <= q
    BY <1>1, <1>2
  <2>3. j \in Those(b, {"buy"}) => l \in Int /\ p \in Int /\ l > 0 /\ p > 0
    BY <1>1 DEF Priced, AccountOK
  <2>4. j \in Those(c, {"buy"}) => j \in Those(b, {"buy"})
    BY <1>3
  <2> HIDE DEF u, q, k, p, l
  <2>5. ASSUME j \in Those(b, {"buy"}) PROVE q * l * p \in Nat /\ k * l * p \in Nat /\ k * l * p <= q * l * p
    <3>1. l \in Nat /\ p \in Nat
      BY <2>3, <2>5
    <3>2. q * l \in Nat /\ k * l \in Nat /\ k * l <= q * l
      BY <2>2, <3>1
    <3> DEFINE x == q * l
               y == k * l
    <3> HIDE DEF x, y
    <3>3. x * p \in Nat /\ y * p \in Nat /\ y * p <= x * p
      BY <3>1, <3>2 DEF x, y
    <3> QED BY <3>3 DEF x, y
  <2> QED BY <2>1, <2>4, <2>5
<1> QED BY <1>3, <1>5, <1>6

-----------------------------------------------------------------------------
(* The whole portfolio *)

ExistingOf == [u \in Uids |-> SumSet(ExistingExposure(u, state))]

LEMMA BaselineIs ==
  ASSUME AccountOK
  PROVE  /\ MapThenSumSet(LAMBDA u : SumSet(ExistingExposure(u, state)), Uids) = Total(ExistingOf, Uids)
         /\ Total(ExistingOf, Uids) \in Int
         /\ (\A u \in Uids : ExistingExposure(u, state) # {}) =>
              /\ \A u \in Uids : Known(u) /\ AtRiskOf[u] \in Nat
              /\ Total(ExistingOf, Uids) = Total(AtRiskOf, Uids)
<1> DEFINE S == Uids
           h == ExistingOf
           base == MapThenSumSet(LAMBDA u : SumSet(ExistingExposure(u, state)), S)
           J(it) == it = [s \in SUBSET S |-> IF s = {} THEN 0
                            ELSE SumSet(ExistingExposure(CHOOSE x \in s : TRUE, state)) + it[s \ {CHOOSE x \in s : TRUE}]]
<1>1. IsFiniteSet(S)
  BY RiskAssumption
<1>2. base = (CHOOSE it : J(it))[S]
  BY Zenon DEF MapThenSumSet, MapThenFoldSet
<1>3. \A u \in S : h[u] = SumSet(ExistingExposure(u, state)) /\ h[u] \in Int
  BY ExistingTypes DEF ExistingOf
<1> HIDE DEF h, base
<1>4. \A s \in SUBSET S : s # {} => h[OneOf(s)] = SumSet(ExistingExposure(CHOOSE x \in s : TRUE, state))
  <2> SUFFICES ASSUME NEW s \in SUBSET S, s # {}
               PROVE  h[OneOf(s)] = SumSet(ExistingExposure(CHOOSE x \in s : TRUE, state))
    OBVIOUS
  <2>1. OneOf(s) \in S
    BY DEF OneOf
  <2>2. h[OneOf(s)] = SumSet(ExistingExposure(OneOf(s), state))
    BY <1>3, <2>1
  <2> QED BY <2>2 DEF OneOf
<1>5. \A it : J(it) <=> IsSum(it, h, S)
  BY <1>4 DEF IsSum, OneOf
<1>6. IntsOn(h, S)
  BY <1>3 DEF IntsOn
<1> HIDE DEF J
<1>7. J(CHOOSE it : J(it))
  <2> HIDE DEF S
  <2> QED BY <1>1, <1>5, <1>6, SumExists
<1>8. base = Total(h, S) /\ Total(h, S) \in Int
  <2> HIDE DEF S
  <2> QED BY <1>1, <1>2, <1>5, <1>6, <1>7, SumIsTotal, TotalType
<1>9. ASSUME \A u \in Uids : ExistingExposure(u, state) # {}
      PROVE  /\ \A u \in Uids : Known(u) /\ AtRiskOf[u] \in Nat
             /\ Total(h, S) = Total(AtRiskOf, S)
  <2>1. \A u \in S : Known(u) /\ h[u] = AtRisk(u) /\ AtRisk(u) \in Nat
    BY <1>3, <1>9, ExistingTypes
  <2>2. \A u \in S : AtRiskOf[u] = AtRisk(u)
    BY DEF AtRiskOf
  <2>3. Total(h, S) = Total(AtRiskOf, S)
    <3>1. \A u \in S : h[u] = AtRiskOf[u]
      BY <2>1, <2>2
    <3> HIDE DEF S
    <3> QED BY <1>1, <1>6, <3>1, TotalsAgree
  <2> QED BY <2>1, <2>2, <2>3
<1> QED BY <1>8, <1>9 DEF h, base

LEMMA CommonAccount ==
  ASSUME NEW b, BatchOK(b), NEW amount \in Int
  PROVE  /\ Shared(amount) \in [{"all"} -> Int] /\ Common(b) \in [1..N -> {"all"}]
         /\ \A i \in 1..N : Shared(amount)[Common(b)[i]] = amount /\ Sharing(Common(b), N, Common(b)[i]) = 1..N
<1>1. DOMAIN b.dec = 1..N
  BY BatchMeans
<1>2. Common(b) = [i \in 1..N |-> "all"]
  BY <1>1 DEF Common
<1>3. \A i \in 1..N : Common(b)[i] = "all"
  BY <1>2
<1>4. Shared(amount) \in [{"all"} -> Int] /\ Shared(amount)["all"] = amount
  BY DEF Shared
<1>5. \A i \in 1..N : Sharing(Common(b), N, Common(b)[i]) = 1..N
  BY <1>3 DEF Sharing
<1> QED BY <1>2, <1>3, <1>4, <1>5

\* What the rule has to give away: nothing when the exposure is not known.
TotalRoom ==
  IF (\E u \in Uids : ExistingExposure(u, state) = {}) \/ ~InRange(Total(ExistingOf, Uids)) THEN 0
  ELSE limits.maxTotal - Total(ExistingOf, Uids)

LEMMA ExposureRations ==
  ASSUME AccountOK, NEW b, BatchOK(b), NEW c, c = ApplyTotalExposure(b, state, limits)
  PROVE  /\ TotalRoom \in Int
         /\ Rationed(b, c, N, "buy", Shared(TotalRoom), Common(b), BuyNotionals(b, state))
<1> DEFINE base == MapThenSumSet(LAMBDA u : SumSet(ExistingExposure(u, state)), Uids)
           unknown == (\E u \in Uids : ExistingExposure(u, state) = {}) \/ ~InRange(base)
           amount == IF unknown THEN 0 ELSE limits.maxTotal - base
           cost == BuyNotionals(b, state)
           r == "max_total_exposure"
           room == Shared(amount)
           account == Common(b)
<1>1. c = Ration(b, r, "buy", room, account, cost)
  BY Zenon DEF ApplyTotalExposure
<1>2. limits.maxTotal \in Int /\ base \in Int /\ base = Total(ExistingOf, Uids)
  BY BaselineIs DEF AccountOK
<1>3. amount = TotalRoom
  BY <1>2, Zenon DEF TotalRoom
<1> HIDE DEF base
<1>4. amount \in Int
  BY <1>2
<1> HIDE DEF amount, unknown
<1>5. room \in [{"all"} -> Int] /\ account \in [1..N -> {"all"}]
  BY <1>4, CommonAccount
<1> HIDE DEF room, account, cost, r
<1>6. r \in RuleNames
  BY DEF r, RuleNames
<1>7. /\ N \in Nat /\ b \in BatchOf(N) /\ Costs(cost, b, N)
      /\ \A j \in Those(b, {"buy"}) : b.dec[j].qty > 0
  BY BatchMeans, CostFunctions, PositiveQty DEF BatchOK, cost
<1>8. Rationed(b, c, N, "buy", room, account, cost)
  <2> DEFINE n == N
             action == "buy"
             accounts == {"all"}
  <2> HIDE DEF n, action, accounts
  <2>1. Rationed(b, Ration(b, r, action, room, account, cost), n, action, room, account, cost)
    <3>1. n \in Nat /\ b \in BatchOf(n) /\ account \in [1..n -> accounts] /\ Costs(cost, b, n)
          /\ room \in [accounts -> Int]
          /\ \A j \in Those(b, {action}) : b.dec[j].qty > 0
      BY <1>5, <1>7 DEF n, action, accounts
    <3> QED BY <1>6, <3>1, RationEffect
  <2> QED BY <1>1, <2>1 DEF n, action
<1> QED BY <1>3, <1>4, <1>8 DEF room, account, cost

LEMMA ExposureEffect ==
  ASSUME AccountOK, NEW b, BatchOK(b), NEW c, c = ApplyTotalExposure(b, state, limits)
  PROVE  /\ BatchOK(c) /\ Shrinks(b, c) /\ WithinTotal(c)
         /\ \A j \in 1..N : j \notin Those(b, {"buy"}) => Unchanged(b, c, j)
<1> DEFINE baseline == Total(ExistingOf, Uids)
           amount == TotalRoom
           cost == BuyNotionals(b, state)
           room == Shared(amount)
           account == Common(b)
<1>1. amount \in Int /\ Rationed(b, c, N, "buy", room, account, cost)
  BY ExposureRations
<1>2. limits.maxTotal \in Int /\ baseline \in Int
  BY BaselineIs DEF AccountOK
<1>3. amount > 0 => (\A u \in Uids : ExistingExposure(u, state) # {}) /\ amount = limits.maxTotal - baseline
  BY DEF TotalRoom
<1> HIDE DEF amount
<1>4. /\ room \in [{"all"} -> Int] /\ account \in [1..N -> {"all"}]
      /\ \A i \in 1..N : room[account[i]] = amount /\ Sharing(account, N, account[i]) = 1..N
  BY <1>1, CommonAccount
<1> HIDE DEF baseline, room, account, cost
<1>5. /\ BatchOK(c) /\ Shrinks(b, c)
       /\ \A j \in 1..N : j \notin Those(b, {"buy"}) => Unchanged(b, c, j)
  BY <1>1, RationKeeps
<1>6. \A i \in Those(c, {"buy"}) : Total(BuyWorth(c), Sharing(account, N, account[i])) <= room[account[i]] /\ room[account[i]] > 0
  <2>1. Rationed(b, c, N, "buy", room, account, BuyNotionals(b, state))
    BY <1>1 DEF cost
  <2>2. room \in [{"all"} -> Int] /\ account \in [1..N -> {"all"}]
    BY <1>4
  <2> QED BY <2>1, <2>2, WorthRationed
<1>7. ASSUME NEW i \in Those(c, {"buy"})
       PROVE  /\ \A u \in Uids : Known(u)
              /\ Total(AtRiskOf, Uids) + Total(BuyWorth(c), 1..N) <= limits.maxTotal
  <2>1. i \in 1..N
    BY <1>5, BatchMeans DEF Those
  <2>2. Total(BuyWorth(c), 1..N) <= amount /\ amount > 0
    <3>1. room[account[i]] = amount /\ Sharing(account, N, account[i]) = 1..N
      BY <1>4, <2>1
    <3>2. Total(BuyWorth(c), Sharing(account, N, account[i])) <= room[account[i]] /\ room[account[i]] > 0
      BY <1>6
    <3> QED BY <3>1, <3>2, Zenon
  <2>3. (\A u \in Uids : ExistingExposure(u, state) # {}) /\ amount = limits.maxTotal - baseline
    BY <1>3, <2>2
  <2>4. (\A u \in Uids : Known(u)) /\ baseline = Total(AtRiskOf, Uids)
    BY <2>3, BaselineIs DEF baseline
  <2>5. Total(BuyWorth(c), 1..N) \in Int
    <3>1. \A j \in 1..N : BuyWorth(c)[j] \in Nat
      <4>1. Rationed(b, c, N, "buy", room, account, BuyNotionals(b, state))
        BY <1>1 DEF cost
      <4>2. room \in [{"all"} -> Int] /\ account \in [1..N -> {"all"}]
        BY <1>4
      <4> QED BY <4>1, <4>2, WorthRationed
    <3> DEFINE w == BuyWorth(c)
               S == 1..N
    <3>2. IsFiniteSet(S)
      BY BatchMeans
    <3> HIDE DEF w, S
    <3>3. IntsOn(w, S)
      BY <3>1 DEF IntsOn, w, S
    <3>4. Total(w, S) \in Int
      BY <3>2, <3>3, TotalType
    <3> QED BY <3>4 DEF w, S
  <2> DEFINE t == Total(BuyWorth(c), 1..N)
             a == Total(AtRiskOf, Uids)
  <2>6. t \in Int /\ t <= amount /\ amount = limits.maxTotal - a /\ a \in Int
    BY <1>2, <2>2, <2>3, <2>4, <2>5
  <2> HIDE DEF t, a
  <2>7. a + t <= limits.maxTotal
    BY <1>2, <2>6
  <2> QED BY <2>4, <2>7 DEF a, t
<1>8. WithinTotal(c)
  BY <1>7 DEF WithinTotal
<1> QED BY <1>5, <1>8

-----------------------------------------------------------------------------
(* The cash *)

RestOf == [p \in Pending(state) |-> SumSet(PendingCost(p, state))]
RestingOf == [p \in Pending(state) |-> RestingCost(p[1], state.buys[p[1]][p[2]])]

WithinCash(b) ==
  Those(b, {"buy"}) # {} =>
    /\ \A p \in Pending(state) : RestingOf[p] \in Nat
    /\ state.cash - Total(BuyCost(b), 1..N) - Total(RestingOf, Pending(state)) >= limits.cashFloor

LEMMA PendingFinite == ASSUME AccountOK PROVE IsFiniteSet(Pending(state))
<1> DEFINE rows(u) == {u} \X DOMAIN state.buys[u]
           f == [u \in Uids |-> rows(u)]
           T == {rows(u) : u \in Uids}
<1>1. IsFiniteSet(Uids)
  BY RiskAssumption
<1>2. \A u \in Uids : IsFiniteSet(rows(u))
  <2> SUFFICES ASSUME NEW u \in Uids PROVE IsFiniteSet(rows(u))
    OBVIOUS
  <2> DEFINE q == state.buys[u]
             R == [lots : Nat \ {0}, limit : Int]
  <2>1. q \in Seq(R)
    BY DEF AccountOK
  <2> HIDE DEF q, R
  <2>2. Len(q) \in Int /\ 1 \in Int /\ DOMAIN q = 1..Len(q)
    BY <2>1
  <2>3. IsFiniteSet(DOMAIN q)
    BY <2>2, FS_Interval
  <2>4. IsFiniteSet({u} \X DOMAIN q)
    BY <2>3, FS_Singleton, FS_Product
  <2> QED BY <2>4 DEF q
<1> HIDE DEF rows
<1>3. f \in Surjection(Uids, T)
  BY DEF Surjection
<1>4. IsFiniteSet(T) /\ \A X \in T : IsFiniteSet(X)
  <2>1. \A X \in T : IsFiniteSet(X)
    BY <1>2
  <2> HIDE DEF T, f
  <2>2. IsFiniteSet(T)
    BY <1>1, <1>3, FS_Surjection
  <2> QED BY <2>1, <2>2
<1>5. IsFiniteSet(UNION T)
  <2> HIDE DEF T
  <2> QED BY <1>4, FS_UNION
<1> QED BY <1>5 DEF Pending, rows

LEMMA PaddedIs ==
  ASSUME AccountOK, NEW p \in Int
  PROVE  Slipped(p) \in Int /\ \A q \in Padded(p, state) : q = Slipped(p)
<1> DEFINE bps == 10000 + state.slippage
           z == MulBps(p, bps)
<1>1. bps \in Nat
  BY DEF AccountOK
<1>2. Slipped(p) = z /\ Padded(p, state) = {q \in {z} : InRange(q)}
  BY DEF Slipped, Padded
<1> HIDE DEF bps
<1>3. z \in Int
  BY <1>1, MulBpsType
<1> QED BY <1>2, <1>3

LEMMA PendingCostIs ==
  ASSUME AccountOK, NEW p \in Pending(state), NEW x \in PendingCost(p, state)
  PROVE  x = RestingOf[p] /\ x \in Nat
<1> DEFINE u == p[1]
           q == state.buys[u]
           b == q[p[2]]
           price == IF b.limit > 0 THEN b.limit ELSE Slipped(Mark(u))
           l == LotOf(u, state)
<1>1. u \in Uids /\ p[2] \in DOMAIN q
  BY DEF Pending
<1>2. b.lots \in Nat /\ b.limit \in Int
  <2> DEFINE R == [lots : Nat \ {0}, limit : Int]
  <2>1. q \in Seq(R) /\ p[2] \in DOMAIN q
    BY <1>1 DEF AccountOK
  <2> HIDE DEF q, R
  <2>2. q[p[2]] \in R
    BY <2>1
  <2> QED BY <2>2 DEF R
<1>3. RestingOf[p] = WithCommission(Worth(u, b.lots, price))
  BY DEF RestingOf, RestingCost
<1>4. u \in DOMAIN state.info
  BY DEF PendingCost
<1>5. PICK y \in PendingBuyPrice(u, b, state) :
        \E n \in NotionalOf(b.lots, LotOf(u, state), y) : x \in WithFee(n, state)
  BY <1>4 DEF PendingCost
<1>6. PICK n \in NotionalOf(b.lots, LotOf(u, state), y) : x \in WithFee(n, state)
  BY <1>5
<1>7. y = price /\ y \in Int
  <2>1. CASE b.limit > 0
    BY <1>2, <2>1 DEF PendingBuyPrice
  <2>2. CASE ~(b.limit > 0)
    <3>1. PICK z \in ExposurePrice(u, state) : y \in Padded(z, state)
      BY <2>2 DEF PendingBuyPrice
    <3>2. z = Mark(u)
      BY DEF ExposurePrice, Positive, Mark
    <3>3. Mark(u) \in Int
      BY <1>1 DEF AccountOK
    <3> DEFINE m == Mark(u)
    <3>4. z = m /\ m \in Int /\ y \in Padded(z, state)
      BY <3>1, <3>2, <3>3
    <3> HIDE DEF m
    <3>5. y = Slipped(m) /\ Slipped(m) \in Int
      BY <3>4, PaddedIs
    <3>6. y = Slipped(Mark(u))
      BY <3>5 DEF m
    <3> QED BY <2>2, <3>5, <3>6
  <2> QED BY <2>1, <2>2
<1> DEFINE lots == b.lots
<1>8. lots \in Nat /\ u \in DOMAIN state.info /\ y \in Int /\ n \in NotionalOf(lots, LotOf(u, state), y)
  BY <1>2, <1>4, <1>6, <1>7
<1>9. RestingOf[p] = WithCommission(Worth(u, lots, y))
  BY <1>3, <1>7
<1> HIDE DEF u, lots, q, b, price
<1>10. n = Worth(u, lots, y) /\ n \in Nat
  BY <1>8, NotionalIsWorth
<1>11. x = WithCommission(n)
  BY <1>6 DEF WithFee, WithCommission
<1>12. MulBps(n, state.feeBps) \in Int /\ MulBps(n, state.feeBps) >= 0
  <2> DEFINE fee == state.feeBps
  <2>1. fee \in Nat /\ n \in Int /\ n >= 0
    BY <1>10 DEF AccountOK
  <2> HIDE DEF fee
  <2>2. MulBps(n, fee) \in Int /\ MulBps(n, fee) >= 0
    BY <2>1, MulBpsType
  <2> QED BY <2>2 DEF fee
<1>13. x \in Nat
  BY <1>10, <1>11, <1>12 DEF WithCommission
<1>14. x = RestingOf[p]
  BY <1>9, <1>10, <1>11
<1> QED BY <1>13, <1>14

LEMMA PendingTypes ==
  ASSUME AccountOK, NEW p \in Pending(state)
  PROVE  /\ RestOf[p] \in Int
         /\ PendingCost(p, state) # {} => RestOf[p] = RestingOf[p] /\ RestingOf[p] \in Nat
<1> DEFINE s == PendingCost(p, state)
<1>1. \A x \in s : x = RestingOf[p] /\ x \in Nat
  BY PendingCostIs
<1>2. RestOf[p] = SumSet(s)
  BY DEF RestOf
<1> HIDE DEF s
<1>3. s \in SUBSET Int /\ \A x, y \in s : x = y
  BY <1>1
<1>4. SumSet(s) \in Int /\ \A x \in s : SumSet(s) = x
  BY <1>3, KnownCost
<1>5. s # {} => RestOf[p] = RestingOf[p] /\ RestingOf[p] \in Nat
  BY <1>1, <1>2, <1>4
<1> QED BY <1>2, <1>4, <1>5 DEF s

\* What is set aside for the resting buys is the sum of what each may still cost.
LEMMA ReservedIs ==
  ASSUME AccountOK
  PROVE  /\ ReservedPendingBuyCost(state) \in SUBSET Int
         /\ \A x, y \in ReservedPendingBuyCost(state) : x = y
         /\ \A x \in ReservedPendingBuyCost(state) : x = Total(RestingOf, Pending(state))
         /\ ReservedPendingBuyCost(state) # {} => \A p \in Pending(state) : RestingOf[p] \in Nat
<1> DEFINE S == Pending(state)
           h == RestOf
           base == MapThenSumSet(LAMBDA p : SumSet(PendingCost(p, state)), S)
           J(it) == it = [s \in SUBSET S |-> IF s = {} THEN 0
                            ELSE SumSet(PendingCost(CHOOSE x \in s : TRUE, state)) + it[s \ {CHOOSE x \in s : TRUE}]]
<1>1. IsFiniteSet(S)
  BY PendingFinite
<1>2. base = (CHOOSE it : J(it))[S]
  BY Zenon DEF MapThenSumSet, MapThenFoldSet
<1>3. \A p \in S : h[p] = SumSet(PendingCost(p, state)) /\ h[p] \in Int
                   /\ (PendingCost(p, state) # {} => h[p] = RestingOf[p] /\ RestingOf[p] \in Nat)
  <2>1. \A p \in S : h[p] = SumSet(PendingCost(p, state))
    BY DEF RestOf
  <2> QED BY <2>1, PendingTypes
<1>4. ReservedPendingBuyCost(state) = {n \in {base} : InRange(n) /\ \A p \in S : PendingCost(p, state) # {}}
  BY DEF ReservedPendingBuyCost
<1> HIDE DEF h, base
<1>5. \A s \in SUBSET S : s # {} => h[OneOf(s)] = SumSet(PendingCost(CHOOSE x \in s : TRUE, state))
  <2> HIDE DEF S
  <2> SUFFICES ASSUME NEW s \in SUBSET S, s # {}
               PROVE  h[OneOf(s)] = SumSet(PendingCost(CHOOSE x \in s : TRUE, state))
    OBVIOUS
  <2>1. OneOf(s) \in S
    BY DEF OneOf
  <2>2. h[OneOf(s)] = SumSet(PendingCost(OneOf(s), state))
    BY <1>3, <2>1
  <2> QED BY <2>2 DEF OneOf
<1>6. \A it : J(it) <=> IsSum(it, h, S)
  <2> HIDE DEF S
  <2> QED BY <1>5 DEF IsSum, OneOf
<1> DEFINE valued == \A p \in S : RestingOf[p] \in Nat
<1> HIDE DEF J, S
<1>7. IntsOn(h, S)
  BY <1>3 DEF IntsOn
<1>8. J(CHOOSE it : J(it))
  BY <1>1, <1>6, <1>7, SumExists
<1>9. base = Total(h, S) /\ Total(h, S) \in Int
  BY <1>1, <1>2, <1>6, <1>7, <1>8, SumIsTotal, TotalType
<1>10. ASSUME \A p \in S : PendingCost(p, state) # {} PROVE Total(h, S) = Total(RestingOf, S)
  <2>1. \A p \in S : h[p] = RestingOf[p]
    BY <1>3, <1>10
  <2> QED BY <1>1, <1>7, <2>1, TotalsAgree
<1> DEFINE R == ReservedPendingBuyCost(state)
           t == Total(RestingOf, S)
<1>11. \A x \in R : x = base /\ x = t /\ x \in Int
  BY <1>4, <1>9, <1>10
<1>12. t = Total(RestingOf, Pending(state)) /\ (valued <=> \A p \in Pending(state) : RestingOf[p] \in Nat)
  BY DEF S
<1>13. R # {} => valued
  BY <1>3, <1>4
<1> HIDE DEF R, t, valued
<1>14. R \in SUBSET Int /\ (\A x, y \in R : x = y) /\ \A x \in R : x = t
  BY <1>11
<1> QED BY <1>12, <1>13, <1>14 DEF R

\* A ration by cost: what every kept buy costs is known and within the budget.
LEMMA CostRationed ==
  ASSUME AccountOK, NEW b, BatchOK(b), NEW accounts, NEW budget \in [accounts -> Int],
         NEW account \in [1..N -> accounts], NEW c,
         Rationed(b, c, N, "buy", budget, account, BuyCosts(b))
  PROVE  /\ \A j \in 1..N : BuyCost(c)[j] \in Nat
         /\ \A i \in Those(c, {"buy"}) :
              /\ Total(BuyCost(c), Sharing(account, N, account[i])) <= budget[account[i]]
              /\ budget[account[i]] > 0
<1> DEFINE w == BuyCost(c)
           cost == BuyCosts(b)
           n == N
<1>1. BatchOK(c) /\ Shrinks(b, c)
  BY RationKeeps
<1>2. /\ n \in Nat /\ b \in BatchOf(n) /\ Costs(cost, b, n)
      /\ \A j \in 1..n : \A m \in 0..b.dec[j].qty : cost[j][m] = CostWithFee(b.dec[j], m, state)
  BY CostFunctions DEF BatchOK
<1>3. \A j \in 1..n : b.dec[j] \in Proposal /\ b.dec[j].qty \in Nat /\ c.dec[j].qty \in Nat
  BY <1>1, BatchMeans
<1>4. \A j \in Those(c, {"buy"}) : j \in 1..n /\ c.dec[j].qty > 0 /\ cost[j][c.dec[j].qty] # {}
  <2>1. \A j \in Those(c, {"buy"}) : c.dec[j].qty > 0 /\ cost[j][c.dec[j].qty] # {}
    BY DEF Rationed
  <2>2. c.live \in SUBSET (1..n)
    BY <1>1, BatchMeans
  <2> QED BY <2>1, <2>2 DEF Those
<1>5. \A j \in 1..n : c.dec[j] = Sized(b.dec[j], c.dec[j].qty) /\ c.dec[j].qty \in 0..b.dec[j].qty
  <2>1. \A j \in 1..n : c.dec[j] = Sized(b.dec[j], c.dec[j].qty) /\ c.dec[j].qty <= b.dec[j].qty
    BY <1>1 DEF Shrinks, Cut
  <2> SUFFICES ASSUME NEW j \in 1..n PROVE c.dec[j].qty \in 0..b.dec[j].qty
    BY <2>1
  <2> DEFINE q == c.dec[j].qty
             o == b.dec[j].qty
  <2>2. q \in Nat /\ o \in Nat /\ q <= o
    BY <1>3, <2>1
  <2> HIDE DEF q, o
  <2>3. q \in 0..o
    BY <2>2
  <2> QED BY <2>3 DEF q, o
<1> HIDE DEF n, cost
<1>6. \A j \in 1..n : j \notin Those(c, {"buy"}) => w[j] = 0
  BY DEF BuyCost, n
<1>7. ASSUME NEW j \in Those(c, {"buy"})
      PROVE  w[j] \in Nat /\ w[j] > 0 /\ \A x \in cost[j][c.dec[j].qty] : x = w[j]
  <2> DEFINE d == b.dec[j]
             e == c.dec[j]
             q == c.dec[j].qty
  <2>1. j \in 1..n /\ d \in Proposal /\ q \in Nat /\ e = Sized(d, q) /\ cost[j][q] = CostWithFee(d, q, state)
    BY <1>2, <1>3, <1>4, <1>5
  <2>2. w[j] = WithCommission(Worth(e.uid, q, KeptPrice(e)))
    BY <2>1 DEF BuyCost, KeptCost, n
  <2>3. PICK x \in cost[j][q] : TRUE
    BY <1>4
  <2> HIDE DEF d, e, q
  <2>4. KeptPrice(e) = KeptPrice(d) /\ e.uid = d.uid
    BY <2>1, SizedAgree
  <2>5. \A y \in cost[j][q] : y = WithCommission(Worth(d.uid, q, KeptPrice(d))) /\ y \in Nat /\ y > 0
    BY <2>1, CostWithFeeIs
  <2>6. \A y \in cost[j][q] : y = w[j]
    BY <2>2, <2>4, <2>5
  <2> QED BY <2>3, <2>5, <2>6 DEF q
<1>8. \A j \in 1..n : w[j] \in Nat
  BY <1>6, <1>7
<1> HIDE DEF w
<1>9. ASSUME NEW i \in Those(c, {"buy"})
      PROVE  Total(w, Sharing(account, n, account[i])) <= budget[account[i]] /\ budget[account[i]] > 0
  <2> DEFINE S == Sharing(account, n, account[i])
  <2>1. Rationed(b, c, n, "buy", budget, account, cost) /\ account \in [1..n -> accounts]
    BY DEF n, cost
  <2>2. Total(w, S) <= budget[account[i]]
    BY <1>2, <1>6, <1>7, <2>1, RationSpends
  <2>3. IsFiniteSet(S) /\ S \in SUBSET (1..n) /\ i \in S
    <3>1. SharingGrows(account, n, account[i])
      BY <1>2, SharingMore
    <3>2. i \in 1..n
      BY <1>4
    <3> QED BY <3>1, <3>2 DEF SharingGrows, Sharing
  <2>4. account[i] \in accounts /\ budget[account[i]] \in Int
    BY <1>4, <2>1
  <2> HIDE DEF S
  <2>5. IntsOn(w, S) /\ (\A x \in S : w[x] >= 0) /\ w[i] > 0
    BY <1>7, <1>8, <2>3 DEF IntsOn
  <2>6. w[i] <= Total(w, S) /\ Total(w, S) \in Int
    BY <2>3, <2>5, TotalCovers, TotalType
  <2>7. w[i] \in Int
    BY <1>7
  <2>8. budget[account[i]] > 0
    BY <2>2, <2>4, <2>5, <2>6, <2>7
  <2> QED BY <2>2, <2>8 DEF S
<1> QED BY <1>8, <1>9 DEF n, w

LEMMA CashEffect ==
  ASSUME AccountOK, NEW b, BatchOK(b), NEW c, c = ApplyCashFloor(b, state, limits)
  PROVE  /\ BatchOK(c) /\ Shrinks(b, c) /\ WithinCash(c)
         /\ \A j \in 1..N : j \notin Those(b, {"buy"}) => Unchanged(b, c, j)
<1> DEFINE reserved == ReservedPendingBuyCost(state)
           amount == IF reserved = {} THEN 0 ELSE state.cash - limits.cashFloor - SumSet(reserved)
           cost == BuyCosts(b)
           r == "cash_floor"
           room == Shared(amount)
           account == Common(b)
           resting == Total(RestingOf, Pending(state))
           valued == \A p \in Pending(state) : RestingOf[p] \in Nat
<1>1. c = Ration(b, r, "buy", room, account, cost)
  BY Zenon DEF ApplyCashFloor, BuyCosts
<1>2. limits.cashFloor \in Int /\ state.cash \in Int
  BY DEF AccountOK
<1>3. /\ reserved \in SUBSET Int /\ (\A x, y \in reserved : x = y) /\ \A x \in reserved : x = resting
      /\ reserved # {} => valued
  BY ReservedIs
<1> HIDE DEF reserved, resting, valued
<1>4. SumSet(reserved) \in Int /\ \A x \in reserved : SumSet(reserved) = x
  BY <1>3, KnownCost
<1>5. /\ amount \in Int
      /\ amount > 0 => valued /\ resting \in Int /\ amount = state.cash - limits.cashFloor - resting
  BY <1>2, <1>3, <1>4
<1> HIDE DEF amount
<1>6. /\ room \in [{"all"} -> Int] /\ account \in [1..N -> {"all"}]
      /\ \A i \in 1..N : room[account[i]] = amount /\ Sharing(account, N, account[i]) = 1..N
  BY <1>5, CommonAccount
<1> HIDE DEF room, account, cost, r
<1>7. r \in RuleNames
  BY DEF r, RuleNames
<1>8. /\ N \in Nat /\ b \in BatchOf(N) /\ Costs(cost, b, N)
      /\ \A j \in Those(b, {"buy"}) : b.dec[j].qty > 0
  BY BatchMeans, CostFunctions, PositiveQty DEF BatchOK, cost
<1>9. Rationed(b, c, N, "buy", room, account, cost)
  <2> DEFINE n == N
             action == "buy"
             accounts == {"all"}
  <2> HIDE DEF n, action, accounts
  <2>1. Rationed(b, Ration(b, r, action, room, account, cost), n, action, room, account, cost)
    <3>1. n \in Nat /\ b \in BatchOf(n) /\ account \in [1..n -> accounts] /\ Costs(cost, b, n)
          /\ room \in [accounts -> Int]
          /\ \A j \in Those(b, {action}) : b.dec[j].qty > 0
      BY <1>6, <1>8 DEF n, action, accounts
    <3> QED BY <1>7, <3>1, RationEffect
  <2> QED BY <1>1, <2>1 DEF n, action
<1>10. /\ BatchOK(c) /\ Shrinks(b, c)
       /\ \A j \in 1..N : j \notin Those(b, {"buy"}) => Unchanged(b, c, j)
  BY <1>9, RationKeeps
<1>11. /\ \A j \in 1..N : BuyCost(c)[j] \in Nat
       /\ \A i \in Those(c, {"buy"}) : Total(BuyCost(c), Sharing(account, N, account[i])) <= room[account[i]] /\ room[account[i]] > 0
  <2>1. Rationed(b, c, N, "buy", room, account, BuyCosts(b))
    BY <1>9 DEF cost
  <2>2. room \in [{"all"} -> Int] /\ account \in [1..N -> {"all"}]
    BY <1>6
  <2> QED BY <2>1, <2>2, CostRationed
<1>12. ASSUME NEW i \in Those(c, {"buy"})
       PROVE  valued /\ state.cash - Total(BuyCost(c), 1..N) - resting >= limits.cashFloor
  <2>1. i \in 1..N
    BY <1>10, BatchMeans DEF Those
  <2>2. Total(BuyCost(c), 1..N) <= amount /\ amount > 0
    <3>1. room[account[i]] = amount /\ Sharing(account, N, account[i]) = 1..N
      BY <1>6, <2>1
    <3>2. Total(BuyCost(c), Sharing(account, N, account[i])) <= room[account[i]] /\ room[account[i]] > 0
      BY <1>11
    <3> QED BY <3>1, <3>2, Zenon
  <2>3. valued /\ resting \in Int /\ amount = state.cash - limits.cashFloor - resting
    BY <1>5, <2>2
  <2>4. Total(BuyCost(c), 1..N) \in Int
    <3> DEFINE w == BuyCost(c)
               S == 1..N
    <3>1. IsFiniteSet(S)
      BY BatchMeans
    <3>2. \A j \in S : w[j] \in Nat
      BY <1>11
    <3> HIDE DEF w, S
    <3>3. IntsOn(w, S)
      BY <3>2 DEF IntsOn
    <3>4. Total(w, S) \in Int
      BY <3>1, <3>3, TotalType
    <3> QED BY <3>4 DEF w, S
  <2> DEFINE t == Total(BuyCost(c), 1..N)
  <2>5. t \in Int /\ t <= amount
    BY <2>2, <2>4
  <2> HIDE DEF t
  <2>6. state.cash - t - resting >= limits.cashFloor
    BY <1>2, <2>3, <2>5
  <2> QED BY <2>3, <2>6 DEF t
<1>13. WithinCash(c)
  BY <1>12 DEF WithinCash, resting, valued
<1> QED BY <1>10, <1>13

-----------------------------------------------------------------------------
(* The sells *)

Room(u) == state.pos[u].qty - state.sells[u]

WithinHeld(b) ==
  \A i \in Those(b, {"sell"}) : LET u == b.dec[i].uid IN Total(Sold(b), Sharing(UidOf, N, u)) <= Room(u)

LEMMA OversellEffect ==
  ASSUME AccountOK, NEW b, BatchOK(b), NEW c, c = ApplyOversell(b, state)
  PROVE  /\ BatchOK(c) /\ Shrinks(b, c) /\ WithinHeld(c)
         /\ \A j \in 1..N : j \notin Those(b, {"sell"}) => Unchanged(b, c, j)
         /\ \A j \in 1..N : b.dec[j].action = "sell" /\ b.dec[j].qty <= Room(b.dec[j].uid) => Unchanged(b, c, j)
<1> DEFINE room == Sellable(state)
           cost == SellLots(b)
           r == "oversell"
<1>1. c = Ration(b, r, "sell", room, UidOf, cost)
  <2>1. PerInstrument(b) = UidOf
    BY BatchMeans
  <2> QED BY <2>1, Zenon DEF ApplyOversell, SellLots
<1>2. room \in [Uids -> Int] /\ \A u \in Uids : room[u] = Room(u)
  <2>1. \A u \in Uids : state.pos[u].qty - state.sells[u] \in Int
    BY DEF AccountOK
  <2> QED BY <2>1 DEF Sellable, Room
<1>3. /\ Costs(cost, b, N)
      /\ \A j \in 1..N : \A m \in 0..b.dec[j].qty : cost[j][m] = {m}
  BY CostFunctions
<1> HIDE DEF room, cost, r
<1>4. r \in RuleNames
  BY DEF r, RuleNames
<1>5. /\ N \in Nat /\ b \in BatchOf(N) /\ UidOf \in [1..N -> Uids]
      /\ \A j \in Those(b, {"sell"}) : b.dec[j].qty > 0
  BY BatchMeans, PositiveQty DEF BatchOK
<1>6. Rationed(b, c, N, "sell", room, UidOf, cost)
  <2> DEFINE n == N
             action == "sell"
  <2> HIDE DEF n, action
  <2>1. Rationed(b, Ration(b, r, action, room, UidOf, cost), n, action, room, UidOf, cost)
    <3>1. n \in Nat /\ b \in BatchOf(n) /\ UidOf \in [1..n -> Uids] /\ Costs(cost, b, n)
          /\ \A j \in Those(b, {action}) : b.dec[j].qty > 0
      BY <1>3, <1>5 DEF n, action
    <3> QED BY <1>2, <1>4, <3>1, RationEffect
  <2> QED BY <1>1, <2>1 DEF n, action
<1>7. /\ BatchOK(c) /\ Shrinks(b, c)
      /\ \A j \in 1..N : j \notin Those(b, {"sell"}) => Unchanged(b, c, j)
  BY <1>6, RationKeeps
<1>8. \A j \in 1..N : /\ b.dec[j].qty \in Nat /\ c.dec[j].qty \in Nat /\ c.dec[j].qty <= b.dec[j].qty
                      /\ b.dec[j].uid = UidOf[j] /\ c.dec[j].uid = UidOf[j] /\ UidOf[j] \in Uids
                      /\ b.dec[j].action = proposed[j].action
  BY <1>7, BatchMeans DEF Shrinks, Cut
<1>9. ASSUME NEW i \in Those(c, {"sell"})
      PROVE  LET u == c.dec[i].uid IN Total(Sold(c), Sharing(UidOf, N, u)) <= Room(u)
  <2> DEFINE w == Sold(c)
             n == N
             action == "sell"
  <2>1. \A j \in Those(c, {"sell"}) : j \in 1..n
    BY <1>7, BatchMeans DEF Those
  <2>2. /\ \A j \in 1..n : j \notin Those(c, {action}) => w[j] = 0
        /\ \A j \in Those(c, {action}) : w[j] = c.dec[j].qty
    BY <2>1 DEF Sold
  <2>3. \A j \in Those(c, {action}) : \A x \in cost[j][c.dec[j].qty] : x = w[j]
    <3> SUFFICES ASSUME NEW j \in Those(c, {action}), NEW x \in cost[j][c.dec[j].qty] PROVE x = w[j]
      OBVIOUS
    <3> DEFINE q == c.dec[j].qty
               o == b.dec[j].qty
    <3>1. j \in 1..N /\ q \in Nat /\ o \in Nat /\ q <= o
      BY <1>8, <2>1
    <3>2. q = w[j]
      BY <2>2
    <3> HIDE DEF q, o, w
    <3>3. q \in 0..o
      BY <3>1
    <3>4. cost[j][q] = {q}
      BY <1>3, <3>1, <3>3 DEF o
    <3>5. x \in cost[j][q]
      BY DEF q
    <3> QED BY <3>2, <3>4, <3>5
  <2>4. /\ n \in Nat /\ b \in BatchOf(n) /\ room \in [Uids -> Int] /\ UidOf \in [1..n -> Uids]
        /\ Costs(cost, b, n) /\ Rationed(b, c, n, action, room, UidOf, cost) /\ i \in Those(c, {action})
    BY <1>2, <1>3, <1>5, <1>6
  <2> HIDE DEF w, n, action
  <2>5. Total(w, Sharing(UidOf, n, UidOf[i])) <= room[UidOf[i]]
    BY <2>2, <2>3, <2>4, RationSpends
  <2>6. c.dec[i].uid = UidOf[i] /\ room[UidOf[i]] = Room(UidOf[i])
    BY <1>2, <1>8, <2>1 DEF n
  <2> QED BY <2>5, <2>6 DEF w, n
<1>10. WithinHeld(c)
  BY <1>9 DEF WithinHeld
<1>11. ASSUME NEW j \in 1..N, b.dec[j].action = "sell", b.dec[j].qty <= Room(b.dec[j].uid)
       PROVE  Unchanged(b, c, j)
  <2>1. Alone(b, "sell", UidOf, j)
    <3> SUFFICES ASSUME NEW k \in Those(b, {"sell"}), UidOf[k] = UidOf[j] PROVE k = j
      BY DEF Alone
    <3>1. k \in 1..N /\ b.dec[k].action = "sell"
      BY BatchMeans DEF Those
    <3>2. proposed[k].action = proposed[j].action /\ proposed[k].uid = proposed[j].uid
      BY <1>8, <1>11, <3>1 DEF UidOf
    <3>3. Proposed(proposed, N)
      BY DEF BatchOK
    <3> QED BY <3>1, <3>2, <3>3 DEF Proposed
  <2>2. Affordable(b, room, UidOf, cost, j)
    <3> DEFINE q == b.dec[j].qty
               u == UidOf[j]
    <3>1. q \in Nat /\ q <= room[u] /\ room[u] \in Int
      BY <1>2, <1>8, <1>11
    <3>2. \A m \in 0..q : cost[j][m] = {m}
      BY <1>3
    <3> HIDE DEF q, u
    <3>3. \A m \in 1..q : m \in 0..q /\ m <= room[u]
      BY <3>1
    <3>4. \A m \in 1..q : \E x \in cost[j][m] : x <= room[u]
      BY <3>2, <3>3
    <3> QED BY <3>4 DEF Affordable, q, u
  <2>3. \A k \in 1..N : Alone(b, "sell", UidOf, k) /\ Affordable(b, room, UidOf, cost, k) => Unchanged(b, c, k)
    BY <1>6 DEF Rationed
  <2> QED BY <2>1, <2>2, <2>3
<1> QED BY <1>7, <1>10, <1>11

-----------------------------------------------------------------------------
(* A limit once kept to stays kept to: the later rules only take away *)

LEMMA AtRiskType ==
  ASSUME AccountOK, NEW u \in Uids, Known(u)
  PROVE  AtRisk(u) \in Nat /\ LotsAtRisk(u) \in Nat
<1>1. LotsAtRisk(u) \in Nat
  <2>1. state.pos[u].qty \in Nat
    BY DEF AccountOK
  <2>2. PendingLots(u, state) \in Nat
    BY PendingLotsType
  <2> QED BY <2>1, <2>2 DEF LotsAtRisk
<1>2. CASE LotsAtRisk(u) = 0
  BY <1>1, <1>2 DEF AtRisk
<1>3. CASE LotsAtRisk(u) > 0
  <2> DEFINE q == LotsAtRisk(u)
             l == LotOf(u, state)
             m == Mark(u)
  <2>1. u \in DOMAIN state.info /\ l > 0 /\ m > 0 /\ AtRisk(u) = q * l * m
    BY <1>1, <1>3 DEF Known, AtRisk, Worth
  <2>2. l \in Int /\ m \in Int
    BY <2>1 DEF AccountOK
  <2> HIDE DEF q, l, m
  <2>3. q \in Nat /\ l \in Nat /\ m \in Nat
    BY <1>1, <2>1, <2>2 DEF q
  <2>4. q * l \in Nat
    BY <2>3
  <2>5. q * l * m \in Nat
    BY <2>3, <2>4
  <2> QED BY <1>1, <2>1, <2>5
<1> QED BY <1>1, <1>2, <1>3

LEMMA PositionStays ==
  ASSUME AccountOK, NEW b, BatchOK(b), NEW c, BatchOK(c), Shrinks(b, c), WithinPosition(b)
  PROVE  WithinPosition(c)
<1>1. \A i \in Those(b, {"buy"}) :
        /\ Priced(b.dec[i]) /\ Known(b.dec[i].uid)
        /\ AtRisk(b.dec[i].uid) + Total(BuyWorth(b), Sharing(UidOf, N, b.dec[i].uid)) <= limits.maxPosition
  BY DEF WithinPosition
<1>2. /\ Those(c, {"buy"}) \subseteq Those(b, {"buy"})
      /\ \A i \in Those(c, {"buy"}) : Priced(c.dec[i])
      /\ \A j \in 1..N : BuyWorth(c)[j] \in Nat /\ BuyWorth(b)[j] \in Nat /\ BuyWorth(c)[j] <= BuyWorth(b)[j]
  BY <1>1, WorthShrinks
<1>3. ASSUME NEW i \in Those(c, {"buy"})
      PROVE  LET u == c.dec[i].uid IN
               /\ Priced(c.dec[i]) /\ Known(u)
               /\ AtRisk(u) + Total(BuyWorth(c), Sharing(UidOf, N, u)) <= limits.maxPosition
  <2>1. i \in Those(b, {"buy"}) /\ i \in 1..N
    BY <1>2, BatchMeans DEF Those
  <2>2. c.dec[i].uid = UidOf[i] /\ b.dec[i].uid = UidOf[i] /\ UidOf[i] \in Uids
    BY <2>1, BatchMeans
  <2> DEFINE u == UidOf[i]
             h == BuyWorth(c)
             g == BuyWorth(b)
             S == Sharing(UidOf, N, u)
  <2>3. u \in Uids /\ Known(u) /\ AtRisk(u) + Total(g, S) <= limits.maxPosition
    BY <1>1, <2>1, <2>2
  <2>4. IsFiniteSet(S) /\ S \in SUBSET (1..N)
    <3>1. SharingGrows(UidOf, N, u)
      BY SharingMore DEF BatchOK
    <3> QED BY <3>1 DEF SharingGrows
  <2> HIDE DEF u, h, g, S
  <2>5. IntsOn(h, S) /\ IntsOn(g, S) /\ \A x \in S : h[x] <= g[x]
    BY <1>2, <2>4 DEF IntsOn, h, g
  <2>6. Total(h, S) <= Total(g, S)
    <3>1. S \in SUBSET S /\ \A x \in S \ S : g[x] >= 0
      OBVIOUS
    <3> QED BY <2>4, <2>5, <3>1, TotalMonotone
  <2>7. Total(h, S) \in Int /\ Total(g, S) \in Int
    BY <2>4, <2>5, TotalType
  <2>8. AtRisk(u) \in Nat /\ limits.maxPosition \in Int
    BY <2>3, AtRiskType DEF AccountOK
  <2>9. AtRisk(u) + Total(h, S) <= limits.maxPosition
    BY <2>3, <2>6, <2>7, <2>8
  <2>10. c.dec[i].uid = u /\ Priced(c.dec[i])
    BY <1>2, <2>2 DEF u
  <2> QED BY <2>3, <2>9, <2>10 DEF h, S
<1> QED BY <1>3 DEF WithinPosition

LEMMA TotalStays ==
  ASSUME AccountOK, NEW b, BatchOK(b), NEW c, BatchOK(c), Shrinks(b, c), WithinPosition(b), WithinTotal(b)
  PROVE  WithinTotal(c)
<1>1. /\ Those(c, {"buy"}) \subseteq Those(b, {"buy"})
      /\ \A j \in 1..N : BuyWorth(c)[j] \in Nat /\ BuyWorth(b)[j] \in Nat /\ BuyWorth(c)[j] <= BuyWorth(b)[j]
  <2>1. \A i \in Those(b, {"buy"}) : Priced(b.dec[i])
    BY DEF WithinPosition
  <2> QED BY <2>1, WorthShrinks
<1>2. ASSUME Those(c, {"buy"}) # {}
      PROVE  (\A u \in Uids : Known(u)) /\ Total(AtRiskOf, Uids) + Total(BuyWorth(c), 1..N) <= limits.maxTotal
  <2> DEFINE h == BuyWorth(c)
             g == BuyWorth(b)
             S == 1..N
             a == Total(AtRiskOf, Uids)
  <2>1. Those(b, {"buy"}) # {}
    BY <1>1, <1>2
  <2>2. (\A u \in Uids : Known(u)) /\ a + Total(g, S) <= limits.maxTotal
    BY <2>1 DEF WithinTotal
  <2>3. IsFiniteSet(S)
    BY BatchMeans
  <2>4. \A x \in S : h[x] \in Int /\ g[x] \in Int /\ h[x] <= g[x]
    BY <1>1
  <2>5. a \in Int
    <3>1. IsFiniteSet(Uids)
      BY RiskAssumption
    <3>2. \A u \in Uids : AtRiskOf[u] \in Nat
      BY <2>2, AtRiskType DEF AtRiskOf
    <3> HIDE DEF S
    <3> QED BY <3>1, <3>2, TotalType DEF IntsOn
  <2> HIDE DEF h, g, S, a
  <2>6. Total(h, S) <= Total(g, S)
    <3>1. S \in SUBSET S /\ \A x \in S \ S : g[x] >= 0
      OBVIOUS
    <3> QED BY <2>3, <2>4, <3>1, TotalMonotone DEF IntsOn
  <2>7. Total(h, S) \in Int /\ Total(g, S) \in Int
    BY <2>3, <2>4, TotalType DEF IntsOn
  <2>8. limits.maxTotal \in Int
    BY DEF AccountOK
  <2>9. a + Total(h, S) <= limits.maxTotal
    BY <2>2, <2>5, <2>6, <2>7, <2>8
  <2> QED BY <2>2, <2>9 DEF h, S, a
<1> QED BY <1>2 DEF WithinTotal

\* A rule that only touches sells leaves the buys as they are.
LEMMA BuysUntouched ==
  ASSUME NEW b, BatchOK(b), NEW c, BatchOK(c),
         \A j \in 1..N : j \notin Those(b, {"sell"}) => Unchanged(b, c, j)
  PROVE  /\ Those(c, {"buy"}) = Those(b, {"buy"}) /\ \A i \in Those(b, {"buy"}) : c.dec[i] = b.dec[i]
         /\ BuyCost(c) = BuyCost(b)
<1>1. /\ \A j \in 1..N : b.dec[j].action = c.dec[j].action
      /\ b.live \in SUBSET (1..N) /\ c.live \in SUBSET (1..N)
  BY BatchMeans
<1>2. \A j \in 1..N : b.dec[j].action = "buy" => c.dec[j] = b.dec[j] /\ (j \in c.live <=> j \in b.live)
  <2>1. \A j \in 1..N : b.dec[j].action = "buy" => j \notin Those(b, {"sell"})
    BY DEF Those
  <2> QED BY <2>1 DEF Unchanged
<1>3. Those(c, {"buy"}) = Those(b, {"buy"})
  BY <1>1, <1>2 DEF Those
<1> DEFINE T == Those(b, {"buy"})
<1>4. Those(c, {"buy"}) = T /\ \A j \in T : c.dec[j] = b.dec[j]
  BY <1>1, <1>2, <1>3 DEF Those
<1> HIDE DEF T
<1>5. BuyCost(c) = [j \in 1..N |-> IF j \in T THEN KeptCost(c.dec[j]) ELSE 0]
  BY <1>4 DEF BuyCost
<1>6. BuyCost(b) = [j \in 1..N |-> IF j \in T THEN KeptCost(b.dec[j]) ELSE 0]
  BY DEF BuyCost, T
<1>7. BuyCost(c) = BuyCost(b)
  BY <1>4, <1>5, <1>6
<1> QED BY <1>4, <1>7 DEF T

\* What a rule leaves of the buys costs the same, when it does not touch them.
LEMMA CashStays ==
  ASSUME NEW b, BatchOK(b), NEW c, BatchOK(c), WithinCash(b),
         \A j \in 1..N : j \notin Those(b, {"sell"}) => Unchanged(b, c, j),
         c.live \subseteq b.live
  PROVE  WithinCash(c)
<1>1. Those(c, {"buy"}) = Those(b, {"buy"}) /\ BuyCost(c) = BuyCost(b)
  BY BuysUntouched
<1> QED BY <1>1, Zenon DEF WithinCash

-----------------------------------------------------------------------------
(* What the adjustments alone tell *)

LEMMA ToldReconstructs ==
  ASSUME NEW n \in Nat, NEW p \in [1..n -> Proposal], NEW b \in BatchOf(n), Told(p, b, n)
  PROVE  ReconstructFinal(p, b.log) = Allowed(b)
<1> DEFINE log == b.log
           L(i) == {k \in DOMAIN log : log[k].index = i /\ \A j \in DOMAIN log : log[j].index = i => j <= k}
           Q(i) == IF L(i) = {} THEN p[i].qty ELSE SumSet({log[k].qty : k \in L(i)})
           kept == {i \in DOMAIN p : \A k \in L(i) : log[k].qty > 0}
           Resized(i) == [p[i] EXCEPT !.qty = Q(i)]
<1>1. ReconstructFinal(p, b.log) = [k \in 1..Cardinality(kept) |-> Resized(InOrder(kept)[k])]
  BY DEF ReconstructFinal
<1>2. /\ DOMAIN p = 1..n /\ b.live \in SUBSET (1..n)
      /\ \A i \in 1..n : p[i] \in Proposal /\ p[i].qty \in Nat /\ b.dec[i].qty \in Nat
      /\ \A k \in DOMAIN log : k \in Nat /\ log[k].qty \in Nat
  <2>1. DOMAIN p = 1..n /\ b.live \in SUBSET (1..n) /\ \A i \in 1..n : p[i] \in Proposal /\ b.dec[i] \in Proposal
    BY DEF BatchOf
  <2>2. \A d \in Proposal : d.qty \in Nat
    BY DEF Proposal
  <2> DEFINE E == Entry(n)
  <2>3. log \in Seq(E)
    BY DEF BatchOf
  <2>4. \A e \in E : e.qty \in Nat
    BY DEF Entry
  <2> HIDE DEF E, log
  <2>5. \A k \in DOMAIN log : k \in Nat /\ log[k] \in E
    BY <2>3
  <2> QED BY <2>1, <2>2, <2>4, <2>5
<1>3. ASSUME NEW i \in 1..n
      PROVE  /\ i \in b.live <=> \A k \in L(i) : log[k].qty > 0
             /\ i \in b.live => Resized(i) = b.dec[i]
  <2>1. ToldAt(p, b, i)
    BY DEF Told
  <2>2. CASE Silent(log, i) /\ i \in b.live /\ b.dec[i] = p[i]
    <3>1. L(i) = {}
      BY <2>2 DEF Silent
    <3>2. Resized(i) = p[i]
      <4>1. Q(i) = p[i].qty
        BY <3>1
      <4> HIDE DEF Q
      <4>2. Resized(i) = [p[i] EXCEPT !.qty = p[i].qty]
        BY <4>1
      <4> QED BY <1>2, <4>2, SizedIsExcept
    <3> QED BY <2>2, <3>1, <3>2
  <2>3. ASSUME NEW k \in Nat, Latest(log, i, k), b.dec[i] = Sized(p[i], b.dec[i].qty),
               i \in b.live => log[k].qty = b.dec[i].qty /\ b.dec[i].qty > 0,
               i \notin b.live => log[k].qty = 0
        PROVE  /\ i \in b.live <=> \A x \in L(i) : log[x].qty > 0
               /\ i \in b.live => Resized(i) = b.dec[i]
    <3>1. L(i) = {k} /\ k \in DOMAIN log
      <4>1. k \in DOMAIN log /\ log[k].index = i /\ \A j \in DOMAIN log : log[j].index = i => j <= k
        BY <2>3 DEF Latest
      <4>2. ASSUME NEW x \in L(i) PROVE x = k
        <5>1. x \in DOMAIN log /\ k <= x /\ x <= k
          BY <4>1, <4>2
        <5>2. x \in Nat
          BY <1>2, <5>1
        <5> QED BY <5>1, <5>2
      <4> QED BY <4>1, <4>2
    <3>2. i \in b.live <=> \A x \in L(i) : log[x].qty > 0
      BY <2>3, <3>1
    <3>3. ASSUME i \in b.live PROVE Resized(i) = b.dec[i]
      <4> DEFINE q == log[k].qty
      <4>1. q \in Nat /\ q = b.dec[i].qty
        BY <1>2, <2>3, <3>1, <3>3
      <4>2. {log[x].qty : x \in L(i)} = {q}
        BY <3>1
      <4>3. Q(i) = SumSet({q})
        BY <3>1, <4>2
      <4> HIDE DEF q, Q
      <4>4. Q(i) = q
        BY <4>1, <4>3, SumSetOfOne
      <4>5. [p[i] EXCEPT !.qty = q] = Sized(p[i], q)
        <5>1. p[i] \in Proposal /\ q \in Nat
          BY <1>2, <4>1
        <5>2. \A d \in Proposal, m \in Nat : [d EXCEPT !.qty = m] = Sized(d, m)
          BY SizedIsExcept
        <5> QED BY <5>1, <5>2, Zenon
      <4>6. Resized(i) = [p[i] EXCEPT !.qty = q]
        BY <4>4, Zenon
      <4>7. b.dec[i] = Sized(p[i], q)
        BY <2>3, <4>1, Zenon
      <4> HIDE DEF Resized
      <4> QED BY <4>5, <4>6, <4>7, Zenon
    <3> QED BY <3>2, <3>3
  <2> HIDE DEF Resized, L
  <2> QED BY <2>1, <2>2, <2>3 DEF ToldAt
<1>4. kept = b.live
  <2> HIDE DEF L
  <2> QED BY <1>2, <1>3
<1>5. InOrder(b.live) \in [1..Cardinality(b.live) -> b.live]
  <2>1. IsFiniteSet(1..n)
    BY n \in Int, 1 \in Int, FS_Interval
  <2>2. IsFiniteSet(b.live) /\ b.live \in SUBSET Int
    BY <1>2, <2>1, FS_Subset
  <2> QED BY <2>2, InOrderSorts
<1> HIDE DEF kept, Resized
<1>6. \A k \in 1..Cardinality(b.live) : Resized(InOrder(b.live)[k]) = b.dec[InOrder(b.live)[k]]
  BY <1>2, <1>3, <1>5
<1>7. Allowed(b) = [k \in 1..Cardinality(b.live) |-> b.dec[InOrder(b.live)[k]]]
  BY DEF Allowed
<1> QED BY <1>1, <1>4, <1>6, <1>7

-----------------------------------------------------------------------------
(* The exits of a robot that stops buying *)

ExitsOf == {i \in 1..N : proposed[i].action \in Exits}
Distress ==
  /\ state.halted \/ KillSwitchEngaged(state, limits)
  /\ Cardinality(ExitsOf) <= limits.perCycle /\ Cardinality(ExitsOf) <= limits.perDay - state.ordersToday

\* An exit that no rule has a reason to turn away.
Covered(i) == LET d == proposed[i] IN
  /\ d.action \in Exits
  /\ d.uid \in DOMAIN state.info => state.info[d.uid].currency = state.base
  /\ d.action = "sell" => d.qty <= Room(d.uid)

ExitsOpen(b) == \A i \in 1..N : Covered(i) => i \in b.live /\ b.dec[i] = proposed[i]
NoBuys(b) == Those(b, {"buy"}) = {}

LEMMA ThinnedKeeps ==
  ASSUME NEW b, BatchOK(b), NEW c, Thinned(b, c, N)
  PROVE  BatchOK(c) /\ Shrinks(b, c) /\ c.dec = b.dec /\ (NoBuys(b) => NoBuys(c))
<1>1. proposed \in [1..N -> Proposal]
  BY DEF BatchOK, Proposed
<1>2. /\ c \in BatchOf(N) /\ c.dec = b.dec /\ c.live \subseteq b.live
      /\ \A p \in [1..N -> Proposal] : Told(p, b, N) => Told(p, c, N)
  BY DEF Thinned
<1>3. BatchOK(c)
  BY <1>1, <1>2 DEF BatchOK
<1>4. Cut(b, c, N)
  <2> SUFFICES ASSUME NEW i \in 1..N
               PROVE  c.dec[i] = Sized(b.dec[i], c.dec[i].qty) /\ c.dec[i].qty <= b.dec[i].qty
    BY DEF Cut
  <2> DEFINE d == b.dec[i]
             q == d.qty
  <2>1. d \in Proposal /\ q \in Nat /\ c.dec[i] = d
    BY <1>2, BatchMeans
  <2>2. q <= q
    BY <2>1
  <2>3. Sized(d, d.qty) = d
    <3> HIDE DEF d, q
    <3> QED BY <2>1, SizedIsExcept DEF q
  <2> QED BY <2>1, <2>2, <2>3
<1>5. NoBuys(b) => NoBuys(c)
  BY <1>2 DEF NoBuys, Those
<1> QED BY <1>2, <1>3, <1>4, <1>5 DEF Shrinks

LEMMA NoBuysStays ==
  ASSUME NEW b, BatchOK(b), NEW c, BatchOK(c), c.live \subseteq b.live, NoBuys(b)
  PROVE  NoBuys(c)
<1>1. \A i \in 1..N : b.dec[i].action = c.dec[i].action
  BY BatchMeans
<1>2. c.live \in SUBSET (1..N)
  BY BatchMeans
<1> QED BY <1>1, <1>2 DEF NoBuys, Those

LEMMA StripExits ==
  ASSUME NEW b, BatchOK(b), ExitsOpen(b), NEW S \in SUBSET b.live, \A i \in S : ~Covered(i), NEW r \in RuleNames
  PROVE  ExitsOpen(Strip(b, S, r))
<1> DEFINE c == Strip(b, S, r)
           n == N
<1>1. n \in Nat /\ b \in BatchOf(n)
  BY DEF BatchOK
<1>2. c.dec = b.dec /\ c.live = b.live \ S
  <2>1. S \in SUBSET b.live /\ r \in RuleNames
    OBVIOUS
  <2> HIDE DEF n
  <2>2. Thinned(b, Strip(b, S, r), n) /\ Strip(b, S, r).live = b.live \ S
    BY <1>1, <2>1, StripThins, ZenonT(60)
  <2> QED BY <2>2 DEF Thinned
<1> HIDE DEF c
<1>3. ExitsOpen(c)
  BY <1>2 DEF ExitsOpen
<1> QED BY <1>3 DEF c

LEMMA GateExits ==
  ASSUME NEW b, BatchOK(b), ExitsOpen(b)
  PROVE  /\ ExitsOpen(ApplyKillSwitch(b, state, limits))
         /\ ExitsOpen(ApplyOperationalHalt(b, state))
         /\ ExitsOpen(ApplyAllowlist(b, state, limits))
         /\ ExitsOpen(ApplyCurrencyMismatch(b, state))
<1>1. \A i \in b.live : b.dec[i].action = proposed[i].action /\ b.dec[i].uid = proposed[i].uid
  <2>1. \A i \in 1..N : b.dec[i].action = proposed[i].action /\ b.dec[i].uid = UidOf[i]
    BY BatchMeans
  <2>2. b.live \in SUBSET (1..N)
    BY BatchMeans
  <2> QED BY <2>1, <2>2 DEF UidOf
<1>2. /\ "daily_loss_kill_switch" \in RuleNames /\ "operational_halt" \in RuleNames
      /\ "allowlist" \in RuleNames /\ "currency_mismatch" \in RuleNames
  BY DEF RuleNames
<1>3. \A i : Covered(i) => proposed[i].action \in {"sell", "close"}
  BY DEF Covered, Exits
<1>4. ExitsOpen(ApplyKillSwitch(b, state, limits))
  <2> DEFINE S == Those(b, {"buy", "hold"})
  <2>1. S \in SUBSET b.live /\ \A i \in S : ~Covered(i)
    BY <1>1, <1>3 DEF Those
  <2> HIDE DEF S
  <2>2. ExitsOpen(Strip(b, S, "daily_loss_kill_switch"))
    BY <1>2, <2>1, StripExits
  <2> QED BY <2>2 DEF ApplyKillSwitch, S
<1>5. ExitsOpen(ApplyOperationalHalt(b, state))
  <2> DEFINE S == Those(b, {"buy"})
  <2>1. S \in SUBSET b.live /\ \A i \in S : ~Covered(i)
    BY <1>1, <1>3 DEF Those
  <2> HIDE DEF S
  <2>2. ExitsOpen(Strip(b, S, "operational_halt"))
    BY <1>2, <2>1, StripExits
  <2> QED BY <2>2 DEF ApplyOperationalHalt, S
<1>6. ExitsOpen(ApplyAllowlist(b, state, limits))
  <2> DEFINE S == {i \in Those(b, {"buy"}) : ~Listed(b.dec[i].uid, state, limits)}
  <2>1. S \in SUBSET b.live /\ \A i \in S : ~Covered(i)
    BY <1>1, <1>3 DEF Those
  <2> HIDE DEF S
  <2>2. ExitsOpen(Strip(b, S, "allowlist"))
    BY <1>2, <2>1, StripExits
  <2> QED BY <2>2 DEF ApplyAllowlist, S
<1>7. ExitsOpen(ApplyCurrencyMismatch(b, state))
  <2> DEFINE S == {i \in Those(b, Orders) : /\ b.dec[i].uid \in DOMAIN state.info
                                            /\ state.info[b.dec[i].uid].currency # state.base}
  <2>1. S \in SUBSET b.live
    BY DEF Those
  <2>2. \A i \in S : ~Covered(i)
    <3> SUFFICES ASSUME NEW i \in S, Covered(i) PROVE FALSE
      OBVIOUS
    <3>1. i \in b.live /\ b.dec[i].uid \in DOMAIN state.info /\ state.info[b.dec[i].uid].currency # state.base
      BY DEF Those
    <3>2. b.dec[i].uid = proposed[i].uid
      BY <1>1, <3>1
    <3> QED BY <3>1, <3>2 DEF Covered
  <2> HIDE DEF S
  <2>3. ExitsOpen(Strip(b, S, "currency_mismatch"))
    BY <1>2, <2>1, <2>2, StripExits
  <2> QED BY <2>3 DEF ApplyCurrencyMismatch, S
<1> QED BY <1>4, <1>5, <1>6, <1>7

\* The two rules that end the buying, for the loss of the day and for the halt.
LEMMA GatesEndBuying ==
  ASSUME NEW b, BatchOK(b)
  PROVE  /\ KillSwitchEngaged(state, limits) => NoBuys(ApplyKillSwitch(b, state, limits))
         /\ state.halted => NoBuys(ApplyOperationalHalt(b, state))
<1> DEFINE n == N
<1>1. n \in Nat /\ b \in BatchOf(n)
  BY DEF BatchOK
<1> HIDE DEF n
<1>2. "daily_loss_kill_switch" \in RuleNames /\ "operational_halt" \in RuleNames
  BY DEF RuleNames
<1>3. ASSUME KillSwitchEngaged(state, limits) PROVE NoBuys(ApplyKillSwitch(b, state, limits))
  <2> DEFINE S == Those(b, {"buy", "hold"})
             r == "daily_loss_kill_switch"
             c == Strip(b, S, r)
  <2>1. S \in SUBSET b.live /\ r \in RuleNames
    BY <1>2 DEF Those
  <2>2. c = ApplyKillSwitch(b, state, limits)
    BY <1>3 DEF ApplyKillSwitch
  <2> HIDE DEF S, r
  <2>3. Thinned(b, Strip(b, S, r), n) /\ Strip(b, S, r).live = b.live \ S
    BY <1>1, <2>1, StripThins
  <2>4. c.dec = b.dec /\ c.live = b.live \ S
    BY <2>3 DEF Thinned
  <2> HIDE DEF c
  <2>5. NoBuys(c)
    BY <2>4 DEF NoBuys, Those, S
  <2> QED BY <2>2, <2>5
<1>4. ASSUME state.halted PROVE NoBuys(ApplyOperationalHalt(b, state))
  <2> DEFINE S == Those(b, {"buy"})
             r == "operational_halt"
             c == Strip(b, S, r)
  <2>1. S \in SUBSET b.live /\ r \in RuleNames
    BY <1>2 DEF Those
  <2>2. c = ApplyOperationalHalt(b, state)
    BY <1>4 DEF ApplyOperationalHalt
  <2> HIDE DEF S, r
  <2>3. Thinned(b, Strip(b, S, r), n) /\ Strip(b, S, r).live = b.live \ S
    BY <1>1, <2>1, StripThins
  <2>4. c.dec = b.dec /\ c.live = b.live \ S
    BY <2>3 DEF Thinned
  <2> HIDE DEF c
  <2>5. NoBuys(c)
    BY <2>4 DEF NoBuys, Those, S
  <2> QED BY <2>2, <2>5
<1> QED BY <1>3, <1>4

\* Without buys, a cap that has room for the exits has room for what is live.
LEMMA CapExits ==
  ASSUME NEW b, BatchOK(b), ExitsOpen(b), NoBuys(b), NEW cap \in Int, Cardinality(ExitsOf) <= cap,
         NEW r \in RuleNames
  PROVE  ExitsOpen(ApplyOrderCap(b, cap, r))
<1> DEFINE orders == Those(b, Orders)
           before(i) == {j \in orders : j < i}
           full(i) == Cardinality(before(i)) >= cap
           S == {i \in orders : full(i)}
<1>1. orders \in SUBSET ExitsOf /\ orders \in SUBSET b.live
  <2>1. \A i \in 1..N : b.dec[i].action = proposed[i].action
    BY BatchMeans
  <2>2. b.live \in SUBSET (1..N)
    BY BatchMeans
  <2> QED BY <2>1, <2>2 DEF NoBuys, Those, ExitsOf, Orders, Exits
<1>2. IsFiniteSet(ExitsOf) /\ ExitsOf \in SUBSET Int
  <2>1. IsFiniteSet(1..N) /\ N \in Nat
    BY BatchMeans
  <2>2. ExitsOf \in SUBSET (1..N)
    BY DEF ExitsOf
  <2>3. IsFiniteSet(ExitsOf)
    BY <2>1, <2>2, FS_Subset, Zenon
  <2>4. 1..N \in SUBSET Int
    BY <2>1
  <2> QED BY <2>2, <2>3, <2>4
<1> HIDE DEF orders
<1>3. ASSUME NEW i \in orders PROVE ~full(i)
  <2> DEFINE rest == ExitsOf \ {i}
             B == before(i)
  <2>1. i \in ExitsOf /\ i \in Int /\ B \in SUBSET rest
    <3>1. i \in ExitsOf /\ i \in Int
      BY <1>1, <1>2
    <3>2. \A j \in Int : j < i => j # i
      BY <3>1
    <3>3. \A j \in orders : j < i => j \in ExitsOf /\ j # i
      BY <1>1, <1>2, <3>2
    <3> QED BY <3>1, <3>3
  <2>2. full(i) <=> Cardinality(B) >= cap
    OBVIOUS
  <2> HIDE DEF before, full, B, rest
  <2>3. IsFiniteSet(rest) /\ Cardinality(rest) = Cardinality(ExitsOf) - 1
    BY <1>2, <2>1, FS_RemoveElement DEF rest
  <2>4. Cardinality(B) <= Cardinality(rest) /\ IsFiniteSet(B)
    BY <2>1, <2>3, FS_Subset
  <2>5. Cardinality(B) \in Nat /\ Cardinality(rest) \in Nat /\ Cardinality(ExitsOf) \in Nat
    BY <1>2, <2>3, <2>4, FS_CardinalityType
  <2>6. ~(Cardinality(B) >= cap)
    BY <2>3, <2>4, <2>5
  <2> QED BY <2>2, <2>6
<1>4. S \in SUBSET b.live /\ \A i \in S : ~Covered(i)
  <2> HIDE DEF full
  <2> QED BY <1>3
<1> HIDE DEF S
<1>5. ExitsOpen(Strip(b, S, r))
  BY <1>4, StripExits
<1> QED BY <1>5 DEF ApplyOrderCap, S, orders

LEMMA RationExits ==
  ASSUME NEW b, BatchOK(b), ExitsOpen(b), NEW c,
         \A j \in 1..N : j \notin Those(b, {"buy"}) => Unchanged(b, c, j)
  PROVE  ExitsOpen(c)
<1>1. \A i \in 1..N : b.dec[i].action = proposed[i].action
  BY BatchMeans
<1>2. \A i \in 1..N : Covered(i) => i \notin Those(b, {"buy"})
  BY <1>1 DEF Covered, Exits, Those
<1> QED BY <1>2 DEF ExitsOpen, Unchanged

LEMMA OversellExits ==
  ASSUME NEW b, BatchOK(b), ExitsOpen(b), NEW c,
         \A j \in 1..N : j \notin Those(b, {"sell"}) => Unchanged(b, c, j),
         \A j \in 1..N : b.dec[j].action = "sell" /\ b.dec[j].qty <= Room(b.dec[j].uid) => Unchanged(b, c, j)
  PROVE  ExitsOpen(c)
<1> SUFFICES ASSUME NEW i \in 1..N, Covered(i) PROVE i \in c.live /\ c.dec[i] = proposed[i]
  BY DEF ExitsOpen
<1>1. i \in b.live /\ b.dec[i] = proposed[i]
  BY DEF ExitsOpen
<1>2. Unchanged(b, c, i)
  <2>1. CASE proposed[i].action = "sell"
    BY <1>1, <2>1 DEF Covered
  <2>2. CASE proposed[i].action # "sell"
    BY <1>1, <2>2 DEF Those
  <2> QED BY <2>1, <2>2
<1> QED BY <1>1, <1>2 DEF Unchanged

-----------------------------------------------------------------------------
(* The invariant *)

\* What batch b keeps to when r is the next rule.
Holds(b, r) ==
  /\ BatchOK(b)
  /\ r \in {"exposure", "cash", "oversell", "done"} => WithinPosition(b)
  /\ r \in {"cash", "oversell", "done"} => WithinTotal(b)
  /\ r \in {"oversell", "done"} => WithinCash(b)
  /\ r = "done" => WithinHeld(b)
  /\ Distress =>
       /\ ExitsOpen(b)
       /\ KillSwitchEngaged(state, limits) /\ r # "kill_switch" => NoBuys(b)
       /\ state.halted /\ r \notin {"kill_switch", "halt"} => NoBuys(b)

CheckInv == state \in States /\ limits \in Limits /\ Holds(batch, rule)

\* It says of a batch what it said before when the arguments have not changed.
LEMMA SameArgs ==
  ASSUME UNCHANGED args, NEW b, NEW r
  PROVE  Holds(b, r) => Holds(b, r)'
<1>1. proposed' = proposed /\ state' = state /\ limits' = limits
  BY DEF args
<1>2. N' = N
  BY <1>1 DEF N
<1>3. /\ \A u : Mark(u)' = Mark(u)
      /\ \A u : LotsAtRisk(u)' = LotsAtRisk(u)
      /\ \A u : Room(u)' = Room(u)
      /\ \A d : Quoted(d)' = Quoted(d)
      /\ \A u, l, p : Worth(u, l, p)' = Worth(u, l, p)
      /\ \A x : WithCommission(x)' = WithCommission(x)
      /\ \A p : Slipped(p)' = Slipped(p)
  BY <1>1 DEF Mark, LotsAtRisk, Room, Quoted, Worth, WithCommission, Slipped
<1>4. /\ \A d : Priced(d)' <=> Priced(d)
      /\ \A u : Known(u)' <=> Known(u)
      /\ \A u : AtRisk(u)' = AtRisk(u)
      /\ \A d : KeptPrice(d)' = KeptPrice(d)
  BY <1>1, <1>3 DEF Priced, Known, AtRisk, KeptPrice
<1>5. /\ \A d : KeptCost(d)' = KeptCost(d)
      /\ \A u, a : RestingCost(u, a)' = RestingCost(u, a)
  BY <1>3, <1>4 DEF KeptCost, RestingCost
<1>6. UidOf' = UidOf /\ AtRiskOf' = AtRiskOf
  BY <1>1, <1>2, <1>4 DEF UidOf, AtRiskOf
<1>7. RestingOf' = RestingOf
  BY <1>1, <1>5 DEF RestingOf
<1>8. BuyWorth(b)' = BuyWorth(b)
  BY <1>2, <1>3 DEF BuyWorth
<1>9. BuyCost(b)' = BuyCost(b)
  BY <1>2, <1>5 DEF BuyCost
<1>10. Sold(b)' = Sold(b)
  BY <1>2 DEF Sold
<1>11. BatchOK(b)' <=> BatchOK(b)
  BY <1>1, <1>2 DEF BatchOK
<1>12. WithinPosition(b)' <=> WithinPosition(b)
  BY <1>1, <1>2, <1>4, <1>6, <1>8 DEF WithinPosition
<1>13. WithinTotal(b)' <=> WithinTotal(b)
  BY <1>1, <1>2, <1>4, <1>6, <1>8 DEF WithinTotal
<1>14. WithinCash(b)' <=> WithinCash(b)
  BY <1>1, <1>2, <1>7, <1>9 DEF WithinCash
<1>15. WithinHeld(b)' <=> WithinHeld(b)
  BY <1>2, <1>3, <1>6, <1>10 DEF WithinHeld
<1>16. ExitsOf' = ExitsOf
  BY <1>1, <1>2 DEF ExitsOf
<1>17. Distress' <=> Distress
  BY <1>1, <1>16 DEF Distress
<1>18. ExitsOpen(b)' <=> ExitsOpen(b)
  BY <1>1, <1>2, <1>3 DEF ExitsOpen, Covered
<1> QED BY <1>1, <1>11, <1>12, <1>13, <1>14, <1>15, <1>17, <1>18 DEF Holds

LEMMA InvStarts == CheckInit => CheckInv
<1> SUFFICES ASSUME CheckInit PROVE CheckInv
  OBVIOUS
<1>1. /\ proposed \in {Accepted(answer, Request) : answer \in Answers}
      /\ state \in States /\ limits \in Limits /\ batch = Batch(proposed) /\ rule = "kill_switch"
  BY DEF CheckInit
<1>2. PICK n \in Nat : Proposed(proposed, n)
  BY <1>1, AcceptedIsProposed
<1>3. N = n /\ DOMAIN proposed = 1..n
  <2> DEFINE P == Proposal
  <2>1. proposed \in [1..n -> P]
    BY <1>2 DEF Proposed
  <2> HIDE DEF P
  <2>2. DOMAIN proposed = 1..n
    BY <2>1
  <2>3. proposed \in Seq(P) /\ Len(proposed) = n
    BY <2>1
  <2> QED BY <2>2, <2>3 DEF N
<1>4. proposed \in [1..n -> Proposal]
  BY <1>2 DEF Proposed
<1>5. /\ batch \in BatchOf(n) /\ Told(proposed, batch, n)
      /\ batch.dec = proposed /\ batch.live = 1..n
  BY <1>1, <1>4, BatchStarts
<1>6. BatchOK(batch)
  BY <1>2, <1>3, <1>5 DEF BatchOK
<1>7. ExitsOpen(batch)
  BY <1>3, <1>5 DEF ExitsOpen
<1> QED BY <1>1, <1>6, <1>7 DEF CheckInv, Holds

\* A rule that is a step makes of the batch what Holds asks of the next rule.
LEMMA StepHolds ==
  ASSUME CheckInv, NEW from, NEW to, NEW c, Step(from, c, to), Holds(c, to)
  PROVE  CheckInv'
<1>1. rule' = to /\ batch' = c /\ UNCHANGED args
  BY DEF Step
<1>2. Holds(c, to)'
  BY <1>1, SameArgs
<1>3. state' = state /\ limits' = limits
  BY <1>1 DEF args
<1> QED BY <1>1, <1>2, <1>3 DEF CheckInv

\* A gate or a cap leaves a batch that is still one.
LEMMA GateHolds ==
  ASSUME CheckInv,
         NEW c, Thinned(batch, c, N), NEW to,
         to \in {"halt", "allowlist", "currency", "per_cycle", "per_day", "position"},
         Distress => /\ ExitsOpen(c)
                     /\ KillSwitchEngaged(state, limits) /\ to # "kill_switch" => NoBuys(c)
                     /\ state.halted /\ to \notin {"kill_switch", "halt"} => NoBuys(c)
  PROVE  Holds(c, to)
<1>1. BatchOK(c)
  BY ThinnedKeeps DEF CheckInv, Holds
<1> QED BY <1>1 DEF Holds

LEMMA InvStays == CheckInv /\ [CheckNext]_checkVars => CheckInv'
<1> SUFFICES ASSUME CheckInv, [CheckNext]_checkVars PROVE CheckInv'
  OBVIOUS
<1> DEFINE b == batch
           engaged == KillSwitchEngaged(state, limits)
<1>1. /\ AccountOK /\ BatchOK(b) /\ N \in Nat /\ b \in BatchOf(N)
      /\ Distress => ExitsOpen(b)
  BY AccountTypes DEF CheckInv, Holds, BatchOK
<1>2. /\ limits.perCycle \in Int /\ limits.perDay - state.ordersToday \in Int
      /\ Distress => (Cardinality(ExitsOf) <= limits.perCycle /\ Cardinality(ExitsOf) <= limits.perDay - state.ordersToday
                       /\ (state.halted \/ engaged))
  BY <1>1 DEF AccountOK, Distress
<1>3. "max_orders_per_cycle" \in RuleNames /\ "max_orders_per_day" \in RuleNames
  BY DEF RuleNames
<1>4. \A c : Thinned(b, c, N) => (NoBuys(b) => NoBuys(c))
  BY <1>1, ThinnedKeeps
<1>5. ASSUME DailyLoss PROVE CheckInv'
  <2> DEFINE c == ApplyKillSwitch(b, state, limits)
  <2>1. Step("kill_switch", c, "halt")
    BY <1>5 DEF DailyLoss
  <2>2. Thinned(b, c, N)
    BY <1>1, GateEffects
  <2>3. Distress => ExitsOpen(c)
    BY <1>1, GateExits
  <2>4. engaged => NoBuys(c)
    BY <1>1, GatesEndBuying
  <2> HIDE DEF c
  <2>5. Holds(c, "halt")
    BY <2>2, <2>3, <2>4, GateHolds
  <2> QED BY <2>1, <2>5, StepHolds
<1>6. ASSUME OperationalHalt PROVE CheckInv'
  <2> DEFINE c == ApplyOperationalHalt(b, state)
  <2>1. Step("halt", c, "allowlist") /\ rule = "halt"
    BY <1>6 DEF OperationalHalt, Step
  <2>2. Thinned(b, c, N)
    BY <1>1, GateEffects
  <2>3. Distress => ExitsOpen(c)
    BY <1>1, GateExits
  <2>4. state.halted => NoBuys(c)
    BY <1>1, GatesEndBuying
  <2> HIDE DEF c
  <2>5. Distress /\ engaged => NoBuys(c)
    BY <1>4, <2>1, <2>2 DEF CheckInv, Holds
  <2>6. Holds(c, "allowlist")
    BY <2>2, <2>3, <2>4, <2>5, GateHolds
  <2> QED BY <2>1, <2>6, StepHolds
<1>7. ASSUME NEW from \in {"allowlist", "currency", "per_cycle", "per_day"}, NEW to \in {"currency", "per_cycle", "per_day", "position"},
             NEW c, Step(from, c, to), Thinned(b, c, N), Distress => ExitsOpen(c)
      PROVE  CheckInv'
  <2>1. rule = from
    BY <1>7 DEF Step
  <2>2. Distress => (engaged => NoBuys(b)) /\ (state.halted => NoBuys(b))
    BY <2>1 DEF CheckInv, Holds
  <2>3. Holds(c, to)
    BY <1>4, <1>7, <2>2, GateHolds
  <2> QED BY <1>7, <2>3, StepHolds
<1>8. ASSUME rule \in {"allowlist", "currency", "per_cycle", "per_day"}, Distress PROVE NoBuys(b)
  BY <1>2, <1>8 DEF CheckInv, Holds
<1>9. ASSUME Allowlist PROVE CheckInv'
  <2> DEFINE c == ApplyAllowlist(b, state, limits)
  <2>1. Step("allowlist", c, "currency")
    BY <1>9 DEF Allowlist
  <2>2. Thinned(b, c, N) /\ (Distress => ExitsOpen(c))
    BY <1>1, GateEffects, GateExits
  <2> HIDE DEF c
  <2> QED BY <1>7, <2>1, <2>2
<1>10. ASSUME CurrencyMismatch PROVE CheckInv'
  <2> DEFINE c == ApplyCurrencyMismatch(b, state)
  <2>1. Step("currency", c, "per_cycle")
    BY <1>10 DEF CurrencyMismatch
  <2>2. Thinned(b, c, N) /\ (Distress => ExitsOpen(c))
    BY <1>1, GateEffects, GateExits
  <2> HIDE DEF c
  <2> QED BY <1>7, <2>1, <2>2
<1>11. ASSUME OrdersPerCycle PROVE CheckInv'
  <2> DEFINE cap == limits.perCycle
             r == "max_orders_per_cycle"
             c == ApplyOrderCap(b, cap, r)
  <2>1. Step("per_cycle", c, "per_day") /\ rule = "per_cycle"
    BY <1>11 DEF OrdersPerCycle, Step
  <2>2. cap \in Int /\ r \in RuleNames /\ (Distress => NoBuys(b) /\ Cardinality(ExitsOf) <= cap)
    BY <1>2, <1>3, <1>8, <2>1
  <2> HIDE DEF cap, r
  <2>3. Thinned(b, c, N)
    BY <1>1, <2>2, GateEffects
  <2>4. Distress => ExitsOpen(c)
    BY <1>1, <2>2, CapExits
  <2> HIDE DEF c
  <2> QED BY <1>7, <2>1, <2>3, <2>4
<1>12. ASSUME OrdersPerDay PROVE CheckInv'
  <2> DEFINE cap == limits.perDay - state.ordersToday
             r == "max_orders_per_day"
             c == ApplyOrderCap(b, cap, r)
  <2>1. Step("per_day", c, "position") /\ rule = "per_day"
    BY <1>12 DEF OrdersPerDay, Step
  <2>2. cap \in Int /\ r \in RuleNames /\ (Distress => NoBuys(b) /\ Cardinality(ExitsOf) <= cap)
    BY <1>2, <1>3, <1>8, <2>1
  <2> HIDE DEF cap, r
  <2>3. Thinned(b, c, N)
    BY <1>1, <2>2, GateEffects
  <2>4. Distress => ExitsOpen(c)
    BY <1>1, <2>2, CapExits
  <2> HIDE DEF c
  <2> QED BY <1>7, <2>1, <2>3, <2>4
<1>13. ASSUME NEW c, BatchOK(c), Shrinks(b, c), rule \in {"position", "exposure", "cash", "oversell"}, Distress
       PROVE  NoBuys(c)
  <2>1. NoBuys(b)
    BY <1>2, <1>13 DEF CheckInv, Holds
  <2> QED BY <1>1, <1>13, <2>1, NoBuysStays DEF Shrinks
<1>14. ASSUME PositionNotional PROVE CheckInv'
  <2> DEFINE c == ApplyPositionNotional(b, state, limits)
  <2>1. Step("position", c, "exposure") /\ rule = "position"
    BY <1>14 DEF PositionNotional, Step
  <2>2. /\ BatchOK(c) /\ Shrinks(b, c) /\ WithinPosition(c)
        /\ \A j \in 1..N : j \notin Those(b, {"buy"}) => Unchanged(b, c, j)
    BY <1>1, PositionEffect
  <2> HIDE DEF c
  <2>3. Distress => ExitsOpen(c) /\ NoBuys(c)
    BY <1>1, <1>13, <2>1, <2>2, RationExits
  <2>4. Holds(c, "exposure")
    BY <2>2, <2>3 DEF Holds
  <2> QED BY <2>1, <2>4, StepHolds
<1>15. ASSUME TotalExposure PROVE CheckInv'
  <2> DEFINE c == ApplyTotalExposure(b, state, limits)
  <2>1. Step("exposure", c, "cash") /\ rule = "exposure"
    BY <1>15 DEF TotalExposure, Step
  <2>2. /\ BatchOK(c) /\ Shrinks(b, c) /\ WithinTotal(c)
        /\ \A j \in 1..N : j \notin Those(b, {"buy"}) => Unchanged(b, c, j)
    BY <1>1, ExposureEffect
  <2> HIDE DEF c
  <2>3. Distress => ExitsOpen(c) /\ NoBuys(c)
    BY <1>1, <1>13, <2>1, <2>2, RationExits
  <2>4. WithinPosition(b)
    BY <2>1 DEF CheckInv, Holds
  <2>5. WithinPosition(c)
    BY <1>1, <2>2, <2>4, PositionStays
  <2>6. Holds(c, "cash")
    BY <2>2, <2>3, <2>5 DEF Holds
  <2> QED BY <2>1, <2>6, StepHolds
<1>16. ASSUME CashFloorRule PROVE CheckInv'
  <2> DEFINE c == ApplyCashFloor(b, state, limits)
  <2>1. Step("cash", c, "oversell") /\ rule = "cash"
    BY <1>16 DEF CashFloorRule, Step
  <2>2. /\ BatchOK(c) /\ Shrinks(b, c) /\ WithinCash(c)
        /\ \A j \in 1..N : j \notin Those(b, {"buy"}) => Unchanged(b, c, j)
    BY <1>1, CashEffect
  <2> HIDE DEF c
  <2>3. Distress => ExitsOpen(c) /\ NoBuys(c)
    BY <1>1, <1>13, <2>1, <2>2, RationExits
  <2>4. WithinPosition(b) /\ WithinTotal(b)
    BY <2>1 DEF CheckInv, Holds
  <2>5. WithinPosition(c) /\ WithinTotal(c)
    BY <1>1, <2>2, <2>4, PositionStays, TotalStays
  <2>6. Holds(c, "oversell")
    BY <2>2, <2>3, <2>5 DEF Holds
  <2> QED BY <2>1, <2>6, StepHolds
<1>17. ASSUME Oversell PROVE CheckInv'
  <2> DEFINE c == ApplyOversell(b, state)
  <2>1. Step("oversell", c, "done") /\ rule = "oversell"
    BY <1>17 DEF Oversell, Step
  <2>2. /\ BatchOK(c) /\ Shrinks(b, c) /\ WithinHeld(c)
        /\ \A j \in 1..N : j \notin Those(b, {"sell"}) => Unchanged(b, c, j)
        /\ \A j \in 1..N : b.dec[j].action = "sell" /\ b.dec[j].qty <= Room(b.dec[j].uid) => Unchanged(b, c, j)
    BY <1>1, OversellEffect
  <2> HIDE DEF c
  <2>3. Distress => ExitsOpen(c) /\ NoBuys(c)
    BY <1>1, <1>13, <2>1, <2>2, OversellExits
  <2>4. WithinPosition(b) /\ WithinTotal(b) /\ WithinCash(b)
    BY <2>1 DEF CheckInv, Holds
  <2>5. WithinPosition(c) /\ WithinTotal(c)
    BY <1>1, <2>2, <2>4, PositionStays, TotalStays
  <2>6. WithinCash(c)
    BY <1>1, <2>2, <2>4, CashStays DEF Shrinks
  <2>7. Holds(c, "done")
    BY <2>2, <2>3, <2>5, <2>6 DEF Holds
  <2> QED BY <2>1, <2>7, StepHolds
<1>18. ASSUME UNCHANGED checkVars PROVE CheckInv'
  <2>1. Step(rule, batch, rule)
    BY <1>18 DEF checkVars, Step
  <2>2. Holds(batch, rule)
    BY DEF CheckInv
  <2> QED BY <2>1, <2>2, StepHolds
<1> QED BY <1>5, <1>6, <1>9, <1>10, <1>11, <1>12, <1>14, <1>15, <1>16, <1>17, <1>18 DEF CheckNext

LEMMA CheckAlways == CheckSpec => []CheckInv
BY InvStarts, InvStays, PTL DEF CheckSpec

-----------------------------------------------------------------------------
(* What the limits promise *)

LEMMA InvMeans ==
  ASSUME CheckInv
  PROVE  /\ AccountOK /\ BatchOK(batch) /\ DOMAIN proposed = 1..N
         /\ \A action : Kept(action) = Those(batch, {action})
         /\ \A action : Kept(action) \in SUBSET (1..N)
<1>1. AccountOK /\ BatchOK(batch)
  BY AccountTypes DEF CheckInv, Holds
<1>2. DOMAIN proposed = 1..N
  BY <1>1 DEF BatchOK, Proposed
<1>3. \A action : Kept(action) = Those(batch, {action})
  BY DEF Kept, Those
<1>4. batch.live \in SUBSET (1..N)
  BY <1>1, BatchMeans
<1> QED BY <1>1, <1>2, <1>3, <1>4 DEF Kept

LEMMA InvAudit == CheckInv => AuditComplete
<1> SUFFICES ASSUME CheckInv PROVE AuditComplete
  OBVIOUS
<1> DEFINE n == N
<1>1. BatchOK(batch)
  BY InvMeans
<1>2. n \in Nat /\ proposed \in [1..n -> Proposal] /\ batch \in BatchOf(n) /\ Told(proposed, batch, n)
  BY <1>1 DEF BatchOK, Proposed
<1> HIDE DEF n
<1>3. ReconstructFinal(proposed, batch.log) = Allowed(batch)
  BY <1>2, ToldReconstructs
<1> QED BY <1>3 DEF AuditComplete

LEMMA InvExits == CheckInv => ExitsSurvive
<1> SUFFICES ASSUME CheckInv PROVE ExitsSurvive
  OBVIOUS
<1>1. DOMAIN proposed = 1..N
  BY InvMeans
<1>2. {i \in DOMAIN proposed : proposed[i].action \in Exits} = ExitsOf
  BY <1>1 DEF ExitsOf
<1>3. Distress => ExitsOpen(batch)
  BY DEF CheckInv, Holds
<1>4. \A i \in ExitsOf : i \in 1..N /\ proposed[i].action \in Exits
  BY DEF ExitsOf
<1>5. ASSUME Distress, NEW i \in ExitsOf,
             proposed[i].uid \in DOMAIN state.info => state.info[proposed[i].uid].currency = state.base,
             proposed[i].action = "sell" =>
               proposed[i].qty <= state.pos[proposed[i].uid].qty - state.sells[proposed[i].uid]
      PROVE  i \in batch.live /\ batch.dec[i] = proposed[i]
  <2>1. i \in 1..N /\ Covered(i)
    BY <1>4, <1>5 DEF Covered, Room
  <2> QED BY <1>3, <1>5, <2>1 DEF ExitsOpen
<1> QED BY <1>2, <1>5, Zenon DEF ExitsSurvive, Distress

LEMMA InvSells == CheckInv => SellsCovered
<1> SUFFICES ASSUME CheckInv, Done, NEW u \in Uids
             PROVE  LET sold(action) == {i \in Kept(action) : batch.dec[i].uid = u} IN
                      /\ sold("sell") # {} =>
                           state.sells[u] + MapThenSumSet(LAMBDA i : batch.dec[i].qty, sold("sell")) <= state.pos[u].qty
                      /\ Cardinality(sold("close")) <= 1
  BY DEF SellsCovered
<1> DEFINE sold(action) == {i \in Kept(action) : batch.dec[i].uid = u}
<1>1. /\ AccountOK /\ BatchOK(batch)
      /\ \A action : Kept(action) = Those(batch, {action})
      /\ \A action : Kept(action) \in SUBSET (1..N)
  BY InvMeans
<1>2. WithinHeld(batch)
  BY DEF CheckInv, Holds, Done
<1>3. /\ N \in Nat /\ IsFiniteSet(1..N)
      /\ \A i \in 1..N : /\ batch.dec[i].qty \in Nat /\ batch.dec[i].uid = UidOf[i]
                         /\ batch.dec[i].action = proposed[i].action
  BY <1>1, BatchMeans
<1>4. ASSUME sold("sell") # {}
      PROVE  state.sells[u] + MapThenSumSet(LAMBDA i : batch.dec[i].qty, sold("sell")) <= state.pos[u].qty
  <2> DEFINE S == sold("sell")
             h == [i \in S |-> batch.dec[i].qty]
             w == Sold(batch)
             T == Sharing(UidOf, N, u)
             sum == MapThenSumSet(LAMBDA i : batch.dec[i].qty, S)
             J(it) == it = [s \in SUBSET S |-> IF s = {} THEN 0
                              ELSE batch.dec[CHOOSE x \in s : TRUE].qty + it[s \ {CHOOSE x \in s : TRUE}]]
  <2>1. PICK i \in S : TRUE
    BY <1>4
  <2>2. i \in Those(batch, {"sell"}) /\ batch.dec[i].uid = u
    BY <1>1, <2>1
  <2>3. Total(w, T) <= Room(u)
    BY <1>2, <2>2 DEF WithinHeld
  <2>4. S \in SUBSET T /\ T \in SUBSET (1..N)
    BY <1>1, <1>3 DEF Sharing
  <2>5. IsFiniteSet(T) /\ IsFiniteSet(S)
    <3> HIDE DEF S, T
    <3>1. IsFiniteSet(T)
      BY <1>3, <2>4, FS_Subset
    <3> QED BY <2>4, <3>1, FS_Subset
  <2>6. \A x \in T : w[x] \in Nat
    BY <1>3, <2>4 DEF Sold
  <2>7. \A x \in S : h[x] = w[x] /\ h[x] = batch.dec[x].qty
    BY <1>1, <2>4 DEF Sold
  <2>8. sum = (CHOOSE it : J(it))[S]
    BY Zenon DEF MapThenSumSet, MapThenFoldSet
  <2> HIDE DEF h, S, sum, w, T
  <2>9. \A s \in SUBSET S : s # {} => h[OneOf(s)] = batch.dec[CHOOSE x \in s : TRUE].qty
    <3> SUFFICES ASSUME NEW s \in SUBSET S, s # {} PROVE h[OneOf(s)] = batch.dec[CHOOSE x \in s : TRUE].qty
      OBVIOUS
    <3>1. OneOf(s) \in S
      BY DEF OneOf
    <3>2. h[OneOf(s)] = batch.dec[OneOf(s)].qty
      BY <2>7, <3>1
    <3> QED BY <3>2 DEF OneOf
  <2>10. \A it : J(it) <=> IsSum(it, h, S)
    BY <2>9 DEF IsSum, OneOf
  <2> HIDE DEF J
  <2>11. IntsOn(h, S) /\ IntsOn(w, T) /\ (\A x \in S : h[x] <= w[x]) /\ \A x \in T \ S : w[x] >= 0
    BY <2>4, <2>6, <2>7 DEF IntsOn
  <2>12. J(CHOOSE it : J(it))
    BY <2>5, <2>10, <2>11, SumExists
  <2>13. sum = Total(h, S) /\ Total(h, S) \in Int
    BY <2>5, <2>8, <2>10, <2>11, <2>12, SumIsTotal, TotalType
  <2>14. Total(h, S) <= Total(w, T) /\ Total(w, T) \in Int
    BY <2>4, <2>5, <2>11, TotalMonotone, TotalType
  <2>15. Room(u) = state.pos[u].qty - state.sells[u] /\ state.pos[u].qty \in Nat /\ state.sells[u] \in Nat
    BY <1>1 DEF AccountOK, Room
  <2>16. state.sells[u] + sum <= state.pos[u].qty
    BY <2>3, <2>13, <2>14, <2>15
  <2> QED BY <2>16 DEF sum, S
<1>5. Cardinality(sold("close")) <= 1
  <2> DEFINE S == sold("close")
  <2>1. \A i, j \in S : i = j
    <3> SUFFICES ASSUME NEW i \in S, NEW j \in S PROVE i = j
      OBVIOUS
    <3>1. i \in 1..N /\ j \in 1..N /\ batch.dec[i].action = "close" /\ batch.dec[j].action = "close"
      BY <1>1 DEF Those
    <3>2. proposed[i].uid = proposed[j].uid /\ proposed[i].action = proposed[j].action
      BY <1>3, <3>1 DEF UidOf
    <3> QED BY <1>1, <3>1, <3>2 DEF BatchOK, Proposed
  <2> HIDE DEF S
  <2>2. ASSUME S = {} PROVE Cardinality(S) <= 1
    BY <2>2, FS_EmptySet
  <2>3. ASSUME S # {} PROVE Cardinality(S) <= 1
    <3>1. PICK x \in S : TRUE
      BY <2>3
    <3>2. S = {x}
      BY <2>1, <3>1
    <3>3. Cardinality({x}) = 1
      BY FS_Singleton
    <3> QED BY <3>2, <3>3
  <2>4. Cardinality(S) <= 1
    BY <2>2, <2>3
  <2> QED BY <2>4 DEF S
<1> QED BY <1>4, <1>5

LEMMA KeptCostType ==
  ASSUME AccountOK, NEW d \in Proposal, Priced(d)
  PROVE  KeptCost(d) \in Int
<1> DEFINE p == KeptPrice(d)
           q == d.qty
           l == LotOf(d.uid, state)
           w == q * l * p
           fee == state.feeBps
<1>1. q \in Int /\ l \in Int /\ fee \in Nat
  BY DEF Proposal, Priced, AccountOK
<1>2. Quoted(d) \in Int
  BY DEF AccountOK
<1>3. p \in Int
  <2> DEFINE m == Quoted(d)
  <2> HIDE DEF m
  <2>1. m \in Int
    BY <1>2 DEF m
  <2>2. Slipped(m) \in Int
    BY <2>1, PaddedIs
  <2> QED BY <1>2, <2>2 DEF KeptPrice, m
<1>4. KeptCost(d) = w + MulBps(w, fee)
  BY DEF KeptCost, WithCommission, Worth
<1> HIDE DEF p, q, l, fee
<1>5. q * l \in Int
  BY <1>1
<1>6. w \in Int
  BY <1>3, <1>5
<1> HIDE DEF w
<1>7. MulBps(w, fee) \in Int
  BY <1>1, <1>6, MulBpsType
<1> QED BY <1>4, <1>6, <1>7

LEMMA InvCash == CheckInv => CashAboveFloor
<1> SUFFICES ASSUME CheckInv, Done, Kept("buy") # {} PROVE
        state.cash - MapThenSumSet(LAMBDA i : KeptCost(batch.dec[i]), Kept("buy"))
                   - MapThenSumSet(LAMBDA p : RestingCost(p[1], state.buys[p[1]][p[2]]), Pending(state))
          >= limits.cashFloor
  BY DEF CashAboveFloor
<1> DEFINE K == Kept("buy")
           h == [i \in K |-> KeptCost(batch.dec[i])]
           w == BuyCost(batch)
           T == 1..N
           P == Pending(state)
           spent == MapThenSumSet(LAMBDA i : KeptCost(batch.dec[i]), K)
           resting == MapThenSumSet(LAMBDA p : RestingCost(p[1], state.buys[p[1]][p[2]]), P)
           J(it) == it = [s \in SUBSET K |-> IF s = {} THEN 0
                            ELSE KeptCost(batch.dec[CHOOSE x \in s : TRUE]) + it[s \ {CHOOSE x \in s : TRUE}]]
           Cost(p) == RestingCost(p[1], state.buys[p[1]][p[2]])
           I(it) == it = [s \in SUBSET P |-> IF s = {} THEN 0
                            ELSE Cost(CHOOSE x \in s : TRUE) + it[s \ {CHOOSE x \in s : TRUE}]]
<1>1. AccountOK /\ BatchOK(batch) /\ K = Those(batch, {"buy"}) /\ K \in SUBSET T
  BY InvMeans
<1>2. /\ WithinPosition(batch) /\ WithinCash(batch)
  BY DEF CheckInv, Holds, Done
<1>3. /\ \A p \in P : RestingOf[p] \in Nat
      /\ state.cash - Total(w, T) - Total(RestingOf, P) >= limits.cashFloor
  BY <1>1, <1>2 DEF WithinCash
<1>4. IsFiniteSet(T) /\ IsFiniteSet(K) /\ IsFiniteSet(P)
  <2>1. IsFiniteSet(T)
    BY <1>1, BatchMeans
  <2>2. IsFiniteSet(P)
    BY <1>1, PendingFinite
  <2> HIDE DEF K, T
  <2>3. IsFiniteSet(K)
    BY <1>1, <2>1, FS_Subset
  <2> QED BY <2>1, <2>2, <2>3
<1>5. \A i \in K : h[i] = KeptCost(batch.dec[i]) /\ w[i] = h[i] /\ h[i] \in Int
  <2> SUFFICES ASSUME NEW i \in K PROVE h[i] = KeptCost(batch.dec[i]) /\ w[i] = h[i] /\ h[i] \in Int
    OBVIOUS
  <2> DEFINE d == batch.dec[i]
  <2>1. h[i] = KeptCost(d) /\ w[i] = KeptCost(d)
    BY <1>1 DEF BuyCost
  <2>2. Priced(d)
    BY <1>1, <1>2 DEF WithinPosition
  <2>3. d \in Proposal
    BY <1>1, BatchMeans
  <2> HIDE DEF d
  <2>4. KeptCost(d) \in Int
    BY <1>1, <2>2, <2>3, KeptCostType
  <2> QED BY <2>1, <2>4 DEF d
<1>6. \A i \in T \ K : w[i] = 0
  BY <1>1 DEF BuyCost
<1>7. spent = (CHOOSE it : J(it))[K]
  BY Zenon DEF MapThenSumSet, MapThenFoldSet
<1>8. resting = (CHOOSE it : I(it))[P]
  BY Zenon DEF MapThenSumSet, MapThenFoldSet
<1>9. \A p \in P : RestingOf[p] = Cost(p)
  BY DEF RestingOf
<1> HIDE DEF h, w, K, T, P, spent, resting, Cost
<1>10. \A s \in SUBSET K : s # {} => h[OneOf(s)] = KeptCost(batch.dec[CHOOSE x \in s : TRUE])
  <2> SUFFICES ASSUME NEW s \in SUBSET K, s # {} PROVE h[OneOf(s)] = KeptCost(batch.dec[CHOOSE x \in s : TRUE])
    OBVIOUS
  <2>1. OneOf(s) \in K
    BY DEF OneOf
  <2>2. h[OneOf(s)] = KeptCost(batch.dec[OneOf(s)])
    BY <1>5, <2>1
  <2> QED BY <2>2 DEF OneOf
<1>11. \A s \in SUBSET P : s # {} => RestingOf[OneOf(s)] = Cost(CHOOSE x \in s : TRUE)
  <2> SUFFICES ASSUME NEW s \in SUBSET P, s # {} PROVE RestingOf[OneOf(s)] = Cost(CHOOSE x \in s : TRUE)
    OBVIOUS
  <2>1. OneOf(s) \in P
    BY DEF OneOf
  <2>2. RestingOf[OneOf(s)] = Cost(OneOf(s))
    BY <1>9, <2>1
  <2> QED BY <2>2 DEF OneOf
<1>12. \A it : J(it) <=> IsSum(it, h, K)
  BY <1>10 DEF IsSum, OneOf
<1>13. \A it : I(it) <=> IsSum(it, RestingOf, P)
  BY <1>11, ZenonT(60) DEF IsSum, OneOf
<1> HIDE DEF J, I
<1>14. IntsOn(h, K) /\ IntsOn(RestingOf, P) /\ IntsOn(w, T)
       /\ (\A x \in K : h[x] <= w[x]) /\ \A x \in T \ K : w[x] >= 0
  <2>1. \A x \in T : w[x] \in Int
    BY <1>5, <1>6
  <2>2. \A x \in K : h[x] <= w[x]
    BY <1>5
  <2> QED BY <1>3, <1>5, <1>6, <2>1, <2>2 DEF IntsOn
<1>15. spent = Total(h, K) /\ Total(h, K) \in Int
  <2>1. J(CHOOSE it : J(it))
    BY <1>4, <1>12, <1>14, SumExists
  <2> QED BY <1>4, <1>7, <1>12, <1>14, <2>1, SumIsTotal, TotalType
<1>16. resting = Total(RestingOf, P) /\ Total(RestingOf, P) \in Int
  <2>1. I(CHOOSE it : I(it))
    BY <1>4, <1>13, <1>14, SumExists
  <2> QED BY <1>4, <1>8, <1>13, <1>14, <2>1, SumIsTotal, TotalType
<1>17. Total(h, K) <= Total(w, T) /\ Total(w, T) \in Int
  BY <1>1, <1>4, <1>14, TotalMonotone, TotalType
<1>18. state.cash \in Int /\ limits.cashFloor \in Nat
  BY <1>1 DEF AccountOK
<1>19. state.cash - spent - resting >= limits.cashFloor
  BY <1>3, <1>15, <1>16, <1>17, <1>18
<1> QED BY <1>19 DEF spent, resting, K, P

\* What the promise calls bought of an instrument is part of what the batch's buys of it are worth.
LEMMA BoughtIs ==
  ASSUME CheckInv, WithinPosition(batch), NEW u \in Uids
  PROVE  /\ Bought(u, Quoted) \in Int
         /\ Bought(u, Quoted) <= Total(BuyWorth(batch), Sharing(UidOf, N, u))
         /\ Total(BuyWorth(batch), Sharing(UidOf, N, u)) \in Nat
<1> DEFINE S == {i \in Kept("buy") : batch.dec[i].uid = u}
           h == [i \in S |-> Worth(u, batch.dec[i].qty, Quoted(batch.dec[i]))]
           w == BuyWorth(batch)
           T == Sharing(UidOf, N, u)
           sum == Bought(u, Quoted)
           J(it) == it = [s \in SUBSET S |-> IF s = {} THEN 0
                            ELSE Worth(u, batch.dec[CHOOSE x \in s : TRUE].qty, Quoted(batch.dec[CHOOSE x \in s : TRUE]))
                                   + it[s \ {CHOOSE x \in s : TRUE}]]
<1>1. /\ AccountOK /\ BatchOK(batch) /\ Kept("buy") = Those(batch, {"buy"}) /\ Kept("buy") \in SUBSET (1..N)
  BY InvMeans
<1>2. /\ N \in Nat /\ IsFiniteSet(1..N)
      /\ \A i \in 1..N : batch.dec[i].uid = UidOf[i]
  BY <1>1, BatchMeans
<1>3. S \in SUBSET T /\ T \in SUBSET (1..N)
  BY <1>1, <1>2 DEF Sharing
<1>4. IsFiniteSet(T) /\ IsFiniteSet(S)
  <2> HIDE DEF S, T
  <2>1. IsFiniteSet(T)
    BY <1>2, <1>3, FS_Subset
  <2> QED BY <1>3, <2>1, FS_Subset
<1>5. \A j \in 1..N : w[j] \in Nat
  <2>1. \A i \in Those(batch, {"buy"}) : Priced(batch.dec[i])
    BY DEF WithinPosition
  <2>2. Shrinks(batch, batch)
    <3>1. Thinned(batch, batch, N)
      BY <1>1, ThinnedSelf DEF BatchOK
    <3> QED BY <1>1, <3>1, ThinnedKeeps
  <2> QED BY <1>1, <2>1, <2>2, WorthShrinks
<1>6. \A x \in S : h[x] = w[x] /\ h[x] = Worth(u, batch.dec[x].qty, Quoted(batch.dec[x]))
  BY <1>1 DEF BuyWorth
<1>7. sum = (CHOOSE it : J(it))[S]
  BY Zenon DEF Bought, MapThenSumSet, MapThenFoldSet
<1> HIDE DEF h, S, sum, w, T
<1>8. \A s \in SUBSET S : s # {} =>
        h[OneOf(s)] = Worth(u, batch.dec[CHOOSE x \in s : TRUE].qty, Quoted(batch.dec[CHOOSE x \in s : TRUE]))
  <2> SUFFICES ASSUME NEW s \in SUBSET S, s # {}
               PROVE  h[OneOf(s)] = Worth(u, batch.dec[CHOOSE x \in s : TRUE].qty, Quoted(batch.dec[CHOOSE x \in s : TRUE]))
    OBVIOUS
  <2>1. OneOf(s) \in S
    BY DEF OneOf
  <2>2. h[OneOf(s)] = Worth(u, batch.dec[OneOf(s)].qty, Quoted(batch.dec[OneOf(s)]))
    BY <1>6, <2>1
  <2> QED BY <2>2 DEF OneOf
<1>9. \A it : J(it) <=> IsSum(it, h, S)
  BY <1>8 DEF IsSum, OneOf
<1> HIDE DEF J
<1>10. /\ IntsOn(h, S) /\ IntsOn(w, T)
       /\ \A x \in S : h[x] <= w[x]
       /\ \A x \in T : w[x] >= 0
  <2>1. \A x \in T : w[x] \in Nat
    BY <1>3, <1>5
  <2>2. \A x \in S : h[x] \in Nat /\ h[x] <= w[x]
    BY <1>3, <1>6, <2>1
  <2> QED BY <2>1, <2>2 DEF IntsOn
<1>11. J(CHOOSE it : J(it))
  BY <1>4, <1>9, <1>10, SumExists
<1>12. sum = Total(h, S) /\ Total(h, S) \in Int
  BY <1>4, <1>7, <1>9, <1>10, <1>11, SumIsTotal, TotalType
<1>13. Total(h, S) <= Total(w, T) /\ Total(w, T) \in Int
  BY <1>3, <1>4, <1>10, TotalMonotone, TotalType
<1>14. Total(w, T) >= 0
  BY <1>4, <1>10, TotalPositive
<1>15. Total(w, T) \in Nat
  BY <1>13, <1>14
<1>16. sum <= Total(w, T) /\ sum \in Int
  BY <1>12, <1>13
<1> QED BY <1>15, <1>16 DEF sum, w, T

\* The exposure of an instrument is at most what is at risk of it and what is bought of it.
LEMMA ExposureIs ==
  ASSUME CheckInv, WithinPosition(batch), NEW u \in Uids, Known(u)
  PROVE  /\ Exposure(u) \in Int /\ AtRisk(u) \in Nat
         /\ Exposure(u) <= AtRisk(u) + Total(BuyWorth(batch), Sharing(UidOf, N, u))
<1> DEFINE bought == Bought(u, Quoted)
           t == Total(BuyWorth(batch), Sharing(UidOf, N, u))
           lots == LotsAtRisk(u)
           m == Mark(u)
           l == LotOf(u, state)
           w == Worth(u, lots, m)
           none == \A i \in Kept("buy") : batch.dec[i].uid # u
           a == AtRisk(u)
<1>1. /\ AccountOK /\ BatchOK(batch) /\ Kept("buy") = Those(batch, {"buy"})
  BY InvMeans
<1>2. bought \in Int /\ bought <= t /\ t \in Nat
  BY BoughtIs
<1>3. a \in Nat /\ lots \in Nat
  BY <1>1, AtRiskType
<1>4. Exposure(u) = IF lots = 0 /\ none THEN 0 ELSE w + bought
  BY DEF Exposure
<1>5. a = (IF lots = 0 THEN 0 ELSE w) /\ w = lots * l * m
  BY DEF AtRisk, Worth
<1>6. ~none => l \in Int /\ m \in Int
  <2> SUFFICES ASSUME ~none PROVE l \in Int /\ m \in Int
    OBVIOUS
  <2>1. PICK i \in Kept("buy") : batch.dec[i].uid = u
    OBVIOUS
  <2>2. Priced(batch.dec[i])
    BY <1>1, <2>1 DEF WithinPosition
  <2>3. u \in DOMAIN state.info
    BY <2>1, <2>2 DEF Priced
  <2> QED BY <1>1, <2>3 DEF AccountOK
<1> HIDE DEF bought, t, lots, m, l, w, none, a
<1>7. CASE lots = 0 /\ none
  BY <1>2, <1>3, <1>4, <1>7 DEF a, t
<1>8. CASE lots = 0 /\ ~none
  <2>1. 0 * l = 0 /\ 0 * m = 0
    BY <1>6, <1>8
  <2>2. w = 0 /\ a = 0
    BY <1>5, <1>8, <2>1
  <2> QED BY <1>2, <1>4, <1>8, <2>2 DEF a, t
<1>9. CASE lots # 0
  <2>1. w = a
    BY <1>5, <1>9
  <2> QED BY <1>2, <1>3, <1>4, <1>9, <2>1 DEF a, t
<1> QED BY <1>7, <1>8, <1>9

LEMMA InvExposure == CheckInv => ExposureWithinLimits
<1> SUFFICES ASSUME CheckInv, Done, Kept("buy") # {}
             PROVE  /\ \A u \in Uids : LotsAtRisk(u) > 0 => u \in DOMAIN state.info /\ Mark(u) > 0
                    /\ \A i \in Kept("buy") : Quoted(batch.dec[i]) > 0
                                              /\ Exposure(batch.dec[i].uid) <= limits.maxPosition
                    /\ MapThenSumSet(Exposure, Uids) <= limits.maxTotal
  BY DEF ExposureWithinLimits
<1> DEFINE w == BuyWorth(batch)
           sub == [u \in Uids |-> Total(w, Sharing(UidOf, N, u))]
           h == [u \in Uids |-> Exposure(u)]
           g == [u \in Uids |-> AtRiskOf[u] + sub[u]]
           sum == MapThenSumSet(Exposure, Uids)
           J(it) == it = [s \in SUBSET Uids |-> IF s = {} THEN 0
                            ELSE Exposure(CHOOSE x \in s : TRUE) + it[s \ {CHOOSE x \in s : TRUE}]]
<1>1. /\ AccountOK /\ BatchOK(batch) /\ Kept("buy") = Those(batch, {"buy"}) /\ Kept("buy") \in SUBSET (1..N)
  BY InvMeans
<1>2. WithinPosition(batch) /\ WithinTotal(batch)
  BY DEF CheckInv, Holds, Done
<1>3. /\ \A u \in Uids : Known(u)
      /\ Total(AtRiskOf, Uids) + Total(w, 1..N) <= limits.maxTotal
  BY <1>1, <1>2 DEF WithinTotal
<1>4. \A u \in Uids : LotsAtRisk(u) > 0 => u \in DOMAIN state.info /\ Mark(u) > 0
  BY <1>3 DEF Known
<1>5. \A u \in Uids : /\ Exposure(u) \in Int /\ AtRisk(u) \in Nat
                      /\ Exposure(u) <= AtRisk(u) + Total(w, Sharing(UidOf, N, u))
  BY <1>2, <1>3, ExposureIs
<1>6. \A u \in Uids : Total(w, Sharing(UidOf, N, u)) \in Nat
  BY <1>2, BoughtIs
<1>7. limits.maxPosition \in Nat /\ limits.maxTotal \in Nat
  BY <1>1 DEF AccountOK
<1>8. ASSUME NEW i \in Kept("buy")
      PROVE  Quoted(batch.dec[i]) > 0 /\ Exposure(batch.dec[i].uid) <= limits.maxPosition
  <2> DEFINE u == batch.dec[i].uid
             t == Total(w, Sharing(UidOf, N, u))
  <2>1. Priced(batch.dec[i]) /\ AtRisk(u) + t <= limits.maxPosition
    BY <1>1, <1>2 DEF WithinPosition
  <2>2. u \in Uids
    BY <1>1, BatchMeans
  <2>3. Exposure(u) \in Int /\ AtRisk(u) \in Nat /\ t \in Nat /\ Exposure(u) <= AtRisk(u) + t
    BY <1>5, <1>6, <2>2
  <2> HIDE DEF t, w
  <2>4. Exposure(u) <= limits.maxPosition
    BY <1>7, <2>1, <2>3
  <2> QED BY <2>1, <2>4 DEF Priced
<1>9. sum <= limits.maxTotal
  <2>1. sum = (CHOOSE it : J(it))[Uids]
    BY Zenon DEF MapThenSumSet, MapThenFoldSet
  <2>2. IsFiniteSet(Uids)
    BY RiskAssumption
  <2>3. \A u \in Uids : h[u] = Exposure(u) /\ sub[u] = Total(w, Sharing(UidOf, N, u)) /\ AtRiskOf[u] = AtRisk(u)
    BY DEF AtRiskOf
  <2>4. \A u \in Uids : g[u] = AtRiskOf[u] + sub[u]
    OBVIOUS
  <2> HIDE DEF h, sub, g, sum
  <2>5. \A s \in SUBSET Uids : s # {} => h[OneOf(s)] = Exposure(CHOOSE x \in s : TRUE)
    <3> SUFFICES ASSUME NEW s \in SUBSET Uids, s # {} PROVE h[OneOf(s)] = Exposure(CHOOSE x \in s : TRUE)
      OBVIOUS
    <3>1. OneOf(s) \in Uids
      BY DEF OneOf
    <3>2. h[OneOf(s)] = Exposure(OneOf(s))
      BY <2>3, <3>1
    <3> QED BY <3>2 DEF OneOf
  <2>6. \A it : J(it) <=> IsSum(it, h, Uids)
    BY <2>5, ZenonT(60) DEF IsSum, OneOf
  <2> HIDE DEF J, w
  <2>7. /\ IntsOn(h, Uids) /\ IntsOn(AtRiskOf, Uids) /\ IntsOn(sub, Uids) /\ IntsOn(g, Uids)
        /\ \A u \in Uids : h[u] <= g[u]
    <3>1. \A u \in Uids : /\ h[u] \in Int /\ AtRiskOf[u] \in Int /\ sub[u] \in Int
                          /\ g[u] = AtRiskOf[u] + sub[u] /\ h[u] <= AtRiskOf[u] + sub[u]
      BY <1>5, <1>6, <2>3, <2>4
    <3>2. \A u \in Uids : g[u] \in Int /\ h[u] <= g[u]
      BY <3>1
    <3> QED BY <3>1, <3>2 DEF IntsOn
  <2>8. J(CHOOSE it : J(it))
    BY <2>2, <2>6, <2>7, SumExists
  <2>9. sum = Total(h, Uids) /\ Total(h, Uids) \in Int
    BY <2>1, <2>2, <2>6, <2>7, <2>8, SumIsTotal, TotalType
  <2>10. Total(h, Uids) <= Total(g, Uids)
    <3>1. Uids \in SUBSET Uids /\ \A u \in Uids \ Uids : g[u] >= 0
      OBVIOUS
    <3> QED BY <2>2, <2>7, <3>1, TotalMonotone
  <2>11. Total(g, Uids) = Total(AtRiskOf, Uids) + Total(sub, Uids)
    BY <2>2, <2>4, <2>7, TotalOfSums
  <2>12. Total(sub, Uids) = Total(w, 1..N)
    <3> DEFINE S == 1..N
               key == UidOf
    <3>1. IsFiniteSet(S) /\ key \in [S -> Uids]
      BY <1>1, BatchMeans
    <3>2. IntsOn(w, S)
      <4>1. Thinned(batch, batch, N)
        BY <1>1, ThinnedSelf DEF BatchOK
      <4>2. Shrinks(batch, batch)
        BY <1>1, <4>1, ThinnedKeeps
      <4>3. \A i \in Those(batch, {"buy"}) : Priced(batch.dec[i])
        BY <1>2 DEF WithinPosition
      <4>4. \A j \in 1..N : BuyWorth(batch)[j] \in Nat
        BY <1>1, <4>2, <4>3, WorthShrinks
      <4> QED BY <4>4 DEF IntsOn, w
    <3>3. \A u \in Uids : sub[u] = Total(w, {x \in S : key[x] = u})
      BY <2>3 DEF Sharing
    <3> HIDE DEF S, key
    <3>4. Total(sub, Uids) = Total(w, S)
      BY <2>2, <3>1, <3>2, <3>3, TotalByGroup
    <3> QED BY <3>4 DEF S
  <2>13. Total(g, Uids) <= limits.maxTotal
    BY <1>3, <2>11, <2>12
  <2>14. Total(g, Uids) \in Int
    BY <2>2, <2>7, TotalType
  <2> QED BY <1>7, <2>9, <2>10, <2>13, <2>14
<1> QED BY <1>4, <1>8, <1>9 DEF sum

\* What one more lot of a buy is worth that its instrument's limit left alone is known.
LEMMA OneMoreIsKnown ==
  ASSUME AccountOK, NEW b, BatchOK(b), WithinPosition(b), NEW i \in Those(b, {"buy"}),
         NEW m \in Nat, m > 0, m <= b.dec[i].qty
  PROVE  LET w == Worth(b.dec[i].uid, m, Quoted(b.dec[i])) IN w \in BuyNotional(b.dec[i], m, state) /\ w \in Nat
<1> DEFINE d == b.dec[i]
           u == d.uid
           l == LotOf(u, state)
           p == Quoted(d)
           q == d.qty
           W == BuyWorth(b)
           T == Sharing(UidOf, N, u)
<1>1. /\ N \in Nat /\ IsFiniteSet(1..N) /\ i \in 1..N /\ d \in Proposal /\ q \in Nat /\ u \in Uids /\ u = UidOf[i]
  BY BatchMeans DEF Those
<1>2. /\ Priced(d) /\ Known(u) /\ AtRisk(u) + Total(W, T) <= limits.maxPosition
  BY DEF WithinPosition
<1>3. u \in DOMAIN state.info /\ l \in Nat \ {0} /\ p \in Nat \ {0} /\ limits.maxPosition \in Nat /\ limits.maxPosition <= MaxInt
  <2>1. u \in DOMAIN state.info /\ l > 0 /\ p > 0
    BY <1>2 DEF Priced
  <2>2. l \in Int /\ p \in Int /\ limits.maxPosition \in Nat /\ limits.maxPosition <= MaxInt
    BY <1>1, <2>1 DEF AccountOK
  <2> HIDE DEF l, p
  <2> QED BY <2>1, <2>2
<1>4. \A j \in 1..N : W[j] \in Nat
  <2>1. Thinned(b, b, N)
    BY ThinnedSelf DEF BatchOK
  <2>2. Shrinks(b, b)
    BY <2>1, ThinnedKeeps
  <2>3. \A k \in Those(b, {"buy"}) : Priced(b.dec[k])
    BY DEF WithinPosition
  <2> QED BY <2>2, <2>3, WorthShrinks
<1>5. W[i] = q * l * p
  BY <1>1 DEF BuyWorth, Worth
<1>6. AtRisk(u) \in Nat
  BY <1>1, <1>2, AtRiskType
<1>7. T \in SUBSET (1..N) /\ i \in T /\ IsFiniteSet(T)
  <2>1. T \in SUBSET (1..N) /\ i \in T
    BY <1>1 DEF Sharing
  <2> HIDE DEF T
  <2> QED BY <1>1, <2>1, FS_Subset
<1> HIDE DEF W, T
<1>8. IntsOn(W, T) /\ \A x \in T : W[x] >= 0
  BY <1>4, <1>7 DEF IntsOn
<1>9. W[i] <= Total(W, T) /\ Total(W, T) \in Int /\ W[i] \in Nat
  BY <1>1, <1>4, <1>7, <1>8, TotalCovers, TotalType
<1>10. W[i] <= limits.maxPosition
  <2> HIDE DEF u
  <2> QED BY <1>2, <1>3, <1>6, <1>9
<1>11. W[i] <= MaxInt
  BY <1>3, <1>9, <1>10, WidthAssumption
<1>12. Worth(u, m, p) = m * l * p
  BY DEF Worth
<1>13. p \in PriceForBuy(d, state.quotes[u])
  <2>1. PriceForBuy(d, state.quotes[u]) = Positive({p})
    BY Zenon DEF PriceForBuy, Quoted
  <2> HIDE DEF p, d, u
  <2>2. p \in Positive({p})
    BY <1>3 DEF Positive
  <2> QED BY <2>1, <2>2
<1>14. NotionalOf(m, l, p) \subseteq BuyNotional(d, m, state)
  BY <1>3, <1>13 DEF BuyNotional
<1>15. q \in Nat /\ m <= q
  BY <1>1
<1> HIDE DEF d, u, l, p, q
<1>16. m * l * p \in Nat /\ m * l * p <= q * l * p
  <2>1. m * l \in Nat /\ q * l \in Nat /\ m * l <= q * l
    BY <1>3, <1>15
  <2> DEFINE x == m * l
             y == q * l
  <2> HIDE DEF x, y
  <2>2. x * p \in Nat /\ x * p <= y * p
    BY <1>3, <2>1 DEF x, y
  <2> QED BY <2>2 DEF x, y
<1>17. m * l * p <= MaxInt
  <2> DEFINE x == m * l * p
             y == q * l * p
  <2>1. x \in Nat /\ x <= y /\ y = W[i]
    BY <1>5, <1>16
  <2> HIDE DEF x, y
  <2>2. x <= MaxInt
    BY <1>9, <1>11, <2>1, WidthAssumption
  <2> QED BY <2>2 DEF x
<1>18. p * (m * l) \in NotionalOf(m, l, p)
  BY <1>3, <1>17, NotionalKnown
<1>19. p * (m * l) = m * l * p
  BY <1>3
<1>20. m * l * p \in NotionalOf(m, l, p)
  BY <1>18, <1>19
<1>21. Worth(u, m, p) \in BuyNotional(d, m, state) /\ Worth(u, m, p) \in Nat
  BY <1>12, <1>14, <1>16, <1>20
<1> QED BY <1>21 DEF d, u, p

\* The rule gives up no lot of a buy that what is left of its room would pay for.
LEMMA CutsTight ==
  ASSUME AccountOK, NEW b, BatchOK(b), WithinPosition(b), NEW c, c = ApplyTotalExposure(b, state, limits),
         \A u \in Uids : ExistingExposure(u, state) # {},
         NEW i \in Those(b, {"buy"}), Lots(c, i) < b.dec[i].qty
  PROVE  /\ Total(AtRiskOf, Uids) \in Nat /\ Total(BuyWorth(c), 1..(i - 1)) \in Nat
         /\ Worth(b.dec[i].uid, Lots(c, i) + 1, Quoted(b.dec[i])) \in Nat
         /\ Total(AtRiskOf, Uids) + Total(BuyWorth(c), 1..(i - 1))
              + Worth(b.dec[i].uid, Lots(c, i) + 1, Quoted(b.dec[i])) > limits.maxTotal
<1> DEFINE base == Total(AtRiskOf, Uids)
           w == BuyWorth(c)
           before == Total(w, 1..(i - 1))
           k == Lots(c, i)
           x == Worth(b.dec[i].uid, k + 1, Quoted(b.dec[i]))
           amount == TotalRoom
           room == Shared(amount)
           account == Common(b)
           cost == BuyNotionals(b, state)
           n == N
           action == "buy"
           accounts == {"all"}
           h == Draws(c, n, action, cost)
<1>1. amount \in Int /\ Rationed(b, c, n, action, room, account, cost)
  BY ExposureRations
<1>2. BatchOK(c) /\ Shrinks(b, c) /\ WithinTotal(c)
  BY ExposureEffect
<1>3. /\ n \in Nat /\ b \in BatchOf(n) /\ Costs(cost, b, n) /\ i \in 1..n /\ i \in Those(b, {action})
      /\ \A j \in 1..n : \A m \in 0..b.dec[j].qty : cost[j][m] = BuyNotional(b.dec[j], m, state)
      /\ b.dec[i].qty \in Nat /\ c.dec[i].qty \in Nat
  BY <1>2, BatchMeans, CostFunctions DEF BatchOK, Those
<1>4. /\ room \in [accounts -> Int] /\ account \in [1..n -> accounts]
      /\ room[account[i]] = amount
      /\ \A j \in 1..n : account[j] = "all"
  <2>1. \A j \in 1..n : account[j] = "all"
    <3>1. DOMAIN b.dec = 1..N
      BY BatchMeans
    <3> QED BY <3>1 DEF Common
  <2> QED BY <1>1, <1>3, <2>1, CommonAccount
<1>5. k \in Nat /\ k + 1 \in Nat /\ k + 1 > 0 /\ k + 1 <= b.dec[i].qty /\ k + 1 \in 0..b.dec[i].qty
  <2>1. k \in Nat
    BY <1>3 DEF Lots
  <2>2. k < b.dec[i].qty
    OBVIOUS
  <2> DEFINE q == b.dec[i].qty
  <2>3. q \in Nat
    BY <1>3
  <2> HIDE DEF k, q
  <2>4. k \in Nat /\ k + 1 \in Nat /\ k + 1 > 0 /\ k + 1 <= q /\ k + 1 \in 0..q
    BY <2>1, <2>2, <2>3 DEF q
  <2> QED BY <2>4 DEF q
<1> HIDE DEF k
<1>6. x \in BuyNotional(b.dec[i], k + 1, state) /\ x \in Nat
  BY <1>5, OneMoreIsKnown
<1>7. x \in cost[i][k + 1]
  BY <1>3, <1>5, <1>6
<1> HIDE DEF x, amount, room, account, cost, w
<1>8. \A j \in 1..n : w[j] \in Nat
  <2>1. \A j \in Those(b, {"buy"}) : Priced(b.dec[j])
    BY DEF WithinPosition
  <2> QED BY <1>2, <2>1, WorthShrinks DEF w
<1>9. \A j \in 1..n : h[j] \in Int /\ h[j] = w[j]
  <2>1. \A j \in 1..n : j \notin Those(c, {action}) => w[j] = 0
    BY DEF BuyWorth, w
  <2>2. ASSUME NEW j \in Those(c, {action}), NEW y \in cost[j][c.dec[j].qty] PROVE y = w[j]
    <3> DEFINE d == b.dec[j]
               e == c.dec[j]
               q == c.dec[j].qty
    <3>1. /\ j \in 1..n /\ d \in Proposal /\ q \in Nat /\ d.qty \in Nat /\ e = Sized(d, q) /\ q <= d.qty
      <4>1. j \in 1..n
        BY <1>2, BatchMeans DEF Those
      <4>2. d \in Proposal /\ q \in Nat /\ d.qty \in Nat
        BY <1>2, <4>1, BatchMeans
      <4>3. e = Sized(d, q) /\ q <= d.qty
        BY <1>2, <4>1 DEF Shrinks, Cut
      <4> QED BY <4>1, <4>2, <4>3
    <3>2. w[j] = Worth(e.uid, q, Quoted(e))
      BY <3>1 DEF BuyWorth, w
    <3>3. cost[j][q] = BuyNotional(d, q, state)
      BY <1>3, <3>1
    <3>4. y \in BuyNotional(d, q, state)
      BY <2>2, <3>3
    <3> HIDE DEF d, e, q
    <3>5. Quoted(e) = Quoted(d) /\ e.uid = d.uid
      BY <3>1, SizedAgree
    <3>6. y = Worth(d.uid, q, Quoted(d))
      BY <3>1, <3>4, BuyNotionalIs
    <3> QED BY <3>2, <3>5, <3>6
  <2> HIDE DEF n, action, accounts, h
  <2>3. DrawnAre(c, n, action, cost, w)
    BY <1>1, <1>3, <1>4, <2>1, <2>2, DrawsAre
  <2> QED BY <2>3 DEF DrawnAre, h
<1>10. Sharing(account, i - 1, account[i]) = 1..(i - 1) /\ \A j \in 1..(i - 1) : j \in 1..n
  <2>1. \A j \in 1..(i - 1) : j \in 1..n
    BY <1>3
  <2>2. \A j \in 1..(i - 1) : account[j] = account[i]
    BY <1>3, <1>4, <2>1
  <2> QED BY <2>1, <2>2 DEF Sharing
<1>11. ~(x <= room[account[i]] - Total(h, Sharing(account, i - 1, account[i])))
  <2>1. Tight(b, c, n, action, room, account, cost, i)
    BY <1>1, <1>3 DEF Rationed
  <2>2. Lots(c, i) < b.dec[i].qty /\ x \in cost[i][Lots(c, i) + 1]
    BY <1>7 DEF k
  <2> QED BY <1>3, <2>1, <2>2 DEF Tight
<1> HIDE DEF h
<1>12. Total(h, 1..(i - 1)) = before /\ before \in Nat
  <2> DEFINE S == 1..(i - 1)
  <2>1. IsFiniteSet(S)
    BY <1>3, 1 \in Int, i - 1 \in Int, FS_Interval
  <2>2. \A j \in S : h[j] \in Int /\ h[j] = w[j] /\ w[j] \in Nat
    BY <1>8, <1>9, <1>10
  <2> HIDE DEF S
  <2>3. IntsOn(h, S) /\ IntsOn(w, S) /\ (\A j \in S : h[j] = w[j]) /\ \A j \in S : w[j] >= 0
    BY <2>2 DEF IntsOn
  <2>4. Total(h, S) = Total(w, S) /\ Total(w, S) \in Int /\ Total(w, S) >= 0
    BY <2>1, <2>3, TotalsAgree, TotalType, TotalPositive
  <2> QED BY <2>4 DEF S
<1>13. ~(x <= amount - before)
  <2>1. room[account[i]] = amount /\ Sharing(account, i - 1, account[i]) = 1..(i - 1)
    BY <1>4, <1>10
  <2> QED BY <1>11, <1>12, <2>1
<1>14. base \in Nat /\ Total(ExistingOf, Uids) = base
  <2>1. (\A u \in Uids : AtRiskOf[u] \in Nat) /\ Total(ExistingOf, Uids) = base
    BY BaselineIs
  <2>2. IsFiniteSet(Uids) /\ IntsOn(AtRiskOf, Uids) /\ \A u \in Uids : AtRiskOf[u] >= 0
    BY <2>1, RiskAssumption DEF IntsOn
  <2>3. base \in Int /\ base >= 0
    BY <2>2, TotalType, TotalPositive
  <2> QED BY <2>1, <2>3
<1>15. limits.maxTotal \in Nat /\ limits.maxTotal <= MaxInt /\ MaxInt \in Nat
  BY WidthAssumption DEF AccountOK
<1>16. amount = IF ~InRange(base) THEN 0 ELSE limits.maxTotal - base
  BY <1>14 DEF TotalRoom, amount
<1> HIDE DEF base, before
<1>17. base + before + x > limits.maxTotal
  <2>1. CASE InRange(base)
    BY <1>6, <1>12, <1>13, <1>14, <1>15, <1>16, <2>1
  <2>2. CASE ~InRange(base)
    <3>1. base > MaxInt
      BY <1>14, <1>15, <2>2 DEF InRange
    <3> QED BY <1>6, <1>12, <1>14, <1>15, <3>1
  <2> QED BY <2>1, <2>2
<1> QED BY <1>6, <1>12, <1>14, <1>17 DEF base, before, x, k, w

\* What is held and resting, at its mark, is what the rule starts from.
LEMMA BaselineSums ==
  ASSUME CheckInv, \A u \in Uids : Known(u)
  PROVE  Baseline = Total(AtRiskOf, Uids)
<1> DEFINE S == {u \in Uids : LotsAtRisk(u) > 0}
           h == AtRiskOf
           sum == Baseline
           J(it) == it = [s \in SUBSET S |-> IF s = {} THEN 0
                            ELSE Worth(CHOOSE x \in s : TRUE, LotsAtRisk(CHOOSE x \in s : TRUE), Mark(CHOOSE x \in s : TRUE))
                                   + it[s \ {CHOOSE x \in s : TRUE}]]
<1>1. AccountOK
  BY InvMeans
<1>2. IsFiniteSet(Uids) /\ S \in SUBSET Uids
  BY RiskAssumption
<1>3. \A u \in Uids : h[u] = AtRisk(u) /\ AtRisk(u) \in Nat /\ LotsAtRisk(u) \in Nat
  BY <1>1, AtRiskType DEF AtRiskOf
<1>4. \A u \in S : h[u] = Worth(u, LotsAtRisk(u), Mark(u))
  BY <1>3 DEF AtRisk
<1>5. \A u \in Uids \ S : h[u] = 0
  BY <1>3 DEF AtRisk
<1>6. sum = (CHOOSE it : J(it))[S]
  BY Zenon DEF Baseline, MapThenSumSet, MapThenFoldSet
<1> HIDE DEF h, S, sum
<1>7. \A s \in SUBSET S : s # {} =>
        h[OneOf(s)] = Worth(CHOOSE x \in s : TRUE, LotsAtRisk(CHOOSE x \in s : TRUE), Mark(CHOOSE x \in s : TRUE))
  <2> SUFFICES ASSUME NEW s \in SUBSET S, s # {}
               PROVE  h[OneOf(s)] = Worth(CHOOSE x \in s : TRUE, LotsAtRisk(CHOOSE x \in s : TRUE), Mark(CHOOSE x \in s : TRUE))
    OBVIOUS
  <2>1. OneOf(s) \in S
    BY DEF OneOf
  <2>2. h[OneOf(s)] = Worth(OneOf(s), LotsAtRisk(OneOf(s)), Mark(OneOf(s)))
    BY <1>4, <2>1
  <2> QED BY <2>2 DEF OneOf
<1>8. \A it : J(it) <=> IsSum(it, h, S)
  BY <1>7 DEF IsSum, OneOf
<1> HIDE DEF J
<1>9. IsFiniteSet(S) /\ IntsOn(h, S)
  <2>1. IsFiniteSet(S)
    BY <1>2, FS_Subset
  <2> QED BY <1>2, <1>3, <2>1 DEF IntsOn
<1>10. J(CHOOSE it : J(it))
  BY <1>8, <1>9, SumExists
<1>11. sum = Total(h, S)
  BY <1>6, <1>8, <1>9, <1>10, SumIsTotal
<1>12. Total(h, S) = Total(h, Uids)
  BY <1>2, <1>5, <1>9, TotalSupported
<1> QED BY <1>11, <1>12 DEF h, sum

\* What the buys ahead of decision i keep after the step.
LEMMA AheadSums ==
  ASSUME CheckInv, WithinPosition(batch), BatchOK(batch'), Shrinks(batch, batch'), NEW i \in 1..N
  PROVE  Ahead(i) = Total(BuyWorth(batch'), 1..(i - 1))
<1> DEFINE b == batch
           c == batch'
           S == {j \in Kept("buy") : j < i /\ j \in batch'.live}
           T == 1..(i - 1)
           w == BuyWorth(batch')
           sum == Ahead(i)
           Of(j) == Worth(batch.dec[j].uid, Left(j), Quoted(batch.dec[j]))
           J(it) == it = [s \in SUBSET S |-> IF s = {} THEN 0
                            ELSE Of(CHOOSE x \in s : TRUE) + it[s \ {CHOOSE x \in s : TRUE}]]
<1>1. AccountOK /\ BatchOK(b) /\ Kept("buy") = Those(b, {"buy"}) /\ Kept("buy") \in SUBSET (1..N)
  BY InvMeans
<1>2. /\ N \in Nat /\ DOMAIN c.dec = 1..N /\ c.live \in SUBSET (1..N)
      /\ \A j \in 1..N : b.dec[j] \in Proposal /\ c.dec[j].qty \in Nat /\ c.dec[j].action = b.dec[j].action
  BY <1>1, BatchMeans
<1>3. S \in SUBSET T /\ \A j \in T : j \in 1..N /\ j < i
  BY <1>1, <1>2
<1>4. ASSUME NEW j \in S PROVE w[j] = Of(j)
  <2>1. j \in 1..N /\ j \in Those(c, {"buy"}) /\ j \in c.live
    BY <1>1, <1>2, <1>3 DEF Those
  <2>2. w[j] = Worth(c.dec[j].uid, c.dec[j].qty, Quoted(c.dec[j]))
    BY <2>1 DEF BuyWorth
  <2>3. Left(j) = c.dec[j].qty
    BY <2>1 DEF Left
  <2>4. c.dec[j].uid = b.dec[j].uid /\ Quoted(c.dec[j]) = Quoted(b.dec[j])
    <3>1. c.dec[j] = Sized(b.dec[j], c.dec[j].qty)
      BY <2>1 DEF Shrinks, Cut
    <3> QED BY <1>2, <2>1, <3>1, SizedAgree
  <2> QED BY <2>2, <2>3, <2>4
<1>5. \A j \in T \ S : w[j] = 0
  <2> SUFFICES ASSUME NEW j \in T, j \notin S PROVE w[j] = 0
    OBVIOUS
  <2>1. j \in 1..N /\ j < i
    BY <1>3
  <2>2. j \notin Those(c, {"buy"})
    BY <1>1, <1>2, <2>1 DEF Shrinks, Those
  <2> QED BY <2>1, <2>2 DEF BuyWorth
<1>6. \A j \in 1..N : w[j] \in Nat
  <2>1. \A k \in Those(b, {"buy"}) : Priced(b.dec[k])
    BY DEF WithinPosition
  <2> QED BY <1>1, <2>1, WorthShrinks
<1>7. sum = (CHOOSE it : J(it))[S]
  BY Zenon DEF Ahead, MapThenSumSet, MapThenFoldSet
<1> HIDE DEF S, sum, w, Of
<1>8. \A s \in SUBSET S : s # {} => w[OneOf(s)] = Of(CHOOSE x \in s : TRUE)
  <2> SUFFICES ASSUME NEW s \in SUBSET S, s # {} PROVE w[OneOf(s)] = Of(CHOOSE x \in s : TRUE)
    OBVIOUS
  <2>1. OneOf(s) \in S
    BY DEF OneOf
  <2>2. w[OneOf(s)] = Of(OneOf(s))
    BY <1>4, <2>1
  <2> QED BY <2>2 DEF OneOf
<1>9. \A it : J(it) <=> IsSum(it, w, S)
  BY <1>8 DEF IsSum, OneOf
<1> HIDE DEF J
<1>10. IsFiniteSet(T) /\ IsFiniteSet(S) /\ IntsOn(w, S)
  <2>1. IsFiniteSet(T)
    BY <1>2, 1 \in Int, i - 1 \in Int, FS_Interval
  <2> HIDE DEF T
  <2>2. IsFiniteSet(S)
    BY <1>3, <2>1, FS_Subset
  <2> QED BY <1>3, <1>6, <2>1, <2>2 DEF IntsOn
<1>11. J(CHOOSE it : J(it))
  BY <1>9, <1>10, SumExists
<1>12. sum = Total(w, S)
  BY <1>7, <1>9, <1>10, <1>11, SumIsTotal
<1>13. Total(w, S) = Total(w, T)
  <2> HIDE DEF T
  <2> QED BY <1>3, <1>5, <1>10, TotalSupported
<1> QED BY <1>12, <1>13 DEF sum, w

\* No step of the total exposure rule takes a lot that would have fit.
LEMMA CutsStep ==
  CheckInv /\ [CheckNext]_checkVars =>
    (TotalExposure /\ (\A u \in Uids : ExistingExposure(u, state) # {}) =>
       \A i \in Kept("buy") : LET d == batch.dec[i] IN
         Left(i) < d.qty => Baseline + Ahead(i) + Worth(d.uid, Left(i) + 1, Quoted(d)) > limits.maxTotal)
<1> SUFFICES ASSUME CheckInv, TotalExposure, \A u \in Uids : ExistingExposure(u, state) # {},
                    NEW i \in Kept("buy"), Left(i) < batch.dec[i].qty
             PROVE  Baseline + Ahead(i) + Worth(batch.dec[i].uid, Left(i) + 1, Quoted(batch.dec[i])) > limits.maxTotal
  OBVIOUS
<1>1. rule = "exposure" /\ batch' = ApplyTotalExposure(batch, state, limits)
  BY DEF TotalExposure, Step
<1>2. AccountOK /\ BatchOK(batch) /\ Kept("buy") = Those(batch, {"buy"}) /\ Kept("buy") \in SUBSET (1..N)
  BY InvMeans
<1>3. WithinPosition(batch)
  BY <1>1 DEF CheckInv, Holds
<1>4. BatchOK(batch') /\ Shrinks(batch, batch')
  BY <1>1, <1>2, ExposureEffect
<1>5. Left(i) = Lots(batch', i)
  BY DEF Left, Lots
<1>6. Total(AtRiskOf, Uids) + Total(BuyWorth(batch'), 1..(i - 1))
        + Worth(batch.dec[i].uid, Lots(batch', i) + 1, Quoted(batch.dec[i])) > limits.maxTotal
  BY <1>1, <1>2, <1>3, <1>5, CutsTight
<1>7. Baseline = Total(AtRiskOf, Uids)
  <2>1. \A u \in Uids : Known(u)
    BY <1>2, BaselineIs
  <2> QED BY <2>1, BaselineSums
<1>8. Ahead(i) = Total(BuyWorth(batch'), 1..(i - 1))
  BY <1>2, <1>3, <1>4, AheadSums
<1> QED BY <1>5, <1>6, <1>7, <1>8

\* For every batch an engine can propose, every account and every configuration:
\* when Check keeps a buy, all that is held, resting and kept of its instrument,
\* and of the portfolio, is valued and within its limit (applyPositionNotional and
\* applyTotalExposure, through the rules that follow them).
THEOREM BuysWithinLimits == CheckSpec => []ExposureWithinLimits
BY CheckAlways, InvExposure, PTL

\* The cash pays for every kept and every resting buy, with fee and slippage, and
\* leaves the floor (applyCashFloor).
THEOREM BuysLeaveTheFloor == CheckSpec => []CashAboveFloor
BY CheckAlways, InvCash, PTL

\* The kept and the resting sells of an instrument never exceed what is held, and
\* at most one close of it is kept (applyOversell, and validation's refusal of a
\* repeated decision).
THEOREM SellsStayCovered == CheckSpec => []SellsCovered
BY CheckAlways, InvSells, PTL

\* A halted robot, or one over its loss of the day, loses and cuts no covered exit
\* that the order caps have room for, whatever was proposed beside it.
THEOREM ExitsGetThrough == CheckSpec => []ExitsSurvive
BY CheckAlways, InvExits, PTL

\* What RunOnce rebuilds from the adjustments alone (reconstructFinal) is what
\* Check allowed.
THEOREM AuditTellsAll == CheckSpec => []AuditComplete
BY CheckAlways, InvAudit, PTL

\* The total exposure rule gives up no lot that would have fit: a later buy of the
\* batch has all the room that the earlier ones left (remaining, in
\* applyTotalExposure, is charged with what was kept and not with what was asked).
THEOREM CutsStayTight == CheckSpec => CutsAreTight
<1>1. CheckInv /\ [CheckNext]_checkVars =>
        [TotalExposure /\ (\A u \in Uids : ExistingExposure(u, state) # {}) =>
           \A i \in Kept("buy") : LET d == batch.dec[i] IN
             Left(i) < d.qty => Baseline + Ahead(i) + Worth(d.uid, Left(i) + 1, Quoted(d)) > limits.maxTotal]_checkVars
  BY CutsStep
<1> QED BY <1>1, CheckAlways, PTL DEF CheckSpec, CutsAreTight

-----------------------------------------------------------------------------
(* What a whole check promises, for the cycle that calls it *)

\* A cap leaves at most as many orders as it has slots.
LEMMA CapCounts ==
  ASSUME NEW n \in Nat, NEW b \in BatchOf(n), NEW cap \in Int, NEW r \in RuleNames,
         NEW c, c = ApplyOrderCap(b, cap, r)
  PROVE  Those(c, Orders) = {} \/ Cardinality(Those(c, Orders)) <= cap
<1> DEFINE orders == Those(b, Orders)
           ahead(i) == {j \in orders : j < i}
           S == {i \in orders : Cardinality(ahead(i)) >= cap}
           kept == Those(c, Orders)
<1>1. orders \in SUBSET b.live /\ b.live \in SUBSET (1..n)
  BY DEF Those, BatchOf
<1>2. c = Strip(b, S, r) /\ S \in SUBSET b.live
  BY <1>1 DEF ApplyOrderCap
<1> HIDE DEF S
<1>3. c.dec = b.dec /\ c.live = b.live \ S
  <2>1. \A T \in SUBSET b.live : Thinned(b, Strip(b, T, r), n) /\ Strip(b, T, r).live = b.live \ T
    BY StripThins
  <2>2. Thinned(b, c, n) /\ c.live = b.live \ S
    BY <1>2, <2>1
  <2> QED BY <2>2 DEF Thinned
<1>4. \A i \in kept : i \in orders /\ ~(Cardinality(ahead(i)) >= cap)
  <2>1. ASSUME NEW i \in kept PROVE i \in orders /\ i \notin S
    BY <1>3 DEF Those
  <2> HIDE DEF orders, kept
  <2> QED BY <2>1 DEF S
<1>5. IsFiniteSet(orders) /\ orders \in SUBSET Int
  <2>1. IsFiniteSet(1..n)
    BY 1 \in Int, n \in Int, FS_Interval
  <2> QED BY <1>1, <2>1, FS_Subset
<1> HIDE DEF orders, kept
<1>6. kept \in SUBSET Int /\ IsFiniteSet(kept)
  BY <1>4, <1>5, FS_Subset
<1>7. SUFFICES ASSUME kept # {} PROVE Cardinality(kept) <= cap
  BY DEF kept
<1>8. PICK m \in kept : \A x \in kept : x <= m
  BY <1>6, <1>7, LargestExists
<1>9. kept \ {m} \subseteq ahead(m) /\ ahead(m) \in SUBSET orders
  <2>1. ASSUME NEW x \in kept \ {m} PROVE x \in orders /\ x < m
    <3>1. x \in kept /\ x # m /\ x <= m /\ x \in orders
      BY <1>4, <1>8
    <3>2. x \in Int /\ m \in Int
      BY <1>6, <1>8, <3>1
    <3> QED BY <3>1, <3>2
  <2> QED BY <2>1
<1>10. IsFiniteSet(ahead(m)) /\ Cardinality(ahead(m)) \in Nat /\ ~(Cardinality(ahead(m)) >= cap)
  BY <1>4, <1>5, <1>8, <1>9, FS_Subset, FS_CardinalityType
<1>11. Cardinality(kept \ {m}) <= Cardinality(ahead(m))
  BY <1>9, <1>10, FS_Subset
<1>12. Cardinality(kept) \in Nat /\ Cardinality(kept \ {m}) = Cardinality(kept) - 1
  BY <1>6, <1>8, FS_CardinalityType, FS_RemoveElement
<1> QED BY <1>10, <1>11, <1>12

\* The rules that only strip keep a batch one of the check.
LEMMA ThinnedOK ==
  ASSUME NEW b, BatchOK(b), NEW c, Thinned(b, c, N)
  PROVE  BatchOK(c) /\ Shrinks(b, c)
<1>1. proposed \in [1..N -> Proposal]
  BY DEF BatchOK, Proposed
<1>2. \A i \in 1..N : b.dec[i] \in Proposal /\ b.dec[i].qty \in Nat
  BY DEF BatchOK, BatchOf, Proposal
<1>3. Cut(b, c, N)
  BY <1>2, SizedIsExcept DEF Cut, Thinned
<1> QED BY <1>1, <1>3 DEF BatchOK, Shrinks, Thinned

LEMMA ShrinksFurther ==
  ASSUME NEW b, BatchOK(b), NEW c, BatchOK(c), Shrinks(b, c)
  PROVE  Those(c, Orders) \subseteq Those(b, Orders)
<1>1. \A i \in 1..N : b.dec[i].action = proposed[i].action /\ c.dec[i].action = proposed[i].action
  BY BatchMeans
<1>2. c.live \subseteq b.live /\ c.live \in SUBSET (1..N)
  BY BatchMeans DEF Shrinks
<1> QED BY <1>1, <1>2 DEF Those

LEMMA ShrinksTwice ==
  ASSUME NEW x, BatchOK(x), NEW y, BatchOK(y), NEW z, BatchOK(z), Shrinks(x, y), Shrinks(y, z)
  PROVE  Shrinks(x, z)
<1>1. N \in Nat /\ \A i \in 1..N : x.dec[i].qty \in Nat /\ y.dec[i].qty \in Nat /\ z.dec[i].qty \in Nat
  BY BatchMeans
<1>2. \A i \in 1..N : /\ y.dec[i] = Sized(x.dec[i], y.dec[i].qty) /\ z.dec[i] = Sized(y.dec[i], z.dec[i].qty)
                      /\ y.dec[i].qty <= x.dec[i].qty /\ z.dec[i].qty <= y.dec[i].qty
  BY DEF Shrinks, Cut
<1>3. \A d, j, k : Sized(Sized(d, j), k) = Sized(d, k)
  BY DEF Sized
<1>4. ASSUME NEW i \in 1..N PROVE z.dec[i] = Sized(x.dec[i], z.dec[i].qty) /\ z.dec[i].qty <= x.dec[i].qty
  BY <1>1, <1>2, <1>3
<1> QED BY <1>4 DEF Shrinks, Cut

\* A decision that comes out of a check is the proposed one, of no more lots.
LEMMA Passes ==
  ASSUME AccountOK, BatchOK(Batch(proposed)), NEW c, c = Check(proposed, state, limits)
  PROVE  /\ BatchOK(c) /\ Shrinks(Batch(proposed), c)
         /\ WithinPosition(c) /\ WithinTotal(c)
         /\ Those(c, Orders) = {} \/ Cardinality(Those(c, Orders)) <= limits.perDay - state.ordersToday
<1> DEFINE s == state
           l == limits
           b0 == Batch(proposed)
           b1 == ApplyKillSwitch(b0, s, l)
           b2 == ApplyOperationalHalt(b1, s)
           b3 == ApplyAllowlist(b2, s, l)
           b4 == ApplyCurrencyMismatch(b3, s)
           b5 == ApplyOrderCap(b4, l.perCycle, "max_orders_per_cycle")
           b6 == ApplyOrderCap(b5, l.perDay - s.ordersToday, "max_orders_per_day")
           b7 == ApplyPositionNotional(b6, s, l)
           b8 == ApplyTotalExposure(b7, s, l)
           b9 == ApplyCashFloor(b8, s, l)
           b10 == ApplyOversell(b9, s)
<1>0. c = b10
  BY Zenon DEF Check, Sizes, Caps, Gates
<1>1. \A b : BatchOK(b) => /\ N \in Nat /\ b \in BatchOf(N)
  BY DEF BatchOK
<1>2. "max_orders_per_cycle" \in RuleNames /\ "max_orders_per_day" \in RuleNames
  BY DEF RuleNames
<1>3. l.perDay - s.ordersToday \in Int
  BY DEF AccountOK
<1> HIDE DEF b10, b9, b8, b7, b6, b5, b4, b3, b2, b1, b0
<1>4. BatchOK(b0)
  BY DEF b0
<1>5. BatchOK(b1) /\ Shrinks(b0, b1)
  BY <1>1, <1>4, GateEffects, ThinnedOK DEF b1
<1>6. BatchOK(b2) /\ Shrinks(b1, b2)
  BY <1>1, <1>5, GateEffects, ThinnedOK DEF b2
<1>7. BatchOK(b3) /\ Shrinks(b2, b3)
  BY <1>1, <1>6, GateEffects, ThinnedOK DEF b3
<1>8. BatchOK(b4) /\ Shrinks(b3, b4)
  BY <1>1, <1>7, GateEffects, ThinnedOK DEF b4
<1>9. BatchOK(b5) /\ Shrinks(b4, b5)
  BY <1>1, <1>2, <1>8, GateEffects, ThinnedOK DEF b5
<1>10. BatchOK(b6) /\ Shrinks(b5, b6)
  BY <1>1, <1>2, <1>9, GateEffects, ThinnedOK DEF b6
<1>11. Those(b6, Orders) = {} \/ Cardinality(Those(b6, Orders)) <= l.perDay - s.ordersToday
  BY <1>1, <1>2, <1>3, <1>9, CapCounts DEF b6
<1>12. BatchOK(b7) /\ Shrinks(b6, b7) /\ WithinPosition(b7)
  BY <1>10, PositionEffect DEF b7
<1>13. BatchOK(b8) /\ Shrinks(b7, b8) /\ WithinTotal(b8)
  BY <1>12, ExposureEffect DEF b8
<1>14. WithinPosition(b8)
  BY <1>12, <1>13, PositionStays
<1>15. BatchOK(b9) /\ Shrinks(b8, b9)
  BY <1>13, CashEffect DEF b9
<1>16. WithinPosition(b9) /\ WithinTotal(b9)
  BY <1>13, <1>14, <1>15, PositionStays, TotalStays
<1>17. BatchOK(b10) /\ Shrinks(b9, b10)
  BY <1>15, OversellEffect DEF b10
<1>18. WithinPosition(b10) /\ WithinTotal(b10)
  BY <1>15, <1>16, <1>17, PositionStays, TotalStays
<1>19. Shrinks(b0, b6)
  <2>1. Shrinks(b0, b2)
    BY <1>4, <1>5, <1>6, ShrinksTwice
  <2>2. Shrinks(b0, b3)
    BY <1>4, <1>6, <1>7, <2>1, ShrinksTwice
  <2>3. Shrinks(b0, b4)
    BY <1>4, <1>7, <1>8, <2>2, ShrinksTwice
  <2>4. Shrinks(b0, b5)
    BY <1>4, <1>8, <1>9, <2>3, ShrinksTwice
  <2> QED BY <1>4, <1>9, <1>10, <2>4, ShrinksTwice
<1>20. Shrinks(b6, b10)
  <2>1. Shrinks(b6, b8)
    BY <1>10, <1>12, <1>13, ShrinksTwice
  <2>2. Shrinks(b6, b9)
    BY <1>10, <1>13, <1>15, <2>1, ShrinksTwice
  <2> QED BY <1>10, <1>15, <1>17, <2>2, ShrinksTwice
<1>21. Shrinks(b0, b10)
  BY <1>4, <1>10, <1>17, <1>19, <1>20, ShrinksTwice
<1>22. Those(b10, Orders) = {} \/ Cardinality(Those(b10, Orders)) <= l.perDay - s.ordersToday
  <2>1. Those(b10, Orders) \subseteq Those(b6, Orders)
    BY <1>10, <1>17, <1>20, ShrinksFurther
  <2>2. IsFiniteSet(Those(b6, Orders))
    <3>1. IsFiniteSet(1..N) /\ b6.live \in SUBSET (1..N)
      BY <1>10, BatchMeans
    <3>2. Those(b6, Orders) \subseteq 1..N
      BY <3>1 DEF Those
    <3> QED BY <3>1, <3>2, FS_Subset
  <2>3. /\ Cardinality(Those(b10, Orders)) <= Cardinality(Those(b6, Orders))
        /\ Cardinality(Those(b10, Orders)) \in Nat /\ Cardinality(Those(b6, Orders)) \in Nat
    BY <2>1, <2>2, FS_Subset, FS_CardinalityType
  <2> QED BY <1>3, <1>11, <2>1, <2>3
<1> QED BY <1>0, <1>17, <1>18, <1>21, <1>22 DEF b0

\* What leaves a check is what was proposed, of no more lots, and no more orders
\* than the day has room for.
LEMMA CheckPromises ==
  ASSUME AccountOK, N \in Nat, Proposed(proposed, N), NEW c, c = Check(proposed, state, limits)
  PROVE  /\ c.live \in SUBSET (1..N) /\ c.dec \in [1..N -> Proposal]
         /\ \A i \in 1..N : c.dec[i] = Sized(proposed[i], c.dec[i].qty)
         /\ \A i \in c.live : c.dec[i].action \in {"buy", "sell"} => c.dec[i].qty > 0
         /\ \/ {i \in c.live : c.dec[i].action \in Orders} = {}
            \/ Cardinality({i \in c.live : c.dec[i].action \in Orders}) <= limits.perDay - state.ordersToday
<1>1. BatchOK(Batch(proposed)) /\ Batch(proposed).dec = proposed
  <2>1. proposed \in [1..N -> Proposal]
    BY DEF Proposed
  <2> HIDE DEF N
  <2> QED BY <2>1, BatchStarts DEF BatchOK
<1>2. /\ BatchOK(c) /\ Shrinks(Batch(proposed), c)
      /\ Those(c, Orders) = {} \/ Cardinality(Those(c, Orders)) <= limits.perDay - state.ordersToday
  BY <1>1, Passes
<1>3. \A i \in 1..N : c.dec[i] = Sized(proposed[i], c.dec[i].qty)
  BY <1>1, <1>2 DEF Shrinks, Cut
<1>4. c.live \in SUBSET (1..N) /\ c.dec \in [1..N -> Proposal]
  BY <1>2 DEF BatchOK, BatchOf
<1>5. \A i \in c.live : c.dec[i].action \in {"buy", "sell"} => c.dec[i].qty > 0
  BY <1>2, BatchMeans
<1> QED BY <1>2, <1>3, <1>4, <1>5 DEF Those

\* What n lots are worth at a price that no mark and no quote is below.
LEMMA WorthAbove ==
  ASSUME NEW n \in Nat, NEW m \in Nat, n <= m, NEW l \in Nat, NEW p \in Nat, NEW q \in Nat, p <= q
  PROVE  n * l * p \in Nat /\ n * l * p <= m * l * q
<1>1. n * l \in Nat /\ m * l \in Nat /\ n * l <= m * l
  OBVIOUS
<1>2. \A a, b, c, d \in Nat : a <= b /\ c <= d => a * c \in Nat /\ a * c <= b * c /\ b * c <= b * d /\ b * c \in Nat /\ b * d \in Nat
  OBVIOUS
<1>3. /\ (n * l) * p \in Nat /\ (n * l) * p <= (m * l) * p
      /\ (m * l) * p <= (m * l) * q /\ (m * l) * p \in Nat /\ (m * l) * q \in Nat
  BY <1>1, <1>2
<1> QED BY <1>3

\* What is bought is worth what is bought of each instrument.
LEMMA WorthByUid ==
  ASSUME NEW b, BatchOK(b), \A j \in 1..N : BuyWorth(b)[j] \in Nat
  PROVE  Total([u \in Uids |-> Total(BuyWorth(b), Sharing(UidOf, N, u))], Uids) = Total(BuyWorth(b), 1..N)
<1> DEFINE w == BuyWorth(b)
           S == 1..N
           key == UidOf
           sub == [u \in Uids |-> Total(w, Sharing(UidOf, N, u))]
<1>1. IsFiniteSet(S) /\ key \in [S -> Uids] /\ IntsOn(w, S)
  BY BatchMeans DEF IntsOn
<1>2. \A u \in Uids : sub[u] = Total(w, {x \in S : key[x] = u})
  BY DEF Sharing
<1>3. IsFiniteSet(Uids)
  BY RiskAssumption
<1> HIDE DEF S, key, w, sub
<1>4. Total(sub, Uids) = Total(w, S)
  BY <1>1, <1>2, <1>3, TotalByGroup
<1> QED BY <1>4 DEF S, w, sub

\* A stake in each instrument, which what is at risk and the kept buys of c make
\* up, and its worth at a price that no mark and no quote is below.
Staked(c, price, stake, worth) ==
  /\ \A u \in Uids : u \in DOMAIN state.info /\ LotOf(u, state) \in Nat
  /\ price \in Nat /\ \A u \in Uids : Mark(u) > 0 => price <= Mark(u)
  /\ \A i \in Those(c, {"buy"}) : Quoted(c.dec[i]) > 0 => price <= Quoted(c.dec[i])
  /\ stake \in [Uids -> Nat]
  /\ \A u \in Uids :
       \/ stake[u] <= LotsAtRisk(u)
       \/ \E i \in Those(c, {"buy"}) : c.dec[i].uid = u /\ stake[u] <= LotsAtRisk(u) + c.dec[i].qty
  /\ \A u \in Uids : worth[u] = stake[u] * LotOf(u, state) * price

LEMMA BuysMean ==
  ASSUME NEW c, BatchOK(c)
  PROVE  \A i \in Those(c, {"buy"}) : i \in 1..N /\ c.dec[i].uid = UidOf[i] /\ c.dec[i].uid \in Uids /\ c.dec[i].qty \in Nat
                                     /\ c.dec[i] \in Proposal
<1>1. \A i \in 1..N : c.dec[i] \in Proposal /\ c.dec[i].qty \in Nat /\ c.dec[i].uid \in Uids /\ c.dec[i].uid = UidOf[i]
  BY BatchMeans
<1>2. c.live \in SUBSET (1..N)
  BY BatchMeans
<1>3. \A i \in Those(c, {"buy"}) : i \in c.live
  BY DEF Those
<1> QED BY <1>1, <1>2, <1>3

\* When a check keeps a buy, what is held, resting and kept of each instrument
\* keeps to the limits at such a price.
LEMMA CheckLimits ==
  ASSUME AccountOK, N \in Nat, Proposed(proposed, N), NEW c, c = Check(proposed, state, limits),
         Those(c, {"buy"}) # {}, NEW price, NEW stake, NEW worth, Staked(c, price, stake, worth)
  PROVE  /\ \A i \in Those(c, {"buy"}) : worth[c.dec[i].uid] <= limits.maxPosition
         /\ Total(worth, Uids) <= limits.maxTotal
<1> SUFFICES ASSUME \A u \in Uids : u \in DOMAIN state.info /\ LotOf(u, state) \in Nat,
                    price \in Nat, \A u \in Uids : Mark(u) > 0 => price <= Mark(u),
                    \A i \in Those(c, {"buy"}) : Quoted(c.dec[i]) > 0 => price <= Quoted(c.dec[i]),
                    stake \in [Uids -> Nat],
                    \A u \in Uids :
                      \/ stake[u] <= LotsAtRisk(u)
                      \/ \E i \in Those(c, {"buy"}) : c.dec[i].uid = u /\ stake[u] <= LotsAtRisk(u) + c.dec[i].qty,
                    \A u \in Uids : worth[u] = stake[u] * LotOf(u, state) * price
             PROVE  /\ \A i \in Those(c, {"buy"}) : worth[c.dec[i].uid] <= limits.maxPosition
                    /\ Total(worth, Uids) <= limits.maxTotal
  BY Zenon DEF Staked
<1> DEFINE buys == Those(c, {"buy"})
           w == BuyWorth(c)
           group == [u \in Uids |-> Total(w, Sharing(UidOf, N, u))]
<1>1. BatchOK(Batch(proposed))
  <2>1. proposed \in [1..N -> Proposal]
    BY DEF Proposed
  <2> HIDE DEF N
  <2> QED BY <2>1, BatchStarts DEF BatchOK
<1>2. BatchOK(c) /\ WithinPosition(c) /\ WithinTotal(c)
  BY <1>1, Passes
<1>3. /\ \A u \in Uids : Known(u)
      /\ Total(AtRiskOf, Uids) + Total(w, 1..N) <= limits.maxTotal
      /\ \A i \in buys : Priced(c.dec[i]) /\ AtRisk(c.dec[i].uid) + group[c.dec[i].uid] <= limits.maxPosition
      /\ \A i \in buys : i \in 1..N /\ c.dec[i].uid = UidOf[i] /\ c.dec[i].uid \in Uids /\ c.dec[i].qty \in Nat
                         /\ c.dec[i] \in Proposal
  <2>1. \A i \in buys : i \in 1..N /\ c.dec[i].uid = UidOf[i] /\ c.dec[i].uid \in Uids /\ c.dec[i].qty \in Nat
                        /\ c.dec[i] \in Proposal
    BY <1>2, BuysMean
  <2>2. (\A u \in Uids : Known(u)) /\ Total(AtRiskOf, Uids) + Total(w, 1..N) <= limits.maxTotal
    BY <1>2, Zenon DEF WithinTotal
  <2>3. ASSUME NEW i \in buys
        PROVE  Priced(c.dec[i]) /\ AtRisk(c.dec[i].uid) + group[c.dec[i].uid] <= limits.maxPosition
    <3> DEFINE u == c.dec[i].uid
               t == Total(w, Sharing(UidOf, N, u))
    <3>1. Priced(c.dec[i]) /\ AtRisk(u) + t <= limits.maxPosition
      BY <1>2, Zenon DEF WithinPosition
    <3>2. u \in Uids
      BY <2>1
    <3>3. group[u] = t
      BY <3>2, Zenon
    <3> HIDE DEF u, t, group
    <3>4. AtRisk(u) + group[u] <= limits.maxPosition
      BY <3>1, <3>3
    <3> QED BY <3>1, <3>4 DEF u
  <2> HIDE DEF buys, group, w
  <2> QED BY <2>1, <2>2, <2>3
<1>4. \A j \in 1..N : w[j] \in Nat
  <2>1. Thinned(c, c, N)
    BY <1>2, ThinnedSelf DEF BatchOK
  <2>2. Shrinks(c, c)
    BY <1>2, <2>1, ThinnedOK
  <2> QED BY <1>2, <1>3, <2>2, WorthShrinks
<1>5. \A u \in Uids : IsFiniteSet(Sharing(UidOf, N, u)) /\ Sharing(UidOf, N, u) \in SUBSET (1..N)
  <2>1. \A u \in Uids : SharingGrows(UidOf, N, u)
    BY SharingMore
  <2> QED BY <2>1 DEF SharingGrows
<1>6. ASSUME NEW u \in Uids
      PROVE  /\ group[u] \in Nat /\ AtRiskOf[u] = AtRisk(u) /\ AtRisk(u) \in Nat
             /\ worth[u] \in Nat /\ worth[u] <= AtRisk(u) + group[u]
  <2> DEFINE S == Sharing(UidOf, N, u)
             lots == LotsAtRisk(u)
             l == LotOf(u, state)
             m == Mark(u)
  <2>1. IsFiniteSet(S) /\ IntsOn(w, S) /\ (\A j \in S : w[j] >= 0) /\ group[u] = Total(w, S)
    BY <1>4, <1>5 DEF IntsOn
  <2>2. group[u] \in Nat /\ \A j \in S : w[j] <= group[u]
    <3> HIDE DEF S, w, group
    <3>1. Total(w, S) \in Int /\ Total(w, S) >= 0 /\ \A j \in S : w[j] <= Total(w, S)
      BY <2>1, TotalType, TotalPositive, TotalCovers
    <3> QED BY <2>1, <3>1
  <2>3. AtRisk(u) \in Nat /\ lots \in Nat
    BY <1>3, AtRiskType
  <2>4. l \in Nat /\ m \in Int /\ stake[u] \in Nat
    BY DEF AccountOK
  <2>5. ASSUME NEW n \in Nat, n <= lots PROVE n * l * price \in Nat /\ n * l * price <= AtRisk(u)
    <3>1. CASE lots = 0
      <4>1. n = 0 /\ n * l * price = 0 /\ AtRisk(u) = 0
        BY <2>4, <2>5, <3>1 DEF AtRisk
      <4> QED BY <4>1
    <3>2. CASE lots # 0
      <4>1. m > 0 /\ AtRisk(u) = lots * l * m
        BY <1>3, <2>3, <3>2 DEF Known, AtRisk, Worth
      <4>2. price <= m /\ m \in Nat
        BY <2>4, <4>1
      <4> HIDE DEF lots, l, m
      <4> QED BY <2>3, <2>4, <2>5, <4>1, <4>2, WorthAbove
    <3> QED BY <3>1, <3>2
  <2>6. CASE stake[u] <= lots
    <3>1. worth[u] \in Nat /\ worth[u] <= AtRisk(u)
      BY <2>4, <2>5, <2>6
    <3> HIDE DEF group
    <3> QED BY <2>2, <2>3, <3>1 DEF AtRiskOf
  <2>7. ASSUME NEW i \in buys, c.dec[i].uid = u, stake[u] <= lots + c.dec[i].qty, ~(stake[u] <= lots)
        PROVE  worth[u] \in Nat /\ worth[u] <= AtRisk(u) + group[u]
    <3> DEFINE q == c.dec[i].qty
               k == stake[u] - lots
               p == Quoted(c.dec[i])
    <3>1. q \in Nat /\ k \in Nat /\ k <= q /\ stake[u] = lots + k
      <4>1. q \in Nat /\ lots \in Nat /\ stake[u] \in Nat /\ stake[u] <= lots + q /\ ~(stake[u] <= lots)
        BY <1>3, <2>3, <2>4, <2>7
      <4> HIDE DEF q, lots
      <4> QED BY <4>1
    <3>2. p \in Int /\ p > 0 /\ w[i] = q * l * p /\ i \in S
      <4>1. p > 0 /\ p \in Int
        BY <1>3 DEF Priced, AccountOK
      <4>2. i \in 1..N /\ i \in Those(c, {"buy"}) /\ UidOf[i] = u
        BY <1>3, <2>7
      <4>3. w[i] = q * l * p
        BY <2>7, <4>2 DEF BuyWorth, Worth
      <4> QED BY <4>1, <4>2, <4>3 DEF Sharing
    <3>3. price <= p /\ p \in Nat
      BY <2>7, <3>2
    <3> HIDE DEF q, k, p, l, lots, S, w, group
    <3>4. k * l * price \in Nat /\ k * l * price <= q * l * p
      BY <2>4, <3>1, <3>3, WorthAbove
    <3>5. lots * l * price \in Nat /\ lots * l * price <= AtRisk(u)
      BY <2>3, <2>5
    <3>6. worth[u] = lots * l * price + k * l * price
      <4>1. worth[u] = (lots + k) * l * price
        BY <3>1 DEF l
      <4>2. \A a, b, x, y \in Nat : (a + b) * x * y = a * x * y + b * x * y
        OBVIOUS
      <4> QED BY <2>3, <2>4, <3>1, <4>1, <4>2
    <3>7. q * l * p <= group[u] /\ q * l * p \in Int
      <4>1. w[i] \in Int
        BY <2>1, <3>2 DEF IntsOn
      <4> QED BY <2>2, <3>2, <4>1
    <3> QED BY <2>2, <2>3, <3>4, <3>5, <3>6, <3>7
  <2>8. worth[u] \in Nat /\ worth[u] <= AtRisk(u) + group[u]
    BY <2>6, <2>7
  <2> HIDE DEF group
  <2> QED BY <2>2, <2>3, <2>8 DEF AtRiskOf
<1>7. ASSUME NEW i \in buys PROVE worth[c.dec[i].uid] <= limits.maxPosition
  <2> DEFINE u == c.dec[i].uid
  <2>1. u \in Uids /\ AtRisk(u) + group[u] <= limits.maxPosition
    BY <1>3
  <2>2. limits.maxPosition \in Int
    BY DEF AccountOK
  <2> HIDE DEF u, group
  <2>3. worth[u] <= limits.maxPosition
    BY <1>6, <2>1, <2>2
  <2> QED BY <2>3 DEF u
<1>8. Total(worth, Uids) <= limits.maxTotal
  <2> DEFINE both == [u \in Uids |-> AtRiskOf[u] + group[u]]
             a == Total(AtRiskOf, Uids)
             g == Total(group, Uids)
  <2>1. IsFiniteSet(Uids) /\ limits.maxTotal \in Int
    BY RiskAssumption DEF AccountOK
  <2>2. Total(group, Uids) = Total(w, 1..N)
    BY <1>2, <1>4, WorthByUid
  <2> HIDE DEF group, w
  <2>3. IntsOn(AtRiskOf, Uids) /\ IntsOn(group, Uids) /\ IntsOn(worth, Uids) /\ IntsOn(both, Uids)
    BY <1>6 DEF IntsOn
  <2>4. \A u \in Uids : both[u] = AtRiskOf[u] + group[u] /\ worth[u] <= both[u]
    BY <1>6
  <2> HIDE DEF both
  <2>5. Total(both, Uids) = a + g
    BY <2>1, <2>3, <2>4, TotalOfSums
  <2>6. Total(worth, Uids) <= Total(both, Uids)
    BY <2>1, <2>3, <2>4, TotalMonotone
  <2>7. Total(worth, Uids) \in Int /\ Total(both, Uids) \in Int
    BY <2>1, <2>3, TotalType
  <2>8. a + g <= limits.maxTotal
    BY <1>3, <2>2
  <2> HIDE DEF a, g
  <2> QED BY <2>1, <2>5, <2>6, <2>7, <2>8
<1> QED BY <1>7, <1>8

-----------------------------------------------------------------------------
(* The same decisions with others among them *)

\* f sends the indices 1..m to indices in 1..n, in ascending order.
Embeds(f, m, n) ==
  m \in Nat /\ n \in Nat /\ f \in [1..m -> 1..n] /\ \A j, k \in 1..m : j < k => f[j] < f[k]

\* b is c with decisions in between that are not live.
Mirrors(c, m, b, n, f) ==
  /\ Embeds(f, m, n) /\ c \in BatchOf(m) /\ b \in BatchOf(n)
  /\ b.live = {f[k] : k \in c.live}
  /\ \A k \in 1..m : c.dec[k] = b.dec[f[k]]

LEMMA EmbedsOrder ==
  ASSUME NEW m, NEW n, NEW f, Embeds(f, m, n)
  PROVE  /\ \A k \in 1..m : f[k] \in 1..n
         /\ \A j, k \in 1..m : (f[j] < f[k] <=> j < k) /\ (f[j] = f[k] => j = k)
<1>1. m \in Nat /\ n \in Nat /\ f \in [1..m -> 1..n] /\ \A j, k \in 1..m : j < k => f[j] < f[k]
  BY DEF Embeds
<1>2. \A k \in 1..m : f[k] \in 1..n
  BY <1>1
<1> SUFFICES ASSUME NEW j \in 1..m, NEW k \in 1..m PROVE (f[j] < f[k] <=> j < k) /\ (f[j] = f[k] => j = k)
  BY <1>2
<1>3. f[j] \in Int /\ f[k] \in Int
  BY <1>1, <1>2
<1>4. j < k => f[j] < f[k]
  BY <1>1
<1>5. k < j => f[k] < f[j]
  BY <1>1
<1> QED BY <1>3, <1>4, <1>5

LEMMA EmbedsCounts ==
  ASSUME NEW m, NEW n, NEW f, Embeds(f, m, n), NEW S \in SUBSET (1..m), NEW T, T = {f[k] : k \in S}
  PROVE  IsFiniteSet(S) /\ IsFiniteSet(T) /\ Cardinality(T) = Cardinality(S)
<1> DEFINE g == [k \in S |-> f[k]]
<1>1. m \in Nat
  BY DEF Embeds
<1>2. IsFiniteSet(S)
  <2>1. IsFiniteSet(1..m)
    BY <1>1, FS_Interval
  <2> QED BY <2>1, FS_Subset
<1>3. g \in Surjection(S, T)
  BY DEF Surjection
<1>4. g \in Injection(S, T)
  <2>1. g \in [S -> T] /\ DOMAIN g = S
    OBVIOUS
  <2>2. \A j, k \in S : g[j] = g[k] => j = k
    BY EmbedsOrder
  <2> HIDE DEF g
  <2> QED BY <2>1, <2>2 DEF Injection, IsInjective
<1> HIDE DEF g
<1>5. IsFiniteSet(T) /\ Cardinality(T) = Cardinality(S)
  BY <1>2, <1>3, <1>4, FS_Surjection
<1> QED BY <1>2, <1>5

LEMMA LiveSorts ==
  ASSUME NEW n \in Nat, NEW b \in BatchOf(n)
  PROVE  /\ b.live \in SUBSET (1..n) /\ b.live \in SUBSET Int /\ IsFiniteSet(b.live)
         /\ Sorts(InOrder(b.live), b.live)
<1>1. b.live \in SUBSET (1..n) /\ b.live \in SUBSET Int
  BY DEF BatchOf
<1>2. IsFiniteSet(b.live)
  <2>1. IsFiniteSet(1..n)
    BY FS_Interval
  <2> QED BY <1>1, <2>1, FS_Subset
<1> QED BY <1>1, <1>2, InOrderIsSorted

\* What is allowed of the one is what is allowed of the other.
LEMMA AllowedMirrors ==
  ASSUME NEW c, NEW m, NEW b, NEW n, NEW f, Mirrors(c, m, b, n, f)
  PROVE  Allowed(b) = Allowed(c)
<1> DEFINE S == c.live
           T == b.live
           q == Cardinality(S)
           g == InOrder(S)
           h == [k \in 1..q |-> f[g[k]]]
<1>1. /\ Embeds(f, m, n) /\ m \in Nat /\ n \in Nat /\ c \in BatchOf(m) /\ b \in BatchOf(n)
      /\ T = {f[k] : k \in S} /\ \A k \in 1..m : c.dec[k] = b.dec[f[k]]
  BY DEF Mirrors, Embeds
<1>2. S \in SUBSET (1..m) /\ T \in SUBSET Int /\ IsFiniteSet(S) /\ IsFiniteSet(T) /\ Cardinality(T) = q
  BY <1>1, LiveSorts, EmbedsCounts
<1>3. Sorts(g, S) /\ Sorts(InOrder(T), T)
  BY <1>1, LiveSorts
<1> HIDE DEF g, S, T
<1>4. g \in [1..q -> S] /\ \A j, k \in 1..q : j < k => g[j] < g[k]
  BY <1>3 DEF Sorts
<1> HIDE DEF q
<1>5. Sorts(h, T)
  <2>1. \A k \in 1..q : g[k] \in S /\ g[k] \in 1..m
    BY <1>2, <1>4
  <2>2. h \in [1..q -> T]
    BY <1>1, <2>1
  <2>3. \A j, k \in 1..q : j < k => h[j] < h[k]
    BY <1>1, <1>4, <2>1, EmbedsOrder
  <2> HIDE DEF h
  <2> QED BY <1>2, <2>2, <2>3 DEF Sorts
<1>6. InOrder(T) = h
  BY <1>2, <1>3, <1>5, SortsAgree
<1>7. Allowed(b) = [k \in 1..q |-> b.dec[h[k]]]
  BY <1>2, <1>6 DEF Allowed, T
<1>8. Allowed(c) = [k \in 1..q |-> c.dec[g[k]]]
  BY DEF Allowed, S, q, g
<1>9. \A k \in 1..q : c.dec[g[k]] = b.dec[h[k]]
  BY <1>1, <1>2, <1>4
<1> QED BY <1>7, <1>8, <1>9

\* A batch mirrors the one that starts from what it allows.
LEMMA PackedMirrors ==
  ASSUME NEW n \in Nat, NEW b \in BatchOf(n)
  PROVE  Mirrors(Batch(Allowed(b)), Cardinality(b.live), b, n, InOrder(b.live))
<1> DEFINE S == b.live
           m == Cardinality(S)
           f == InOrder(S)
           p == Allowed(b)
           c == Batch(p)
<1>1. S \in SUBSET (1..n) /\ S \in SUBSET Int /\ IsFiniteSet(S) /\ Sorts(f, S)
  BY LiveSorts
<1>2. m \in Nat /\ \A x \in S : \E k \in 1..m : f[k] = x
  BY <1>1, SortsLists
<1>3. f \in [1..m -> S] /\ \A j, k \in 1..m : j < k => f[j] < f[k]
  BY <1>1 DEF Sorts
<1>4. p = [k \in 1..m |-> b.dec[f[k]]]
  BY DEF Allowed
<1> HIDE DEF m, f, p
<1>5. \A k \in 1..m : f[k] \in S /\ f[k] \in 1..n
  BY <1>1, <1>3
<1>6. Embeds(f, m, n)
  BY <1>2, <1>3, <1>5 DEF Embeds
<1>7. \A i \in 1..n : b.dec[i] \in Proposal
  BY DEF BatchOf
<1>8. p \in [1..m -> Proposal]
  BY <1>4, <1>5, <1>7
<1>9. c \in BatchOf(m) /\ c.dec = p /\ c.live = 1..m
  BY <1>2, <1>8, BatchStarts
<1> HIDE DEF c
<1>10. S = {f[k] : k \in c.live}
  BY <1>2, <1>5, <1>9
<1>11. \A k \in 1..m : c.dec[k] = b.dec[f[k]]
  BY <1>4, <1>9
<1>12. Mirrors(c, m, b, n, f)
  BY <1>6, <1>9, <1>10, <1>11 DEF Mirrors
<1> QED BY <1>12 DEF c, p, m, f

LEMMA StripMirrors ==
  ASSUME NEW c, NEW m, NEW b, NEW n, NEW f, Mirrors(c, m, b, n, f),
         NEW S \in SUBSET (1..m), NEW T, T = {f[k] : k \in S}, NEW r \in RuleNames
  PROVE  Mirrors(Strip(c, S, r), m, Strip(b, T, r), n, f)
<1> DEFINE c1 == Strip(c, S, r)
           b1 == Strip(b, T, r)
<1>1. /\ Embeds(f, m, n) /\ m \in Nat /\ n \in Nat /\ c \in BatchOf(m) /\ b \in BatchOf(n)
      /\ b.live = {f[k] : k \in c.live} /\ \A k \in 1..m : c.dec[k] = b.dec[f[k]]
  BY DEF Mirrors, Embeds
<1>2. T \in SUBSET (1..n)
  BY <1>1, EmbedsOrder
<1>3. Stripped(c, S, r, m, c1) /\ Stripped(b, T, r, n, b1)
  BY <1>1, <1>2, StripEffect
<1> HIDE DEF c1, b1
<1>4. /\ c1 \in BatchOf(m) /\ c1.dec = c.dec /\ c1.live = c.live \ S
      /\ b1 \in BatchOf(n) /\ b1.dec = b.dec /\ b1.live = b.live \ T
  BY <1>3 DEF Stripped
<1>5. c.live \in SUBSET (1..m)
  BY <1>1 DEF BatchOf
<1>6. b1.live = {f[k] : k \in c1.live}
  <2>1. \A j, k \in 1..m : f[j] = f[k] => j = k
    BY <1>1, EmbedsOrder
  <2> QED BY <1>1, <1>4, <1>5, <2>1
<1>7. Mirrors(c1, m, b1, n, f)
  BY <1>1, <1>4, <1>6 DEF Mirrors
<1> QED BY <1>7 DEF c1, b1

\* The live decisions that are in a set D of decisions.
Among(b, D) == {i \in b.live : b.dec[i] \in D}

LEMMA AmongMirrors ==
  ASSUME NEW c, NEW m, NEW b, NEW n, NEW f, Mirrors(c, m, b, n, f), NEW D
  PROVE  Among(c, D) \in SUBSET (1..m) /\ Among(b, D) = {f[k] : k \in Among(c, D)}
<1>1. /\ c.live \in SUBSET (1..m)
      /\ b.live = {f[k] : k \in c.live} /\ \A k \in 1..m : c.dec[k] = b.dec[f[k]]
  BY DEF Mirrors, BatchOf
<1> QED BY <1>1 DEF Among

LEMMA ThoseMirrors ==
  ASSUME NEW c, NEW m, NEW b, NEW n, NEW f, Mirrors(c, m, b, n, f), NEW A
  PROVE  /\ Those(c, A) \in SUBSET (1..m) /\ Those(b, A) = {f[k] : k \in Those(c, A)}
         /\ \A k \in 1..m : f[k] \in Those(b, A) <=> k \in Those(c, A)
<1>1. /\ c.live \in SUBSET (1..m) /\ Embeds(f, m, n)
      /\ b.live = {f[k] : k \in c.live} /\ \A k \in 1..m : c.dec[k] = b.dec[f[k]]
  BY DEF Mirrors, BatchOf
<1>2. Those(c, A) \in SUBSET (1..m) /\ Those(b, A) = {f[k] : k \in Those(c, A)}
  BY <1>1 DEF Those
<1>3. \A j, k \in 1..m : f[j] = f[k] => j = k
  BY <1>1, EmbedsOrder
<1> QED BY <1>2, <1>3

\* The gates strip by the decision alone, the caps by how many orders are ahead of it.
LEMMA GatesMirror ==
  ASSUME NEW c, NEW m, NEW b, NEW n, NEW f, Mirrors(c, m, b, n, f), NEW s, NEW lim
  PROVE  Mirrors(Gates(c, s, lim), m, Gates(b, s, lim), n, f)
<1>1. ASSUME NEW x, NEW y, Mirrors(x, m, y, n, f), NEW D, NEW r \in RuleNames
      PROVE  Mirrors(Strip(x, Among(x, D), r), m, Strip(y, Among(y, D), r), n, f)
  BY <1>1, AmongMirrors, StripMirrors
<1>2. ASSUME NEW x, NEW k, x \in BatchOf(k)
      PROVE  \A i \in x.live : x.dec[i] \in Proposal
  BY <1>2 DEF BatchOf
<1>3. ASSUME NEW x, NEW y, Mirrors(x, m, y, n, f)
      PROVE  /\ \A i \in x.live : x.dec[i] \in Proposal
             /\ \A i \in y.live : y.dec[i] \in Proposal
  BY <1>2, <1>3 DEF Mirrors
<1>4. {"daily_loss_kill_switch", "operational_halt", "allowlist", "currency_mismatch"} \subseteq RuleNames
  BY DEF RuleNames
<1>5. ASSUME NEW x, NEW y, Mirrors(x, m, y, n, f)
      PROVE  Mirrors(ApplyKillSwitch(x, s, lim), m, ApplyKillSwitch(y, s, lim), n, f)
  <2> DEFINE D == {d \in Proposal : d.action \in {"buy", "hold"}}
  <2>1. Those(x, {"buy", "hold"}) = Among(x, D) /\ Those(y, {"buy", "hold"}) = Among(y, D)
    BY <1>3, <1>5 DEF Those, Among
  <2> HIDE DEF D
  <2> QED BY <1>1, <1>4, <1>5, <2>1 DEF ApplyKillSwitch
<1>6. ASSUME NEW x, NEW y, Mirrors(x, m, y, n, f)
      PROVE  Mirrors(ApplyOperationalHalt(x, s), m, ApplyOperationalHalt(y, s), n, f)
  <2> DEFINE D == {d \in Proposal : d.action \in {"buy"}}
  <2>1. Those(x, {"buy"}) = Among(x, D) /\ Those(y, {"buy"}) = Among(y, D)
    BY <1>3, <1>6 DEF Those, Among
  <2> HIDE DEF D
  <2> QED BY <1>1, <1>4, <1>6, <2>1 DEF ApplyOperationalHalt
<1>7. ASSUME NEW x, NEW y, Mirrors(x, m, y, n, f)
      PROVE  Mirrors(ApplyAllowlist(x, s, lim), m, ApplyAllowlist(y, s, lim), n, f)
  <2> DEFINE D == {d \in Proposal : d.action = "buy" /\ ~Listed(d.uid, s, lim)}
             Out(z) == {i \in Those(z, {"buy"}) : ~Listed(z.dec[i].uid, s, lim)}
  <2>1. Out(x) = Among(x, D) /\ Out(y) = Among(y, D)
    BY <1>3, <1>7 DEF Those, Among
  <2>2. \A z : ApplyAllowlist(z, s, lim) = IF lim.allowlist = {} THEN z ELSE Strip(z, Out(z), "allowlist")
    BY DEF ApplyAllowlist
  <2> HIDE DEF D, Out
  <2> QED BY <1>1, <1>4, <1>7, <2>1, <2>2
<1>8. ASSUME NEW x, NEW y, Mirrors(x, m, y, n, f)
      PROVE  Mirrors(ApplyCurrencyMismatch(x, s), m, ApplyCurrencyMismatch(y, s), n, f)
  <2> DEFINE D == {d \in Proposal : d.action \in Orders /\ d.uid \in DOMAIN s.info /\ s.info[d.uid].currency # s.base}
             Out(z) == {i \in Those(z, Orders) : /\ z.dec[i].uid \in DOMAIN s.info
                                                 /\ s.info[z.dec[i].uid].currency # s.base}
  <2>1. Out(x) = Among(x, D) /\ Out(y) = Among(y, D)
    BY <1>3, <1>8 DEF Those, Among
  <2>2. \A z : ApplyCurrencyMismatch(z, s) = Strip(z, Out(z), "currency_mismatch")
    BY DEF ApplyCurrencyMismatch
  <2> HIDE DEF D, Out
  <2> QED BY <1>1, <1>4, <1>8, <2>1, <2>2
<1> DEFINE x1 == ApplyKillSwitch(c, s, lim)
           y1 == ApplyKillSwitch(b, s, lim)
           x2 == ApplyOperationalHalt(x1, s)
           y2 == ApplyOperationalHalt(y1, s)
           x3 == ApplyAllowlist(x2, s, lim)
           y3 == ApplyAllowlist(y2, s, lim)
<1>9. Gates(c, s, lim) = ApplyCurrencyMismatch(x3, s) /\ Gates(b, s, lim) = ApplyCurrencyMismatch(y3, s)
  BY Zenon DEF Gates
<1>10. Mirrors(x1, m, y1, n, f)
  BY <1>5
<1> HIDE DEF x1, y1
<1>11. Mirrors(x2, m, y2, n, f)
  BY <1>6, <1>10
<1> HIDE DEF x2, y2
<1>12. Mirrors(x3, m, y3, n, f)
  BY <1>7, <1>11
<1> HIDE DEF x3, y3
<1> QED BY <1>8, <1>9, <1>12

LEMMA CapMirrors ==
  ASSUME NEW c, NEW m, NEW b, NEW n, NEW f, Mirrors(c, m, b, n, f), NEW cap, NEW r \in RuleNames
  PROVE  Mirrors(ApplyOrderCap(c, cap, r), m, ApplyOrderCap(b, cap, r), n, f)
<1> DEFINE P == Those(c, Orders)
           Q == Those(b, Orders)
           S == {k \in P : Cardinality({j \in P : j < k}) >= cap}
           T == {i \in Q : Cardinality({j \in Q : j < i}) >= cap}
<1>1. Embeds(f, m, n)
  BY DEF Mirrors
<1>2. P \in SUBSET (1..m) /\ Q = {f[k] : k \in P}
  BY ThoseMirrors
<1>3. ApplyOrderCap(c, cap, r) = Strip(c, S, r) /\ ApplyOrderCap(b, cap, r) = Strip(b, T, r)
  BY Zenon DEF ApplyOrderCap
<1> HIDE DEF P, Q
<1>4. ASSUME NEW k \in P
      PROVE  Cardinality({j \in Q : j < f[k]}) = Cardinality({j \in P : j < k})
  <2> DEFINE A == {j \in P : j < k}
             B == {j \in Q : j < f[k]}
  <2>1. A \in SUBSET (1..m)
    BY <1>2
  <2>2. B = {f[j] : j \in A}
    BY <1>1, <1>2, EmbedsOrder
  <2> HIDE DEF A, B
  <2>3. Cardinality(B) = Cardinality(A)
    BY <1>1, <2>1, <2>2, EmbedsCounts
  <2> QED BY <2>3 DEF A, B
<1>5. S \in SUBSET (1..m)
  BY <1>2
<1>6. T = {f[k] : k \in S}
  <2> DEFINE before(k) == Cardinality({j \in P : j < k})
             ahead(i) == Cardinality({j \in Q : j < i})
  <2>1. S = {k \in P : before(k) >= cap} /\ T = {i \in Q : ahead(i) >= cap}
    OBVIOUS
  <2>2. \A k \in P : ahead(f[k]) = before(k)
    BY <1>4
  <2>3. Q = {f[k] : k \in P}
    BY <1>2
  <2> HIDE DEF before, ahead, S, T
  <2>4. ASSUME NEW i \in T PROVE i \in {f[k] : k \in S}
    <3>1. PICK k \in P : i = f[k]
      BY <2>1, <2>3, <2>4
    <3>2. before(k) >= cap
      BY <2>1, <2>2, <2>4, <3>1
    <3> QED BY <2>1, <3>1, <3>2
  <2>5. ASSUME NEW k \in S PROVE f[k] \in T
    <3>1. k \in P /\ before(k) >= cap
      BY <2>1, <2>5
    <3> QED BY <2>1, <2>2, <2>3, <3>1
  <2> QED BY <2>4, <2>5
<1> HIDE DEF S, T
<1> QED BY <1>3, <1>5, <1>6, StripMirrors

\* What a ration needs of its arguments.
Rationable(b, n, action, accounts, budget, account, cost) ==
  /\ n \in Nat /\ b \in BatchOf(n) /\ budget \in [accounts -> Int] /\ account \in [1..n -> accounts]
  /\ Costs(cost, b, n)
  /\ \A j \in Those(b, {action}) : b.dec[j].qty > 0

\* Two rations that have come to the same.
Alike(x, m, y, n, f) == Mirrors(x.batch, m, y.batch, n, f) /\ x.left = y.left

LEMMA GiveMirrors ==
  ASSUME NEW x, NEW m, NEW y, NEW n, NEW f, Alike(x, m, y, n, f), NEW k \in 1..m, NEW i, i = f[k],
         NEW action, NEW accountOf, NEW account, accountOf[k] = account[i],
         NEW costOf, NEW cost, costOf[k] = cost[i], CostsOf(cost, y.batch, i),
         i \in Those(y.batch, {action}) => y.batch.dec[i].qty > 0, NEW r \in RuleNames
  PROVE  Alike(Give(x, k, r, action, accountOf, costOf), m, Give(y, i, r, action, account, cost), n, f)
<1> DEFINE c == x.batch
           b == y.batch
           q == b.dec[i].qty
           fits == [l \in DOMAIN cost[i] |-> \E z \in cost[i][l] : z <= y.left[account[i]]]
           g == MaxWithin(fits)
           left == [y.left EXCEPT ![account[i]] = @ - SumSet(cost[i][g])]
<1>1. Mirrors(c, m, b, n, f) /\ x.left = y.left
  BY DEF Alike
<1>2. /\ Embeds(f, m, n) /\ m \in Nat /\ n \in Nat /\ c \in BatchOf(m) /\ b \in BatchOf(n)
      /\ b.live = {f[j] : j \in c.live} /\ \A j \in 1..m : c.dec[j] = b.dec[f[j]]
  BY <1>1 DEF Mirrors, Embeds
<1>3. i \in 1..n /\ (i \in Those(b, {action}) <=> k \in Those(c, {action}))
  BY <1>1, <1>2, EmbedsOrder, ThoseMirrors
<1>4. CASE i \notin Those(b, {action})
  <2>1. Give(x, k, r, action, accountOf, costOf) = x /\ Give(y, i, r, action, account, cost) = y
    BY <1>3, <1>4, Zenon DEF Give
  <2> QED BY <2>1
<1>5. CASE i \in Those(b, {action})
  <2>1. Give(y, i, r, action, account, cost) = [batch |-> Shrink(b, i, g, r), left |-> left]
    BY <1>5, Zenon DEF Give
  <2>2. Give(x, k, r, action, accountOf, costOf) = [batch |-> Shrink(c, k, g, r), left |-> left]
    <3>1. k \in Those(x.batch, {action})
      BY <1>3, <1>5
    <3> QED BY <1>1, <3>1, Zenon DEF Give
  <2>3. q \in Nat /\ q > 0 /\ c.dec[k] = b.dec[i] /\ b.dec[i] \in Proposal
    BY <1>2, <1>3, <1>5 DEF BatchOf, Proposal
  <2>4. DOMAIN fits = 0..q
    BY DEF CostsOf
  <2>5. g \in 0..q
    <3> HIDE DEF fits, q
    <3> QED BY <2>3, <2>4, MaxWithinFits
  <2>6. i \in b.live /\ k \in c.live
    BY <1>3, <1>5 DEF Those
  <2> DEFINE c1 == Shrink(c, k, g, r)
             b1 == Shrink(b, i, g, r)
  <2> HIDE DEF left, fits, g
  <2>7. Shrunk(b, i, g, r, n, b1)
    BY <1>2, <2>3, <2>5, <2>6, ShrinkEffect
  <2>8. Shrunk(c, k, g, r, m, c1)
    <3>1. c.dec[k].qty > 0 /\ g \in 0..c.dec[k].qty
      BY <2>3, <2>5
    <3> QED BY <1>2, <2>6, <3>1, ShrinkEffect
  <2> HIDE DEF c1, b1
  <2>9. Mirrors(c1, m, b1, n, f)
    <3>1. CASE g = q
      <4>1. b1 = b /\ c1 = c
        BY <2>3, <2>7, <2>8, <3>1 DEF Shrunk
      <4> QED BY <1>1, <4>1
    <3>2. CASE g = 0
      <4>1. Stripped(b, {i}, r, n, b1) /\ Stripped(c, {k}, r, m, c1)
        BY <2>7, <2>8, <3>2 DEF Shrunk
      <4>2. /\ c1 \in BatchOf(m) /\ c1.dec = c.dec /\ c1.live = c.live \ {k}
            /\ b1 \in BatchOf(n) /\ b1.dec = b.dec /\ b1.live = b.live \ {i}
        BY <4>1 DEF Stripped
      <4>3. c.live \in SUBSET (1..m)
        BY <1>2 DEF BatchOf
      <4>4. \A j \in 1..m : f[j] = f[k] => j = k
        BY <1>2, EmbedsOrder
      <4>5. b1.live = {f[j] : j \in c1.live}
        BY <1>2, <4>2, <4>3, <4>4
      <4> QED BY <1>2, <4>2, <4>5 DEF Mirrors
    <3>3. CASE g # q /\ g # 0
      <4>1. g > 0
        BY <2>3, <2>5, <3>3
      <4>2. /\ b1.dec = [b.dec EXCEPT ![i] = Sized(b.dec[i], g)] /\ b1.live = b.live /\ b1 \in BatchOf(n)
            /\ c1.dec = [c.dec EXCEPT ![k] = Sized(c.dec[k], g)] /\ c1.live = c.live /\ c1 \in BatchOf(m)
        BY <2>7, <2>8, <4>1 DEF Shrunk
      <4>3. DOMAIN b.dec = 1..n /\ DOMAIN c.dec = 1..m
        BY <1>2, DecisionCount
      <4>4. ASSUME NEW j \in 1..m PROVE c1.dec[j] = b1.dec[f[j]]
        <5>1. f[j] \in 1..n /\ (f[j] = f[k] => j = k)
          BY <1>2, EmbedsOrder
        <5>2. CASE j = k
          <6>1. b1.dec[i] = Sized(b.dec[i], g) /\ c1.dec[k] = Sized(c.dec[k], g)
            BY <1>3, <4>2, <4>3
          <6> QED BY <2>3, <5>2, <6>1
        <5>3. CASE j # k
          BY <1>2, <4>2, <4>3, <5>1, <5>3
        <5> QED BY <5>2, <5>3
      <4> QED BY <1>2, <4>2, <4>4 DEF Mirrors
    <3> QED BY <3>1, <3>2, <3>3
  <2> QED BY <2>1, <2>2, <2>9 DEF Alike, c1, b1
<1> QED BY <1>4, <1>5

\* A ration passes over what is not live.
LEMMA RationMirrors ==
  ASSUME NEW c, NEW m, NEW b, NEW n, NEW f, Mirrors(c, m, b, n, f),
         NEW action, NEW accounts, NEW budget, NEW account, NEW cost,
         Rationable(b, n, action, accounts, budget, account, cost),
         NEW accountOf, NEW costOf, \A k \in 1..m : accountOf[k] = account[f[k]] /\ costOf[k] = cost[f[k]],
         NEW r \in RuleNames
  PROVE  Mirrors(Ration(c, r, action, budget, accountOf, costOf), m,
                 Ration(b, r, action, budget, account, cost), n, f)
<1>1. /\ Embeds(f, m, n) /\ m \in Nat /\ n \in Nat /\ c \in BatchOf(m) /\ b \in BatchOf(n)
      /\ f \in [1..m -> 1..n]
      /\ b.live = {f[k] : k \in c.live} /\ \A k \in 1..m : c.dec[k] = b.dec[f[k]]
  BY DEF Mirrors, Embeds
<1>2. /\ budget \in [accounts -> Int] /\ account \in [1..n -> accounts] /\ Costs(cost, b, n)
      /\ \A j \in Those(b, {action}) : b.dec[j].qty > 0
  BY DEF Rationable
<1>3. PICK y : /\ Runs(y, b, n, r, action, budget, account, cost)
               /\ Ration(b, r, action, budget, account, cost) = y[n].batch
  BY <1>1, RationRuns
<1>4. PICK x : /\ Runs(x, c, m, r, action, budget, accountOf, costOf)
               /\ Ration(c, r, action, budget, accountOf, costOf) = x[m].batch
  BY <1>1, RationRuns
<1> DEFINE Between(k, j) == (k = 0 \/ f[k] <= j) /\ (k = m \/ f[k + 1] > j)
           So(j) == \A k \in 0..m : Between(k, j) => Alike(x[k], m, y[j], n, f)
           P == {j \in Nat : j <= n => So(j)}
<1>5. /\ y[0] = [batch |-> b, left |-> budget] /\ \A k \in 1..n : y[k] = Give(y[k - 1], k, r, action, account, cost)
      /\ x[0] = [batch |-> c, left |-> budget] /\ \A k \in 1..m : x[k] = Give(x[k - 1], k, r, action, accountOf, costOf)
  BY <1>3, <1>4 DEF Runs
<1>6. So(0)
  <2> SUFFICES ASSUME NEW k \in 0..m, Between(k, 0) PROVE Alike(x[k], m, y[0], n, f)
    OBVIOUS
  <2>1. k = 0
    <3> SUFFICES ASSUME k # 0 PROVE FALSE
      OBVIOUS
    <3>1. k \in 1..m /\ f[k] \in 1..n
      BY <1>1
    <3> QED BY <3>1
  <2>2. x[0].batch = c /\ x[0].left = budget /\ y[0].batch = b /\ y[0].left = budget
    BY <1>5
  <2>3. Alike(x[0], m, y[0], n, f)
    BY <2>2 DEF Alike
  <2> QED BY <2>1, <2>3, Zenon
<1>7. ASSUME NEW j \in P PROVE j + 1 \in P
  <2> SUFFICES ASSUME j + 1 <= n PROVE So(j + 1)
    OBVIOUS
  <2>1. j \in 0..n /\ j + 1 \in 1..n /\ (j + 1) - 1 = j /\ So(j)
    <3> HIDE DEF So
    <3> QED BY <1>1
  <2>2. y[j + 1] = Give(y[j], j + 1, r, action, account, cost)
    BY <1>5, <2>1
  <2>3. SoFar(j, y[j], b, n, action, budget, account, cost, accounts)
    BY <1>1, <1>2, <1>3, <2>1, RunsSoFar
  <2> SUFFICES ASSUME NEW k \in 0..m, Between(k, j + 1) PROVE Alike(x[k], m, y[j + 1], n, f)
    OBVIOUS
  <2>4. CASE k \in 1..m /\ f[k] = j + 1
    <3>1. k - 1 \in 0..m /\ (k - 1) + 1 = k /\ x[k] = Give(x[k - 1], k, r, action, accountOf, costOf)
      BY <1>1, <1>5, <2>4
    <3>2. Between(k - 1, j)
      <4>1. k - 1 = 0 \/ f[k - 1] <= j
        <5> SUFFICES ASSUME k - 1 # 0 PROVE f[k - 1] <= j
          OBVIOUS
        <5>1. k - 1 \in 1..m /\ k - 1 < k
          BY <2>4, <3>1
        <5>2. f[k - 1] < f[k] /\ f[k - 1] \in 1..n
          BY <1>1, <2>4, <5>1, EmbedsOrder
        <5> QED BY <2>1, <2>4, <5>2
      <4> QED BY <2>1, <2>4, <3>1, <4>1
    <3>3. Alike(x[k - 1], m, y[j], n, f)
      BY <2>1, <3>1, <3>2
    <3> DEFINE i == j + 1
               yb == y[j].batch
               from == y[j]
               past == x[k - 1]
    <3>4. /\ yb \in BatchOf(n) /\ yb.live \subseteq b.live /\ Unchanged(b, yb, i)
      BY <2>1, <2>3 DEF SoFar
    <3>5. CostsOf(cost, yb, i)
      BY <1>2, <2>1, <3>4 DEF Costs, CostsOf, Unchanged
    <3>6. i \in Those(yb, {action}) => yb.dec[i].qty > 0
      BY <1>2, <3>4 DEF Those, Unchanged
    <3>7. i = f[k] /\ accountOf[k] = account[i] /\ costOf[k] = cost[i] /\ k \in 1..m
      BY <2>4
    <3> HIDE DEF i, from, past
    <3>8. Alike(past, m, from, n, f) /\ CostsOf(cost, from.batch, i)
          /\ (i \in Those(from.batch, {action}) => from.batch.dec[i].qty > 0)
      BY <3>3, <3>5, <3>6 DEF from, past
    <3>9. Alike(Give(past, k, r, action, accountOf, costOf), m, Give(from, i, r, action, account, cost), n, f)
      BY <3>7, <3>8, GiveMirrors
    <3> QED BY <2>2, <3>1, <3>9 DEF from, past, i
  <2>5. CASE ~(k \in 1..m /\ f[k] = j + 1)
    <3>1. k = 0 \/ (k \in 1..m /\ f[k] <= j)
      <4>1. k = 0 \/ (k \in 1..m /\ f[k] \in 1..n)
        BY <1>1
      <4> QED BY <2>1, <2>5, <4>1
    <3>2. k = m \/ (k + 1 \in 1..m /\ f[k + 1] \in 1..n /\ f[k + 1] > j + 1)
      BY <1>1
    <3>3. Between(k, j)
      BY <2>1, <3>1, <3>2
    <3>4. Alike(x[k], m, y[j], n, f)
      BY <2>1, <3>3
    <3>5. \A z \in 1..m : f[z] # j + 1
      <4> SUFFICES ASSUME NEW z \in 1..m, f[z] = j + 1 PROVE FALSE
        OBVIOUS
      <4>1. z <= k \/ z >= k + 1
        BY <1>1
      <4>2. CASE z <= k
        <5>1. k \in 1..m /\ (z = k \/ z < k) /\ f[k] <= j
          BY <3>1, <4>2
        <5>2. z = k \/ f[z] < f[k]
          BY <1>1, <5>1, EmbedsOrder
        <5>3. f[k] \in 1..n
          BY <1>1, <5>1
        <5> QED BY <2>1, <5>1, <5>2, <5>3
      <4>3. CASE z >= k + 1
        <5>1. k + 1 \in 1..m /\ f[k + 1] > j + 1 /\ f[k + 1] \in 1..n /\ (z = k + 1 \/ k + 1 < z)
          BY <1>1, <3>2, <4>3
        <5>2. z = k + 1 \/ f[k + 1] < f[z]
          BY <1>1, <5>1, EmbedsOrder
        <5> QED BY <2>1, <5>1, <5>2
      <4> QED BY <4>1, <4>2, <4>3
    <3>6. j + 1 \notin Those(y[j].batch, {action})
      <4>1. j + 1 \notin b.live
        <5>1. c.live \in SUBSET (1..m)
          BY <1>1 DEF BatchOf
        <5> QED BY <1>1, <3>5, <5>1
      <4>2. y[j].batch.live \subseteq b.live
        BY <2>3 DEF SoFar
      <4> QED BY <4>1, <4>2 DEF Those
    <3>7. y[j + 1] = y[j]
      BY <2>2, <3>6, Zenon DEF Give
    <3> QED BY <3>4, <3>7
  <2> QED BY <2>4, <2>5
<1> HIDE DEF So
<1>8. P = Nat
  <2>1. 0 \in P /\ P \in SUBSET Nat
    BY <1>6
  <2> HIDE DEF P
  <2> QED BY <1>7, <2>1, SetOfNaturals
<1>9. So(n)
  BY <1>1, <1>8
<1>10. Between(m, n)
  BY <1>1
<1>11. Alike(x[m], m, y[n], n, f)
  BY <1>1, <1>9, <1>10 DEF So
<1> QED BY <1>3, <1>4, <1>11 DEF Alike

\* The rules that ration give each decision what they give its mirror image.
LEMMA MirrorQuotes ==
  ASSUME NEW c, NEW m, NEW b, NEW n, NEW f, Mirrors(c, m, b, n, f)
  PROVE  \A k \in 1..m : /\ PerInstrument(c)[k] = PerInstrument(b)[f[k]]
                         /\ Common(c)[k] = Common(b)[f[k]]
                         /\ BuyNotionals(c, state)[k] = BuyNotionals(b, state)[f[k]]
                         /\ BuyCosts(c)[k] = BuyCosts(b)[f[k]]
                         /\ SellLots(c)[k] = SellLots(b)[f[k]]
<1>1. /\ DOMAIN c.dec = 1..m /\ DOMAIN b.dec = 1..n
      /\ \A k \in 1..m : f[k] \in 1..n /\ c.dec[k] = b.dec[f[k]]
  BY DecisionCount, EmbedsOrder DEF Mirrors, Embeds
<1> SUFFICES ASSUME NEW k \in 1..m, NEW i, i = f[k]
             PROVE  /\ PerInstrument(c)[k] = PerInstrument(b)[i]
                    /\ Common(c)[k] = Common(b)[i]
                    /\ BuyNotionals(c, state)[k] = BuyNotionals(b, state)[i]
                    /\ BuyCosts(c)[k] = BuyCosts(b)[i]
                    /\ SellLots(c)[k] = SellLots(b)[i]
  OBVIOUS
<1>2. k \in DOMAIN c.dec /\ i \in DOMAIN b.dec /\ c.dec[k] = b.dec[i]
  BY <1>1
<1>3. PerInstrument(c)[k] = PerInstrument(b)[i]
  BY <1>2 DEF PerInstrument
<1>4. Common(c)[k] = Common(b)[i]
  BY <1>2 DEF Common
<1>5. BuyNotionals(c, state)[k] = BuyNotionals(b, state)[i]
  BY <1>2 DEF BuyNotionals
<1>6. BuyCosts(c)[k] = BuyCosts(b)[i]
  BY <1>2 DEF BuyCosts
<1>7. SellLots(c)[k] = SellLots(b)[i]
  BY <1>2 DEF SellLots
<1> QED BY <1>3, <1>4, <1>5, <1>6, <1>7

\* What the rules by instrument and by cash have to give away.
PositionRoom == [u \in Uids |-> IF ExistingExposure(u, state) = {} THEN 0
                                ELSE limits.maxPosition - SumSet(ExistingExposure(u, state))]
CashRoom == IF ReservedPendingBuyCost(state) = {} THEN 0
            ELSE state.cash - limits.cashFloor - SumSet(ReservedPendingBuyCost(state))

LEMMA RulesRation ==
  ASSUME AccountOK
  PROVE  /\ PositionRoom \in [Uids -> Int] /\ Sellable(state) \in [Uids -> Int]
         /\ Shared(TotalRoom) \in [{"all"} -> Int] /\ Shared(CashRoom) \in [{"all"} -> Int]
         /\ \A b : /\ ApplyPositionNotional(b, state, limits)
                        = Ration(b, "max_position_notional", "buy", PositionRoom, PerInstrument(b), BuyNotionals(b, state))
                   /\ ApplyTotalExposure(b, state, limits)
                        = Ration(b, "max_total_exposure", "buy", Shared(TotalRoom), Common(b), BuyNotionals(b, state))
                   /\ ApplyCashFloor(b, state, limits)
                        = Ration(b, "cash_floor", "buy", Shared(CashRoom), Common(b), BuyCosts(b))
                   /\ ApplyOversell(b, state)
                        = Ration(b, "oversell", "sell", Sellable(state), PerInstrument(b), SellLots(b))
<1>1. PositionRoom \in [Uids -> Int]
  <2>1. limits.maxPosition \in Int
    BY DEF AccountOK
  <2> QED BY <2>1, ExistingTypes DEF PositionRoom
<1>2. Sellable(state) \in [Uids -> Int]
  <2>1. \A u \in Uids : state.pos[u].qty - state.sells[u] \in Int
    BY DEF AccountOK
  <2> QED BY <2>1 DEF Sellable
<1>3. TotalRoom \in Int
  <2>1. limits.maxTotal \in Int /\ Total(ExistingOf, Uids) \in Int
    BY BaselineIs DEF AccountOK
  <2> QED BY <2>1 DEF TotalRoom
<1>4. CashRoom \in Int
  <2> DEFINE reserved == ReservedPendingBuyCost(state)
  <2>1. limits.cashFloor \in Int /\ state.cash \in Int
    BY DEF AccountOK
  <2>2. reserved \in SUBSET Int /\ \A x, y \in reserved : x = y
    BY ReservedIs
  <2>3. CashRoom = IF reserved = {} THEN 0 ELSE state.cash - limits.cashFloor - SumSet(reserved)
    BY DEF CashRoom
  <2> HIDE DEF reserved
  <2>4. SumSet(reserved) \in Int
    BY <2>2, KnownCost
  <2> QED BY <2>1, <2>3, <2>4
<1>5. Shared(TotalRoom) \in [{"all"} -> Int] /\ Shared(CashRoom) \in [{"all"} -> Int]
  BY <1>3, <1>4 DEF Shared
<1>6. ASSUME NEW b
      PROVE  ApplyTotalExposure(b, state, limits)
               = Ration(b, "max_total_exposure", "buy", Shared(TotalRoom), Common(b), BuyNotionals(b, state))
  <2> DEFINE base == MapThenSumSet(LAMBDA u : SumSet(ExistingExposure(u, state)), Uids)
             unknown == (\E u \in Uids : ExistingExposure(u, state) = {}) \/ ~InRange(base)
             amount == IF unknown THEN 0 ELSE limits.maxTotal - base
  <2>1. ApplyTotalExposure(b, state, limits)
          = Ration(b, "max_total_exposure", "buy", Shared(amount), Common(b), BuyNotionals(b, state))
    BY Zenon DEF ApplyTotalExposure
  <2>2. base = Total(ExistingOf, Uids)
    BY BaselineIs
  <2>3. amount = TotalRoom
    BY <2>2, Zenon DEF TotalRoom
  <2> HIDE DEF amount
  <2> QED BY <2>1, <2>3
<1>7. ASSUME NEW b
      PROVE  /\ ApplyPositionNotional(b, state, limits)
                  = Ration(b, "max_position_notional", "buy", PositionRoom, PerInstrument(b), BuyNotionals(b, state))
             /\ ApplyCashFloor(b, state, limits)
                  = Ration(b, "cash_floor", "buy", Shared(CashRoom), Common(b), BuyCosts(b))
             /\ ApplyOversell(b, state)
                  = Ration(b, "oversell", "sell", Sellable(state), PerInstrument(b), SellLots(b))
  <2>1. ApplyPositionNotional(b, state, limits)
          = Ration(b, "max_position_notional", "buy", PositionRoom, PerInstrument(b), BuyNotionals(b, state))
    BY Zenon DEF ApplyPositionNotional, PositionRoom
  <2>2. ApplyCashFloor(b, state, limits) = Ration(b, "cash_floor", "buy", Shared(CashRoom), Common(b), BuyCosts(b))
    BY Zenon DEF ApplyCashFloor, CashRoom, BuyCosts
  <2>3. ApplyOversell(b, state) = Ration(b, "oversell", "sell", Sellable(state), PerInstrument(b), SellLots(b))
    BY Zenon DEF ApplyOversell, SellLots
  <2> QED BY <2>1, <2>2, <2>3
<1> QED BY <1>1, <1>2, <1>5, <1>6, <1>7

LEMMA RulesRationable ==
  ASSUME AccountOK, NEW b, BatchOK(b)
  PROVE  /\ Rationable(b, N, "buy", Uids, PositionRoom, PerInstrument(b), BuyNotionals(b, state))
         /\ Rationable(b, N, "buy", {"all"}, Shared(TotalRoom), Common(b), BuyNotionals(b, state))
         /\ Rationable(b, N, "buy", {"all"}, Shared(CashRoom), Common(b), BuyCosts(b))
         /\ Rationable(b, N, "sell", Uids, Sellable(state), PerInstrument(b), SellLots(b))
<1>1. N \in Nat /\ b \in BatchOf(N)
  BY DEF BatchOK
<1>2. PerInstrument(b) \in [1..N -> Uids]
  BY BatchMeans
<1>3. Common(b) \in [1..N -> {"all"}]
  BY CommonAccount, 0 \in Int
<1>4. Costs(BuyNotionals(b, state), b, N) /\ Costs(BuyCosts(b), b, N) /\ Costs(SellLots(b), b, N)
  BY CostFunctions
<1>5. /\ \A j \in Those(b, {"buy"}) : b.dec[j].qty > 0
      /\ \A j \in Those(b, {"sell"}) : b.dec[j].qty > 0
  BY PositiveQty
<1> QED BY <1>1, <1>2, <1>3, <1>4, <1>5, RulesRation DEF Rationable

\* The same rule on a batch and on its mirror image.
LEMMA SizesMirror ==
  ASSUME AccountOK, NEW b, BatchOK(b), NEW c, NEW m, NEW f, Mirrors(c, m, b, N, f)
  PROVE  Mirrors(Sizes(c, state, limits), m, Sizes(b, state, limits), N, f)
<1> DEFINE n == N
           c1 == ApplyPositionNotional(c, state, limits)
           b1 == ApplyPositionNotional(b, state, limits)
           c2 == ApplyTotalExposure(c1, state, limits)
           b2 == ApplyTotalExposure(b1, state, limits)
           c3 == ApplyCashFloor(c2, state, limits)
           b3 == ApplyCashFloor(b2, state, limits)
           c4 == ApplyOversell(c3, state)
           b4 == ApplyOversell(b3, state)
<1>1. Sizes(c, state, limits) = c4 /\ Sizes(b, state, limits) = b4
  BY Zenon DEF Sizes
<1>2. {"max_position_notional", "max_total_exposure", "cash_floor", "oversell"} \subseteq RuleNames
  BY DEF RuleNames
<1>3. ASSUME NEW x, NEW y, Mirrors(x, m, y, n, f), BatchOK(y)
      PROVE  Mirrors(ApplyPositionNotional(x, state, limits), m, ApplyPositionNotional(y, state, limits), n, f)
  <2>1. Rationable(y, n, "buy", Uids, PositionRoom, PerInstrument(y), BuyNotionals(y, state))
    BY <1>3, RulesRationable
  <2>2. \A k \in 1..m : PerInstrument(x)[k] = PerInstrument(y)[f[k]] /\ BuyNotionals(x, state)[k] = BuyNotionals(y, state)[f[k]]
    BY <1>3, MirrorQuotes
  <2> HIDE DEF n
  <2>3. Mirrors(Ration(x, "max_position_notional", "buy", PositionRoom, PerInstrument(x), BuyNotionals(x, state)), m,
                Ration(y, "max_position_notional", "buy", PositionRoom, PerInstrument(y), BuyNotionals(y, state)), n, f)
    BY <1>2, <1>3, <2>1, <2>2, RationMirrors
  <2> QED BY <2>3, RulesRation
<1>4. ASSUME NEW x, NEW y, Mirrors(x, m, y, n, f), BatchOK(y)
      PROVE  Mirrors(ApplyTotalExposure(x, state, limits), m, ApplyTotalExposure(y, state, limits), n, f)
  <2>1. Rationable(y, n, "buy", {"all"}, Shared(TotalRoom), Common(y), BuyNotionals(y, state))
    BY <1>4, RulesRationable
  <2>2. \A k \in 1..m : Common(x)[k] = Common(y)[f[k]] /\ BuyNotionals(x, state)[k] = BuyNotionals(y, state)[f[k]]
    BY <1>4, MirrorQuotes
  <2> HIDE DEF n
  <2>3. Mirrors(Ration(x, "max_total_exposure", "buy", Shared(TotalRoom), Common(x), BuyNotionals(x, state)), m,
                Ration(y, "max_total_exposure", "buy", Shared(TotalRoom), Common(y), BuyNotionals(y, state)), n, f)
    BY <1>2, <1>4, <2>1, <2>2, RationMirrors
  <2> QED BY <2>3, RulesRation
<1>5. ASSUME NEW x, NEW y, Mirrors(x, m, y, n, f), BatchOK(y)
      PROVE  Mirrors(ApplyCashFloor(x, state, limits), m, ApplyCashFloor(y, state, limits), n, f)
  <2>1. Rationable(y, n, "buy", {"all"}, Shared(CashRoom), Common(y), BuyCosts(y))
    BY <1>5, RulesRationable
  <2>2. \A k \in 1..m : Common(x)[k] = Common(y)[f[k]] /\ BuyCosts(x)[k] = BuyCosts(y)[f[k]]
    BY <1>5, MirrorQuotes
  <2> HIDE DEF n
  <2>3. Mirrors(Ration(x, "cash_floor", "buy", Shared(CashRoom), Common(x), BuyCosts(x)), m,
                Ration(y, "cash_floor", "buy", Shared(CashRoom), Common(y), BuyCosts(y)), n, f)
    BY <1>2, <1>5, <2>1, <2>2, RationMirrors
  <2> QED BY <2>3, RulesRation
<1>6. ASSUME NEW x, NEW y, Mirrors(x, m, y, n, f), BatchOK(y)
      PROVE  Mirrors(ApplyOversell(x, state), m, ApplyOversell(y, state), n, f)
  <2>1. Rationable(y, n, "sell", Uids, Sellable(state), PerInstrument(y), SellLots(y))
    BY <1>6, RulesRationable
  <2>2. \A k \in 1..m : PerInstrument(x)[k] = PerInstrument(y)[f[k]] /\ SellLots(x)[k] = SellLots(y)[f[k]]
    BY <1>6, MirrorQuotes
  <2> HIDE DEF n
  <2>3. Mirrors(Ration(x, "oversell", "sell", Sellable(state), PerInstrument(x), SellLots(x)), m,
                Ration(y, "oversell", "sell", Sellable(state), PerInstrument(y), SellLots(y)), n, f)
    BY <1>2, <1>6, <2>1, <2>2, RationMirrors
  <2> QED BY <2>3, RulesRation
<1>7. Mirrors(c1, m, b1, n, f) /\ BatchOK(b1)
  BY <1>3, PositionEffect
<1> HIDE DEF c1, b1
<1>8. Mirrors(c2, m, b2, n, f) /\ BatchOK(b2)
  BY <1>4, <1>7, ExposureEffect
<1> HIDE DEF c2, b2
<1>9. Mirrors(c3, m, b3, n, f) /\ BatchOK(b3)
  BY <1>5, <1>8, CashEffect
<1> HIDE DEF c3, b3
<1>10. Mirrors(c4, m, b4, n, f)
  BY <1>6, <1>9
<1> QED BY <1>1, <1>10 DEF n

LEMMA CapsMirror ==
  ASSUME NEW c, NEW m, NEW b, NEW n, NEW f, Mirrors(c, m, b, n, f), NEW s, NEW lim
  PROVE  Mirrors(Caps(c, s, lim), m, Caps(b, s, lim), n, f)
<1> DEFINE c1 == ApplyOrderCap(c, lim.perCycle, "max_orders_per_cycle")
           b1 == ApplyOrderCap(b, lim.perCycle, "max_orders_per_cycle")
<1>1. /\ Caps(c, s, lim) = ApplyOrderCap(c1, lim.perDay - s.ordersToday, "max_orders_per_day")
      /\ Caps(b, s, lim) = ApplyOrderCap(b1, lim.perDay - s.ordersToday, "max_orders_per_day")
  BY Zenon DEF Caps
<1>2. "max_orders_per_cycle" \in RuleNames /\ "max_orders_per_day" \in RuleNames
  BY DEF RuleNames
<1>3. Mirrors(c1, m, b1, n, f)
  BY <1>2, CapMirrors
<1> HIDE DEF c1, b1
<1> QED BY <1>1, <1>2, <1>3, CapMirrors

\* The gates and the caps keep a batch one of the check.
LEMMA GatesThin ==
  ASSUME NEW b, BatchOK(b)
  PROVE  /\ BatchOK(Gates(b, state, limits)) /\ Gates(b, state, limits).dec = b.dec
         /\ Gates(b, state, limits).live \subseteq b.live
         /\ BatchOK(Caps(b, state, limits)) /\ Caps(b, state, limits).dec = b.dec
         /\ Caps(b, state, limits).live \subseteq b.live
<1> DEFINE s == state
           l == limits
           b1 == ApplyKillSwitch(b, s, l)
           b2 == ApplyOperationalHalt(b1, s)
           b3 == ApplyAllowlist(b2, s, l)
           b4 == ApplyCurrencyMismatch(b3, s)
           b5 == ApplyOrderCap(b, l.perCycle, "max_orders_per_cycle")
           b6 == ApplyOrderCap(b5, l.perDay - s.ordersToday, "max_orders_per_day")
<1>1. Gates(b, s, l) = b4 /\ Caps(b, s, l) = b6
  BY Zenon DEF Gates, Caps
<1>2. "max_orders_per_cycle" \in RuleNames /\ "max_orders_per_day" \in RuleNames
  BY DEF RuleNames
<1>3. ASSUME NEW x, NEW y, BatchOK(x), Thinned(x, y, N)
      PROVE  BatchOK(y) /\ y.dec = x.dec /\ y.live \subseteq x.live
  BY <1>3, ThinnedOK DEF Thinned
<1>4. \A x : BatchOK(x) => N \in Nat /\ x \in BatchOf(N)
  BY DEF BatchOK
<1> HIDE DEF b6, b5, b4, b3, b2, b1
<1>5. BatchOK(b1) /\ b1.dec = b.dec /\ b1.live \subseteq b.live
  BY <1>3, <1>4, GateEffects DEF b1
<1>6. BatchOK(b2) /\ b2.dec = b1.dec /\ b2.live \subseteq b1.live
  BY <1>3, <1>4, <1>5, GateEffects DEF b2
<1>7. BatchOK(b3) /\ b3.dec = b2.dec /\ b3.live \subseteq b2.live
  BY <1>3, <1>4, <1>6, GateEffects DEF b3
<1>8. BatchOK(b4) /\ b4.dec = b3.dec /\ b4.live \subseteq b3.live
  BY <1>3, <1>4, <1>7, GateEffects DEF b4
<1>9. BatchOK(b5) /\ b5.dec = b.dec /\ b5.live \subseteq b.live
  BY <1>2, <1>3, <1>4, GateEffects DEF b5
<1>10. BatchOK(b6) /\ b6.dec = b5.dec /\ b6.live \subseteq b5.live
  BY <1>2, <1>3, <1>4, <1>9, GateEffects DEF b6
<1> QED BY <1>1, <1>5, <1>6, <1>7, <1>8, <1>9, <1>10

\* Checking what a batch allows is checking the batch.
LEMMA PackedAlike ==
  ASSUME AccountOK, NEW b, BatchOK(b)
  PROVE  Allowed(Check(Allowed(b), state, limits))
           = Allowed(Sizes(Caps(Gates(b, state, limits), state, limits), state, limits))
<1> DEFINE c == Batch(Allowed(b))
           m == Cardinality(b.live)
           f == InOrder(b.live)
           c1 == Gates(c, state, limits)
           b1 == Gates(b, state, limits)
           c2 == Caps(c1, state, limits)
           b2 == Caps(b1, state, limits)
           c3 == Sizes(c2, state, limits)
           b3 == Sizes(b2, state, limits)
<1>1. Mirrors(c, m, b, N, f)
  <2>1. N \in Nat /\ b \in BatchOf(N)
    BY DEF BatchOK
  <2> HIDE DEF N
  <2> QED BY <2>1, PackedMirrors
<1>2. Check(Allowed(b), state, limits) = c3
  BY Zenon DEF Check
<1> HIDE DEF c, m, f
<1>3. Mirrors(c1, m, b1, N, f) /\ BatchOK(b1)
  BY <1>1, GatesMirror, GatesThin
<1> HIDE DEF c1, b1
<1>4. Mirrors(c2, m, b2, N, f) /\ BatchOK(b2)
  BY <1>3, CapsMirror, GatesThin
<1> HIDE DEF c2, b2
<1>5. Mirrors(c3, m, b3, N, f)
  BY <1>4, SizesMirror
<1> HIDE DEF c3
<1>6. Allowed(b3) = Allowed(c3)
  BY <1>5, AllowedMirrors
<1> QED BY <1>2, <1>6 DEF b2, b1

-----------------------------------------------------------------------------
(* A rule has nothing more to say to what it has let through *)

LEMMA StripNothing ==
  ASSUME NEW n \in Nat, NEW b \in BatchOf(n), NEW r \in RuleNames
  PROVE  Strip(b, {}, r) = b
<1> DEFINE c == Strip(b, {}, r)
           log == b.log
<1>1. Stripped(b, {}, r, n, c)
  BY StripEffect
<1>2. Strips({}, r) = <<>>
  <2>1. Cardinality({}) = 0
    BY FS_EmptySet
  <2>2. 1..0 = {}
    OBVIOUS
  <2> QED BY <2>1, <2>2 DEF Strips
<1> HIDE DEF c
<1>3. c \in BatchOf(n) /\ c.dec = b.dec /\ c.live = b.live \ {} /\ c.log = b.log \o Strips({}, r)
  BY <1>1 DEF Stripped
<1>4. b.log \o <<>> = b.log
  <2>1. log \in Seq(Entry(n))
    BY DEF BatchOf
  <2> HIDE DEF log
  <2>2. log \o <<>> = log
    BY <2>1
  <2> QED BY <2>2 DEF log
<1>5. c.log = b.log /\ c.live = b.live
  BY <1>2, <1>3, <1>4
<1>6. c = b
  BY <1>3, <1>5 DEF BatchOf
<1> QED BY <1>6 DEF c

\* No live decision is one that a gate turns away.
Open(b) ==
  /\ KillSwitchEngaged(state, limits) => Those(b, {"buy", "hold"}) = {}
  /\ state.halted => Those(b, {"buy"}) = {}
  /\ limits.allowlist # {} => \A i \in Those(b, {"buy"}) : Listed(b.dec[i].uid, state, limits)
  /\ \A i \in Those(b, Orders) : b.dec[i].uid \in DOMAIN state.info => state.info[b.dec[i].uid].currency = state.base

LEMMA OpenIdle ==
  ASSUME NEW b, BatchOK(b), Open(b)
  PROVE  Gates(b, state, limits) = b
<1>1. \A r \in RuleNames : Strip(b, {}, r) = b
  BY StripNothing DEF BatchOK
<1>2. {"daily_loss_kill_switch", "operational_halt", "allowlist", "currency_mismatch"} \subseteq RuleNames
  BY DEF RuleNames
<1>3. ApplyKillSwitch(b, state, limits) = b
  BY <1>1, <1>2 DEF ApplyKillSwitch, Open
<1>4. ApplyOperationalHalt(b, state) = b
  BY <1>1, <1>2 DEF ApplyOperationalHalt, Open
<1>5. ApplyAllowlist(b, state, limits) = b
  <2> DEFINE S == {i \in Those(b, {"buy"}) : ~Listed(b.dec[i].uid, state, limits)}
  <2>1. limits.allowlist # {} => S = {}
    BY DEF Open
  <2>2. ApplyAllowlist(b, state, limits) = IF limits.allowlist = {} THEN b ELSE Strip(b, S, "allowlist")
    BY DEF ApplyAllowlist
  <2> HIDE DEF S
  <2> QED BY <1>1, <1>2, <2>1, <2>2
<1>6. ApplyCurrencyMismatch(b, state) = b
  <2> DEFINE S == {i \in Those(b, Orders) : /\ b.dec[i].uid \in DOMAIN state.info
                                            /\ state.info[b.dec[i].uid].currency # state.base}
  <2>1. S = {}
    BY DEF Open
  <2>2. ApplyCurrencyMismatch(b, state) = Strip(b, S, "currency_mismatch")
    BY DEF ApplyCurrencyMismatch
  <2> HIDE DEF S
  <2> QED BY <1>1, <1>2, <2>1, <2>2
<1> QED BY <1>3, <1>4, <1>5, <1>6, Zenon DEF Gates

LEMMA OpenStays ==
  ASSUME NEW b, BatchOK(b), Open(b), NEW c, BatchOK(c), c.live \subseteq b.live
  PROVE  Open(c)
<1>1. \A i \in 1..N : c.dec[i].action = b.dec[i].action /\ c.dec[i].uid = b.dec[i].uid
  BY BatchMeans
<1>2. c.live \in SUBSET (1..N)
  BY BatchMeans
<1>3. \A A : Those(c, A) \subseteq Those(b, A)
  BY <1>1, <1>2 DEF Those
<1>4. \A A : \A i \in Those(c, A) : c.dec[i].uid = b.dec[i].uid
  BY <1>1, <1>2 DEF Those
<1>5. /\ KillSwitchEngaged(state, limits) => Those(c, {"buy", "hold"}) = {}
      /\ state.halted => Those(c, {"buy"}) = {}
  BY <1>3 DEF Open
<1>6. limits.allowlist # {} => \A i \in Those(c, {"buy"}) : Listed(c.dec[i].uid, state, limits)
  BY <1>3, <1>4, Zenon DEF Open
<1>7. \A i \in Those(c, Orders) : c.dec[i].uid \in DOMAIN state.info => state.info[c.dec[i].uid].currency = state.base
  BY <1>3, <1>4 DEF Open
<1> QED BY <1>5, <1>6, <1>7, Zenon DEF Open

\* What a gate turns away is part of what is alive.
PartOf(S, x) == S \in SUBSET x.live

LEMMA StripOK ==
  ASSUME NEW x, BatchOK(x), NEW S, PartOf(S, x), NEW r, r \in RuleNames, NEW y, y = Strip(x, S, r)
  PROVE  BatchOK(y) /\ y.dec = x.dec /\ y.live = x.live \ S
<1>1. N \in Nat /\ x \in BatchOf(N)
  BY DEF BatchOK
<1>2. Thinned(x, y, N) /\ y.live = x.live \ S
  BY <1>1, StripThins DEF PartOf
<1> QED BY <1>2, ThinnedOK DEF Thinned

LEMMA GatesOpen ==
  ASSUME NEW b, BatchOK(b)
  PROVE  Open(Gates(b, state, limits))
<1> DEFINE s == state
           l == limits
           b1 == ApplyKillSwitch(b, s, l)
           b2 == ApplyOperationalHalt(b1, s)
           b3 == ApplyAllowlist(b2, s, l)
           b4 == ApplyCurrencyMismatch(b3, s)
           Out(x) == {i \in Those(x, {"buy"}) : ~Listed(x.dec[i].uid, s, l)}
           Foreign(x) == {i \in Those(x, Orders) : x.dec[i].uid \in DOMAIN s.info /\ s.info[x.dec[i].uid].currency # s.base}
<1>1. Gates(b, s, l) = b4
  BY Zenon DEF Gates
<1>3. /\ "daily_loss_kill_switch" \in RuleNames /\ "operational_halt" \in RuleNames
      /\ "allowlist" \in RuleNames /\ "currency_mismatch" \in RuleNames
  BY DEF RuleNames
<1>4. \A x, A : Those(x, A) \in SUBSET x.live
  BY DEF Those
<1>5. \A x : Out(x) \in SUBSET x.live /\ Foreign(x) \in SUBSET x.live
  BY DEF Those
<1>6. \A x : ApplyAllowlist(x, s, l) = IF l.allowlist = {} THEN x ELSE Strip(x, Out(x), "allowlist")
  BY DEF ApplyAllowlist
<1>7. \A x : ApplyCurrencyMismatch(x, s) = Strip(x, Foreign(x), "currency_mismatch")
  BY DEF ApplyCurrencyMismatch
<1> HIDE DEF b4, b3, b2, b1, Out, Foreign
<1>8. /\ BatchOK(b1) /\ b1.dec = b.dec
      /\ b1.live = IF KillSwitchEngaged(s, l) THEN b.live \ Those(b, {"buy", "hold"}) ELSE b.live
  <2>1. CASE KillSwitchEngaged(s, l)
    <3> DEFINE S == Those(b, {"buy", "hold"})
               r == "daily_loss_kill_switch"
    <3>1. b1 = Strip(b, S, r)
      BY <2>1 DEF b1, ApplyKillSwitch
    <3>2. PartOf(S, b) /\ r \in RuleNames
      BY <1>3, <1>4 DEF PartOf
    <3> HIDE DEF S, r
    <3>3. BatchOK(b1) /\ b1.dec = b.dec /\ b1.live = b.live \ S
      BY <3>1, <3>2, StripOK
    <3> QED BY <2>1, <3>3 DEF S
  <2>2. CASE ~KillSwitchEngaged(s, l)
    BY <2>2 DEF b1, ApplyKillSwitch
  <2> QED BY <2>1, <2>2
<1>9. /\ BatchOK(b2) /\ b2.dec = b1.dec
      /\ b2.live = IF s.halted THEN b1.live \ Those(b1, {"buy"}) ELSE b1.live
  <2>1. CASE s.halted
    <3> DEFINE S == Those(b1, {"buy"})
               r == "operational_halt"
    <3>1. b2 = Strip(b1, S, r)
      BY <2>1 DEF b2, ApplyOperationalHalt
    <3>2. PartOf(S, b1) /\ r \in RuleNames
      BY <1>3, <1>4 DEF PartOf
    <3> HIDE DEF S, r
    <3>3. BatchOK(b1)
      BY <1>8
    <3>4. BatchOK(b2) /\ b2.dec = b1.dec /\ b2.live = b1.live \ S
      BY <3>1, <3>2, <3>3, StripOK
    <3> QED BY <2>1, <3>4 DEF S
  <2>2. CASE ~s.halted
    BY <1>8, <2>2 DEF b2, ApplyOperationalHalt
  <2> QED BY <2>1, <2>2
<1>10. /\ BatchOK(b3) /\ b3.dec = b2.dec
       /\ b3.live = IF l.allowlist = {} THEN b2.live ELSE b2.live \ Out(b2)
  <2>1. CASE l.allowlist # {}
    <3> DEFINE r == "allowlist"
               S == Out(b2)
    <3>1. b3 = Strip(b2, S, r)
      BY <1>6, <2>1 DEF b3
    <3>2. PartOf(S, b2) /\ r \in RuleNames
      BY <1>3, <1>5 DEF PartOf
    <3> HIDE DEF r, S
    <3>3. BatchOK(b2)
      BY <1>9
    <3>4. BatchOK(b3) /\ b3.dec = b2.dec /\ b3.live = b2.live \ S
      BY <3>1, <3>2, <3>3, StripOK
    <3> QED BY <2>1, <3>4 DEF S
  <2>2. CASE l.allowlist = {}
    BY <1>6, <1>9, <2>2 DEF b3
  <2> QED BY <2>1, <2>2
<1>11. /\ BatchOK(b4) /\ b4.dec = b3.dec /\ b4.live = b3.live \ Foreign(b3)
  <2> DEFINE r == "currency_mismatch"
             S == Foreign(b3)
  <2>1. b4 = Strip(b3, S, r)
    BY <1>7 DEF b4
  <2>2. PartOf(S, b3) /\ r \in RuleNames
    BY <1>3, <1>5 DEF PartOf
  <2>3. BatchOK(b3)
    BY <1>10
  <2> HIDE DEF r, S
  <2>4. BatchOK(b4) /\ b4.dec = b3.dec /\ b4.live = b3.live \ S
    BY <2>1, <2>2, <2>3, StripOK
  <2> QED BY <2>4 DEF S
<1>12. b1.dec = b.dec /\ b2.dec = b.dec /\ b3.dec = b.dec /\ b4.dec = b.dec
  BY <1>8, <1>9, <1>10, <1>11
<1>13. KillSwitchEngaged(s, l) => Those(b4, {"buy", "hold"}) = {}
  BY <1>8, <1>9, <1>10, <1>11, <1>12 DEF Those
<1>14. s.halted => Those(b4, {"buy"}) = {}
  BY <1>9, <1>10, <1>11, <1>12 DEF Those
<1>15. l.allowlist # {} => \A i \in Those(b4, {"buy"}) : Listed(b4.dec[i].uid, s, l)
  BY <1>10, <1>11, <1>12 DEF Those, Out
<1>16. \A i \in Those(b4, Orders) : b4.dec[i].uid \in DOMAIN s.info => s.info[b4.dec[i].uid].currency = s.base
  BY <1>11, <1>12 DEF Those, Foreign
<1> QED BY <1>1, <1>13, <1>14, <1>15, <1>16 DEF Open

LEMMA CapIdle ==
  ASSUME NEW n \in Nat, NEW b \in BatchOf(n), NEW cap \in Int, NEW r \in RuleNames,
         Those(b, Orders) = {} \/ Cardinality(Those(b, Orders)) <= cap
  PROVE  ApplyOrderCap(b, cap, r) = b
<1> DEFINE orders == Those(b, Orders)
           S == {i \in orders : Cardinality({j \in orders : j < i}) >= cap}
<1>1. IsFiniteSet(orders) /\ orders \in SUBSET Int
  <2>1. IsFiniteSet(1..n)
    BY FS_Interval
  <2>2. orders \in SUBSET (1..n)
    BY DEF Those, BatchOf
  <2> HIDE DEF orders
  <2>3. IsFiniteSet(orders)
    BY <2>1, <2>2, FS_Subset
  <2> QED BY <2>2, <2>3
<1>2. ApplyOrderCap(b, cap, r) = Strip(b, S, r)
  BY Zenon DEF ApplyOrderCap
<1>3. S = {}
  <2> HIDE DEF orders
  <2> SUFFICES ASSUME NEW i \in orders PROVE ~(Cardinality({j \in orders : j < i}) >= cap)
    OBVIOUS
  <2> DEFINE A == {j \in orders : j < i}
             R == orders \ {i}
  <2>1. A \in SUBSET R
    BY <1>1
  <2>2. IsFiniteSet(R) /\ Cardinality(R) = Cardinality(orders) - 1 /\ Cardinality(orders) \in Nat
    BY <1>1, FS_RemoveElement, FS_CardinalityType
  <2> HIDE DEF A, R
  <2>3. Cardinality(A) <= Cardinality(R) /\ Cardinality(A) \in Nat
    BY <2>1, <2>2, FS_Subset, FS_CardinalityType
  <2>4. Cardinality(orders) <= cap
    BY DEF orders
  <2>5. ~(Cardinality(A) >= cap)
    BY <2>2, <2>3, <2>4
  <2> QED BY <2>5 DEF A
<1> HIDE DEF S
<1> QED BY <1>2, <1>3, StripNothing

\* The orders have room within the caps.
Capped(b) ==
  \/ Those(b, Orders) = {}
  \/ /\ Cardinality(Those(b, Orders)) <= limits.perCycle
     /\ Cardinality(Those(b, Orders)) <= limits.perDay - state.ordersToday

LEMMA CapsIdle ==
  ASSUME AccountOK, NEW b, BatchOK(b), Capped(b)
  PROVE  Caps(b, state, limits) = b
<1>1. limits.perCycle \in Int /\ limits.perDay - state.ordersToday \in Int
  BY DEF AccountOK
<1>2. "max_orders_per_cycle" \in RuleNames /\ "max_orders_per_day" \in RuleNames
  BY DEF RuleNames
<1>3. N \in Nat /\ b \in BatchOf(N)
  BY DEF BatchOK
<1> DEFINE day == limits.perDay - state.ordersToday
           n == N
<1>4. /\ Those(b, Orders) = {} \/ Cardinality(Those(b, Orders)) <= limits.perCycle
      /\ Those(b, Orders) = {} \/ Cardinality(Those(b, Orders)) <= day
  BY DEF Capped
<1>5. n \in Nat /\ b \in BatchOf(n) /\ day \in Int
  BY <1>1, <1>3
<1>6. Caps(b, state, limits)
        = ApplyOrderCap(ApplyOrderCap(b, limits.perCycle, "max_orders_per_cycle"), day, "max_orders_per_day")
  BY Zenon DEF Caps
<1> HIDE DEF day, n
<1>7. ApplyOrderCap(b, limits.perCycle, "max_orders_per_cycle") = b
  BY <1>1, <1>2, <1>4, <1>5, CapIdle
<1>8. ApplyOrderCap(b, day, "max_orders_per_day") = b
  BY <1>2, <1>4, <1>5, CapIdle
<1> QED BY <1>6, <1>7, <1>8

LEMMA CapsCap ==
  ASSUME AccountOK, NEW b, BatchOK(b)
  PROVE  Capped(Caps(b, state, limits))
<1> DEFINE n == N
           day == limits.perDay - state.ordersToday
           c == ApplyOrderCap(b, limits.perCycle, "max_orders_per_cycle")
           d == ApplyOrderCap(c, day, "max_orders_per_day")
<1>1. limits.perCycle \in Int /\ day \in Int
  BY DEF AccountOK
<1>2. "max_orders_per_cycle" \in RuleNames /\ "max_orders_per_day" \in RuleNames
  BY DEF RuleNames
<1>3. n \in Nat /\ b \in BatchOf(n)
  BY DEF BatchOK
<1>4. Caps(b, state, limits) = d
  BY Zenon DEF Caps
<1> HIDE DEF n, day
<1>5. c \in BatchOf(n) /\ (Those(c, Orders) = {} \/ Cardinality(Those(c, Orders)) <= limits.perCycle)
  BY <1>1, <1>2, <1>3, GateEffects, CapCounts DEF Thinned
<1> HIDE DEF c
<1>6. /\ Thinned(c, d, n)
      /\ Those(d, Orders) = {} \/ Cardinality(Those(d, Orders)) <= day
  BY <1>1, <1>2, <1>3, <1>5, GateEffects, CapCounts
<1> HIDE DEF d
<1>7. Those(d, Orders) \subseteq Those(c, Orders)
  BY <1>6 DEF Thinned, Those
<1>8. IsFiniteSet(Those(c, Orders))
  <2>1. IsFiniteSet(1..n)
    BY <1>3, FS_Interval
  <2>2. Those(c, Orders) \in SUBSET (1..n)
    BY <1>5 DEF Those, BatchOf
  <2> QED BY <2>1, <2>2, FS_Subset
<1>9. /\ Cardinality(Those(d, Orders)) <= Cardinality(Those(c, Orders))
      /\ Cardinality(Those(d, Orders)) \in Nat /\ Cardinality(Those(c, Orders)) \in Nat
  BY <1>7, <1>8, FS_Subset, FS_CardinalityType
<1>10. Those(c, Orders) = {} => Those(d, Orders) = {}
  BY <1>7
<1> QED BY <1>1, <1>4, <1>5, <1>6, <1>9, <1>10 DEF Capped, day

LEMMA CappedStays ==
  ASSUME AccountOK, NEW b, BatchOK(b), Capped(b), NEW c, BatchOK(c), Shrinks(b, c)
  PROVE  Capped(c)
<1>1. Those(c, Orders) \subseteq Those(b, Orders)
  BY ShrinksFurther
<1>2. IsFiniteSet(Those(b, Orders))
  <2>1. IsFiniteSet(1..N) /\ b.live \in SUBSET (1..N)
    BY BatchMeans
  <2>2. Those(b, Orders) \in SUBSET (1..N)
    BY <2>1 DEF Those
  <2> QED BY <2>1, <2>2, FS_Subset
<1>3. /\ Cardinality(Those(c, Orders)) <= Cardinality(Those(b, Orders))
      /\ Cardinality(Those(c, Orders)) \in Nat /\ Cardinality(Those(b, Orders)) \in Nat
  BY <1>1, <1>2, FS_Subset, FS_CardinalityType
<1>4. limits.perCycle \in Int /\ limits.perDay - state.ordersToday \in Int
  BY DEF AccountOK
<1> QED BY <1>1, <1>3, <1>4 DEF Capped

\* Every decision that the rule rations can be paid beside all the others: w is what each costs.
Affords(b, n, action, budget, account, cost, w) ==
  /\ \A j \in 1..n : w[j] \in Nat /\ (j \notin Those(b, {action}) => w[j] = 0)
  /\ \A j \in Those(b, {action}) :
       /\ \A x \in cost[j][b.dec[j].qty] : x = w[j]
       /\ \A k \in 1..b.dec[j].qty : \E x \in cost[j][k] : x <= w[j]
       /\ Total(w, Sharing(account, n, account[j])) <= budget[account[j]]

LEMMA RationIdle ==
  ASSUME NEW b, NEW n, NEW action, NEW accounts, NEW budget, NEW account, NEW cost,
         Rationable(b, n, action, accounts, budget, account, cost),
         NEW w, Affords(b, n, action, budget, account, cost, w), NEW r \in RuleNames
  PROVE  Ration(b, r, action, budget, account, cost) = b
<1>1. /\ n \in Nat /\ b \in BatchOf(n) /\ budget \in [accounts -> Int] /\ account \in [1..n -> accounts]
      /\ Costs(cost, b, n)
      /\ \A j \in Those(b, {action}) : b.dec[j].qty > 0
  BY DEF Rationable
<1>2. PICK acc : /\ Runs(acc, b, n, r, action, budget, account, cost)
                 /\ Ration(b, r, action, budget, account, cost) = acc[n].batch
  BY <1>1, RationRuns
<1>3. acc[0] = [batch |-> b, left |-> budget] /\ \A k \in 1..n : acc[k] = Give(acc[k - 1], k, r, action, account, cost)
  BY <1>2 DEF Runs
<1>4. \A i \in 1..n : Drawn(b, action, cost, i) = w[i] /\ Draws(b, n, action, cost)[i] = w[i] /\ w[i] \in Nat
  <2> SUFFICES ASSUME NEW i \in 1..n PROVE Drawn(b, action, cost, i) = w[i]
    BY DEF Draws, Affords
  <2>1. CASE i \notin Those(b, {action})
    BY <2>1 DEF Drawn, Affords
  <2>2. CASE i \in Those(b, {action})
    <3> DEFINE q == b.dec[i].qty
               s == cost[i][q]
    <3>1. q \in Nat /\ q > 0
      BY <1>1, <2>2 DEF BatchOf, Proposal
    <3>2. (\A x \in s : x = w[i]) /\ (\E x \in s : TRUE)
      <4>1. \A k \in 1..q : \E x \in cost[i][k] : x <= w[i]
        BY <2>2 DEF Affords
      <4>2. q \in 1..q
        BY <3>1
      <4>3. \A x \in s : x = w[i]
        BY <2>2 DEF Affords
      <4> HIDE DEF q
      <4> QED BY <4>1, <4>2, <4>3
    <3>3. Drawn(b, action, cost, i) = SumSet(s)
      BY <2>2 DEF Drawn
    <3>4. w[i] \in Int
      BY DEF Affords
    <3> HIDE DEF s
    <3>5. s \in SUBSET Int /\ \A x, y \in s : x = y
      BY <3>2, <3>4
    <3>6. SumSet(s) = w[i]
      BY <3>2, <3>5, KnownCost
    <3> QED BY <3>3, <3>6
  <2> QED BY <2>1, <2>2
<1> DEFINE So(k) == acc[k].batch = b
           P == {k \in Nat : k <= n => So(k)}
<1>5. So(0)
  BY <1>3
<1>6. ASSUME NEW k \in P PROVE k + 1 \in P
  <2> SUFFICES ASSUME k + 1 <= n PROVE So(k + 1)
    OBVIOUS
  <2>1. k \in 0..n /\ k + 1 \in 1..n /\ (k + 1) - 1 = k /\ acc[k].batch = b
    BY <1>1
  <2> DEFINE i == k + 1
             from == acc[k]
             next == Give(from, i, r, action, account, cost)
             a == account[i]
             h == Draws(b, n, action, cost)
             S == Sharing(account, k, a)
             T == Sharing(account, n, a)
  <2>2. acc[i] = next
    BY <1>3, <2>1
  <2>3. SoFar(k, from, b, n, action, budget, account, cost, accounts)
    BY <1>1, <1>2, <2>1, RunsSoFar
  <2>4. from.batch = b /\ from.left \in [accounts -> Int] /\ a \in accounts /\ from.left[a] = budget[a] - Total(h, S)
    <3>1. from.batch = b /\ a \in accounts
      BY <1>1, <2>1
    <3> HIDE DEF from, a
    <3> QED BY <2>3, <3>1 DEF SoFar
  <2>5. CASE i \notin Those(b, {action})
    <3>1. next = from
      BY <2>4, <2>5, Zenon DEF Give
    <3> QED BY <2>2, <2>4, <3>1
  <2>6. CASE i \in Those(b, {action})
    <3>1. \A m \in 1..b.dec[i].qty : \E x \in cost[i][m] : x <= w[i]
      BY <2>6 DEF Affords
    <3>2. Total(w, T) <= budget[a] /\ budget[a] \in Int
      BY <1>1, <2>4, <2>6 DEF Affords
    <3>3. /\ IsFiniteSet(S) /\ S \in SUBSET (1..k) /\ i \notin S /\ Sharing(account, i, a) = S \cup {i}
          /\ IsFiniteSet(T) /\ T \in SUBSET (1..n) /\ S \cup {i} \in SUBSET T
      <4>1. SharingGrows(account, k, a) /\ SharingGrows(account, n, a)
        BY <1>1, <2>1, SharingMore
      <4>2. S \cup {i} \in SUBSET T
        <5>1. \A x : x \in 1..n <=> x \in Int /\ 1 <= x /\ x <= n
          BY <1>1
        <5>2. \A x : x \in 1..k <=> x \in Int /\ 1 <= x /\ x <= k
          BY <1>1
        <5>3. \A x \in 1..k : x \in 1..n
          BY <1>1, <2>1, <5>1, <5>2
        <5>4. S \in SUBSET T
          BY <5>3 DEF Sharing
        <5>5. i \in T
          BY <2>1 DEF Sharing
        <5> QED BY <5>4, <5>5
      <4>3. IsFiniteSet(T) /\ T \in SUBSET (1..n)
        BY <4>1, Zenon DEF SharingGrows
      <4>4. IsFiniteSet(S) /\ S \in SUBSET (1..k) /\ i \notin S
        BY <4>1, Zenon DEF SharingGrows
      <4>5. Sharing(account, i, a) = S \cup {i}
        BY <4>1, Zenon DEF SharingGrows
      <4> QED BY <4>2, <4>3, <4>4, <4>5
    <3> HIDE DEF S, T, a, h, i
    <3>4. i \in 1..n /\ \A x \in 1..n : w[x] \in Nat /\ h[x] = w[x]
      BY <1>4, <2>1 DEF i, h
    <3>5. IntsOn(w, S \cup {i}) /\ IntsOn(w, T) /\ IntsOn(h, S) /\ \A x \in S : h[x] = w[x]
      BY <3>3, <3>4 DEF IntsOn
    <3>6. Total(h, S) = Total(w, S)
      BY <3>3, <3>5, TotalsAgree
    <3>7. Total(w, S \cup {i}) = Total(w, S) + w[i]
      BY <3>3, <3>5, TotalWith
    <3>8. Total(w, S \cup {i}) <= Total(w, T)
      <4>1. \A x \in S \cup {i} : w[x] <= w[x]
        BY <3>3, <3>4
      <4>2. \A x \in T \ (S \cup {i}) : w[x] >= 0
        BY <3>3, <3>4
      <4> QED BY <3>3, <3>5, <4>1, <4>2, TotalMonotone
    <3>9. Total(w, S) \in Int /\ Total(w, T) \in Int /\ w[i] \in Int
      <4>1. IntsOn(w, S)
        BY <3>5 DEF IntsOn
      <4> QED BY <3>3, <3>4, <3>5, <4>1, TotalType
    <3>10. w[i] <= from.left[a] /\ from.left[a] \in Int
      BY <2>4, <3>2, <3>6, <3>7, <3>8, <3>9
    <3>11. \A m \in 1..b.dec[i].qty : \E x \in cost[i][m] : x <= from.left[account[i]]
      <4> SUFFICES ASSUME NEW m \in 1..b.dec[i].qty PROVE \E x \in cost[i][m] : x <= from.left[a]
        BY DEF a
      <4>1. PICK x \in cost[i][m] : x <= w[i]
        BY <3>1
      <4>2. x \in Int
        <5>1. b.dec[i].qty \in Nat
          BY <1>1, <3>4 DEF BatchOf, Proposal
        <5>2. m \in 0..b.dec[i].qty
          BY <5>1
        <5>3. cost[i][m] \in SUBSET Int
          BY <1>1, <3>4, <5>2 DEF Costs, CostsOf
        <5> QED BY <5>3
      <4> QED BY <3>9, <3>10, <4>1, <4>2
    <3>12. Given(from, i, n, action, account, cost, accounts, next)
      <4> HIDE DEF from, next
      <4>1. from.batch \in BatchOf(n) /\ CostsOf(cost, from.batch, i)
            /\ (i \in Those(from.batch, {action}) => from.batch.dec[i].qty > 0)
        BY <1>1, <2>4, <3>4 DEF Costs
      <4>2. next = Give(from, i, r, action, account, cost)
        BY DEF next
      <4> QED BY <1>1, <2>4, <3>4, <4>1, <4>2, GiveEffect
    <3>13. next.batch = from.batch
      <4> HIDE DEF from, next
      <4>1. (\A m \in 1..from.batch.dec[i].qty : \E x \in cost[i][m] : x <= from.left[account[i]])
              => next.batch = from.batch
        <5>1. GivenTo(from, next.batch, next.left, i, n, action, account, cost, accounts)
          BY <3>12 DEF Given
        <5> QED BY <5>1, ZenonT(60) DEF GivenTo
      <4>2. \A m \in 1..from.batch.dec[i].qty : \E x \in cost[i][m] : x <= from.left[account[i]]
        BY <2>4, <3>11, Zenon
      <4> QED BY <4>1, <4>2, Zenon
    <3> QED BY <2>2, <2>4, <3>13 DEF i
  <2> QED BY <2>5, <2>6
<1>7. P = Nat
  <2>1. 0 \in P /\ P \in SUBSET Nat
    BY <1>5
  <2> HIDE DEF P
  <2> QED BY <1>6, <2>1, SetOfNaturals
<1>8. So(n)
  BY <1>1, <1>7
<1> QED BY <1>2, <1>8

-----------------------------------------------------------------------------
(* What the rules have let through can be paid once more *)

\* A rounded share of an amount, without its rounding.
LEMMA MulBpsIs ==
  ASSUME NEW d \in Nat, NEW bps \in Nat, NEW v, v = MulBps(d, bps)
  PROVE  v \in Nat /\ 10000 * v <= d * bps + 5000 /\ d * bps + 5000 < 10000 * v + 10000
<1> DEFINE x == d * bps
           t == TruncDiv(x, 10000)
           r == TruncRem(x, 10000)
           y == RoundQuotient(r, 10000, "halfAwayFromZero")
<1>1. x \in Nat
  OBVIOUS
<1>2. v = t + y
  BY DEF MulBps, MulRat, AbsOf
<1> HIDE DEF x
<1>3. t \in Nat /\ r \in Nat /\ r < 10000 /\ x = 10000 * t + r
  <2>1. t = x \div 10000 /\ r = x - 10000 * t
    BY <1>1 DEF TruncDiv, TruncRem
  <2> HIDE DEF t, r
  <2>2. x \div 10000 \in Nat /\ x - 10000 * (x \div 10000) >= 0 /\ x - 10000 * (x \div 10000) < 10000
    BY <1>1
  <2> QED BY <1>1, <2>1, <2>2
<1> HIDE DEF t, r
<1>4. y = IF 2 * r >= 10000 THEN 1 ELSE 0
  BY <1>3 DEF RoundQuotient, RoundsAway, SignOf, AbsOf
<1> HIDE DEF y
<1>5. v \in Nat /\ 10000 * v <= x + 5000 /\ x + 5000 < 10000 * v + 10000
  BY <1>2, <1>3, <1>4
<1> QED BY <1>5 DEF x

LEMMA MulBpsMonotone ==
  ASSUME NEW a \in Nat, NEW b \in Nat, a <= b, NEW bps \in Nat
  PROVE  MulBps(a, bps) \in Nat /\ MulBps(b, bps) \in Nat /\ MulBps(a, bps) <= MulBps(b, bps)
<1> DEFINE x == a * bps
           y == b * bps
           v == MulBps(a, bps)
           w == MulBps(b, bps)
<1>1. x \in Nat /\ y \in Nat /\ x <= y
  OBVIOUS
<1>2. v \in Nat /\ 10000 * v <= x + 5000 /\ x + 5000 < 10000 * v + 10000
  <2> HIDE DEF v
  <2>1. v = MulBps(a, bps)
    BY DEF v
  <2> QED BY <2>1, MulBpsIs
<1>3. w \in Nat /\ 10000 * w <= y + 5000 /\ y + 5000 < 10000 * w + 10000
  <2> HIDE DEF w
  <2>1. w = MulBps(b, bps)
    BY DEF w
  <2> QED BY <2>1, MulBpsIs
<1> HIDE DEF x, y, v, w
<1>4. v <= w
  BY <1>1, <1>2, <1>3
<1> QED BY <1>2, <1>3, <1>4 DEF v, w

\* What a decision costs with its fee is known of fewer of its lots as well, and is no more.
LEMMA CheaperLots ==
  ASSUME AccountOK, NEW d \in Proposal, NEW q \in Nat, NEW x \in CostWithFee(d, q, state),
         NEW m \in Nat, m > 0, m <= q
  PROVE  \E y \in CostWithFee(d, m, state) : y <= x
<1>1. d.uid \in DOMAIN state.info
  BY DEF CostWithFee
<1> DEFINE l == LotOf(d.uid, state)
           fee == state.feeBps
<1>2. PICK p \in PriceForBuy(d, state.quotes[d.uid]) :
        \E n \in NotionalOf(q, l, EffectivePrice(d, p, state)) : x \in WithFee(n, state)
  BY <1>1 DEF CostWithFee
<1> DEFINE k == EffectivePrice(d, p, state)
<1>3. PICK n \in NotionalOf(q, l, k) : x \in WithFee(n, state)
  BY <1>2
<1>4. k \in Int
  <2>1. p = Quoted(d) /\ p \in Int
    <3>1. p = Quoted(d)
      BY DEF PriceForBuy, Positive, Quoted
    <3> QED BY <3>1 DEF AccountOK
  <2> DEFINE bps == 10000 + state.slippage
             pad == Padded(p, state)
  <2>2. pad = {z \in {MulBps(p, bps)} : InRange(z)}
    BY DEF Padded
  <2>3. bps \in Nat
    BY DEF AccountOK
  <2> HIDE DEF bps
  <2>4. MulBps(p, bps) \in Int
    BY <2>1, <2>3, MulBpsType
  <2>5. pad \in SUBSET Int /\ \A y, z \in pad : y = z
    BY <2>2, <2>4
  <2>6. k = IF d.type = "market" /\ pad # {} THEN SumSet(pad) ELSE p
    BY DEF EffectivePrice
  <2> HIDE DEF pad, k
  <2>7. SumSet(pad) \in Int
    BY <2>5, KnownCost
  <2> QED BY <2>1, <2>6, <2>7
<1>5. l \in Int /\ fee \in Nat
  BY <1>1 DEF AccountOK
<1>6. x = n + MulBps(n, fee) /\ x <= MaxInt /\ n <= MaxInt
  <2>1. x = n + MulBps(n, fee) /\ InRange(x)
    BY <1>3 DEF WithFee
  <2>2. InRange(n)
    BY <1>3 DEF NotionalOf
  <2> QED BY <2>1, <2>2 DEF InRange
<1> DEFINE y == k * (m * l)
<1>7. \A z : z \in NotionalOf(m, l, k) => \A e \in WithFee(z, state) : e \in CostWithFee(d, m, state)
  BY <1>1, <1>2 DEF CostWithFee
<1> HIDE DEF k, l, fee
<1>8. q \in Int /\ l > 0 /\ k > 0 /\ n = k * (q * l) /\ n \in Nat
  BY <1>3, <1>4, <1>5, NotionalExact
<1>9. y \in NotionalOf(m, l, k) /\ y \in Nat /\ y <= n
  <2>1. m \in Nat \ {0} /\ l \in Nat \ {0} /\ k \in Nat \ {0}
    BY <1>4, <1>5, <1>8
  <2>2. m * l * k \in Nat /\ m * l * k <= q * l * k
    BY <2>1, WorthAbove
  <2>3. q * l * k = n /\ m * l * k = y
    BY <1>8, <2>1
  <2>4. y \in Nat /\ y <= n /\ m * l * k <= MaxInt
    BY <1>6, <1>8, <2>2, <2>3, WidthAssumption
  <2>5. k * (m * l) \in NotionalOf(m, l, k)
    BY <2>1, <2>4, NotionalKnown
  <2> QED BY <2>4, <2>5
<1> HIDE DEF y
<1> DEFINE e == y + MulBps(y, fee)
<1>10. e \in Nat /\ e <= x
  <2>1. MulBps(y, fee) \in Nat /\ MulBps(n, fee) \in Nat /\ MulBps(y, fee) <= MulBps(n, fee)
    BY <1>5, <1>8, <1>9, MulBpsMonotone
  <2> DEFINE f == MulBps(y, fee)
             g == MulBps(n, fee)
  <2>2. f \in Nat /\ g \in Nat /\ f <= g /\ e = y + f /\ x = n + g
    BY <1>6, <2>1
  <2> HIDE DEF f, g, e
  <2> QED BY <1>8, <1>9, <2>2
<1>11. e \in WithFee(y, state)
  <2>1. WithFee(y, state) = {z \in {e} : InRange(z)}
    BY DEF WithFee, fee
  <2> HIDE DEF e
  <2>2. InRange(e)
    <3>1. x \in Int
      BY <1>5, <1>6, <1>8, MulBpsMonotone
    <3> QED BY <1>6, <1>10, <3>1, WidthAssumption DEF InRange
  <2> QED BY <2>1, <2>2
<1> QED BY <1>7, <1>9, <1>10, <1>11

\* Every kept buy is paid out of its rule's budget, beside all the other kept buys.
PaysPosition(b) ==
  \A i \in Those(b, {"buy"}) : Total(BuyWorth(b), Sharing(UidOf, N, UidOf[i])) <= PositionRoom[UidOf[i]]
PaysTotal(b) == Those(b, {"buy"}) # {} => Total(BuyWorth(b), 1..N) <= TotalRoom
PaysCash(b) ==
  Those(b, {"buy"}) # {} =>
    /\ \A i \in Those(b, {"buy"}) : CostWithFee(b.dec[i], b.dec[i].qty, state) # {}
    /\ Total(BuyCost(b), 1..N) <= CashRoom

LEMMA RationableRationed ==
  ASSUME NEW b, NEW n, NEW action, NEW accounts, NEW budget, NEW account, NEW cost,
         Rationable(b, n, action, accounts, budget, account, cost), NEW r \in RuleNames
  PROVE  Rationed(b, Ration(b, r, action, budget, account, cost), n, action, budget, account, cost)
<1>1. /\ n \in Nat /\ b \in BatchOf(n) /\ budget \in [accounts -> Int] /\ account \in [1..n -> accounts]
      /\ Costs(cost, b, n) /\ \A j \in Those(b, {action}) : b.dec[j].qty > 0
  BY DEF Rationable
<1> QED BY <1>1, RationEffect

LEMMA RulesRationed ==
  ASSUME AccountOK, NEW b, BatchOK(b)
  PROVE  /\ Rationed(b, ApplyPositionNotional(b, state, limits), N, "buy", PositionRoom, UidOf, BuyNotionals(b, state))
         /\ Rationed(b, ApplyTotalExposure(b, state, limits), N, "buy", Shared(TotalRoom), Common(b), BuyNotionals(b, state))
         /\ Rationed(b, ApplyCashFloor(b, state, limits), N, "buy", Shared(CashRoom), Common(b), BuyCosts(b))
<1> DEFINE n == N
           buy == "buy"
           notionals == BuyNotionals(b, state)
           costs == BuyCosts(b)
           byUid == PerInstrument(b)
           common == Common(b)
           total == Shared(TotalRoom)
           cash == Shared(CashRoom)
           all == {"all"}
           r1 == "max_position_notional"
           r2 == "max_total_exposure"
           r3 == "cash_floor"
<1>1. /\ Rationable(b, n, buy, Uids, PositionRoom, byUid, notionals)
      /\ Rationable(b, n, buy, all, total, common, notionals)
      /\ Rationable(b, n, buy, all, cash, common, costs)
  BY RulesRationable
<1>2. r1 \in RuleNames /\ r2 \in RuleNames /\ r3 \in RuleNames
  BY DEF RuleNames
<1>3. /\ ApplyPositionNotional(b, state, limits) = Ration(b, r1, buy, PositionRoom, byUid, notionals)
      /\ ApplyTotalExposure(b, state, limits) = Ration(b, r2, buy, total, common, notionals)
      /\ ApplyCashFloor(b, state, limits) = Ration(b, r3, buy, cash, common, costs)
  BY RulesRation
<1>4. byUid = UidOf
  BY BatchMeans
<1> HIDE DEF n, buy, notionals, costs, byUid, common, total, cash, all, r1, r2, r3
<1>5. Rationed(b, Ration(b, r1, buy, PositionRoom, byUid, notionals), n, buy, PositionRoom, byUid, notionals)
  BY <1>1, <1>2, RationableRationed
<1>6. Rationed(b, Ration(b, r2, buy, total, common, notionals), n, buy, total, common, notionals)
  BY <1>1, <1>2, RationableRationed
<1>7. Rationed(b, Ration(b, r3, buy, cash, common, costs), n, buy, cash, common, costs)
  BY <1>1, <1>2, RationableRationed
<1> QED BY <1>3, <1>4, <1>5, <1>6, <1>7, Zenon DEF n, buy, notionals, costs, common, total, cash

\* What a decision costs does not depend on its own number of lots.
LEMMA SizedCosts ==
  ASSUME NEW d \in Proposal, NEW k, NEW e, e = Sized(d, k)
  PROVE  \A m : CostWithFee(e, m, state) = CostWithFee(d, m, state)
<1>1. /\ e.uid = d.uid /\ e.type = d.type /\ e.limit = d.limit
  BY SizedKeeps
<1>2. \A q : PriceForBuy(e, q) = PriceForBuy(d, q)
  BY <1>1 DEF PriceForBuy
<1>3. \A p : EffectivePrice(e, p, state) = EffectivePrice(d, p, state)
  BY <1>1 DEF EffectivePrice
<1> QED BY <1>1, <1>2, <1>3 DEF CostWithFee

LEMMA RulesPay ==
  ASSUME AccountOK, NEW b, BatchOK(b)
  PROVE  /\ PaysPosition(ApplyPositionNotional(b, state, limits))
         /\ PaysTotal(ApplyTotalExposure(b, state, limits))
         /\ PaysCash(ApplyCashFloor(b, state, limits))
<1>1. /\ PositionRoom \in [Uids -> Int] /\ Shared(TotalRoom) \in [{"all"} -> Int] /\ Shared(CashRoom) \in [{"all"} -> Int]
      /\ UidOf \in [1..N -> Uids] /\ Common(b) \in [1..N -> {"all"}]
  BY RulesRation, BatchMeans, CommonAccount, 0 \in Int
<1>2. /\ \A i \in 1..N : Common(b)[i] = "all" /\ Sharing(Common(b), N, Common(b)[i]) = 1..N
      /\ Shared(TotalRoom)["all"] = TotalRoom /\ Shared(CashRoom)["all"] = CashRoom
  <2>1. \A i \in 1..N : Sharing(Common(b), N, Common(b)[i]) = 1..N
    BY CommonAccount, 0 \in Int
  <2>2. \A i \in 1..N : Common(b)[i] = "all"
    BY <1>1
  <2> QED BY <2>1, <2>2 DEF Shared
<1>3. PaysPosition(ApplyPositionNotional(b, state, limits))
  <2> DEFINE c == ApplyPositionNotional(b, state, limits)
  <2>1. Rationed(b, c, N, "buy", PositionRoom, UidOf, BuyNotionals(b, state))
    BY RulesRationed
  <2> HIDE DEF c
  <2>2. PaysPosition(c)
    BY <1>1, <2>1, WorthRationed DEF PaysPosition
  <2> QED BY <2>2 DEF c
<1>4. PaysTotal(ApplyTotalExposure(b, state, limits))
  <2> DEFINE c == ApplyTotalExposure(b, state, limits)
             room == Shared(TotalRoom)
             account == Common(b)
  <2>1. Rationed(b, c, N, "buy", room, account, BuyNotionals(b, state))
    BY RulesRationed
  <2>2. BatchOK(c)
    BY ExposureEffect
  <2> HIDE DEF c, room, account
  <2>3. room \in [{"all"} -> Int] /\ account \in [1..N -> {"all"}]
    BY <1>1 DEF room, account
  <2>4. \A i \in Those(c, {"buy"}) : Total(BuyWorth(c), Sharing(account, N, account[i])) <= room[account[i]]
    BY <2>1, <2>3, WorthRationed
  <2>5. \A i \in Those(c, {"buy"}) : i \in 1..N
    BY <2>2, BatchMeans DEF Those
  <2>6. ASSUME NEW i \in Those(c, {"buy"}) PROVE Total(BuyWorth(c), 1..N) <= TotalRoom
    <3>1. Sharing(account, N, account[i]) = 1..N /\ room[account[i]] = TotalRoom
      BY <1>2, <2>5 DEF room, account
    <3> QED BY <2>4, <3>1
  <2>7. PaysTotal(c)
    BY <2>6 DEF PaysTotal
  <2> QED BY <2>7 DEF c
<1>5. PaysCash(ApplyCashFloor(b, state, limits))
  <2> DEFINE c == ApplyCashFloor(b, state, limits)
             room == Shared(CashRoom)
             account == Common(b)
             cost == BuyCosts(b)
  <2>1. Rationed(b, c, N, "buy", room, account, cost)
    BY RulesRationed
  <2>2. BatchOK(c) /\ Shrinks(b, c)
    BY CashEffect
  <2> HIDE DEF c, room, account
  <2>3. room \in [{"all"} -> Int] /\ account \in [1..N -> {"all"}]
    BY <1>1 DEF room, account
  <2>4. \A i \in Those(c, {"buy"}) : Total(BuyCost(c), Sharing(account, N, account[i])) <= room[account[i]]
    BY <2>1, <2>3, CostRationed
  <2>5. \A i \in Those(c, {"buy"}) : i \in 1..N
    BY <2>2, BatchMeans DEF Those
  <2>6. ASSUME NEW i \in Those(c, {"buy"}) PROVE Total(BuyCost(c), 1..N) <= CashRoom
    <3>1. Sharing(account, N, account[i]) = 1..N /\ room[account[i]] = CashRoom
      BY <1>2, <2>5 DEF room, account
    <3> QED BY <2>4, <3>1
  <2> HIDE DEF cost
  <2>7. ASSUME NEW i \in Those(c, {"buy"}) PROVE CostWithFee(c.dec[i], c.dec[i].qty, state) # {}
    <3> DEFINE d == b.dec[i]
               e == c.dec[i]
               q == c.dec[i].qty
    <3>1. i \in 1..N /\ d \in Proposal /\ q \in Nat /\ e = Sized(d, q) /\ q <= d.qty /\ d.qty \in Nat
      BY <2>2, <2>5, BatchMeans DEF Shrinks, Cut
    <3>2. cost[i][q] # {}
      BY <2>1 DEF Rationed
    <3>3. \A m \in 0..d.qty : cost[i][m] = CostWithFee(d, m, state)
      BY <3>1, CostFunctions DEF cost
    <3>4. q \in 0..d.qty
      BY <3>1
    <3> HIDE DEF d, e, q
    <3>5. CostWithFee(e, q, state) = CostWithFee(d, q, state)
      BY <3>1, SizedCosts
    <3>6. CostWithFee(e, q, state) # {}
      BY <3>2, <3>3, <3>4, <3>5
    <3> QED BY <3>6 DEF e, q
  <2>8. PaysCash(c)
    BY <2>6, <2>7 DEF PaysCash
  <2> QED BY <2>8 DEF c
<1> QED BY <1>3, <1>4, <1>5

\* Fewer lots of fewer decisions are worth less together.
LEMMA WorthStays ==
  ASSUME AccountOK, NEW b, BatchOK(b), NEW c, BatchOK(c), Shrinks(b, c), WithinPosition(b),
         NEW S \in SUBSET (1..N)
  PROVE  /\ Those(c, {"buy"}) \subseteq Those(b, {"buy"})
         /\ Total(BuyWorth(c), S) \in Int /\ Total(BuyWorth(b), S) \in Int
         /\ Total(BuyWorth(c), S) <= Total(BuyWorth(b), S)
<1> DEFINE h == BuyWorth(c)
           g == BuyWorth(b)
<1>1. /\ Those(c, {"buy"}) \subseteq Those(b, {"buy"})
      /\ \A j \in 1..N : h[j] \in Nat /\ g[j] \in Nat /\ h[j] <= g[j]
  <2>1. \A i \in Those(b, {"buy"}) : Priced(b.dec[i])
    BY DEF WithinPosition
  <2> QED BY <2>1, WorthShrinks
<1>2. IsFiniteSet(S)
  BY BatchMeans, FS_Subset
<1> HIDE DEF h, g
<1>3. IntsOn(h, S) /\ IntsOn(g, S) /\ \A x \in S : h[x] <= g[x]
  BY <1>1 DEF IntsOn
<1>4. Total(h, S) <= Total(g, S)
  <2>1. S \in SUBSET S /\ \A x \in S \ S : g[x] >= 0
    OBVIOUS
  <2> QED BY <1>2, <1>3, <2>1, TotalMonotone
<1> QED BY <1>1, <1>2, <1>3, <1>4, TotalType DEF h, g

LEMMA WorthPaysStay ==
  ASSUME AccountOK, NEW b, BatchOK(b), NEW c, BatchOK(c), Shrinks(b, c), WithinPosition(b)
  PROVE  /\ PaysPosition(b) => PaysPosition(c)
         /\ PaysTotal(b) => PaysTotal(c)
<1>1. \A S \in SUBSET (1..N) : /\ Those(c, {"buy"}) \subseteq Those(b, {"buy"})
                               /\ Total(BuyWorth(c), S) \in Int /\ Total(BuyWorth(b), S) \in Int
                               /\ Total(BuyWorth(c), S) <= Total(BuyWorth(b), S)
  BY WorthStays
<1>2. ASSUME PaysPosition(b), NEW i \in Those(c, {"buy"})
      PROVE  Total(BuyWorth(c), Sharing(UidOf, N, UidOf[i])) <= PositionRoom[UidOf[i]]
  <2> DEFINE S == Sharing(UidOf, N, UidOf[i])
             room == PositionRoom[UidOf[i]]
  <2>1. S \in SUBSET (1..N)
    BY DEF Sharing
  <2>2. Total(BuyWorth(b), S) <= room
    BY <1>1, <1>2, <2>1 DEF PaysPosition
  <2>3. room \in Int
    <3>1. i \in 1..N
      BY BatchMeans DEF Those
    <3>2. UidOf[i] \in Uids
      BY <3>1, BatchMeans
    <3> QED BY <3>2, RulesRation
  <2> HIDE DEF S, room
  <2>4. Total(BuyWorth(c), S) <= room
    BY <1>1, <2>1, <2>2, <2>3
  <2> QED BY <2>4 DEF S, room
<1>3. ASSUME PaysTotal(b), Those(c, {"buy"}) # {} PROVE Total(BuyWorth(c), 1..N) <= TotalRoom
  <2>1. Total(BuyWorth(b), 1..N) <= TotalRoom
    BY <1>1, <1>3 DEF PaysTotal
  <2>2. TotalRoom \in Int
    BY RulesRation, "all" \in {"all"} DEF Shared
  <2> DEFINE S == 1..N
  <2>3. S \in SUBSET (1..N)
    OBVIOUS
  <2> HIDE DEF S
  <2>4. Total(BuyWorth(c), S) <= TotalRoom
    <3>1. Total(BuyWorth(b), S) <= TotalRoom
      BY <2>1 DEF S
    <3> QED BY <1>1, <2>2, <2>3, <3>1
  <2> QED BY <2>4 DEF S
<1> QED BY <1>2, <1>3 DEF PaysPosition, PaysTotal

LEMMA CashPaysStay ==
  ASSUME NEW b, BatchOK(b), PaysCash(b), NEW c, BatchOK(c),
         \A j \in 1..N : j \notin Those(b, {"sell"}) => Unchanged(b, c, j)
  PROVE  PaysCash(c)
<1> DEFINE T == Those(b, {"buy"})
<1>1. Those(c, {"buy"}) = T /\ (\A i \in T : c.dec[i] = b.dec[i]) /\ BuyCost(c) = BuyCost(b)
  BY BuysUntouched
<1>2. T # {} => /\ \A i \in T : CostWithFee(b.dec[i], b.dec[i].qty, state) # {}
                /\ Total(BuyCost(b), 1..N) <= CashRoom
  BY DEF PaysCash
<1> HIDE DEF T
<1> QED BY <1>1, <1>2 DEF PaysCash

\* A rule leaves alone a batch whose buys or sells are paid out of its budget.
LEMMA WorthAffords ==
  ASSUME AccountOK, NEW b, BatchOK(b), WithinPosition(b), NEW budget, NEW account,
         \A i \in Those(b, {"buy"}) : Total(BuyWorth(b), Sharing(account, N, account[i])) <= budget[account[i]]
  PROVE  Affords(b, N, "buy", budget, account, BuyNotionals(b, state), BuyWorth(b))
<1> DEFINE w == BuyWorth(b)
           cost == BuyNotionals(b, state)
<1>1. /\ \A j \in 1..N : /\ b.dec[j] \in Proposal /\ b.dec[j].qty \in Nat
                         /\ \A m \in 0..b.dec[j].qty : cost[j][m] = BuyNotional(b.dec[j], m, state)
      /\ \A j \in Those(b, {"buy"}) : j \in 1..N /\ b.dec[j].qty > 0
  <2>1. \A j \in Those(b, {"buy"}) : j \in 1..N
    BY BatchMeans DEF Those
  <2> QED BY <2>1, BatchMeans, CostFunctions, PositiveQty
<1>2. \A j \in 1..N : j \notin Those(b, {"buy"}) => w[j] = 0
  BY DEF BuyWorth
<1>3. ASSUME NEW j \in Those(b, {"buy"})
      PROVE  /\ w[j] \in Nat /\ \A x \in cost[j][b.dec[j].qty] : x = w[j]
             /\ \A k \in 1..b.dec[j].qty : \E x \in cost[j][k] : x <= w[j]
  <2> DEFINE d == b.dec[j]
             q == d.qty
             l == LotOf(d.uid, state)
             p == Quoted(d)
  <2>1. j \in 1..N /\ d \in Proposal /\ q \in Nat /\ q > 0
    BY <1>1
  <2>2. w[j] = Worth(d.uid, q, p)
    BY <2>1 DEF BuyWorth
  <2>3. l \in Nat /\ p \in Nat
    <3>1. Priced(d)
      BY DEF WithinPosition
    <3>2. d.uid \in DOMAIN state.info /\ l > 0 /\ p > 0
      BY <3>1 DEF Priced
    <3>3. l \in Int /\ p \in Int
      BY <2>1, <3>2 DEF AccountOK
    <3> HIDE DEF l, p
    <3> QED BY <3>2, <3>3
  <2>4. w[j] = q * l * p
    BY <2>2 DEF Worth
  <2>5. \A m \in 0..q : cost[j][m] = BuyNotional(d, m, state)
    BY <1>1, <2>1
  <2>6. ASSUME NEW m \in 1..q PROVE m * l * p \in cost[j][m] /\ m * l * p <= w[j] /\ w[j] \in Nat
    <3>1. m \in Nat /\ m > 0 /\ m <= q /\ m \in 0..q
      BY <2>1
    <3>2. Worth(d.uid, m, p) \in BuyNotional(d, m, state)
      BY <3>1, OneMoreIsKnown
    <3>3. Worth(d.uid, m, p) = m * l * p
      BY DEF Worth
    <3> HIDE DEF d, q, l, p, cost, w
    <3>4. m * l * p <= q * l * p /\ q * l * p \in Nat
      BY <2>1, <2>3, <3>1, WorthAbove
    <3> QED BY <2>4, <2>5, <3>1, <3>2, <3>3, <3>4
  <2>7. \A x \in BuyNotional(d, q, state) : x = w[j]
    BY <2>1, <2>2, BuyNotionalIs
  <2> HIDE DEF d, q, l, p, w, cost
  <2>8. q \in 0..q /\ q \in 1..q
    BY <2>1
  <2>9. w[j] \in Nat /\ \A x \in cost[j][q] : x = w[j]
    BY <2>5, <2>6, <2>7, <2>8
  <2>10. \A k \in 1..q : \E x \in cost[j][k] : x <= w[j]
    BY <2>6
  <2> QED BY <2>9, <2>10 DEF q, d
<1>4. \A j \in 1..N : w[j] \in Nat
  BY <1>2, <1>3
<1> HIDE DEF w, cost
<1>5. \A i \in Those(b, {"buy"}) : Total(w, Sharing(account, N, account[i])) <= budget[account[i]]
  BY DEF w
<1>6. Affords(b, N, "buy", budget, account, cost, w)
  BY <1>2, <1>3, <1>4, <1>5 DEF Affords
<1> QED BY <1>6 DEF w, cost

LEMMA CostAffords ==
  ASSUME AccountOK, NEW b, BatchOK(b), NEW budget, NEW account,
         \A i \in Those(b, {"buy"}) : /\ CostWithFee(b.dec[i], b.dec[i].qty, state) # {}
                                      /\ Total(BuyCost(b), Sharing(account, N, account[i])) <= budget[account[i]]
  PROVE  Affords(b, N, "buy", budget, account, BuyCosts(b), BuyCost(b))
<1> DEFINE w == BuyCost(b)
           cost == BuyCosts(b)
<1>1. /\ \A j \in 1..N : /\ b.dec[j] \in Proposal /\ b.dec[j].qty \in Nat
                         /\ \A m \in 0..b.dec[j].qty : cost[j][m] = CostWithFee(b.dec[j], m, state)
      /\ \A j \in Those(b, {"buy"}) : j \in 1..N /\ b.dec[j].qty > 0
  <2>1. \A j \in Those(b, {"buy"}) : j \in 1..N
    BY BatchMeans DEF Those
  <2> QED BY <2>1, BatchMeans, CostFunctions, PositiveQty
<1>2. \A j \in 1..N : j \notin Those(b, {"buy"}) => w[j] = 0
  BY DEF BuyCost
<1>3. ASSUME NEW j \in Those(b, {"buy"})
      PROVE  /\ w[j] \in Nat /\ \A x \in cost[j][b.dec[j].qty] : x = w[j]
             /\ \A k \in 1..b.dec[j].qty : \E x \in cost[j][k] : x <= w[j]
  <2> DEFINE d == b.dec[j]
             q == d.qty
  <2>1. j \in 1..N /\ d \in Proposal /\ q \in Nat /\ q > 0
    BY <1>1
  <2>2. w[j] = WithCommission(Worth(d.uid, q, KeptPrice(d)))
    BY <2>1 DEF BuyCost, KeptCost
  <2>3. PICK known \in CostWithFee(d, q, state) : TRUE
    OBVIOUS
  <2>4. \A y \in CostWithFee(d, q, state) : y = w[j] /\ y \in Nat
    <3> HIDE DEF d, q, w
    <3> QED BY <2>1, <2>2, CostWithFeeIs
  <2>5. \A m \in 0..q : cost[j][m] = CostWithFee(d, m, state)
    BY <1>1, <2>1
  <2> HIDE DEF d, q, w, cost
  <2>6. w[j] \in CostWithFee(d, q, state) /\ w[j] \in Nat
    BY <2>3, <2>4
  <2>7. ASSUME NEW m \in 1..q PROVE \E x \in cost[j][m] : x <= w[j]
    <3>1. m \in Nat /\ m > 0 /\ m <= q /\ m \in 0..q
      BY <2>1
    <3>2. \E y \in CostWithFee(d, m, state) : y <= w[j]
      BY <2>1, <2>6, <3>1, CheaperLots
    <3> QED BY <2>5, <3>1, <3>2
  <2>8. q \in 0..q
    BY <2>1
  <2>9. \A x \in cost[j][q] : x = w[j]
    BY <2>4, <2>5, <2>8
  <2> QED BY <2>6, <2>7, <2>9 DEF d, q
<1>4. \A j \in 1..N : w[j] \in Nat
  BY <1>2, <1>3
<1> HIDE DEF w, cost
<1>5. \A i \in Those(b, {"buy"}) : Total(w, Sharing(account, N, account[i])) <= budget[account[i]]
  BY DEF w
<1>6. Affords(b, N, "buy", budget, account, cost, w)
  BY <1>2, <1>3, <1>4, <1>5 DEF Affords
<1> QED BY <1>6 DEF w, cost

LEMMA LotsAfford ==
  ASSUME AccountOK, NEW b, BatchOK(b), WithinHeld(b)
  PROVE  Affords(b, N, "sell", Sellable(state), UidOf, SellLots(b), Sold(b))
<1> DEFINE w == Sold(b)
           cost == SellLots(b)
<1>1. /\ \A j \in 1..N : /\ b.dec[j].qty \in Nat
                         /\ \A m \in 0..b.dec[j].qty : cost[j][m] = {m}
      /\ \A j \in Those(b, {"sell"}) : j \in 1..N /\ b.dec[j].uid = UidOf[j] /\ UidOf[j] \in Uids
  <2>1. \A j \in Those(b, {"sell"}) : j \in 1..N
    BY BatchMeans DEF Those
  <2> QED BY <2>1, BatchMeans, CostFunctions
<1>2. \A j \in 1..N : w[j] \in Nat /\ (j \notin Those(b, {"sell"}) => w[j] = 0)
  BY <1>1 DEF Sold
<1>3. \A j \in Those(b, {"sell"}) : w[j] = b.dec[j].qty
  BY <1>1 DEF Sold
<1>4. ASSUME NEW j \in Those(b, {"sell"})
      PROVE  /\ \A x \in cost[j][b.dec[j].qty] : x = w[j]
             /\ \A k \in 1..b.dec[j].qty : \E x \in cost[j][k] : x <= w[j]
  <2> DEFINE q == b.dec[j].qty
  <2>1. q \in Nat /\ w[j] = q /\ \A m \in 0..q : cost[j][m] = {m}
    BY <1>1, <1>3
  <2> HIDE DEF q, w, cost
  <2>2. \A x \in cost[j][q] : x = w[j]
    BY <2>1
  <2>3. \A k \in 1..q : \E x \in cost[j][k] : x <= w[j]
    <3> SUFFICES ASSUME NEW k \in 1..q PROVE \E x \in cost[j][k] : x <= w[j]
      OBVIOUS
    <3>1. k \in 0..q /\ k <= q
      BY <2>1
    <3>2. cost[j][k] = {k}
      BY <2>1, <3>1
    <3> QED BY <2>1, <3>1, <3>2
  <2> QED BY <2>2, <2>3 DEF q
<1>5. ASSUME NEW i \in Those(b, {"sell"}) PROVE Total(w, Sharing(UidOf, N, UidOf[i])) <= Sellable(state)[UidOf[i]]
  <2>1. UidOf[i] \in Uids /\ b.dec[i].uid = UidOf[i]
    BY <1>1
  <2>2. Sellable(state)[UidOf[i]] = Room(UidOf[i])
    BY <2>1 DEF Sellable, Room
  <2>3. Total(Sold(b), Sharing(UidOf, N, b.dec[i].uid)) <= Room(b.dec[i].uid)
    BY DEF WithinHeld
  <2> QED BY <2>1, <2>2, <2>3
<1> HIDE DEF w, cost
<1>6. Affords(b, N, "sell", Sellable(state), UidOf, cost, w)
  BY <1>2, <1>4, <1>5 DEF Affords
<1> QED BY <1>6 DEF w, cost

LEMMA SizesIdle ==
  ASSUME AccountOK, NEW b, BatchOK(b), WithinPosition(b), WithinHeld(b), PaysPosition(b), PaysTotal(b), PaysCash(b)
  PROVE  Sizes(b, state, limits) = b
<1> DEFINE n == N
           buy == "buy"
           sell == "sell"
           notionals == BuyNotionals(b, state)
           costs == BuyCosts(b)
           lots == SellLots(b)
           common == Common(b)
           total == Shared(TotalRoom)
           cash == Shared(CashRoom)
           all == {"all"}
           held == Sellable(state)
           r1 == "max_position_notional"
           r2 == "max_total_exposure"
           r3 == "cash_floor"
           r4 == "oversell"
<1>1. PerInstrument(b) = UidOf
  BY BatchMeans
<1>2. /\ Rationable(b, n, buy, Uids, PositionRoom, UidOf, notionals)
      /\ Rationable(b, n, buy, all, total, common, notionals)
      /\ Rationable(b, n, buy, all, cash, common, costs)
      /\ Rationable(b, n, sell, Uids, held, UidOf, lots)
  BY <1>1, RulesRationable
<1>3. /\ ApplyPositionNotional(b, state, limits) = Ration(b, r1, buy, PositionRoom, UidOf, notionals)
      /\ ApplyTotalExposure(b, state, limits) = Ration(b, r2, buy, total, common, notionals)
      /\ ApplyCashFloor(b, state, limits) = Ration(b, r3, buy, cash, common, costs)
      /\ ApplyOversell(b, state) = Ration(b, r4, sell, held, UidOf, lots)
  BY <1>1, RulesRation
<1>4. r1 \in RuleNames /\ r2 \in RuleNames /\ r3 \in RuleNames /\ r4 \in RuleNames
  BY DEF RuleNames
<1>5. \A i \in Those(b, {buy}) : /\ Sharing(common, n, common[i]) = 1..N
                                 /\ total[common[i]] = TotalRoom /\ cash[common[i]] = CashRoom
  <2>1. \A i \in Those(b, {buy}) : i \in 1..N
    BY BatchMeans DEF Those
  <2>2. \A i \in 1..N : Sharing(Common(b), N, Common(b)[i]) = 1..N
    BY CommonAccount, 0 \in Int
  <2>3. \A i \in 1..N : Common(b)[i] = "all"
    BY BatchMeans DEF Common
  <2> QED BY <2>1, <2>2, <2>3 DEF Shared
<1>6. Affords(b, n, buy, PositionRoom, UidOf, notionals, BuyWorth(b))
  <2>1. \A i \in Those(b, {"buy"}) : Total(BuyWorth(b), Sharing(UidOf, N, UidOf[i])) <= PositionRoom[UidOf[i]]
    BY DEF PaysPosition
  <2> QED BY <2>1, WorthAffords
<1>7. Affords(b, n, buy, total, common, notionals, BuyWorth(b))
  <2> HIDE DEF total, common
  <2>1. \A i \in Those(b, {"buy"}) : Total(BuyWorth(b), Sharing(common, N, common[i])) <= total[common[i]]
    BY <1>5 DEF PaysTotal
  <2> QED BY <2>1, WorthAffords
<1>8. Affords(b, n, buy, cash, common, costs, BuyCost(b))
  <2> HIDE DEF cash, common
  <2>1. \A i \in Those(b, {"buy"}) : /\ CostWithFee(b.dec[i], b.dec[i].qty, state) # {}
                                     /\ Total(BuyCost(b), Sharing(common, N, common[i])) <= cash[common[i]]
    BY <1>5 DEF PaysCash
  <2> QED BY <2>1, CostAffords
<1>9. Affords(b, n, sell, held, UidOf, lots, Sold(b))
  BY LotsAfford
<1> HIDE DEF n, buy, sell, notionals, costs, lots, common, total, cash, all, held, r1, r2, r3, r4
<1>10. Ration(b, r1, buy, PositionRoom, UidOf, notionals) = b
  BY <1>2, <1>4, <1>6, RationIdle
<1>11. Ration(b, r2, buy, total, common, notionals) = b
  BY <1>2, <1>4, <1>7, RationIdle
<1>12. Ration(b, r3, buy, cash, common, costs) = b
  BY <1>2, <1>4, <1>8, RationIdle
<1>13. Ration(b, r4, sell, held, UidOf, lots) = b
  BY <1>2, <1>4, <1>9, RationIdle
<1> QED BY <1>3, <1>10, <1>11, <1>12, <1>13, Zenon DEF Sizes

\* The sizing rules have nothing to take from what they leave.
LEMMA SizesSettle ==
  ASSUME AccountOK, NEW b, BatchOK(b), NEW z, z = Sizes(b, state, limits)
  PROVE  BatchOK(z) /\ Shrinks(b, z) /\ Sizes(z, state, limits) = z
<1> DEFINE b1 == ApplyPositionNotional(b, state, limits)
           b2 == ApplyTotalExposure(b1, state, limits)
           b3 == ApplyCashFloor(b2, state, limits)
           b4 == ApplyOversell(b3, state)
<1>1. z = b4
  BY Zenon DEF Sizes
<1> HIDE DEF b4, b3, b2, b1
<1>2. BatchOK(b1) /\ Shrinks(b, b1) /\ WithinPosition(b1) /\ PaysPosition(b1)
  BY PositionEffect, RulesPay DEF b1
<1>3. BatchOK(b2) /\ Shrinks(b1, b2) /\ PaysTotal(b2)
  BY <1>2, ExposureEffect, RulesPay DEF b2
<1>4. WithinPosition(b2) /\ PaysPosition(b2)
  BY <1>2, <1>3, PositionStays, WorthPaysStay
<1>5. BatchOK(b3) /\ Shrinks(b2, b3) /\ PaysCash(b3)
  BY <1>3, CashEffect, RulesPay DEF b3
<1>6. WithinPosition(b3) /\ PaysPosition(b3) /\ PaysTotal(b3)
  BY <1>3, <1>4, <1>5, PositionStays, WorthPaysStay
<1>7. /\ BatchOK(b4) /\ Shrinks(b3, b4) /\ WithinHeld(b4)
      /\ \A j \in 1..N : j \notin Those(b3, {"sell"}) => Unchanged(b3, b4, j)
  BY <1>5, OversellEffect DEF b4
<1>8. WithinPosition(b4) /\ PaysPosition(b4) /\ PaysTotal(b4)
  BY <1>5, <1>6, <1>7, PositionStays, WorthPaysStay
<1>9. PaysCash(b4)
  BY <1>5, <1>7, CashPaysStay
<1>10. Sizes(b4, state, limits) = b4
  BY <1>7, <1>8, <1>9, SizesIdle
<1>11. Shrinks(b, b2)
  BY <1>2, <1>3, ShrinksTwice
<1>12. Shrinks(b, b3)
  BY <1>3, <1>5, <1>11, ShrinksTwice
<1>13. Shrinks(b, b4)
  BY <1>5, <1>7, <1>12, ShrinksTwice
<1> QED BY <1>1, <1>7, <1>10, <1>13

\* The gates have nothing to take from what they leave, and a whole check has
\* nothing to take from what it leaves.
LEMMA CheckSettles ==
  ASSUME AccountOK, BatchOK(Batch(proposed)),
         NEW g, g = Gates(Batch(proposed), state, limits), NEW z, z = Check(proposed, state, limits)
  PROVE  /\ BatchOK(g) /\ Gates(g, state, limits) = g /\ z = Sizes(Caps(g, state, limits), state, limits)
         /\ BatchOK(z) /\ Sizes(Caps(Gates(z, state, limits), state, limits), state, limits) = z
<1> DEFINE b == Batch(proposed)
           c == Caps(g, state, limits)
<1>1. z = Sizes(c, state, limits)
  BY Zenon DEF Check
<1>2. BatchOK(g) /\ Open(g)
  BY GatesThin, GatesOpen
<1>3. BatchOK(c) /\ c.live \subseteq g.live /\ Capped(c)
  BY <1>2, GatesThin, CapsCap
<1> HIDE DEF c
<1>4. Open(c)
  BY <1>2, <1>3, OpenStays
<1>5. BatchOK(z) /\ Shrinks(c, z) /\ Sizes(z, state, limits) = z
  BY <1>1, <1>3, SizesSettle
<1>6. Open(z) /\ Capped(z)
  <2>1. z.live \subseteq c.live
    BY <1>5 DEF Shrinks
  <2> QED BY <1>3, <1>4, <1>5, <2>1, OpenStays, CappedStays
<1>7. Gates(g, state, limits) = g /\ Gates(z, state, limits) = z
  BY <1>2, <1>5, <1>6, OpenIdle
<1>8. Caps(z, state, limits) = z
  BY <1>5, <1>6, CapsIdle
<1> QED BY <1>1, <1>2, <1>5, <1>7, <1>8 DEF c

\* The batch is what the rules so far made of what was proposed.
Course(r, b, p, s, lim) ==
  LET b1 == ApplyKillSwitch(Batch(p), s, lim)
      b2 == ApplyOperationalHalt(b1, s)
      b3 == ApplyAllowlist(b2, s, lim)
      b4 == ApplyCurrencyMismatch(b3, s)
      b5 == ApplyOrderCap(b4, lim.perCycle, "max_orders_per_cycle")
      b6 == ApplyOrderCap(b5, lim.perDay - s.ordersToday, "max_orders_per_day")
      b7 == ApplyPositionNotional(b6, s, lim)
      b8 == ApplyTotalExposure(b7, s, lim)
      b9 == ApplyCashFloor(b8, s, lim)
  IN  /\ r = "kill_switch" => b = Batch(p)
      /\ r = "halt" => b = b1
      /\ r = "allowlist" => b = b2
      /\ r = "currency" => b = b3
      /\ r = "per_cycle" => b = b4
      /\ r = "per_day" => b = b5
      /\ r = "position" => b = b6
      /\ r = "exposure" => b = b7
      /\ r = "cash" => b = b8
      /\ r = "oversell" => b = b9
      /\ r = "done" => b = ApplyOversell(b9, s)

CourseInv ==
  /\ CheckInv /\ BatchOK(Batch(proposed))
  /\ Course(rule, batch, proposed, state, limits)

LEMMA CourseStep ==
  ASSUME CheckNext, Course(rule, batch, proposed, state, limits)
  PROVE  Course(rule', batch', proposed, state, limits)
<1> DEFINE Now == Course(rule, batch, proposed, state, limits)
           Next == Course(rule', batch', proposed, state, limits)
<1>1. ASSUME DailyLoss PROVE Next
  BY <1>1, Zenon DEF DailyLoss, Step, Course
<1>2. ASSUME OperationalHalt PROVE Next
  BY <1>2, Zenon DEF OperationalHalt, Step, Course
<1>3. ASSUME Allowlist PROVE Next
  BY <1>3, Zenon DEF Allowlist, Step, Course
<1>4. ASSUME CurrencyMismatch PROVE Next
  BY <1>4, Zenon DEF CurrencyMismatch, Step, Course
<1>5. ASSUME OrdersPerCycle PROVE Next
  BY <1>5, Zenon DEF OrdersPerCycle, Step, Course
<1>6. ASSUME OrdersPerDay PROVE Next
  BY <1>6, Zenon DEF OrdersPerDay, Step, Course
<1>7. ASSUME PositionNotional PROVE Next
  BY <1>7, Zenon DEF PositionNotional, Step, Course
<1>8. ASSUME TotalExposure PROVE Next
  BY <1>8, Zenon DEF TotalExposure, Step, Course
<1>9. ASSUME CashFloorRule PROVE Next
  BY <1>9, Zenon DEF CashFloorRule, Step, Course
<1>10. ASSUME Oversell PROVE Next
  BY <1>10, Zenon DEF Oversell, Step, Course
<1> QED BY <1>1, <1>2, <1>3, <1>4, <1>5, <1>6, <1>7, <1>8, <1>9, <1>10, Zenon DEF CheckNext

LEMMA CourseAlways == CheckSpec => []CourseInv
<1>1. CheckInit => CourseInv
  <2> SUFFICES ASSUME CheckInit PROVE CourseInv
    OBVIOUS
  <2>1. CheckInv
    BY InvStarts
  <2>2. batch = Batch(proposed) /\ rule = "kill_switch"
    BY DEF CheckInit
  <2>3. BatchOK(Batch(proposed))
    BY <2>1, <2>2, InvMeans
  <2>4. Course(rule, batch, proposed, state, limits)
    BY <2>2 DEF Course
  <2> QED BY <2>1, <2>3, <2>4 DEF CourseInv
<1>2. CourseInv /\ [CheckNext]_checkVars => CourseInv'
  <2> SUFFICES ASSUME CourseInv, [CheckNext]_checkVars PROVE CourseInv'
    OBVIOUS
  <2>1. CheckInv'
    BY InvStays DEF CourseInv
  <2>2. proposed' = proposed /\ state' = state /\ limits' = limits
    BY DEF checkVars, args, CheckNext, Step, DailyLoss, OperationalHalt, Allowlist, CurrencyMismatch,
           OrdersPerCycle, OrdersPerDay, PositionNotional, TotalExposure, CashFloorRule, Oversell
  <2>3. Course(rule', batch', proposed, state, limits)
    <3>1. CASE CheckNext
      BY <3>1, CourseStep DEF CourseInv
    <3>2. CASE UNCHANGED checkVars
      <4>1. rule' = rule /\ batch' = batch
        BY <3>2 DEF checkVars
      <4> QED BY <4>1 DEF CourseInv
    <3> QED BY <3>1, <3>2
  <2>4. Course(rule', batch', proposed', state', limits')
    BY <2>2, <2>3
  <2>5. BatchOK(Batch(proposed))'
    <3>1. N' = N
      BY <2>2 DEF N
    <3> QED BY <2>2, <3>1 DEF CourseInv, BatchOK
  <2> QED BY <2>1, <2>4, <2>5 DEF CourseInv
<1> QED BY <1>1, <1>2, PTL DEF CheckSpec

\* Where the rules have come to, once all have run.
LEMMA CourseEnds ==
  ASSUME CourseInv, Done
  PROVE  AccountOK /\ BatchOK(Batch(proposed)) /\ batch = Check(proposed, state, limits)
<1>1. rule = "done"
  BY DEF Done
<1>2. batch = Check(proposed, state, limits)
  BY <1>1, Zenon DEF CourseInv, Course, Check, Sizes, Caps, Gates
<1> QED BY <1>2, InvMeans DEF CourseInv

LEMMA InvStable == CourseInv => CheckIsStable
<1> SUFFICES ASSUME CourseInv, Done PROVE Allowed(Check(Allowed(batch), state, limits)) = Allowed(batch)
  BY DEF CheckIsStable
<1>1. AccountOK /\ BatchOK(Batch(proposed)) /\ batch = Check(proposed, state, limits)
  BY CourseEnds
<1>2. BatchOK(batch) /\ Sizes(Caps(Gates(batch, state, limits), state, limits), state, limits) = batch
  BY <1>1, CheckSettles
<1>3. Allowed(Check(Allowed(batch), state, limits))
        = Allowed(Sizes(Caps(Gates(batch, state, limits), state, limits), state, limits))
  BY <1>1, <1>2, PackedAlike
<1> QED BY <1>2, <1>3

LEMMA InvInvisible == CourseInv => GatedAreInvisible
<1> DEFINE g == Gates(Batch(proposed), state, limits)
           rest == [k \in 1..Cardinality(g.live) |-> proposed[InOrder(g.live)[k]]]
<1> SUFFICES ASSUME CourseInv, Done PROVE Allowed(Check(rest, state, limits)) = Allowed(batch)
  BY DEF GatedAreInvisible
<1>1. AccountOK /\ BatchOK(Batch(proposed)) /\ batch = Check(proposed, state, limits)
  BY CourseEnds
<1>2. g.dec = proposed
  BY <1>1, GatesThin DEF Batch
<1>3. rest = Allowed(g)
  BY <1>2 DEF Allowed
<1>4. g = Gates(Batch(proposed), state, limits)
  OBVIOUS
<1> HIDE DEF g, rest
<1>5. /\ BatchOK(g) /\ Gates(g, state, limits) = g
      /\ batch = Sizes(Caps(g, state, limits), state, limits)
  BY <1>1, <1>4, CheckSettles
<1>6. Allowed(Check(Allowed(g), state, limits))
        = Allowed(Sizes(Caps(Gates(g, state, limits), state, limits), state, limits))
  BY <1>1, <1>5, PackedAlike
<1> QED BY <1>3, <1>5, <1>6

\* What Check has allowed, checked once more against the same account, is allowed
\* again, decision by decision and lot by lot: no rule let an order through on room
\* that a later one of the batch took (remaining, in applyPositionNotional and
\* applyTotalExposure, is charged with every order that is kept).
THEOREM CheckingAgainChangesNothing == CheckSpec => []CheckIsStable
BY CourseAlways, InvStable, PTL

\* A decision that a gate turns away (applyKillSwitch, applyOperationalHalt,
\* applyAllowlist, applyCurrencyMismatch) takes neither a slot of a cap nor any room
\* of a limit: Check allows the same of the batch from which it was left out.
THEOREM GatedTakeNothing == CheckSpec => []GatedAreInvisible
BY CourseAlways, InvInvisible, PTL
============================================================================
