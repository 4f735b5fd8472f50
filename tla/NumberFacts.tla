---------------------------- MODULE NumberFacts -----------------------------
(***************************************************************************)
(* Facts about finite sets of natural numbers that the proofs share.  The  *)
(* least number of a set stands in for induction: a least counterexample.  *)
(***************************************************************************)
EXTENDS Integers, Sequences, FiniteSetTheorems, WellFoundedInduction, TLAPS

\* Every nonempty set of naturals has a least element.
LEMMA LeastNat ==
  ASSUME NEW T, T \subseteq Nat, T # {}
  PROVE  \E x \in T : \A y \in T : x <= y
<1> DEFINE R == OpToRel(<, Nat)
<1>1. R = {ss \in Nat \X Nat : ss[1] < ss[2]}
  BY Zenon DEF OpToRel
<1>2. IsWellFoundedOn(R, Nat)
  BY NatLessThanWellFounded
<1> HIDE DEF R
<1>3. PICK x \in T : \A y \in T : ~(<<y, x>> \in R)
  BY <1>2, WFMin, Zenon
<1>4. \A y \in T : x <= y
  <2> SUFFICES ASSUME NEW y \in T PROVE x <= y
    OBVIOUS
  <2>1. x \in Nat /\ y \in Nat
    OBVIOUS
  <2>2. ASSUME y < x PROVE <<y, x>> \in R
    BY <2>1, <2>2, <1>1
  <2> QED BY <2>1, <2>2, <1>3
<1> QED BY <1>4

\* Every nonempty set of naturals with an upper bound has a greatest element.
LEMMA GreatestNat ==
  ASSUME NEW n \in Nat, NEW T, T \subseteq 0..n, T # {}
  PROVE  \E x \in T : \A y \in T : y <= x
<1> DEFINE U == {n - i : i \in T}
<1>1. U \subseteq Nat /\ U # {}
  <2>1. \A i \in T : n - i \in Nat
    OBVIOUS
  <2> QED BY <2>1, Zenon
<1>2. PICK u \in U : \A v \in U : u <= v
  BY <1>1, LeastNat
<1>3. PICK x \in T : u = n - x
  OBVIOUS
<1>4. ASSUME NEW y \in T PROVE y <= x
  <2>1. n - x <= n - y
    BY <1>2, <1>3
  <2> QED BY <2>1
<1> QED BY <1>4

\* The rank of an element of a finite set of positions: how many are not
\* after it.
Upto(F, k) == {j \in F : j <= k}
Rank(F, k) == Cardinality(Upto(F, k))

\* Ranks number the positions 1, 2, ... without a gap and in their order.
LEMMA RankFacts ==
  ASSUME NEW n \in Nat, NEW F, F \subseteq 1..n
  PROVE  /\ IsFiniteSet(F) /\ Cardinality(F) \in 0..n
         /\ \A k \in F : Rank(F, k) \in 1..Cardinality(F)
         /\ \A j, k \in F : j < k => Rank(F, j) < Rank(F, k)
         /\ \A r \in 1..Cardinality(F) : \E k \in F : Rank(F, k) = r
<1> DEFINE Below(k) == {j \in F : j < k}
<1>0. \A k \in F : k \in Nat /\ k \in 0..n
  OBVIOUS
<1>1. IsFiniteSet(F) /\ Cardinality(F) \in 0..n
  <2>1. IsFiniteSet(1..n) /\ Cardinality(1..n) = n
    BY FS_Interval
  <2>2. IsFiniteSet(F) /\ Cardinality(F) <= n
    BY <2>1, FS_Subset
  <2> QED BY <2>2, FS_CardinalityType
<1>2. ASSUME NEW k \in F
      PROVE  IsFiniteSet(Upto(F, k)) /\ Rank(F, k) \in Nat /\ Rank(F, k) <= Cardinality(F)
  <2>1. Upto(F, k) \in SUBSET F
    BY DEF Upto
  <2>2. IsFiniteSet(Upto(F, k)) /\ Cardinality(Upto(F, k)) <= Cardinality(F)
    BY <1>1, <2>1, FS_Subset
  <2> QED BY <2>2, FS_CardinalityType DEF Rank
<1>3. ASSUME NEW k \in F
      PROVE  /\ IsFiniteSet(Below(k)) /\ Cardinality(Below(k)) \in Nat
             /\ Rank(F, k) = Cardinality(Below(k)) + 1
  <2>1. k \notin Below(k) /\ Below(k) \in SUBSET F
    BY <1>0
  <2>2. \A j \in F : j <= k <=> j < k \/ j = k
    BY <1>0
  <2>3. Upto(F, k) = Below(k) \cup {k}
    BY <2>2, Zenon DEF Upto
  <2> HIDE DEF Below
  <2>4. IsFiniteSet(Below(k))
    BY <1>1, <2>1, FS_Subset
  <2>5. Cardinality(Below(k) \cup {k}) = Cardinality(Below(k)) + 1
    BY <2>1, <2>4, FS_AddElement
  <2>6. Cardinality(Below(k)) \in Nat
    BY <2>4, FS_CardinalityType
  <2> QED BY <2>3, <2>4, <2>5, <2>6 DEF Rank
<1>4. ASSUME NEW k \in F PROVE Rank(F, k) \in 1..Cardinality(F)
  <2> HIDE DEF Below
  <2>1. Rank(F, k) = Cardinality(Below(k)) + 1 /\ Cardinality(Below(k)) \in Nat
    BY <1>3
  <2>2. Rank(F, k) <= Cardinality(F) /\ Cardinality(F) \in Nat
    BY <1>1, <1>2
  <2> QED BY <2>1, <2>2
<1>5. ASSUME NEW j \in F, NEW k \in F, j < k PROVE Rank(F, j) < Rank(F, k)
  <2>1. IsFiniteSet(Below(k)) /\ Cardinality(Below(k)) \in Nat
        /\ Rank(F, k) = Cardinality(Below(k)) + 1
    BY <1>3
  <2>2. \A i \in F : i <= j => i < k
    BY <1>0, <1>5
  <2>3. Upto(F, j) \in SUBSET Below(k)
    BY <2>2, Zenon DEF Upto
  <2> HIDE DEF Below
  <2>4. Cardinality(Upto(F, j)) <= Cardinality(Below(k))
    BY <2>1, <2>3, FS_Subset
  <2>5. Rank(F, j) \in Nat
    BY <1>2
  <2> QED BY <2>1, <2>4, <2>5 DEF Rank
<1>6. ASSUME NEW r \in 1..Cardinality(F) PROVE \E k \in F : Rank(F, k) = r
  <2> DEFINE T == {k \in F : Rank(F, k) >= r}
  <2>0. r \in Nat /\ r >= 1 /\ r <= Cardinality(F) /\ Cardinality(F) \in Nat
    BY <1>1
  <2>1. F # {} /\ F \subseteq 0..n
    BY <1>0, <1>1, <2>0, FS_EmptySet
  <2>2. PICK m \in F : \A y \in F : y <= m
    BY <2>1, GreatestNat
  <2>3. Upto(F, m) = F
    BY <2>2 DEF Upto
  <2>4. m \in T
    BY <2>0, <2>3 DEF Rank
  <2>5. T \subseteq Nat
    BY <1>0
  <2>6. PICK k \in T : \A y \in T : k <= y
    <3> HIDE DEF T
    <3> QED BY <2>4, <2>5, LeastNat
  <2>7. CASE Rank(F, k) # r
    <3>1. IsFiniteSet(Below(k)) /\ Cardinality(Below(k)) \in Nat
          /\ Rank(F, k) = Cardinality(Below(k)) + 1
      BY <1>3
    <3>2. Rank(F, k) >= r
      OBVIOUS
    <3>3. Cardinality(Below(k)) >= r
      BY <2>0, <2>7, <3>1, <3>2
    <3>4. Below(k) # {}
      BY <2>0, <3>1, <3>3, FS_EmptySet
    <3>5. Below(k) \subseteq 0..n
      BY <1>0
    <3>6. PICK h \in Below(k) : \A y \in Below(k) : y <= h
      <4> HIDE DEF Below
      <4> QED BY <3>4, <3>5, GreatestNat
    <3>7. h \in F /\ h < k
      OBVIOUS
    <3>8. \A j \in F : j <= h <=> j < k
      BY <1>0, <3>6, <3>7
    <3>9. Upto(F, h) = Below(k)
      BY <3>8, Zenon DEF Upto
    <3>10. h \in T
      BY <3>3, <3>7, <3>9 DEF Rank
    <3>11. k <= h
      BY <2>6, <3>10
    <3> QED BY <1>0, <3>7, <3>11
  <2> QED BY <2>7
<1> QED BY <1>1, <1>4, <1>5, <1>6

\* A function that is one-to-one on a set counts it by its values.
LEMMA CountByValues ==
  ASSUME NEW S, NEW f, IsFiniteSet(S),
         \A x, y \in S : f[x] = f[y] => x = y
  PROVE  Cardinality({f[x] : x \in S}) = Cardinality(S)
<1> DEFINE T == {f[x] : x \in S}
           g == [x \in S |-> f[x]]
<1>1. g \in Injection(S, T)
  BY DEF Injection, IsInjective
<1>2. g \in Surjection(S, T)
  BY DEF Surjection
<1> HIDE DEF T, g
<1>3. Cardinality(T) = Cardinality(S)
  BY <1>1, <1>2, FS_Surjection
<1> QED BY <1>3 DEF T

\* Induction up to a bound, for the members of a set.
LEMMA UpTo ==
  ASSUME NEW len \in Nat, NEW T, 0 \in T, \A n \in 0..(len - 1) : n \in T => n + 1 \in T
  PROVE  \A n \in 0..len : n \in T
<1> SUFFICES ASSUME NEW b \in 0..len, b \notin T PROVE FALSE
  OBVIOUS
<1>1. PICK B : B = {n \in 0..len : n \notin T}
  OBVIOUS
<1>2. B \subseteq Nat /\ B # {}
  BY <1>1
<1>3. PICK k \in B : \A j \in B : k <= j
  BY <1>2, LeastNat
<1>4. k \in 0..len /\ k \notin T /\ k # 0
  BY <1>1
<1>5. k - 1 \in 0..(len - 1) /\ k - 1 \in 0..len /\ (k - 1) + 1 = k
  BY <1>4
<1>6. k - 1 \notin B
  BY <1>3, <1>5
<1>7. k - 1 \in T
  BY <1>1, <1>5, <1>6
<1> QED BY <1>4, <1>5, <1>7

\* A function defined from one value to the next exists.
Climbs(a, h, C, len) == a \in C /\ h \in [1..len -> [C -> C]]
LEMMA Iterated ==
  ASSUME NEW len \in Nat, NEW C, NEW a, NEW h, Climbs(a, h, C, len)
  PROVE  \E f \in [0..len -> C] : f[0] = a /\ \A n \in 1..len : f[n] = h[n][f[n - 1]]
<1>0. a \in C /\ h \in [1..len -> [C -> C]]
  BY DEF Climbs
<1> DEFINE Good(f, k) == f[0] = a /\ \A n \in 1..k : f[n] = h[n][f[n - 1]]
<1>1. PICK T : T = {k \in 0..len : \E f \in [0..k -> C] : Good(f, k)}
  OBVIOUS
<1>2. 0 \in T
  <2>1. PICK f : f = [n \in 0..0 |-> a]
    OBVIOUS
  <2>2. f \in [0..0 -> C] /\ Good(f, 0)
    BY <1>0, <2>1
  <2> QED BY <1>1, <2>2
<1>3. ASSUME NEW k \in 0..(len - 1), k \in T PROVE k + 1 \in T
  <2>1. PICK f \in [0..k -> C] : Good(f, k)
    BY <1>1, <1>3
  <2>2. k \in Nat /\ k + 1 \in 1..len /\ k \in 0..k /\ 0 \in 0..k
    OBVIOUS
  <2>3. h[k + 1][f[k]] \in C
    BY <1>0, <2>2
  <2>4. PICK g : g = [n \in 0..(k + 1) |-> IF n = k + 1 THEN h[k + 1][f[k]] ELSE f[n]]
    OBVIOUS
  <2>5. \A n \in 0..(k + 1) : n = k + 1 \/ n \in 0..k
    BY <2>2
  <2>6. g \in [0..(k + 1) -> C]
    BY <2>3, <2>4, <2>5
  <2>7. \A n \in 0..k : g[n] = f[n]
    BY <2>2, <2>4
  <2>8. g[k + 1] = h[k + 1][f[k]]
    BY <2>2, <2>4
  <2>9. ASSUME NEW n \in 1..(k + 1) PROVE g[n] = h[n][g[n - 1]]
    <3>1. CASE n = k + 1
      <4>1. n - 1 = k
        BY <2>2, <3>1
      <4> QED BY <2>2, <2>7, <2>8, <3>1, <4>1
    <3>2. CASE n # k + 1
      <4>1. n \in 1..k /\ n \in 0..k /\ n - 1 \in 0..k
        BY <2>2, <3>2
      <4> QED BY <2>1, <2>7, <4>1
    <3> QED BY <3>1, <3>2
  <2>10. Good(g, k + 1)
    BY <2>1, <2>2, <2>7, <2>9
  <2>11. k + 1 \in 0..len
    BY <2>2
  <2> HIDE DEF Good
  <2> QED BY <1>1, <2>6, <2>10, <2>11
<1>4. len \in T
  <2>1. \A n \in 0..len : n \in T
    BY ONLY len \in Nat, <1>2, <1>3, UpTo
  <2> QED BY <2>1
<1> QED BY <1>1, <1>4

\* Two functions that go the same way agree.
GoAlike(f, g, len) == f[0] = g[0] /\ \A n \in 1..len : f[n - 1] = g[n - 1] => f[n] = g[n]
LEMMA SameWay ==
  ASSUME NEW len \in Nat, NEW f, NEW g, GoAlike(f, g, len)
  PROVE  \A n \in 0..len : f[n] = g[n]
<1>1. PICK T : T = {k \in 0..len : f[k] = g[k]}
  OBVIOUS
<1>2. 0 \in T
  BY <1>1 DEF GoAlike
<1>3. ASSUME NEW k \in 0..(len - 1), k \in T PROVE k + 1 \in T
  <2>1. k + 1 \in 1..len /\ k + 1 \in 0..len /\ (k + 1) - 1 = k
    OBVIOUS
  <2>2. f[k] = g[k]
    BY <1>1, <1>3
  <2>3. f[k + 1] = g[k + 1]
    BY <2>1, <2>2 DEF GoAlike
  <2> QED BY <1>1, <2>1, <2>3
<1>4. \A n \in 0..len : n \in T
  BY ONLY len \in Nat, <1>2, <1>3, UpTo
<1> QED BY <1>1, <1>4

\* Sorting by rank: a strict total order numbers a finite set.
Preceding(S, R, s) == {t \in S : <<t, s>> \in R}
Orders(R, S) ==
    /\ \A a \in S : <<a, a>> \notin R
    /\ \A a, b, c \in S : <<a, b>> \in R /\ <<b, c>> \in R => <<a, c>> \in R
    /\ \A a, b \in S : a = b \/ <<a, b>> \in R \/ <<b, a>> \in R

LEMMA RanksGrow ==
  ASSUME NEW S, IsFiniteSet(S), NEW R, Orders(R, S), NEW f, f = [s \in S |-> Cardinality(Preceding(S, R, s))]
  PROVE  /\ \A s \in S : f[s] \in Nat /\ f[s] <= Cardinality(S) - 1
         /\ \A s, t \in S : <<s, t>> \in R => f[s] < f[t]
<1>1. PICK m : m = Cardinality(S) /\ m \in Nat
  BY FS_CardinalityType
<1>2. ASSUME NEW s \in S
      PROVE  IsFiniteSet(Preceding(S, R, s)) /\ f[s] = Cardinality(Preceding(S, R, s)) /\ f[s] \in Nat /\ f[s] <= m - 1
  <2>1. PICK P : P = Preceding(S, R, s)
    OBVIOUS
  <2>2. P \subseteq S \ {s}
    BY <2>1 DEF Preceding, Orders
  <2>3. IsFiniteSet(S \ {s}) /\ Cardinality(S \ {s}) = m - 1
    BY <1>1, FS_RemoveElement
  <2>4. IsFiniteSet(P) /\ Cardinality(P) <= m - 1
    BY <2>2, <2>3, FS_Subset
  <2> QED BY <2>1, <2>4, FS_CardinalityType
<1>3. ASSUME NEW s \in S, NEW t \in S, <<s, t>> \in R PROVE f[s] < f[t]
  <2>1. PICK P, Q : P = Preceding(S, R, s) /\ Q = Preceding(S, R, t)
    OBVIOUS
  <2>2. s \notin P /\ s \in Q /\ P \subseteq Q
    BY <1>3, <2>1, Zenon DEF Preceding, Orders
  <2>3. IsFiniteSet(Q) /\ Cardinality(P) \in Nat /\ Cardinality(Q) \in Nat /\ f[s] = Cardinality(P) /\ f[t] = Cardinality(Q)
    BY <1>2, <2>1
  <2>4. IsFiniteSet(Q \ {s}) /\ Cardinality(Q \ {s}) = Cardinality(Q) - 1
    BY <2>2, <2>3, FS_RemoveElement
  <2>5. P \subseteq Q \ {s}
    BY <2>2
  <2>6. Cardinality(P) <= Cardinality(Q \ {s})
    BY <2>4, <2>5, FS_Subset
  <2> QED BY <2>3, <2>4, <2>6
<1> QED BY <1>1, <1>2, <1>3

LEMMA RanksNumber ==
  ASSUME NEW S, IsFiniteSet(S), NEW R, Orders(R, S)
  PROVE  \A n \in 1..Cardinality(S) : \E s \in S : Cardinality(Preceding(S, R, s)) = n - 1
<1>1. PICK m : m = Cardinality(S) /\ m \in Nat
  BY FS_CardinalityType
<1>2. PICK f, T : f = [s \in S |-> Cardinality(Preceding(S, R, s))] /\ T = 0..(m - 1)
  OBVIOUS
<1>3. /\ \A s \in S : f[s] \in Nat /\ f[s] <= m - 1
      /\ \A s, t \in S : <<s, t>> \in R => f[s] < f[t]
  BY <1>1, <1>2, RanksGrow
<1>5. f \in Injection(S, T)
  <2>1. f \in [S -> T]
    <3>1. \A s \in S : f[s] \in T
      BY <1>1, <1>2, <1>3
    <3> QED BY <1>2, <3>1
  <2>2. ASSUME NEW s \in S, NEW t \in S, f[s] = f[t] PROVE s = t
    <3>1. f[s] \in Nat /\ f[t] \in Nat
      BY <1>3
    <3>2. <<s, t>> \notin R /\ <<t, s>> \notin R
      BY <1>3, <2>2, <3>1
    <3> QED BY <3>2, Zenon DEF Orders
  <2> QED BY <2>1, <2>2, Zenon DEF Injection, IsInjective
<1>6. IsFiniteSet(T) /\ Cardinality(T) = Cardinality(S)
  BY <1>1, <1>2, FS_Interval
<1>7. f \in Surjection(S, T)
  BY <1>5, <1>6, FS_Injection
<1>8. ASSUME NEW n \in 1..m PROVE \E s \in S : Cardinality(Preceding(S, R, s)) = n - 1
  <2>1. n - 1 \in T
    BY <1>1, <1>2
  <2>2. PICK s \in S : f[s] = n - 1
    BY <1>7, <2>1 DEF Surjection
  <2> QED BY <1>2, <2>2
<1> QED BY <1>1, <1>8

\* A list by rank is sorted and has every member once.
Ranks(y, m, S, R) == y \in [1..m -> S] /\ \A k \in 1..m : Cardinality(Preceding(S, R, y[k])) = k - 1
LEMMA RanksSort ==
  ASSUME NEW S, IsFiniteSet(S), NEW R, Orders(R, S), NEW m, m = Cardinality(S), NEW y, Ranks(y, m, S, R)
  PROVE  y \in Bijection(1..m, S) /\ \A j, k \in 1..m : j < k => <<y[j], y[k]>> \in R
<1>1. m \in Nat /\ y \in [1..m -> S]
  BY FS_CardinalityType DEF Ranks
<1>2. PICK f : f = [s \in S |-> Cardinality(Preceding(S, R, s))]
  OBVIOUS
<1>3. \A s, t \in S : <<s, t>> \in R => f[s] < f[t]
  BY <1>2, RanksGrow
<1>4. \A k \in 1..m : y[k] \in S /\ f[y[k]] = k - 1
  BY <1>1, <1>2 DEF Ranks
<1>5. ASSUME NEW j \in 1..m, NEW k \in 1..m, j < k PROVE <<y[j], y[k]>> \in R
  <2>1. y[j] \in S /\ y[k] \in S /\ f[y[j]] < f[y[k]]
    BY <1>4, <1>5
  <2>2. y[j] # y[k] /\ ~(f[y[k]] < f[y[j]])
    BY <1>4, <1>5
  <2>3. <<y[k], y[j]>> \notin R
    BY <1>3, <2>1, <2>2
  <2> QED BY <2>1, <2>2, <2>3, Zenon DEF Orders
<1>6. y \in Injection(1..m, S)
  <2>1. ASSUME NEW j \in 1..m, NEW k \in 1..m, y[j] = y[k] PROVE j = k
    <3>1. f[y[j]] = j - 1 /\ f[y[k]] = k - 1
      BY <1>4
    <3> QED BY <2>1, <3>1
  <2> QED BY <1>1, <2>1, Zenon DEF Injection, IsInjective
<1>7. y \in Surjection(1..m, S)
  <2>1. Cardinality(1..m) = m
    BY <1>1, FS_Interval
  <2> QED BY <1>6, <2>1, FS_Injection
<1> QED BY <1>5, <1>6, <1>7 DEF Bijection

\* A part of an interval that starts at 1 is finite and no larger than it.
LEMMA PartOfInterval ==
  ASSUME NEW n \in Nat, NEW S, S \subseteq 1..n
  PROVE  IsFiniteSet(S) /\ Cardinality(S) \in 0..n
<1>1. IsFiniteSet(1..n) /\ Cardinality(1..n) = n
  BY FS_Interval
<1>2. IsFiniteSet(S) /\ Cardinality(S) <= n
  BY <1>1, FS_Subset
<1>3. Cardinality(S) \in Nat
  BY <1>2, FS_CardinalityType
<1> QED BY <1>2, <1>3

\* Two parts of it without a common element.
LEMMA DisjointParts ==
  ASSUME NEW n \in Nat, NEW S, NEW T, S \subseteq 1..n, T \subseteq 1..n, S \cap T = {}
  PROVE  /\ Cardinality(S \cup T) = Cardinality(S) + Cardinality(T)
         /\ Cardinality(S) \in Nat /\ Cardinality(T) \in Nat
<1>1. /\ IsFiniteSet(S) /\ Cardinality(S) \in Nat
      /\ IsFiniteSet(T) /\ Cardinality(T) \in Nat
  <2>1. IsFiniteSet(S) /\ IsFiniteSet(T)
    BY PartOfInterval
  <2> QED BY <2>1, FS_CardinalityType
<1>2. Cardinality(S \cup T) = Cardinality(S) + Cardinality(T) - Cardinality(S \cap T)
  BY <1>1, FS_Union
<1>3. Cardinality(S \cap T) = 0
  BY FS_EmptySet
<1> QED BY <1>1, <1>2, <1>3

-----------------------------------------------------------------------------
(* Sequences of anything.                                                   *)
IsNumbered(s) == \E n \in Nat : s = [i \in 1..n |-> s[i]]

\* A sequence, and one more.
LEMMA AppendedFacts ==
  ASSUME NEW n \in Nat, NEW s, s = [i \in 1..n |-> s[i]], NEW x, NEW r, r = Append(s, x)
  PROVE  /\ Len(s) = n /\ DOMAIN s = 1..n /\ r = [i \in 1..(n + 1) |-> r[i]] /\ DOMAIN r = 1..(n + 1)
         /\ r[n + 1] = x /\ \A i \in 1..n : r[i] = s[i]
<1>1. PICK S : S = {s[i] : i \in 1..n} \cup {x}
  OBVIOUS
<1>2. s \in Seq(S) /\ x \in S
  BY <1>1
<1>3. Len(s) = n /\ DOMAIN s = 1..n
  BY <1>2
<1> QED BY <1>2, <1>3
=============================================================================
