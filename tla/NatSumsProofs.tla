--------------------------- MODULE NatSumsProofs ---------------------------
(* Facts about sums that the proofs about ledgers rest on: of NatSums'     *)
(* sums over an initial segment of the naturals, and of the community      *)
(* modules' SumFunctionOnSet, the sum of a function over a finite set.     *)
(* At the end, facts about quotients that are rounded down.                *)
EXTENDS NatSums, Functions, FiniteSets, FiniteSetsExt, TLAPS, WellFoundedInduction, FiniteSetTheorems

(* Every nonempty set of naturals has a least member.                      *)
LEMMA NatMinimum ==
  ASSUME NEW T, T \subseteq Nat, T # {}
  PROVE  \E x \in T : \A y \in T : x <= y
<1>1. PICK x \in T : \A y \in T : ~ (<<y, x>> \in OpToRel(<, Nat))
  BY NatLessThanWellFounded, WFMin
<1>2. \A y \in T : ~ (y < x)
  BY <1>1 DEF OpToRel
<1> QED BY <1>2

(* Induction on the naturals, as a fact about a set: the library states it *)
(* with an operator parameter, which the provers cannot instantiate.       *)
LEMMA SetInduction ==
  ASSUME NEW T, T \subseteq Nat, 0 \in T, \A n \in T : n + 1 \in T
  PROVE  T = Nat
<1>1. SUFFICES ASSUME Nat \ T # {} PROVE FALSE
  OBVIOUS
<1>2. PICK x \in Nat \ T : \A y \in Nat \ T : x <= y
  BY <1>1, NatMinimum
<1>3. x # 0 /\ x - 1 \in Nat
  BY <1>2
<1>4. x - 1 \in T
  BY <1>2, <1>3
<1>5. x \in T
  BY <1>3, <1>4, (x - 1) + 1 \in T
<1> QED BY <1>5, <1>2

(* g solves the recursion of PartialSums(f) up to n.                       *)
Prefix(f, n, g) ==
  g = [i \in 0..n |-> IF i = 0 THEN 0 ELSE g[i-1] + f[i-1]]

(* The recursion behind PartialSums has a solution up to every n ...       *)
LEMMA PrefixExists ==
  ASSUME NEW f
  PROVE  \A n \in Nat : \E g : Prefix(f, n, g)
<1> DEFINE T == {n \in Nat : \E g : Prefix(f, n, g)}
<1>1. 0 \in T
  <2> DEFINE g == [i \in 0..0 |-> 0]
  <2>1. g = [i \in 0..0 |-> IF i = 0 THEN 0 ELSE g[i-1] + f[i-1]]
    OBVIOUS
  <2> QED BY <2>1 DEF Prefix
<1>2. \A n \in T : n + 1 \in T
  <2> SUFFICES ASSUME NEW n \in T PROVE n + 1 \in T
    OBVIOUS
  <2>1. PICK g : Prefix(f, n, g)
    OBVIOUS
  <2> DEFINE h == [i \in 0..(n+1) |-> IF i = n + 1 THEN g[n] + f[n] ELSE g[i]]
  <2>2. ASSUME NEW i \in 0..(n+1)
        PROVE  h[i] = IF i = 0 THEN 0 ELSE h[i-1] + f[i-1]
    <3>1. CASE i = n + 1
      BY <3>1
    <3>2. CASE i # n + 1
      <4>1. i \in 0..n
        BY <3>2
      <4>2. h[i] = g[i]
        BY <3>2
      <4>3. g[i] = IF i = 0 THEN 0 ELSE g[i-1] + f[i-1]
        BY <2>1, <4>1 DEF Prefix
      <4>4. i # 0 => i - 1 \in 0..(n+1) /\ i - 1 # n + 1
        BY <4>1
      <4>5. i # 0 => h[i-1] = g[i-1]
        BY <4>4
      <4> QED BY <4>2, <4>3, <4>5
    <3> QED BY <3>1, <3>2
  <2>3. h = [i \in 0..(n+1) |-> IF i = 0 THEN 0 ELSE h[i-1] + f[i-1]]
    BY <2>2
  <2> HIDE DEF h
  <2>4. Prefix(f, n+1, h)
    BY <2>3 DEF Prefix
  <2> QED BY <2>4
<1> HIDE DEF T
<1>3. T = Nat
  BY <1>1, <1>2, SetInduction DEF T
<1> QED BY <1>3 DEF T

(* ... two solutions agree where both are defined ...                      *)
LEMMA PrefixUnique ==
  ASSUME NEW f, NEW n \in Nat, NEW m \in Nat, NEW g, NEW h,
         Prefix(f, n, g), Prefix(f, m, h)
  PROVE  \A i \in Nat : i <= n /\ i <= m => g[i] = h[i]
<1> DEFINE T == {i \in Nat : i <= n /\ i <= m => g[i] = h[i]}
<1>1. 0 \in T
  BY DEF Prefix
<1>2. \A i \in T : i + 1 \in T
  <2> SUFFICES ASSUME NEW i \in T, i + 1 <= n, i + 1 <= m PROVE g[i+1] = h[i+1]
    OBVIOUS
  <2>1. i + 1 \in 0..n /\ i + 1 \in 0..m /\ i + 1 # 0 /\ (i + 1) - 1 = i
    OBVIOUS
  <2>2. g[i] = h[i]
    OBVIOUS
  <2>3. g[i+1] = g[i] + f[i]
    BY <2>1 DEF Prefix
  <2>4. h[i+1] = h[i] + f[i]
    BY <2>1 DEF Prefix
  <2> QED BY <2>2, <2>3, <2>4
<1> HIDE DEF T
<1>3. T = Nat
  BY <1>1, <1>2, SetInduction DEF T
<1> QED BY <1>3 DEF T

(* ... and so the recursive definition of PartialSums can be unfolded.     *)
LEMMA PartialSumsDef ==
  ASSUME NEW f
  PROVE  PartialSums(f) =
           [i \in Nat |-> IF i = 0 THEN 0 ELSE PartialSums(f)[i-1] + f[i-1]]
<1> DEFINE P(n) == CHOOSE g : Prefix(f, n, g)
           S == [n \in Nat |-> P(n)[n]]
<1>1. \A n \in Nat : Prefix(f, n, P(n))
  BY PrefixExists
<1> HIDE DEF P
<1>2. ASSUME NEW n \in Nat
      PROVE  S[n] = IF n = 0 THEN 0 ELSE S[n-1] + f[n-1]
  <2>1. P(n)[n] = IF n = 0 THEN 0 ELSE P(n)[n-1] + f[n-1]
    BY <1>1, n \in 0..n DEF Prefix
  <2>2. n # 0 => n - 1 \in Nat /\ P(n)[n-1] = P(n-1)[n-1]
    BY <1>1, PrefixUnique, n # 0 => n - 1 \in Nat /\ n - 1 <= n /\ n - 1 <= n - 1
  <2> QED BY <2>1, <2>2
<1>3. S = [n \in Nat |-> IF n = 0 THEN 0 ELSE S[n-1] + f[n-1]]
  BY <1>2
<1> HIDE DEF S
<1>4. \E Q : Q = [n \in Nat |-> IF n = 0 THEN 0 ELSE Q[n-1] + f[n-1]]
  BY <1>3
<1> QED BY <1>4 DEF PartialSums

(* The two equations that define a sum.                                    *)
LEMMA SumZero ==
  ASSUME NEW f
  PROVE  SumTo(f, 0) = 0
BY PartialSumsDef DEF SumTo

(* The sum grows by the last term.                                         *)
LEMMA SumSucc ==
  ASSUME NEW f, NEW n \in Nat
  PROVE  SumTo(f, n + 1) = SumTo(f, n) + f[n]
<1>1. n + 1 \in Nat /\ n + 1 # 0 /\ (n + 1) - 1 = n
  OBVIOUS
<1>2. PartialSums(f)[n + 1] = PartialSums(f)[n] + f[n]
  BY <1>1, PartialSumsDef
<1> QED BY <1>2 DEF SumTo

(* A sum of naturals is a natural.                                         *)
LEMMA SumType ==
  ASSUME NEW f \in [Nat -> Nat]
  PROVE  \A n \in Nat : SumTo(f, n) \in Nat
<1> DEFINE T == {n \in Nat : SumTo(f, n) \in Nat}
<1>1. 0 \in T
  BY SumZero
<1>2. \A n \in T : n + 1 \in T
  BY SumSucc
<1> HIDE DEF T
<1>3. T = Nat
  BY <1>1, <1>2, SetInduction DEF T
<1> QED BY <1>3 DEF T

(* Only the terms below n count.                                           *)
LEMMA SumSame ==
  ASSUME NEW f \in [Nat -> Nat], NEW g \in [Nat -> Nat], NEW n \in Nat,
         \A i \in Nat : i < n => f[i] = g[i]
  PROVE  SumTo(f, n) = SumTo(g, n)
<1> DEFINE T == {m \in Nat : m <= n => SumTo(f, m) = SumTo(g, m)}
<1>1. 0 \in T
  BY SumZero
<1>2. \A m \in T : m + 1 \in T
  BY SumSucc
<1> HIDE DEF T
<1>3. T = Nat
  BY <1>1, <1>2, SetInduction DEF T
<1> QED BY <1>3 DEF T

(* The sum of a function that is zero.                                     *)
LEMMA SumZeros ==
  ASSUME NEW f \in [Nat -> Nat], NEW n \in Nat, \A i \in Nat : i < n => f[i] = 0
  PROVE  SumTo(f, n) = 0
<1> DEFINE T == {m \in Nat : m <= n => SumTo(f, m) = 0}
<1>1. 0 \in T
  BY SumZero
<1>2. \A m \in T : m + 1 \in T
  BY SumSucc
<1> HIDE DEF T
<1>3. T = Nat
  BY <1>1, <1>2, SetInduction DEF T
<1> QED BY <1>3 DEF T

(* Changing the term at k changes the sum by the difference.               *)
LEMMA SumUpdate ==
  ASSUME NEW f \in [Nat -> Nat], NEW g \in [Nat -> Nat], NEW n \in Nat,
         NEW k \in Nat, k < n,
         \A i \in Nat : i < n /\ i # k => f[i] = g[i]
  PROVE  SumTo(g, n) + f[k] = SumTo(f, n) + g[k]
<1> DEFINE T == {m \in Nat : m <= n =>
                   IF m <= k THEN SumTo(g, m) = SumTo(f, m)
                   ELSE SumTo(g, m) + f[k] = SumTo(f, m) + g[k]}
<1>0. \A m \in Nat : SumTo(f, m) \in Nat /\ SumTo(g, m) \in Nat
  BY SumType
<1>1. 0 \in T
  BY SumZero
<1>2. \A m \in T : m + 1 \in T
  <2> SUFFICES ASSUME NEW m \in T, m + 1 <= n PROVE m + 1 \in T
    OBVIOUS
  <2>1. SumTo(f, m + 1) = SumTo(f, m) + f[m] /\ SumTo(g, m + 1) = SumTo(g, m) + g[m]
    BY SumSucc
  <2>2. CASE m = k
    BY <1>0, <2>1, <2>2
  <2>3. CASE m # k
    BY <1>0, <2>1, <2>3
  <2> QED BY <2>2, <2>3
<1> HIDE DEF T
<1>3. T = Nat
  BY <1>1, <1>2, SetInduction DEF T
<1> QED BY <1>3 DEF T

(* A larger function has a larger sum.                                     *)
LEMMA SumMonotone ==
  ASSUME NEW f \in [Nat -> Nat], NEW g \in [Nat -> Nat], NEW n \in Nat,
         \A i \in Nat : i < n => f[i] <= g[i]
  PROVE  SumTo(f, n) <= SumTo(g, n)
<1> DEFINE T == {m \in Nat : m <= n => SumTo(f, m) <= SumTo(g, m)}
<1>0. \A m \in Nat : SumTo(f, m) \in Nat /\ SumTo(g, m) \in Nat
  BY SumType
<1>1. 0 \in T
  BY SumZero
<1>2. \A m \in T : m + 1 \in T
  <2> SUFFICES ASSUME NEW m \in T, m + 1 <= n PROVE m + 1 \in T
    OBVIOUS
  <2>1. SumTo(f, m + 1) = SumTo(f, m) + f[m] /\ SumTo(g, m + 1) = SumTo(g, m) + g[m]
    BY SumSucc
  <2>2. f[m] \in Nat /\ g[m] \in Nat /\ f[m] <= g[m] /\ SumTo(f, m) <= SumTo(g, m)
    BY <1>0
  <2> QED BY <1>0, <2>1, <2>2
<1> HIDE DEF T
<1>3. T = Nat
  BY <1>1, <1>2, SetInduction DEF T
<1> QED BY <1>3 DEF T

(* Sums add up.                                                            *)
LEMMA SumPlus ==
  ASSUME NEW f \in [Nat -> Nat], NEW g \in [Nat -> Nat], NEW h \in [Nat -> Nat],
         NEW n \in Nat, \A i \in Nat : i < n => h[i] = f[i] + g[i]
  PROVE  SumTo(h, n) = SumTo(f, n) + SumTo(g, n)
<1> DEFINE T == {m \in Nat : m <= n => SumTo(h, m) = SumTo(f, m) + SumTo(g, m)}
<1>0. \A m \in Nat : SumTo(f, m) \in Nat /\ SumTo(g, m) \in Nat /\ SumTo(h, m) \in Nat
  BY SumType
<1>1. 0 \in T
  BY SumZero
<1>2. \A m \in T : m + 1 \in T
  <2> SUFFICES ASSUME NEW m \in T, m + 1 <= n PROVE m + 1 \in T
    OBVIOUS
  <2>1. /\ SumTo(f, m + 1) = SumTo(f, m) + f[m]
        /\ SumTo(g, m + 1) = SumTo(g, m) + g[m]
        /\ SumTo(h, m + 1) = SumTo(h, m) + h[m]
    BY SumSucc
  <2>2. /\ f[m] \in Nat /\ g[m] \in Nat /\ h[m] = f[m] + g[m]
        /\ SumTo(h, m) = SumTo(f, m) + SumTo(g, m)
    BY <1>0
  <2> QED BY <1>0, <2>1, <2>2
<1> HIDE DEF T
<1>3. T = Nat
  BY <1>1, <1>2, SetInduction DEF T
<1> QED BY <1>3 DEF T

(* One term is no more than the whole sum.                                 *)
LEMMA SumTerm ==
  ASSUME NEW f \in [Nat -> Nat], NEW n \in Nat, NEW k \in Nat, k < n
  PROVE  f[k] <= SumTo(f, n)
<1> DEFINE T == {m \in Nat : k < m => f[k] <= SumTo(f, m)}
<1>0. \A m \in Nat : SumTo(f, m) \in Nat
  BY SumType
<1>1. 0 \in T
  OBVIOUS
<1>2. \A m \in T : m + 1 \in T
  <2> SUFFICES ASSUME NEW m \in T, k < m + 1 PROVE m + 1 \in T
    OBVIOUS
  <2>1. SumTo(f, m + 1) = SumTo(f, m) + f[m]
    BY SumSucc
  <2>2. f[m] \in Nat /\ f[k] \in Nat /\ (m = k \/ f[k] <= SumTo(f, m))
    BY <1>0
  <2> QED BY <1>0, <2>1, <2>2
<1> HIDE DEF T
<1>3. T = Nat
  BY <1>1, <1>2, SetInduction DEF T
<1> QED BY <1>3 DEF T

(* Shares of an amount r, each at most r * c[i] / t, add up to at most r   *)
(* when the weights c[i] add up to at most t.                              *)
LEMMA SumOfShares ==
  ASSUME NEW s \in [Nat -> Nat], NEW c \in [Nat -> Nat], NEW n \in Nat,
         NEW r \in Nat, NEW t \in Nat \ {0},
         \A i \in Nat : i < n => s[i] * t <= r * c[i],
         SumTo(c, n) <= t
  PROVE  SumTo(s, n) <= r
<1> DEFINE T == {m \in Nat : m <= n => SumTo(s, m) * t <= r * SumTo(c, m)}
<1>0. \A m \in Nat : SumTo(s, m) \in Nat /\ SumTo(c, m) \in Nat
  BY SumType
<1>1. 0 \in T
  BY SumZero
<1>2. \A m \in T : m + 1 \in T
  <2> SUFFICES ASSUME NEW m \in T, m + 1 <= n PROVE m + 1 \in T
    OBVIOUS
  <2>1. SumTo(s, m + 1) = SumTo(s, m) + s[m] /\ SumTo(c, m + 1) = SumTo(c, m) + c[m]
    BY SumSucc
  <2>2. \A a, b, d, e \in Nat : a * t <= r * b /\ d * t <= r * e
            => (a + d) * t <= r * (b + e)
    OBVIOUS
  <2>3. SumTo(s, m) * t <= r * SumTo(c, m) /\ s[m] * t <= r * c[m]
    OBVIOUS
  <2>4. (SumTo(s, m) + s[m]) * t <= r * (SumTo(c, m) + c[m])
    BY <1>0, <2>2, <2>3
  <2> QED BY <2>1, <2>4
<1> HIDE DEF T
<1>3. T = Nat
  BY <1>1, <1>2, SetInduction DEF T
<1>4. SumTo(s, n) * t <= r * SumTo(c, n)
  BY <1>3 DEF T
<1>5. \A a, b \in Nat : a * t <= r * b /\ b <= t => a <= r
  <2> SUFFICES ASSUME NEW a \in Nat, NEW b \in Nat, a * t <= r * b, b <= t, r + 1 <= a
               PROVE  FALSE
    OBVIOUS
  <2>1. r * b <= r * t
    OBVIOUS
  <2>2. (r + 1) * t <= a * t
    OBVIOUS
  <2>3. (r + 1) * t = r * t + t
    OBVIOUS
  <2>4. r * b \in Nat /\ r * t \in Nat /\ a * t \in Nat
    OBVIOUS
  <2>5. \A x, y, z \in Nat : x <= y /\ y <= z => ~ (z + t <= x)
    OBVIOUS
  <2>6. a * t <= r * b /\ r * t + t <= a * t
    BY <2>2, <2>3
  <2> QED BY ONLY <2>1, <2>4, <2>5, <2>6
<1> QED BY <1>0, <1>4, <1>5
-----------------------------------------------------------------------------
(* Sums over a finite set.                                                 *)

(* The member a sum takes out first.                                       *)
Choice(s) == CHOOSE x \in s : TRUE

(* g solves the recursion of SumFunctionOnSet(f, S) on the subsets of S    *)
(* with at most n members.                                                 *)
SumsUpTo(f, S, n, g) ==
  /\ g = [s \in SUBSET S |-> g[s]]
  /\ \A s \in SUBSET S : Cardinality(s) <= n =>
       g[s] = IF s = {} THEN 0 ELSE f[Choice(s)] + g[s \ {Choice(s)}]

(* A member of a finite set can be taken out, which leaves one less.       *)
LEMMA TakeOut ==
  ASSUME NEW S, IsFiniteSet(S), NEW s \in SUBSET S, NEW x \in s
  PROVE  /\ IsFiniteSet(s) /\ s \ {x} \in SUBSET S
         /\ Cardinality(s) \in Nat /\ Cardinality(s \ {x}) \in Nat
         /\ Cardinality(s \ {x}) = Cardinality(s) - 1
<1>1. IsFiniteSet(s)
  BY FS_Subset
<1> QED BY <1>1, FS_RemoveElement, FS_CardinalityType

(* The recursion behind SumFunctionOnSet has a solution ...                *)
LEMMA SumsUpToExist ==
  ASSUME NEW f, NEW S, IsFiniteSet(S)
  PROVE  \A n \in Nat : \E g : SumsUpTo(f, S, n, g)
<1> DEFINE T == {n \in Nat : \E g : SumsUpTo(f, S, n, g)}
<1>0. \A s \in SUBSET S : Cardinality(s) \in Nat /\ (s # {} => Choice(s) \in s)
  BY FS_Subset, FS_CardinalityType DEF Choice
<1>1. 0 \in T
  <2> DEFINE g == [s \in SUBSET S |-> 0]
  <2>1. \A s \in SUBSET S : Cardinality(s) <= 0 => s = {}
    BY <1>0, FS_Subset, FS_EmptySet
  <2>2. SumsUpTo(f, S, 0, g)
    BY <2>1 DEF SumsUpTo
  <2> QED BY <2>2
<1>2. \A n \in T : n + 1 \in T
  <2> SUFFICES ASSUME NEW n \in T PROVE n + 1 \in T
    OBVIOUS
  <2>1. PICK g : SumsUpTo(f, S, n, g)
    OBVIOUS
  <2> DEFINE h == [s \in SUBSET S |-> IF s = {} THEN 0 ELSE f[Choice(s)] + g[s \ {Choice(s)}]]
  <2>2. ASSUME NEW s \in SUBSET S, Cardinality(s) <= n + 1
        PROVE  h[s] = IF s = {} THEN 0 ELSE f[Choice(s)] + h[s \ {Choice(s)}]
    <3>1. CASE s = {}
      BY <3>1
    <3>2. CASE s # {}
      <4> DEFINE r == s \ {Choice(s)}
      <4>1. r \in SUBSET S /\ Cardinality(r) \in Nat /\ Cardinality(r) <= n
        BY <1>0, <2>2, <3>2, TakeOut
      <4>2. g[r] = IF r = {} THEN 0 ELSE f[Choice(r)] + g[r \ {Choice(r)}]
        BY <2>1, <4>1 DEF SumsUpTo
      <4>3. h[r] = g[r]
        BY <4>1, <4>2
      <4> QED BY <3>2, <4>3
    <3> QED BY <3>1, <3>2
  <2>3. h = [s \in SUBSET S |-> h[s]]
    OBVIOUS
  <2> HIDE DEF h
  <2>4. SumsUpTo(f, S, n + 1, h)
    BY <2>2, <2>3 DEF SumsUpTo
  <2> QED BY <2>4
<1> HIDE DEF T
<1>3. T = Nat
  BY <1>1, <1>2, SetInduction DEF T
<1> QED BY <1>3 DEF T

(* g solves the whole recursion.                                           *)
SolvesSums(f, S, g) ==
  g = [s \in SUBSET S |-> IF s = {} THEN 0 ELSE f[Choice(s)] + g[s \ {Choice(s)}]]

(* ... on all subsets ...                                                  *)
LEMMA SolutionExists ==
  ASSUME NEW f, NEW S, IsFiniteSet(S)
  PROVE  \E g : SolvesSums(f, S, g)
<1>1. Cardinality(S) \in Nat
  BY FS_CardinalityType
<1>2. PICK g : SumsUpTo(f, S, Cardinality(S), g)
  BY <1>1, SumsUpToExist
<1>3. \A s \in SUBSET S : Cardinality(s) <= Cardinality(S)
  BY FS_Subset
<1>4. SolvesSums(f, S, g)
  BY <1>2, <1>3 DEF SumsUpTo, SolvesSums
<1> QED BY <1>4

(* ... and solutions for a set and for a subset agree on the subset.       *)
LEMMA SolutionUnique ==
  ASSUME NEW f, NEW S, IsFiniteSet(S), NEW R \in SUBSET S, NEW g, NEW h,
         SolvesSums(f, S, g), SolvesSums(f, R, h)
  PROVE  g[R] = h[R]
<1> DEFINE T == {n \in Nat : \A s \in SUBSET R : Cardinality(s) = n => g[s] = h[s]}
<1>0. \A s \in SUBSET R : /\ s \in SUBSET S /\ IsFiniteSet(s) /\ Cardinality(s) \in Nat
                          /\ s # {} => Choice(s) \in s
  BY FS_Subset, FS_CardinalityType DEF Choice
<1>1. 0 \in T
  <2> SUFFICES ASSUME NEW s \in SUBSET R, Cardinality(s) = 0 PROVE g[s] = h[s]
    OBVIOUS
  <2>1. s = {}
    BY <1>0, FS_EmptySet
  <2> QED BY <1>0, <2>1 DEF SolvesSums
<1>2. \A n \in T : n + 1 \in T
  <2> SUFFICES ASSUME NEW n \in T, NEW s \in SUBSET R, Cardinality(s) = n + 1
               PROVE  g[s] = h[s]
    OBVIOUS
  <2>1. s # {}
    BY FS_EmptySet
  <2> DEFINE r == s \ {Choice(s)}
  <2>2. r \in SUBSET R /\ Cardinality(r) = n
    <3>1. Choice(s) \in s /\ IsFiniteSet(s)
      BY <1>0, <2>1
    <3>2. Cardinality(r) = Cardinality(s) - 1
      BY <3>1, TakeOut, s \in SUBSET s
    <3> QED BY <3>2
  <2>3. g[r] = h[r]
    BY <2>2
  <2>4. g[s] = f[Choice(s)] + g[r]
    BY <1>0, <2>1 DEF SolvesSums
  <2>5. h[s] = f[Choice(s)] + h[r]
    BY <2>1 DEF SolvesSums
  <2> QED BY <2>3, <2>4, <2>5
<1> HIDE DEF T
<1>3. T = Nat
  BY <1>1, <1>2, SetInduction DEF T
<1> QED BY <1>0, <1>3 DEF T

(* SumFunctionOnSet(f, S) is the value at S of the solution.               *)
LEMMA SetSumSolution ==
  ASSUME NEW f, NEW S, IsFiniteSet(S)
  PROVE  \E g : SolvesSums(f, S, g) /\ SumFunctionOnSet(f, S) = g[S]
<1> DEFINE g == CHOOSE h : SolvesSums(f, S, h)
<1>1. SolvesSums(f, S, g)
  BY SolutionExists
<1>2. SumFunctionOnSet(f, S) = g[S]
  BY DEF SumFunctionOnSet, FoldFunctionOnSet, MapThenFoldSet, SolvesSums, Choice
<1> QED BY <1>1, <1>2

(* The sum over the empty set.                                             *)
LEMMA SetSumEmpty ==
  ASSUME NEW f
  PROVE  SumFunctionOnSet(f, {}) = 0
<1>1. IsFiniteSet({}) /\ {} \in SUBSET {}
  BY FS_EmptySet
<1>2. PICK g : SolvesSums(f, {}, g) /\ SumFunctionOnSet(f, {}) = g[{}]
  BY <1>1, SetSumSolution
<1> QED BY <1>1, <1>2 DEF SolvesSums

(* The recursion unfolded once.                                            *)
LEMMA SetSumUnfold ==
  ASSUME NEW f, NEW S, IsFiniteSet(S), S # {}
  PROVE  /\ Choice(S) \in S
         /\ SumFunctionOnSet(f, S) = f[Choice(S)] + SumFunctionOnSet(f, S \ {Choice(S)})
<1> DEFINE R == S \ {Choice(S)}
<1>0. Choice(S) \in S
  BY DEF Choice
<1>1. R \in SUBSET S /\ IsFiniteSet(R)
  BY FS_Subset
<1>2. PICK g : SolvesSums(f, S, g) /\ SumFunctionOnSet(f, S) = g[S]
  BY SetSumSolution
<1>3. PICK h : SolvesSums(f, R, h) /\ SumFunctionOnSet(f, R) = h[R]
  BY <1>1, SetSumSolution
<1>4. g[R] = h[R]
  BY <1>1, <1>2, <1>3, SolutionUnique
<1>5. g[S] = f[Choice(S)] + g[R]
  BY <1>2, S \in SUBSET S DEF SolvesSums
<1> QED BY <1>0, <1>2, <1>3, <1>4, <1>5

(* A sum of integers is an integer.                                        *)
LEMMA SetSumInt ==
  ASSUME NEW f, NEW S, IsFiniteSet(S), \A x \in S : f[x] \in Int
  PROVE  SumFunctionOnSet(f, S) \in Int
<1> DEFINE T == {n \in Nat : \A s \in SUBSET S : Cardinality(s) = n
                               => SumFunctionOnSet(f, s) \in Int}
<1>0. \A s \in SUBSET S : IsFiniteSet(s) /\ Cardinality(s) \in Nat
  BY FS_Subset, FS_CardinalityType
<1>1. 0 \in T
  BY <1>0, FS_EmptySet, SetSumEmpty
<1>2. \A n \in T : n + 1 \in T
  <2> SUFFICES ASSUME NEW n \in T, NEW s \in SUBSET S, Cardinality(s) = n + 1
               PROVE  SumFunctionOnSet(f, s) \in Int
    OBVIOUS
  <2>1. s # {} /\ IsFiniteSet(s)
    BY <1>0, FS_EmptySet
  <2>2. /\ Choice(s) \in s
        /\ SumFunctionOnSet(f, s) = f[Choice(s)] + SumFunctionOnSet(f, s \ {Choice(s)})
    BY <2>1, SetSumUnfold
  <2>3. Cardinality(s \ {Choice(s)}) = (n + 1) - 1
    BY <2>1, <2>2, FS_RemoveElement
  <2>4. SumFunctionOnSet(f, s \ {Choice(s)}) \in Int
    BY <2>3
  <2> QED BY <2>2, <2>4
<1> HIDE DEF T
<1>3. T = Nat
  BY <1>1, <1>2, SetInduction DEF T
<1> QED BY <1>0, <1>3 DEF T

(* Any member may be summed first.                                         *)
LEMMA SetSumRemove ==
  ASSUME NEW f, NEW S, IsFiniteSet(S), \A x \in S : f[x] \in Int, NEW k \in S
  PROVE  SumFunctionOnSet(f, S) = f[k] + SumFunctionOnSet(f, S \ {k})
<1> DEFINE T == {n \in Nat : \A s \in SUBSET S : Cardinality(s) = n =>
                   \A x \in s : SumFunctionOnSet(f, s) = f[x] + SumFunctionOnSet(f, s \ {x})}
<1>0. \A s \in SUBSET S : IsFiniteSet(s) /\ Cardinality(s) \in Nat
  BY FS_Subset, FS_CardinalityType
<1>1. 0 \in T
  BY <1>0, FS_EmptySet
<1>2. \A n \in T : n + 1 \in T
  <2> SUFFICES ASSUME NEW n \in T, NEW s \in SUBSET S, Cardinality(s) = n + 1, NEW x \in s
               PROVE  SumFunctionOnSet(f, s) = f[x] + SumFunctionOnSet(f, s \ {x})
    OBVIOUS
  <2> DEFINE c == Choice(s)
             r == s \ {c}
  <2>1. IsFiniteSet(s)
    BY <1>0
  <2>2. c \in s /\ SumFunctionOnSet(f, s) = f[c] + SumFunctionOnSet(f, r)
    BY <2>1, SetSumUnfold
  <2> HIDE DEF c
  <2>3. CASE x = c
    BY <2>2, <2>3
  <2>4. CASE x # c
    <3>1. /\ Cardinality(r) = (n + 1) - 1 /\ Cardinality(s \ {x}) = (n + 1) - 1
          /\ r \in SUBSET S /\ s \ {x} \in SUBSET S /\ x \in r /\ c \in s \ {x}
      BY <2>1, <2>2, <2>4, FS_RemoveElement
    <3>2. SumFunctionOnSet(f, r) = f[x] + SumFunctionOnSet(f, r \ {x})
      BY <3>1
    <3>3. SumFunctionOnSet(f, s \ {x}) = f[c] + SumFunctionOnSet(f, (s \ {x}) \ {c})
      BY <3>1
    <3>4. (s \ {x}) \ {c} = r \ {x}
      OBVIOUS
    <3>5. SumFunctionOnSet(f, r \ {x}) \in Int /\ f[x] \in Int /\ f[c] \in Int
      <4>1. IsFiniteSet(r \ {x}) /\ r \ {x} \subseteq S
        BY <3>1, <1>0
      <4> QED BY <4>1, <2>2, SetSumInt
    <3>6. SumFunctionOnSet(f, s) = f[c] + (f[x] + SumFunctionOnSet(f, r \ {x}))
      BY <2>2, <3>2
    <3>7. SumFunctionOnSet(f, s \ {x}) = f[c] + SumFunctionOnSet(f, r \ {x})
      BY <3>3, <3>4
    <3> HIDE DEF r
    <3> QED BY <3>5, <3>6, <3>7
  <2> QED BY <2>3, <2>4
<1> HIDE DEF T
<1>3. T = Nat
  BY <1>1, <1>2, SetInduction DEF T
<1> QED BY <1>0, <1>3 DEF T

(* Only the values on S count.                                             *)
LEMMA SetSumSame ==
  ASSUME NEW f, NEW g, NEW S, IsFiniteSet(S), \A x \in S : f[x] = g[x]
  PROVE  SumFunctionOnSet(f, S) = SumFunctionOnSet(g, S)
<1> DEFINE T == {n \in Nat : \A s \in SUBSET S : Cardinality(s) = n
                               => SumFunctionOnSet(f, s) = SumFunctionOnSet(g, s)}
<1>0. \A s \in SUBSET S : IsFiniteSet(s) /\ Cardinality(s) \in Nat
  BY FS_Subset, FS_CardinalityType
<1>1. 0 \in T
  BY <1>0, FS_EmptySet, SetSumEmpty
<1>2. \A n \in T : n + 1 \in T
  <2> SUFFICES ASSUME NEW n \in T, NEW s \in SUBSET S, Cardinality(s) = n + 1
               PROVE  SumFunctionOnSet(f, s) = SumFunctionOnSet(g, s)
    OBVIOUS
  <2>1. s # {} /\ IsFiniteSet(s)
    BY <1>0, FS_EmptySet
  <2>2. /\ Choice(s) \in s
        /\ SumFunctionOnSet(f, s) = f[Choice(s)] + SumFunctionOnSet(f, s \ {Choice(s)})
        /\ SumFunctionOnSet(g, s) = g[Choice(s)] + SumFunctionOnSet(g, s \ {Choice(s)})
    BY <2>1, SetSumUnfold
  <2>3. Cardinality(s \ {Choice(s)}) = (n + 1) - 1
    BY <2>1, <2>2, FS_RemoveElement
  <2>4. SumFunctionOnSet(f, s \ {Choice(s)}) = SumFunctionOnSet(g, s \ {Choice(s)})
    BY <2>3
  <2> QED BY <2>2, <2>4
<1> HIDE DEF T
<1>3. T = Nat
  BY <1>1, <1>2, SetInduction DEF T
<1> QED BY <1>0, <1>3 DEF T

(* Changing the value at k changes the sum by the difference.              *)
LEMMA SetSumUpdate ==
  ASSUME NEW f, NEW g, NEW S, IsFiniteSet(S), NEW k \in S,
         \A x \in S : f[x] \in Int /\ g[x] \in Int,
         \A x \in S : x # k => f[x] = g[x]
  PROVE  SumFunctionOnSet(g, S) = SumFunctionOnSet(f, S) + (g[k] - f[k])
<1>1. IsFiniteSet(S \ {k})
  BY FS_Subset
<1>2. SumFunctionOnSet(f, S \ {k}) = SumFunctionOnSet(g, S \ {k})
  BY <1>1, SetSumSame
<1>3. SumFunctionOnSet(f, S \ {k}) \in Int
  BY <1>1, SetSumInt
<1>4. SumFunctionOnSet(f, S) = f[k] + SumFunctionOnSet(f, S \ {k})
  BY SetSumRemove
<1>5. SumFunctionOnSet(g, S) = g[k] + SumFunctionOnSet(g, S \ {k})
  BY SetSumRemove
<1> QED BY <1>2, <1>3, <1>4, <1>5

(* A larger function has a larger sum.                                     *)
LEMMA SetSumMonotone ==
  ASSUME NEW f, NEW g, NEW S, IsFiniteSet(S),
         \A x \in S : f[x] \in Int /\ g[x] \in Int /\ f[x] <= g[x]
  PROVE  SumFunctionOnSet(f, S) <= SumFunctionOnSet(g, S)
<1> DEFINE T == {n \in Nat : \A s \in SUBSET S : Cardinality(s) = n
                               => SumFunctionOnSet(f, s) <= SumFunctionOnSet(g, s)}
<1>0. \A s \in SUBSET S : /\ IsFiniteSet(s) /\ Cardinality(s) \in Nat
                          /\ SumFunctionOnSet(f, s) \in Int /\ SumFunctionOnSet(g, s) \in Int
  BY FS_Subset, FS_CardinalityType, SetSumInt
<1>1. 0 \in T
  BY <1>0, FS_EmptySet, SetSumEmpty
<1>2. \A n \in T : n + 1 \in T
  <2> SUFFICES ASSUME NEW n \in T, NEW s \in SUBSET S, Cardinality(s) = n + 1
               PROVE  SumFunctionOnSet(f, s) <= SumFunctionOnSet(g, s)
    OBVIOUS
  <2>1. s # {} /\ IsFiniteSet(s)
    BY <1>0, FS_EmptySet
  <2> DEFINE c == Choice(s)
             r == s \ {c}
  <2>2. /\ c \in s
        /\ SumFunctionOnSet(f, s) = f[c] + SumFunctionOnSet(f, r)
        /\ SumFunctionOnSet(g, s) = g[c] + SumFunctionOnSet(g, r)
    BY <2>1, SetSumUnfold
  <2> HIDE DEF c
  <2>3. Cardinality(r) = (n + 1) - 1 /\ r \in SUBSET S
    BY <2>1, <2>2, FS_RemoveElement
  <2>4. SumFunctionOnSet(f, r) <= SumFunctionOnSet(g, r)
    BY <2>3
  <2>5. f[c] \in Int /\ g[c] \in Int /\ f[c] <= g[c]
    BY <2>2
  <2>6. SumFunctionOnSet(f, r) \in Int /\ SumFunctionOnSet(g, r) \in Int
    BY <1>0, <2>3
  <2> QED BY <2>2, <2>4, <2>5, <2>6
<1> HIDE DEF T
<1>3. T = Nat
  BY <1>1, <1>2, SetInduction DEF T
<1> QED BY <1>0, <1>3 DEF T

(* Sums add up term by term.                                               *)
LEMMA SetSumPlus ==
  ASSUME NEW f, NEW g, NEW h, NEW S, IsFiniteSet(S),
         \A x \in S : f[x] \in Int /\ g[x] \in Int /\ h[x] = f[x] + g[x]
  PROVE  SumFunctionOnSet(h, S) = SumFunctionOnSet(f, S) + SumFunctionOnSet(g, S)
<1> DEFINE T == {n \in Nat : \A s \in SUBSET S : Cardinality(s) = n =>
                   SumFunctionOnSet(h, s) = SumFunctionOnSet(f, s) + SumFunctionOnSet(g, s)}
<1>0. \A s \in SUBSET S : /\ IsFiniteSet(s) /\ Cardinality(s) \in Nat
                          /\ SumFunctionOnSet(f, s) \in Int /\ SumFunctionOnSet(g, s) \in Int
  BY FS_Subset, FS_CardinalityType, SetSumInt
<1>1. 0 \in T
  <2>1. \A s \in SUBSET S : Cardinality(s) = 0 => s = {}
    BY <1>0, FS_EmptySet
  <2>2. SumFunctionOnSet(f, {}) = 0 /\ SumFunctionOnSet(g, {}) = 0 /\ SumFunctionOnSet(h, {}) = 0
    BY SetSumEmpty
  <2>3. SumFunctionOnSet(h, {}) = SumFunctionOnSet(f, {}) + SumFunctionOnSet(g, {})
    BY <2>2
  <2> QED BY <2>1, <2>3
<1>2. \A n \in T : n + 1 \in T
  <2> SUFFICES ASSUME NEW n \in T, NEW s \in SUBSET S, Cardinality(s) = n + 1
               PROVE  SumFunctionOnSet(h, s) = SumFunctionOnSet(f, s) + SumFunctionOnSet(g, s)
    OBVIOUS
  <2>1. s # {} /\ IsFiniteSet(s)
    BY <1>0, FS_EmptySet
  <2> DEFINE r == s \ {Choice(s)}
  <2>2. /\ Choice(s) \in s
        /\ SumFunctionOnSet(f, s) = f[Choice(s)] + SumFunctionOnSet(f, r)
        /\ SumFunctionOnSet(g, s) = g[Choice(s)] + SumFunctionOnSet(g, r)
        /\ SumFunctionOnSet(h, s) = h[Choice(s)] + SumFunctionOnSet(h, r)
    BY <2>1, SetSumUnfold
  <2>3. Cardinality(r) = (n + 1) - 1
    BY <2>1, <2>2, FS_RemoveElement
  <2>4. SumFunctionOnSet(h, r) = SumFunctionOnSet(f, r) + SumFunctionOnSet(g, r)
    BY <2>3
  <2>5. SumFunctionOnSet(f, r) \in Int /\ SumFunctionOnSet(g, r) \in Int
    BY <1>0
  <2>6. /\ f[Choice(s)] \in Int /\ g[Choice(s)] \in Int
        /\ h[Choice(s)] = f[Choice(s)] + g[Choice(s)]
    BY <2>2
  <2> HIDE DEF r
  <2> QED BY <2>2, <2>4, <2>5, <2>6
<1> HIDE DEF T
<1>3. T = Nat
  BY <1>1, <1>2, SetInduction DEF T
<1> QED BY <1>0, <1>3 DEF T

(* The sum of a function that is zero.                                     *)
LEMMA SetSumZero ==
  ASSUME NEW f, NEW S, IsFiniteSet(S), \A x \in S : f[x] = 0
  PROVE  SumFunctionOnSet(f, S) = 0
<1> DEFINE T == {n \in Nat : \A s \in SUBSET S : Cardinality(s) = n
                               => SumFunctionOnSet(f, s) = 0}
<1>0. \A s \in SUBSET S : IsFiniteSet(s) /\ Cardinality(s) \in Nat
  BY FS_Subset, FS_CardinalityType
<1>1. 0 \in T
  BY <1>0, FS_EmptySet, SetSumEmpty
<1>2. \A n \in T : n + 1 \in T
  <2> SUFFICES ASSUME NEW n \in T, NEW s \in SUBSET S, Cardinality(s) = n + 1
               PROVE  SumFunctionOnSet(f, s) = 0
    OBVIOUS
  <2>1. s # {} /\ IsFiniteSet(s)
    BY <1>0, FS_EmptySet
  <2>2. /\ Choice(s) \in s
        /\ SumFunctionOnSet(f, s) = f[Choice(s)] + SumFunctionOnSet(f, s \ {Choice(s)})
    BY <2>1, SetSumUnfold
  <2>3. Cardinality(s \ {Choice(s)}) = (n + 1) - 1
    BY <2>1, <2>2, FS_RemoveElement
  <2> QED BY <2>2, <2>3
<1> HIDE DEF T
<1>3. T = Nat
  BY <1>1, <1>2, SetInduction DEF T
<1> QED BY <1>0, <1>3 DEF T

(* A sum of naturals is a natural, and no term exceeds it.                 *)
LEMMA SetSumNat ==
  ASSUME NEW f, NEW S, IsFiniteSet(S), \A x \in S : f[x] \in Nat
  PROVE  /\ SumFunctionOnSet(f, S) \in Nat
         /\ \A k \in S : f[k] <= SumFunctionOnSet(f, S)
<1> DEFINE z == [x \in S |-> 0]
<1>1. ASSUME NEW R \in SUBSET S PROVE SumFunctionOnSet(f, R) \in Nat
  <2>1. IsFiniteSet(R)
    BY FS_Subset
  <2>2. SumFunctionOnSet(z, R) = 0
    BY <2>1, SetSumZero
  <2>3. SumFunctionOnSet(f, R) \in Int
    BY <2>1, SetSumInt
  <2>4. SumFunctionOnSet(z, R) <= SumFunctionOnSet(f, R)
    BY <2>1, SetSumMonotone
  <2> QED BY <2>2, <2>3, <2>4
<1>2. ASSUME NEW k \in S PROVE f[k] <= SumFunctionOnSet(f, S)
  <2>1. SumFunctionOnSet(f, S) = f[k] + SumFunctionOnSet(f, S \ {k})
    BY SetSumRemove
  <2>2. SumFunctionOnSet(f, S \ {k}) \in Nat /\ f[k] \in Nat
    BY <1>1
  <2> QED BY <2>1, <2>2
<1> QED BY <1>1, <1>2

(* A sum can be split into the sum over a subset and the sum over the rest. *)
LEMMA SetSumSplit ==
  ASSUME NEW f, NEW S, IsFiniteSet(S), \A x \in S : f[x] \in Int, NEW R \in SUBSET S
  PROVE  SumFunctionOnSet(f, S) = SumFunctionOnSet(f, R) + SumFunctionOnSet(f, S \ R)
<1> DEFINE T == {n \in Nat : \A s \in SUBSET S : Cardinality(s) = n =>
                   SumFunctionOnSet(f, S) = SumFunctionOnSet(f, s) + SumFunctionOnSet(f, S \ s)}
<1>0. \A s \in SUBSET S : /\ IsFiniteSet(s) /\ Cardinality(s) \in Nat
                          /\ SumFunctionOnSet(f, s) \in Int
  BY FS_Subset, FS_CardinalityType, SetSumInt
<1>1. 0 \in T
  <2> SUFFICES ASSUME NEW s \in SUBSET S, Cardinality(s) = 0
               PROVE  SumFunctionOnSet(f, S) = SumFunctionOnSet(f, s) + SumFunctionOnSet(f, S \ s)
    OBVIOUS
  <2>1. s = {} /\ S \ s = S
    BY <1>0, FS_EmptySet
  <2> QED BY <2>1, <1>0, SetSumEmpty
<1>2. \A n \in T : n + 1 \in T
  <2> SUFFICES ASSUME NEW n \in T, NEW s \in SUBSET S, Cardinality(s) = n + 1
               PROVE  SumFunctionOnSet(f, S) = SumFunctionOnSet(f, s) + SumFunctionOnSet(f, S \ s)
    OBVIOUS
  <2>1. PICK x \in s : TRUE
    BY <1>0, FS_EmptySet
  <2> DEFINE r == s \ {x}
  <2>2. r \in SUBSET S /\ Cardinality(r) = n
    BY <2>1, TakeOut
  <2>3. SumFunctionOnSet(f, S) = SumFunctionOnSet(f, r) + SumFunctionOnSet(f, S \ r)
    BY <2>2
  <2>4. SumFunctionOnSet(f, s) = f[x] + SumFunctionOnSet(f, r)
    BY <1>0, <2>1, SetSumRemove
  <2>5. SumFunctionOnSet(f, S \ r) = f[x] + SumFunctionOnSet(f, (S \ r) \ {x})
    BY <1>0, <2>1, SetSumRemove
  <2>6. (S \ r) \ {x} = S \ s
    BY <2>1
  <2>7. /\ SumFunctionOnSet(f, r) \in Int /\ SumFunctionOnSet(f, S \ s) \in Int
        /\ f[x] \in Int
    BY <1>0, <2>2
  <2>8. \A a, b, c \in Int : a + (b + c) = (b + a) + c
    OBVIOUS
  <2>9. SumFunctionOnSet(f, S \ r) = f[x] + SumFunctionOnSet(f, S \ s)
    BY <2>5, <2>6
  <2> HIDE DEF r, T
  <2> QED BY <2>3, <2>4, <2>7, <2>8, <2>9
<1> HIDE DEF T
<1>3. T = Nat
  BY <1>1, <1>2, SetInduction DEF T
<1> QED BY <1>0, <1>3 DEF T

-----------------------------------------------------------------------------
(* The least and the greatest member of a set of integers.                 *)

(* Of two integers.                                                        *)
LEMMA MinOfTwo ==
  ASSUME NEW a \in Int, NEW b \in Int
  PROVE  Min({a, b}) = IF a <= b THEN a ELSE b
BY DEF Min

LEMMA MaxOfTwo ==
  ASSUME NEW a \in Int, NEW b \in Int
  PROVE  Max({a, b}) = IF a >= b THEN a ELSE b
BY DEF Max

LEMMA MinOfSet ==
  ASSUME NEW S \in SUBSET Nat, S # {}
  PROVE  Min(S) \in S /\ \A x \in S : Min(S) <= x
<1>1. \E x \in S : \A y \in S : x <= y
  BY NatMinimum
<1> QED BY <1>1 DEF Min

(* Of a nonempty set of naturals with an upper bound.                      *)
LEMMA MaxOfSet ==
  ASSUME NEW S \in SUBSET Nat, S # {}, NEW b \in Nat, \A x \in S : x <= b
  PROVE  Max(S) \in S /\ \A x \in S : x <= Max(S)
<1> DEFINE T == {b - x : x \in S}
<1>1. T \subseteq Nat /\ T # {}
  OBVIOUS
<1>2. PICK d \in T : \A y \in T : d <= y
  BY <1>1, NatMinimum
<1>3. PICK m \in S : d = b - m
  BY <1>2
<1>4. \A x \in S : x <= m
  BY <1>2, <1>3
<1>5. \E x \in S : \A y \in S : x >= y
  BY <1>4
<1> QED BY <1>5 DEF Max

(* A set of indices without gaps is as long as it has members.             *)
LEMMA InitialSegment ==
  ASSUME NEW n \in Nat, NEW D \in SUBSET (1..n),
         \A i \in D : \A j \in 1..i : j \in D
  PROVE  D = 1..Cardinality(D) /\ Cardinality(D) \in 0..n
<1>1. CASE D = {}
  BY <1>1, FS_EmptySet
<1>2. CASE D # {}
  <2>1. D \in SUBSET Nat /\ \A x \in D : x <= n
    OBVIOUS
  <2>2. PICK m : m \in D /\ \A x \in D : x <= m
    BY <1>2, <2>1, MaxOfSet
  <2>3. m \in 1..n
    BY <2>2
  <2>4. D = 1..m
    <3>1. \A x \in D : x \in 1..m
      BY <2>2
    <3>2. \A x \in 1..m : x \in D
      BY <2>2
    <3> QED BY <3>1, <3>2, Zenon
  <2>5. Cardinality(1..m) = m
    BY <2>3, FS_Interval
  <2> QED BY <2>3, <2>4, <2>5
<1> QED BY <1>1, <1>2

-----------------------------------------------------------------------------
(* Quotients rounded down.                                                 *)

(* m \div n parts of size n fit into m, one more does not.                 *)
LEMMA DivBound ==
  ASSUME NEW m \in Nat, NEW n \in Nat \ {0}
  PROVE  /\ m \div n \in Nat /\ (m \div n) * n <= m
         /\ m < (m \div n) * n + n
OBVIOUS

LEMMA MulMonotone ==
  ASSUME NEW a \in Nat, NEW b \in Nat, NEW n \in Nat, a <= b
  PROVE  a * n <= b * n /\ a * n \in Nat /\ b * n \in Nat
OBVIOUS

LEMMA MulStrict ==
  ASSUME NEW a \in Nat, NEW b \in Nat, NEW n \in Nat \ {0}, a < b
  PROVE  a * n + n <= b * n /\ a * n \in Nat /\ b * n \in Nat
<1>1. (a + 1) * n <= b * n /\ a * n \in Nat /\ b * n \in Nat
  BY MulMonotone
<1>2. (a + 1) * n = a * n + n
  OBVIOUS
<1> QED BY <1>1, <1>2

(* What fits into m parts of size n fits m times.                          *)
LEMMA DivAtMost ==
  ASSUME NEW m \in Nat, NEW n \in Nat \ {0}, NEW k \in Nat, m <= k * n
  PROVE  m \div n <= k
<1> DEFINE q == m \div n
<1>1. q \in Nat /\ q * n <= m
  BY DivBound
<1> HIDE DEF q
<1>2. ASSUME k < q PROVE FALSE
  <2>1. k * n + n <= q * n /\ k * n \in Nat /\ q * n \in Nat
    BY <1>1, <1>2, MulStrict
  <2> QED BY <1>1, <2>1
<1> QED BY <1>1, <1>2 DEF q

LEMMA DivMonotone ==
  ASSUME NEW m \in Nat, NEW k \in Nat, NEW n \in Nat \ {0}, m <= k
  PROVE  m \div n <= k \div n
<1> DEFINE q == m \div n
           p == k \div n
<1>1. q \in Nat /\ q * n <= m /\ p \in Nat /\ k < p * n + n
  BY DivBound
<1> HIDE DEF q, p
<1>2. ASSUME p < q PROVE FALSE
  <2>1. p * n + n <= q * n /\ p * n \in Nat /\ q * n \in Nat
    BY <1>1, <1>2, MulStrict
  <2> QED BY <1>1, <2>1
<1> QED BY <1>1, <1>2 DEF q, p

(* A share of at most one is at most the whole, and a smaller share of     *)
(* something is less than the whole.                                       *)
LEMMA ShareBound ==
  ASSUME NEW rate \in Nat, NEW n \in Nat \ {0}, rate <= n, NEW x \in Nat
  PROVE  /\ (rate * x) \div n \in Nat /\ (rate * x) \div n <= x
         /\ rate < n /\ x > 0 => (rate * x) \div n < x
<1>1. rate * x \in Nat /\ rate * x <= n * x
  BY MulMonotone
<1>2. n * x = x * n
  OBVIOUS
<1>3. (rate * x) \div n \in Nat /\ ((rate * x) \div n) * n <= rate * x
  BY <1>1, DivBound
<1>4. (rate * x) \div n <= x
  BY <1>1, <1>2, DivAtMost
<1>5. ASSUME rate < n, x > 0, (rate * x) \div n = x PROVE FALSE
  <2>1. rate * x + x <= n * x /\ n * x \in Nat
    BY <1>5, MulStrict
  <2>2. x * n <= rate * x
    BY <1>3, <1>5
  <2> QED BY ONLY <1>1, <1>2, <2>1, <2>2, x > 0, x \in Nat
<1> QED BY <1>3, <1>4, <1>5
=============================================================================
