---------------------------- MODULE FarmingProofs ----------------------------
(* Proofs about Farming.  The books of a pool change for one user at a     *)
(* time: OneUser and OneOwed sum up what such a change must respect, and   *)
(* every call is shown to respect it, force_retire_pool for each user it   *)
(* retires.                                                                *)
EXTENDS Farming, NatSumsProofs, TLAPS

Infos == ShareInfos \cup {NoInfo}
Pools == [total_shares : Nat, reward : Nat, withdrawn : Nat]

(* Removing a share gives back its part of what counts as withdrawn, so a  *)
(* user without shares has withdrawn nothing.                              *)
NoShareNoDebt(i) == i.share = 0 => i.withdrawn = 0

\* The totals of p are the sums over i.
Books(p, i) ==
  /\ p \in Pools /\ i \in [Users -> Infos]
  /\ p.total_shares = Total(Shares(i)) /\ p.withdrawn = Total(Withdrawn(i))
  /\ p.withdrawn <= p.reward
  /\ \A u \in Users : NoShareNoDebt(i[u])

\* The inductive invariant.
FarmInv ==
  /\ TypeOK /\ KeeperCovers /\ RewardsConserved
  /\ state # "Retired" => Books(pool, info)
  /\ state = "Retired" => \A u \in Users : info[u].share = 0 /\ info[u].withdrawn = 0

-----------------------------------------------------------------------------
(* Records and lists.                                                      *)

LEMMA InfoFields ==
  ASSUME NEW i \in Infos
  PROVE  /\ i.share \in Nat /\ i.withdrawn \in Nat /\ i.claim_last_block \in Nat
         /\ i.withdraw_list \in Seq(Withdrawals)
<1>1. CASE i \in ShareInfos
  BY <1>1 DEF ShareInfos
<1>2. CASE i = NoInfo
  BY <1>2 DEF NoInfo
<1> QED BY <1>1, <1>2 DEF Infos

LEMMA NoInfoFields ==
  /\ NoInfo.share = 0 /\ NoInfo.withdrawn = 0 /\ NoInfo.withdraw_list = <<>>
  /\ NoInfo \in Infos
BY DEF NoInfo, Infos

(* The values of a list are a sum of naturals; an appended entry adds its  *)
(* value.                                                                  *)
LEMMA ValuesNat ==
  ASSUME NEW l \in Seq(Withdrawals)
  PROVE  Values(l) \in Nat
<1> DEFINE f == [k \in DOMAIN l |-> l[k].value]
<1>1. DOMAIN l = 1..Len(l) /\ Len(l) \in Nat /\ \A k \in DOMAIN l : l[k] \in Withdrawals
  OBVIOUS
<1>2. IsFiniteSet(DOMAIN l)
  BY <1>1, FS_Interval
<1>3. \A k \in DOMAIN l : f[k] \in Nat
  BY <1>1 DEF Withdrawals
<1> HIDE DEF f
<1>4. SumFunctionOnSet(f, DOMAIN l) \in Nat
  BY <1>2, <1>3, SetSumNat
<1> QED BY <1>4 DEF Values, f

LEMMA ValuesEmpty == Values(<<>>) = 0
<1>1. DOMAIN <<>> = {}
  OBVIOUS
<1> QED BY <1>1, SetSumEmpty DEF Values

LEMMA ValuesAppend ==
  ASSUME NEW l \in Seq(Withdrawals), NEW e \in Withdrawals
  PROVE  Append(l, e) \in Seq(Withdrawals) /\ Values(Append(l, e)) = Values(l) + e.value
<1> DEFINE n == Len(l) + 1
           f == [k \in 1..(n-1) |-> l[k].value]
           g == [k \in 1..n |-> Append(l, e)[k].value]
<1>1. /\ Len(l) \in Nat /\ n \in Nat /\ n - 1 = Len(l) /\ DOMAIN l = 1..(n-1)
      /\ DOMAIN Append(l, e) = 1..n
      /\ Append(l, e) \in Seq(Withdrawals)
      /\ Append(l, e)[n] = e /\ \A k \in 1..(n-1) : Append(l, e)[k] = l[k]
      /\ \A k \in 1..n : Append(l, e)[k] \in Withdrawals
  OBVIOUS
<1>2. \A k \in 1..n : g[k] \in Int
  BY <1>1 DEF Withdrawals
<1>3. g[n] = e.value /\ (\A k \in 1..(n-1) : f[k] = g[k])
  BY <1>1
<1>4. Values(l) = SumFunctionOnSet(f, 1..(n-1)) /\ Values(Append(l, e)) = SumFunctionOnSet(g, 1..n)
  BY <1>1 DEF Values
<1>6. Values(l) \in Nat
  BY ValuesNat
<1> HIDE DEF f, g, n
<1>5. IsFiniteSet(1..n) /\ IsFiniteSet(1..(n-1)) /\ n \in 1..n /\ (1..n) \ {n} = 1..(n-1)
  <2>1. 1 \in Int /\ n \in Int /\ n - 1 \in Int /\ n >= 1
    BY <1>1
  <2>2. IsFiniteSet(1..n) /\ IsFiniteSet(1..(n-1))
    BY ONLY <2>1, FS_Interval
  <2> QED BY <2>1, <2>2
<1>7. SumFunctionOnSet(g, 1..n) = g[n] + SumFunctionOnSet(g, 1..(n-1))
  BY <1>2, <1>5, SetSumRemove
<1>8. SumFunctionOnSet(f, 1..(n-1)) = SumFunctionOnSet(g, 1..(n-1))
  BY <1>3, <1>5, SetSumSame
<1>9. e.value \in Nat
  BY DEF Withdrawals
<1> QED BY <1>1, <1>3, <1>4, <1>6, <1>7, <1>8, <1>9

-----------------------------------------------------------------------------
(* The split of a list of withdrawals.                                     *)

SplitStart == [left |-> <<>>, paid |-> 0]
SplitStep(w, e) ==
  IF IsDue(e) THEN [w EXCEPT !.paid = @ + e.value] ELSE [w EXCEPT !.left = Append(@, e)]

\* w is the walk of SplitList through the first n entries.
IsSplit(w, n, list) ==
  w = [k \in 0..n |-> IF k = 0 THEN SplitStart ELSE SplitStep(w[k-1], list[k])]

(* The recursion of SplitList has a solution, which CHOOSE finds.          *)
LEMMA SplitListIs ==
  ASSUME NEW list, Len(list) \in Nat
  PROVE  \E w : IsSplit(w, Len(list), list) /\ SplitList(list) = w[Len(list)]
<1> DEFINE T == {n \in Nat : \E w : IsSplit(w, n, list)}
<1>1. 0 \in T
  <2> DEFINE w == [k \in 0..0 |-> SplitStart]
  <2>1. w = [k \in 0..0 |-> IF k = 0 THEN SplitStart ELSE SplitStep(w[k-1], list[k])]
    OBVIOUS
  <2> QED BY <2>1 DEF IsSplit
<1>2. \A n \in T : n + 1 \in T
  <2> SUFFICES ASSUME NEW n \in T PROVE n + 1 \in T
    OBVIOUS
  <2>1. PICK w : IsSplit(w, n, list)
    OBVIOUS
  <2> DEFINE v == [k \in 0..(n+1) |-> IF k = n + 1 THEN SplitStep(w[n], list[n+1]) ELSE w[k]]
  <2>2. ASSUME NEW k \in 0..(n+1)
        PROVE  v[k] = IF k = 0 THEN SplitStart ELSE SplitStep(v[k-1], list[k])
    <3>1. CASE k = n + 1
      <4>1. v[k] = SplitStep(w[n], list[n+1]) /\ k - 1 = n /\ v[k-1] = w[n] /\ k # 0
        BY <3>1
      <4> HIDE DEF v
      <4> QED BY <3>1, <4>1
    <3>2. CASE k # n + 1
      <4>1. k \in 0..n
        BY <3>2
      <4>2. v[k] = w[k] /\ (k # 0 => v[k-1] = w[k-1])
        BY <4>1
      <4>3. w[k] = IF k = 0 THEN SplitStart ELSE SplitStep(w[k-1], list[k])
        BY <2>1, <4>1 DEF IsSplit
      <4> HIDE DEF v
      <4> QED BY <4>2, <4>3
    <3> QED BY <3>1, <3>2
  <2>3. v = [k \in 0..(n+1) |-> IF k = 0 THEN SplitStart ELSE SplitStep(v[k-1], list[k])]
    BY <2>2
  <2> HIDE DEF v
  <2>4. IsSplit(v, n+1, list)
    BY <2>3 DEF IsSplit
  <2> QED BY <2>4
<1> HIDE DEF T
<1>3. T = Nat
  BY <1>1, <1>2, SetInduction DEF T
<1>4. \E w : IsSplit(w, Len(list), list)
  BY <1>3 DEF T
<1> DEFINE w == CHOOSE w : w = [k \in 0..Len(list) |->
                  IF k = 0 THEN [left |-> <<>>, paid |-> 0]
                  ELSE IF IsDue(list[k]) THEN [w[k-1] EXCEPT !.paid = @ + list[k].value]
                  ELSE [w[k-1] EXCEPT !.left = Append(@, list[k])]]
<1>5. IsSplit(w, Len(list), list)
  BY <1>4 DEF IsSplit, SplitStart, SplitStep
<1>6. SplitList(list) = w[Len(list)]
  BY DEF SplitList
<1> HIDE DEF w
<1> QED BY <1>5, <1>6

(* What stays and what is paid add up to the list.                         *)
LEMMA SplitAddsUp ==
  ASSUME NEW list \in Seq(Withdrawals), block \in Nat
  PROVE  LET s == SplitList(list)
         IN /\ s.left \in Seq(Withdrawals) /\ s.paid \in Nat
            /\ Values(s.left) + s.paid = Values(list)
<1>1. Len(list) \in Nat /\ DOMAIN list = 1..Len(list) /\ \A k \in 1..Len(list) : list[k] \in Withdrawals
  OBVIOUS
<1>2. PICK w : IsSplit(w, Len(list), list) /\ SplitList(list) = w[Len(list)]
  BY <1>1, SplitListIs
<1> DEFINE val == [k \in 1..Len(list) |-> list[k].value]
           Good(k) == /\ w[k] = [left |-> w[k].left, paid |-> w[k].paid]
                      /\ w[k].left \in Seq(Withdrawals) /\ w[k].paid \in Nat
                      /\ Values(w[k].left) + w[k].paid = SumFunctionOnSet(val, 1..k)
           T == {k \in Nat : k <= Len(list) => Good(k)}
<1>3. 0 \in T
  <2>1. w[0] = SplitStart
    BY <1>1, <1>2 DEF IsSplit
  <2>2. 1..0 = {}
    OBVIOUS
  <2>3. SumFunctionOnSet(val, 1..0) = 0
    BY <2>2, SetSumEmpty
  <2>4. w[0].left = <<>> /\ w[0].paid = 0 /\ <<>> \in Seq(Withdrawals)
    BY <2>1 DEF SplitStart
  <2>5. w[0] = [left |-> w[0].left, paid |-> w[0].paid]
    BY <2>1 DEF SplitStart
  <2>6. Good(0)
    BY <2>3, <2>4, <2>5, ValuesEmpty
  <2> HIDE DEF Good
  <2> QED BY <2>6
<1>4. \A k \in T : k + 1 \in T
  <2> HIDE DEF Good
  <2> SUFFICES ASSUME NEW k \in T, k + 1 <= Len(list) PROVE Good(k + 1)
    OBVIOUS
  <2>1. /\ k \in Nat /\ k + 1 \in 1..Len(list) /\ k + 1 \in 0..Len(list) /\ k + 1 # 0
        /\ k <= Len(list) /\ k + 1 - 1 = k
    BY <1>1
  <2>2. Good(k)
    BY <2>1
  <2> USE DEF Good
  <2>3. w[k+1] = SplitStep(w[k], list[k+1])
    BY <1>2, <2>1 DEF IsSplit
  <2>4. list[k+1] \in Withdrawals /\ list[k+1].value \in Nat
    BY <1>1, <2>1 DEF Withdrawals
  <2>5. SumFunctionOnSet(val, 1..(k+1)) = list[k+1].value + SumFunctionOnSet(val, 1..k)
    <3>1. 1 \in Int /\ k + 1 \in Int
      BY <2>1
    <3>2. IsFiniteSet(1..(k+1))
      BY ONLY <3>1, FS_Interval
    <3>3. k + 1 \in 1..(k+1) /\ (1..(k+1)) \ {k+1} = 1..k /\ val[k+1] = list[k+1].value
      BY <2>1
    <3>4. \A j \in 1..(k+1) : val[j] \in Int
      BY <1>1, <2>1 DEF Withdrawals
    <3> HIDE DEF val
    <3>5. PICK S, x : S = 1..(k+1) /\ x = k + 1
      OBVIOUS
    <3>6. IsFiniteSet(S) /\ x \in S /\ (\A j \in S : val[j] \in Int)
      BY ONLY <3>2, <3>3, <3>4, <3>5
    <3>7. SumFunctionOnSet(val, S) = val[x] + SumFunctionOnSet(val, S \ {x})
      BY ONLY <3>6, SetSumRemove
    <3> QED BY <3>3, <3>5, <3>7
  <2>6. Values(w[k].left) \in Nat
    BY <2>2, ValuesNat
  <2>7. PICK S, S1 : S = SumFunctionOnSet(val, 1..k) /\ S1 = SumFunctionOnSet(val, 1..(k+1))
    OBVIOUS
  <2> HIDE DEF val
  <2>8. CASE IsDue(list[k+1])
    <3>1. /\ w[k+1] = [left |-> w[k].left, paid |-> w[k].paid + list[k+1].value]
      BY <2>2, <2>3, <2>8 DEF SplitStep
    <3>2. /\ w[k+1].left = w[k].left /\ w[k+1].paid = w[k].paid + list[k+1].value
      BY <3>1
    <3> QED BY <2>2, <2>4, <2>5, <2>6, <3>1, <3>2
  <2>9. CASE ~IsDue(list[k+1])
    <3>1. /\ w[k+1] = [left |-> Append(w[k].left, list[k+1]), paid |-> w[k].paid]
      BY <2>2, <2>3, <2>9 DEF SplitStep
    <3>2. /\ w[k+1].left = Append(w[k].left, list[k+1]) /\ w[k+1].paid = w[k].paid
      BY <3>1
    <3>3. /\ Append(w[k].left, list[k+1]) \in Seq(Withdrawals)
          /\ Values(Append(w[k].left, list[k+1])) = Values(w[k].left) + list[k+1].value
      BY <2>2, <2>4, ValuesAppend
    <3> QED BY <2>2, <2>4, <2>5, <2>6, <3>1, <3>2, <3>3
  <2> QED BY <2>8, <2>9
<1> HIDE DEF T
<1>5. T = Nat
  BY <1>3, <1>4, SetInduction DEF T
<1>6. Good(Len(list))
  BY <1>1, <1>5 DEF T
<1>7. SumFunctionOnSet(val, 1..Len(list)) = Values(list)
  BY <1>1 DEF Values
<1> QED BY <1>2, <1>6, <1>7
-----------------------------------------------------------------------------
(* The sums over the users when one of them changes.                       *)

OwedTo(i) == i.share + Values(i.withdraw_list)

LEMMA OwedNat ==
  ASSUME NEW i \in Infos
  PROVE  OwedTo(i) \in Nat
BY InfoFields, ValuesNat DEF OwedTo

LEMMA OneUser ==
  ASSUME NEW p, NEW i, Books(p, i), NEW u \in Users, NEW q \in Pools, NEW j \in Infos,
         q.total_shares - j.share = p.total_shares - i[u].share,
         q.withdrawn - j.withdrawn = p.withdrawn - i[u].withdrawn,
         q.withdrawn <= q.reward, NoShareNoDebt(j)
  PROVE  Books(q, [i EXCEPT ![u] = j])
<1> DEFINE i2 == [i EXCEPT ![u] = j]
<1>1. /\ i \in [Users -> Infos] /\ p \in Pools /\ IsFiniteSet(Users)
      /\ i2 \in [Users -> Infos] /\ i2[u] = j /\ \A v \in Users : v # u => i2[v] = i[v]
  BY FarmingAssumption DEF Books
<1> HIDE DEF i2
<1>2. /\ \A v \in Users : i[v].share \in Int /\ i[v].withdrawn \in Int
      /\ \A v \in Users : i2[v].share \in Int /\ i2[v].withdrawn \in Int
  BY <1>1, InfoFields
<1>3. Total(Shares(i2)) = Total(Shares(i)) + (j.share - i[u].share)
  <2>1. /\ \A v \in Users : Shares(i)[v] \in Int /\ Shares(i2)[v] \in Int
        /\ \A v \in Users : v # u => Shares(i)[v] = Shares(i2)[v]
        /\ Shares(i)[u] = i[u].share /\ Shares(i2)[u] = j.share
    BY <1>1, <1>2 DEF Shares
  <2>2. SumFunctionOnSet(Shares(i2), Users)
          = SumFunctionOnSet(Shares(i), Users) + (Shares(i2)[u] - Shares(i)[u])
    BY <1>1, <2>1, SetSumUpdate
  <2> QED BY <2>1, <2>2 DEF Total
<1>4. Total(Withdrawn(i2)) = Total(Withdrawn(i)) + (j.withdrawn - i[u].withdrawn)
  <2>1. /\ \A v \in Users : Withdrawn(i)[v] \in Int /\ Withdrawn(i2)[v] \in Int
        /\ \A v \in Users : v # u => Withdrawn(i)[v] = Withdrawn(i2)[v]
        /\ Withdrawn(i)[u] = i[u].withdrawn /\ Withdrawn(i2)[u] = j.withdrawn
    BY <1>1, <1>2 DEF Withdrawn
  <2>2. SumFunctionOnSet(Withdrawn(i2), Users)
          = SumFunctionOnSet(Withdrawn(i), Users) + (Withdrawn(i2)[u] - Withdrawn(i)[u])
    BY <1>1, <2>1, SetSumUpdate
  <2> QED BY <2>1, <2>2 DEF Total
<1>5. /\ q.total_shares \in Nat /\ p.total_shares \in Nat
      /\ q.withdrawn \in Nat /\ p.withdrawn \in Nat /\ j.share \in Int /\ j.withdrawn \in Int
      /\ i[u].share \in Int /\ i[u].withdrawn \in Int
  BY <1>1, <1>2, InfoFields DEF Pools
<1>6. q.total_shares = Total(Shares(i2)) /\ q.withdrawn = Total(Withdrawn(i2))
  BY <1>3, <1>4, <1>5 DEF Books
<1>7. \A v \in Users : NoShareNoDebt(i2[v])
  BY <1>1 DEF Books
<1> QED BY <1>1, <1>6, <1>7 DEF Books, i2

LEMMA UserWithinTotals ==
  ASSUME NEW p, NEW i, Books(p, i), NEW u \in Users
  PROVE  /\ i[u] \in Infos /\ NoShareNoDebt(i[u])
         /\ i[u].share <= p.total_shares /\ i[u].withdrawn <= p.withdrawn
         /\ p.withdrawn <= p.reward /\ p \in Pools
<1>1. i \in [Users -> Infos] /\ IsFiniteSet(Users)
  BY FarmingAssumption DEF Books
<1>2. \A v \in Users : i[v].share \in Nat /\ i[v].withdrawn \in Nat
  BY <1>1, InfoFields
<1>3. i[u].share <= Total(Shares(i))
  <2>1. \A v \in Users : Shares(i)[v] \in Nat /\ Shares(i)[v] = i[v].share
    BY <1>2 DEF Shares
  <2> QED BY <1>1, <2>1, SetSumNat DEF Total
<1>4. i[u].withdrawn <= Total(Withdrawn(i))
  <2>1. \A v \in Users : Withdrawn(i)[v] \in Nat /\ Withdrawn(i)[v] = i[v].withdrawn
    BY <1>2 DEF Withdrawn
  <2> QED BY <1>1, <2>1, SetSumNat DEF Total
<1> QED BY <1>1, <1>3, <1>4 DEF Books

LEMMA OneOwed ==
  ASSUME NEW i \in [Users -> Infos], NEW k \in Int, k >= Total(OwedTokens(i)),
         NEW u \in Users, NEW j \in Infos, NEW k2 \in Int,
         k2 - OwedTo(j) >= k - OwedTo(i[u])
  PROVE  k2 >= Total(OwedTokens([i EXCEPT ![u] = j])) /\ k2 \in Nat
<1> DEFINE i2 == [i EXCEPT ![u] = j]
<1>1. /\ IsFiniteSet(Users)
      /\ i2 \in [Users -> Infos] /\ i2[u] = j /\ \A v \in Users : v # u => i2[v] = i[v]
  BY FarmingAssumption
<1> HIDE DEF i2
<1>2. /\ \A v \in Users : OwedTokens(i)[v] = OwedTo(i[v]) /\ OwedTokens(i2)[v] = OwedTo(i2[v])
  BY DEF OwedTokens, OwedTo
<1>3. \A v \in Users : OwedTo(i[v]) \in Nat /\ OwedTo(i2[v]) \in Nat
  BY <1>1, OwedNat
<1>4. \A v \in Users : OwedTokens(i)[v] \in Nat /\ OwedTokens(i2)[v] \in Nat
  BY <1>2, <1>3
<1>5. \A v \in Users : v # u => OwedTokens(i)[v] = OwedTokens(i2)[v]
  BY <1>1, <1>2
<1>6. SumFunctionOnSet(OwedTokens(i2), Users)
        = SumFunctionOnSet(OwedTokens(i), Users) + (OwedTokens(i2)[u] - OwedTokens(i)[u])
  BY <1>1, <1>4, <1>5, SetSumUpdate
<1>7. SumFunctionOnSet(OwedTokens(i2), Users) \in Nat /\ SumFunctionOnSet(OwedTokens(i), Users) \in Nat
  BY <1>1, <1>4, SetSumNat
<1>8. k2 >= Total(OwedTokens(i2)) /\ k2 \in Nat
  BY <1>1, <1>2, <1>3, <1>6, <1>7 DEF Total
<1> QED BY <1>8 DEF i2

-----------------------------------------------------------------------------
(* The steps of the calls.                                                 *)

LEMMA SatSubIs ==
  ASSUME NEW a \in Int, NEW b \in Int
  PROVE  SatSub(a, b) = (IF a >= b THEN a - b ELSE 0)
BY MaxOfTwo DEF SatSub

(* A part of at most all: rounded down it is at most all, and it is all    *)
(* when nothing is left out.                                               *)
LEMMA ProportionBound ==
  ASSUME NEW part \in Nat, NEW total \in Nat, NEW of \in Nat
  PROVE  /\ Proportion(part, total, of) \in Nat
         /\ part <= of => Proportion(part, total, of) <= total
         /\ part = of /\ of > 0 => Proportion(part, total, of) = total
         /\ part = 0 => Proportion(part, total, of) = 0
<1>1. CASE of = 0
  BY <1>1 DEF Proportion
<1>2. CASE of > 0
  <2> DEFINE m == part * total
             q == m \div of
  <2>1. Proportion(part, total, of) = q
    BY <1>2 DEF Proportion
  <2>2. m \in Nat /\ of \in Nat \ {0}
    BY <1>2, MulMonotone
  <2>3. part <= of => m <= total * of
    <3> HAVE part <= of
    <3>1. part * total <= of * total
      BY MulMonotone
    <3>2. of * total = total * of
      OBVIOUS
    <3> QED BY <3>1, <3>2
  <2>4. part = 0 => m = 0
    OBVIOUS
  <2>5. part = of => m = total * of
    OBVIOUS
  <2> HIDE DEF m
  <2>6. q \in Nat /\ q * of <= m /\ m < q * of + of
    BY <2>2, DivBound
  <2>7. part <= of => q <= total
    BY <2>2, <2>3, DivAtMost
  <2>8. part = of => q >= total
    <3> SUFFICES ASSUME part = of, q < total PROVE FALSE
      BY <2>6
    <3>1. q * of + of <= total * of
      BY <1>2, <2>6, MulStrict
    <3> HIDE DEF q
    <3> QED BY <2>5, <2>6, <3>1, <2>2
  <2>9. part = 0 => q = 0
    <3> HAVE part = 0
    <3>1. m <= 0 * of /\ 0 \in Nat
      BY <2>4
    <3>2. q <= 0
      BY <2>2, <3>1, DivAtMost
    <3> QED BY <2>6, <3>2
  <2> HIDE DEF q
  <2> QED BY <2>1, <2>6, <2>7, <2>8, <2>9
<1> QED BY <1>1, <1>2

(* A claim moves its reward into what counts as withdrawn, by the user and *)
(* in the pool.                                                            *)
LEMMA ClaimFacts ==
  ASSUME NEW p \in Pools, NEW i \in Infos, NoShareNoDebt(i), p.withdrawn <= p.reward,
         block \in Nat
  PROVE  LET r == reward_to_withdraw(p, i)
             q == claimed_pool(p, i)
             j == claimed_share(p, i)
         IN /\ r \in Nat /\ r <= p.reward - p.withdrawn
            /\ q \in Pools /\ q.total_shares = p.total_shares /\ q.reward = p.reward
            /\ q.withdrawn = p.withdrawn + r
            /\ j \in Infos /\ j.share = i.share /\ j.withdrawn = i.withdrawn + r
            /\ j.withdraw_list = i.withdraw_list /\ NoShareNoDebt(j)
            /\ i \in ShareInfos => j \in ShareInfos
<1> DEFINE r == reward_to_withdraw(p, i)
           q == claimed_pool(p, i)
           j == claimed_share(p, i)
           owing == Proportion(i.share, p.reward, p.total_shares)
<1>1. /\ p.total_shares \in Nat /\ p.reward \in Nat /\ p.withdrawn \in Nat
      /\ p = [total_shares |-> p.total_shares, reward |-> p.reward, withdrawn |-> p.withdrawn]
      /\ i.share \in Nat /\ i.withdrawn \in Nat
  BY InfoFields DEF Pools
<1>2. owing \in Nat /\ (i.share = 0 => owing = 0)
  BY <1>1, ProportionBound
<1> HIDE DEF owing
<1>3. /\ SatSub(owing, i.withdrawn) \in Nat
      /\ SatSub(p.reward, p.withdrawn) = p.reward - p.withdrawn
      /\ i.share = 0 => SatSub(owing, i.withdrawn) = 0
  <2>1. SatSub(owing, i.withdrawn) = IF owing >= i.withdrawn THEN owing - i.withdrawn ELSE 0
    BY ONLY <1>1, <1>2, SatSubIs
  <2>2. SatSub(p.reward, p.withdrawn)
          = IF p.reward >= p.withdrawn THEN p.reward - p.withdrawn ELSE 0
    BY ONLY <1>1, SatSubIs
  <2> QED BY <1>1, <1>2, <2>1, <2>2 DEF NoShareNoDebt
<1>4. r = Min({SatSub(owing, i.withdrawn), SatSub(p.reward, p.withdrawn)})
  BY DEF reward_to_withdraw, owing
<1>5. r \in Nat /\ r <= p.reward - p.withdrawn /\ (i.share = 0 => r = 0)
  BY <1>1, <1>3, <1>4, MinOfTwo
<1>6. q = [p EXCEPT !.withdrawn = p.withdrawn + r]
  BY DEF claimed_pool
<1>7. j = IF i.share = 0 THEN i
          ELSE [i EXCEPT !.withdrawn = i.withdrawn + r, !.claim_last_block = block]
  BY DEF claimed_share
<1> HIDE DEF r, q, j
<1>8. /\ q \in Pools /\ q.total_shares = p.total_shares /\ q.reward = p.reward
      /\ q.withdrawn = p.withdrawn + r
  BY <1>1, <1>5, <1>6 DEF Pools
<1>9. /\ j \in Infos /\ j.share = i.share /\ j.withdrawn = i.withdrawn + r
      /\ j.withdraw_list = i.withdraw_list /\ (i \in ShareInfos => j \in ShareInfos)
  <2>1. CASE i.share = 0
    BY <1>1, <1>5, <1>7, <2>1
  <2>2. CASE i.share # 0
    <3>1. i \in ShareInfos
      BY <2>2, NoInfoFields DEF Infos
    <3>2. /\ j \in ShareInfos /\ j.share = i.share /\ j.withdrawn = i.withdrawn + r
          /\ j.withdraw_list = i.withdraw_list
      <4>1. i.claim_last_block \in Nat /\ i.withdraw_list \in Seq(Withdrawals)
        BY InfoFields
      <4>2. i = [share |-> i.share, withdrawn |-> i.withdrawn,
                 claim_last_block |-> i.claim_last_block, withdraw_list |-> i.withdraw_list]
        BY <3>1 DEF ShareInfos
      <4>3. j = [share |-> i.share, withdrawn |-> i.withdrawn + r,
                 claim_last_block |-> block, withdraw_list |-> i.withdraw_list]
        BY <1>7, <2>2, <4>2
      <4>4. i.withdrawn + r \in Nat
        BY <1>1, <1>5
      <4> QED BY <1>1, <4>1, <4>3, <4>4 DEF ShareInfos
    <3> QED BY <3>2 DEF Infos
  <2> QED BY <2>1, <2>2
<1>10. NoShareNoDebt(j)
  BY <1>1, <1>5, <1>9 DEF NoShareNoDebt
<1> QED BY <1>5, <1>8, <1>9, <1>10 DEF r, q, j
(* Removing shares keeps what the other users own and what the pool has    *)
(* left to give, also when its entry of rewards is dropped.  A removal of  *)
(* nothing may forget withdrawals, so what is owed may only shrink.        *)
LEMMA RemoveFacts ==
  ASSUME NEW p \in Pools, NEW i \in Infos, NoShareNoDebt(i),
         i.share <= p.total_shares, i.withdrawn <= p.withdrawn, p.withdrawn <= p.reward,
         NEW amount \in Nat, amount <= i.share, amount = 0 => i.share = 0, NEW due \in Nat
  PROVE  LET a == after_remove(p, i, amount, due)
         IN /\ a.pool \in Pools /\ a.info \in Infos
            /\ a.pool.total_shares - a.info.share = p.total_shares - i.share
            /\ a.pool.withdrawn - a.info.withdrawn = p.withdrawn - i.withdrawn
            /\ a.pool.reward - a.pool.withdrawn = p.reward - p.withdrawn
            /\ a.info.share = i.share - amount /\ NoShareNoDebt(a.info)
            /\ OwedTo(a.info) <= OwedTo(i)
<1> DEFINE a == after_remove(p, i, amount, due)
           cut == Proportion(amount, i.withdrawn, i.share)
<1>1. /\ p.total_shares \in Nat /\ p.reward \in Nat /\ p.withdrawn \in Nat
      /\ p = [total_shares |-> p.total_shares, reward |-> p.reward, withdrawn |-> p.withdrawn]
      /\ i.share \in Nat /\ i.withdrawn \in Nat /\ i.claim_last_block \in Nat
      /\ i.withdraw_list \in Seq(Withdrawals) /\ OwedTo(i) \in Nat
  BY InfoFields, OwedNat DEF Pools
<1>2. CASE amount = 0
  <2>1. a = [pool |-> p, info |-> NoInfo]
    BY <1>2 DEF after_remove
  <2>2. a.pool = p /\ a.info = NoInfo
    BY <2>1
  <2>3. OwedTo(NoInfo) = 0
    BY NoInfoFields, ValuesEmpty DEF OwedTo
  <2>4. i.share = 0 /\ i.withdrawn = 0
    BY <1>2 DEF NoShareNoDebt
  <2> HIDE DEF a
  <2> QED BY <1>1, <1>2, <2>2, <2>3, <2>4, NoInfoFields DEF NoShareNoDebt, a
<1>3. CASE amount > 0
  <2>1. i \in ShareInfos
    BY <1>1, <1>3, NoInfoFields DEF Infos
  <2>2. cut \in Nat /\ cut <= i.withdrawn /\ (amount = i.share => cut = i.withdrawn)
    <3>1. /\ cut \in Nat
          /\ amount <= i.share => cut <= i.withdrawn
          /\ amount = i.share /\ i.share > 0 => cut = i.withdrawn
      BY <1>1, ProportionBound
    <3> QED BY <1>1, <1>3, <3>1
  <2>3. a = [pool |-> removed_pool(p, amount, cut), info |-> removed_share(i, amount, cut, due)]
    BY <1>3 DEF after_remove
  <2> HIDE DEF cut
  <2>4. PICK e : e = [due |-> due, value |-> amount]
    OBVIOUS
  <2>5. e \in Withdrawals /\ e.value = amount
    BY <2>4 DEF Withdrawals
  <2>6. SatSub(i.withdrawn, cut) = i.withdrawn - cut
    BY ONLY <1>1, <2>2, SatSubIs
  <2>7. SatSub(p.total_shares, amount) = p.total_shares - amount
    <3>1. amount <= p.total_shares
      BY <1>1
    <3> QED BY ONLY <1>1, <3>1, SatSubIs, amount \in Nat
  <2>8. SatSub(p.reward, cut) = p.reward - cut /\ SatSub(p.withdrawn, cut) = p.withdrawn - cut
    <3>1. cut <= p.withdrawn /\ cut <= p.reward
      BY <1>1, <2>2
    <3> QED BY ONLY <1>1, <2>2, <3>1, SatSubIs
  <2>9. /\ Append(i.withdraw_list, e) \in Seq(Withdrawals)
        /\ Values(Append(i.withdraw_list, e)) = Values(i.withdraw_list) + amount
        /\ Values(i.withdraw_list) \in Nat
    BY <1>1, <2>5, ValuesAppend, ValuesNat
  <2>10. removed_share(i, amount, cut, due)
           = [share |-> i.share - amount, withdrawn |-> i.withdrawn - cut,
              claim_last_block |-> i.claim_last_block,
              withdraw_list |-> Append(i.withdraw_list, e)]
    <3>1. i = [share |-> i.share, withdrawn |-> i.withdrawn,
               claim_last_block |-> i.claim_last_block, withdraw_list |-> i.withdraw_list]
      BY <2>1 DEF ShareInfos
    <3>2. removed_share(i, amount, cut, due)
            = [i EXCEPT !.share = i.share - amount, !.withdrawn = SatSub(i.withdrawn, cut),
                        !.withdraw_list = Append(i.withdraw_list, e)]
      BY <2>4 DEF removed_share
    <3> QED BY <2>6, <3>1, <3>2
  <2>11. PICK j : j = removed_share(i, amount, cut, due)
    OBVIOUS
  <2>12. i.share - amount \in Nat /\ i.withdrawn - cut \in Nat
    BY <1>1, <2>2, SMTT(30)
  <2>13. /\ j \in Infos /\ j.share = i.share - amount /\ j.withdrawn = i.withdrawn - cut
         /\ j.withdraw_list = Append(i.withdraw_list, e)
    BY <1>1, <2>9, <2>10, <2>11, <2>12, SMTT(30) DEF Infos, ShareInfos
  <2>14. OwedTo(j) = OwedTo(i)
    BY <1>1, <2>9, <2>13 DEF OwedTo
  <2>15. NoShareNoDebt(j)
    BY <1>1, <2>2, <2>13 DEF NoShareNoDebt
  <2>16. PICK q : q = removed_pool(p, amount, cut)
    OBVIOUS
  <2>17. a.pool = q /\ a.info = j
    BY <2>3, <2>11, <2>16
  <2>18. /\ q \in Pools /\ q.total_shares = p.total_shares - amount
         /\ q.withdrawn = p.withdrawn - cut /\ q.reward - q.withdrawn = p.reward - p.withdrawn
    <3>1. CASE p.reward - cut = 0
      <4>1. q = [EmptyPool EXCEPT !.total_shares = p.total_shares - amount]
        BY <2>7, <2>8, <2>16, <3>1 DEF removed_pool
      <4>2. q = [total_shares |-> p.total_shares - amount, reward |-> 0, withdrawn |-> 0]
        BY <4>1 DEF EmptyPool
      <4>3. p.withdrawn = cut /\ p.reward = cut
        BY <1>1, <2>2, <3>1
      <4>4. p.total_shares - amount \in Nat
        BY <1>1
      <4> QED BY <1>1, <2>2, <4>2, <4>3, <4>4 DEF Pools
    <3>2. CASE p.reward - cut # 0
      <4>1. q = [p EXCEPT !.total_shares = p.total_shares - amount, !.reward = p.reward - cut,
                          !.withdrawn = p.withdrawn - cut]
        BY <2>7, <2>8, <2>16, <3>2 DEF removed_pool
      <4>2. q = [total_shares |-> p.total_shares - amount, reward |-> p.reward - cut,
                 withdrawn |-> p.withdrawn - cut]
        BY <1>1, <4>1
      <4>3. p.total_shares - amount \in Nat /\ p.reward - cut \in Nat /\ p.withdrawn - cut \in Nat
        BY <1>1, <2>2, SMTT(30)
      <4> QED BY <1>1, <2>2, <4>2, <4>3 DEF Pools
    <3> QED BY <3>1, <3>2
  <2> HIDE DEF a
  <2>19. q.total_shares - j.share = p.total_shares - i.share
    BY <1>1, <2>13, <2>18
  <2>20. q.withdrawn - j.withdrawn = p.withdrawn - i.withdrawn
    BY <1>1, <2>2, <2>13, <2>18
  <2> QED BY <1>1, <2>13, <2>14, <2>15, <2>17, <2>18, <2>19, <2>20 DEF a
<1> QED BY <1>2, <1>3

(* What process_withdraw_list leaves; only an empty record is dropped.     *)
LEMMA ProcessedFacts ==
  ASSUME NEW i \in ShareInfos, NoShareNoDebt(i), NEW b \in BOOLEAN, block \in Nat
  PROVE  LET j == processed(i, b)
         IN /\ j \in Infos /\ j.share = i.share /\ j.withdrawn = i.withdrawn
            /\ NoShareNoDebt(j) /\ due_value(i) \in Nat
            /\ OwedTo(j) = OwedTo(i) - due_value(i)
<1> DEFINE j == processed(i, b)
           s == SplitList(i.withdraw_list)
           left == [i EXCEPT !.withdraw_list = remaining(i.withdraw_list)]
<1>1. /\ i \in Infos /\ i.share \in Nat /\ i.withdrawn \in Nat /\ i.claim_last_block \in Nat
      /\ i.withdraw_list \in Seq(Withdrawals)
      /\ i = [share |-> i.share, withdrawn |-> i.withdrawn,
              claim_last_block |-> i.claim_last_block, withdraw_list |-> i.withdraw_list]
  BY DEF ShareInfos, Infos
<1>2. /\ s.left \in Seq(Withdrawals) /\ s.paid \in Nat
      /\ Values(s.left) + s.paid = Values(i.withdraw_list)
  BY <1>1, SplitAddsUp
<1>3. due_value(i) = s.paid
  BY DEF due_value
<1>4. left = [share |-> i.share, withdrawn |-> i.withdrawn,
              claim_last_block |-> i.claim_last_block, withdraw_list |-> s.left]
  BY <1>1 DEF remaining
<1>5. j = IF b /\ left.withdraw_list = <<>> /\ left.share = 0 THEN NoInfo ELSE left
  BY DEF processed
<1> HIDE DEF j, s, left
<1>6. /\ left \in Infos /\ left.share = i.share /\ left.withdrawn = i.withdrawn
      /\ left.withdraw_list = s.left
  BY <1>1, <1>2, <1>4 DEF Infos, ShareInfos
<1>7. Values(s.left) \in Nat /\ Values(i.withdraw_list) \in Nat
  BY <1>1, <1>2, ValuesNat
<1>8. CASE b /\ left.withdraw_list = <<>> /\ left.share = 0
  <2>1. j = NoInfo
    BY <1>5, <1>8
  <2>2. i.share = 0 /\ i.withdrawn = 0 /\ Values(s.left) = 0
    BY <1>6, <1>8, ValuesEmpty DEF NoShareNoDebt
  <2>3. OwedTo(j) = 0 /\ OwedTo(i) = s.paid
    BY <1>2, <1>7, <2>1, <2>2, NoInfoFields, ValuesEmpty DEF OwedTo
  <2>4. NoShareNoDebt(j)
    BY <2>1, NoInfoFields DEF NoShareNoDebt
  <2> QED BY <1>2, <1>3, <2>1, <2>2, <2>3, <2>4, NoInfoFields DEF j
<1>9. CASE ~(b /\ left.withdraw_list = <<>> /\ left.share = 0)
  <2>1. j = left
    BY <1>5, <1>9
  <2>2. OwedTo(j) = OwedTo(i) - s.paid
    BY <1>1, <1>2, <1>6, <1>7, <2>1 DEF OwedTo
  <2>3. NoShareNoDebt(j)
    BY <1>6, <2>1 DEF NoShareNoDebt
  <2> QED BY <1>2, <1>3, <1>6, <2>1, <2>2, <2>3 DEF j
<1> QED BY <1>8, <1>9

(* A deposit counts the inflation it causes as withdrawn by its user.      *)
LEMMA InflateFacts ==
  ASSUME NEW p \in Pools, NEW i \in ShareInfos, NEW amount \in Nat, amount > 0
  PROVE  LET f == inflation_of(p, amount)
             q == inflated_pool(p, amount, f)
             j == inflated_share(i, amount, f)
         IN /\ f \in Nat /\ q \in Pools /\ j \in Infos
            /\ q.total_shares = p.total_shares + amount
            /\ q.reward = p.reward + f /\ q.withdrawn = p.withdrawn + f
            /\ j.share = i.share + amount /\ j.withdrawn = i.withdrawn + f
            /\ j.withdraw_list = i.withdraw_list /\ NoShareNoDebt(j)
<1> DEFINE f == inflation_of(p, amount)
           q == inflated_pool(p, amount, f)
           j == inflated_share(i, amount, f)
<1>1. /\ p.total_shares \in Nat /\ p.reward \in Nat /\ p.withdrawn \in Nat
      /\ p = [total_shares |-> p.total_shares, reward |-> p.reward, withdrawn |-> p.withdrawn]
      /\ i.share \in Nat /\ i.withdrawn \in Nat /\ i.claim_last_block \in Nat
      /\ i.withdraw_list \in Seq(Withdrawals)
      /\ i = [share |-> i.share, withdrawn |-> i.withdrawn,
              claim_last_block |-> i.claim_last_block, withdraw_list |-> i.withdraw_list]
  BY DEF Pools, ShareInfos
<1>2. f \in Nat
  BY <1>1, ProportionBound DEF inflation_of
<1> HIDE DEF f
<1>3. q = [total_shares |-> p.total_shares + amount, reward |-> p.reward + f,
           withdrawn |-> p.withdrawn + f]
  <2>1. q = [p EXCEPT !.total_shares = p.total_shares + amount, !.reward = p.reward + f,
                      !.withdrawn = p.withdrawn + f]
    BY DEF inflated_pool
  <2> HIDE DEF q, j
  <2> QED BY <1>1, <2>1
<1>4. j = [share |-> i.share + amount, withdrawn |-> i.withdrawn + f,
           claim_last_block |-> i.claim_last_block, withdraw_list |-> i.withdraw_list]
  <2>1. j = [i EXCEPT !.share = i.share + amount, !.withdrawn = i.withdrawn + f]
    BY DEF inflated_share
  <2> HIDE DEF q, j
  <2> QED BY <1>1, <2>1
<1> HIDE DEF q, j
<1>5. /\ p.total_shares + amount \in Nat /\ p.reward + f \in Nat /\ p.withdrawn + f \in Nat
      /\ i.share + amount \in Nat /\ i.withdrawn + f \in Nat
  BY <1>1, <1>2, SMTT(30)
<1>6. /\ q \in Pools /\ q.total_shares = p.total_shares + amount
      /\ q.reward = p.reward + f /\ q.withdrawn = p.withdrawn + f
  BY <1>3, <1>5 DEF Pools
<1>7. /\ j \in Infos /\ j.share = i.share + amount /\ j.withdrawn = i.withdrawn + f
      /\ j.withdraw_list = i.withdraw_list
  BY <1>1, <1>4, <1>5 DEF Infos, ShareInfos
<1>8. NoShareNoDebt(j)
  BY <1>1, <1>7 DEF NoShareNoDebt
<1> QED BY <1>2, <1>6, <1>7, <1>8 DEF f, q, j
-----------------------------------------------------------------------------
(* The loop of force_retire_pool.                                          *)

RetireStart == [pool |-> pool, info |-> info, wallet |-> wallet, keeper |-> keeper, reward |-> 0]

IsRetire(w, n, order) ==
  w = [k \in 0..n |-> IF k = 0 THEN RetireStart ELSE retired(w[k-1], order[k])]

(* The recursion of retired_all has a solution, which CHOOSE finds.        *)
LEMMA RetiredAllIs ==
  ASSUME NEW order, NEW n \in Nat
  PROVE  \E w : IsRetire(w, n, order) /\ retired_all(order, n) = w[n]
<1> DEFINE T == {m \in Nat : \E w : IsRetire(w, m, order)}
<1>1. 0 \in T
  <2> DEFINE w == [k \in 0..0 |-> RetireStart]
  <2>1. w = [k \in 0..0 |-> IF k = 0 THEN RetireStart ELSE retired(w[k-1], order[k])]
    OBVIOUS
  <2> QED BY <2>1 DEF IsRetire
<1>2. \A m \in T : m + 1 \in T
  <2> SUFFICES ASSUME NEW m \in T PROVE m + 1 \in T
    OBVIOUS
  <2>1. PICK w : IsRetire(w, m, order)
    OBVIOUS
  <2> DEFINE v == [k \in 0..(m+1) |-> IF k = m + 1 THEN retired(w[m], order[m+1]) ELSE w[k]]
  <2>2. ASSUME NEW k \in 0..(m+1)
        PROVE  v[k] = IF k = 0 THEN RetireStart ELSE retired(v[k-1], order[k])
    <3>1. CASE k = m + 1
      <4>1. v[k] = retired(w[m], order[m+1]) /\ k - 1 = m /\ v[k-1] = w[m] /\ k # 0
        BY <3>1
      <4> HIDE DEF v
      <4> QED BY <3>1, <4>1
    <3>2. CASE k # m + 1
      <4>1. k \in 0..m
        BY <3>2
      <4>2. v[k] = w[k] /\ (k # 0 => v[k-1] = w[k-1])
        BY <4>1
      <4>3. w[k] = IF k = 0 THEN RetireStart ELSE retired(w[k-1], order[k])
        BY <2>1, <4>1 DEF IsRetire
      <4> HIDE DEF v
      <4> QED BY <4>2, <4>3
    <3> QED BY <3>1, <3>2
  <2>3. v = [k \in 0..(m+1) |-> IF k = 0 THEN RetireStart ELSE retired(v[k-1], order[k])]
    BY <2>2
  <2> HIDE DEF v
  <2>4. IsRetire(v, m+1, order)
    BY <2>3 DEF IsRetire
  <2> QED BY <2>4
<1> HIDE DEF T
<1>3. T = Nat
  BY <1>1, <1>2, SetInduction DEF T
<1>4. \E w : IsRetire(w, n, order)
  BY <1>3 DEF T
<1> DEFINE w == CHOOSE w : w = [k \in 0..n |->
                  IF k = 0 THEN [pool |-> pool, info |-> info, wallet |-> wallet,
                                 keeper |-> keeper, reward |-> 0]
                  ELSE retired(w[k-1], order[k])]
<1>5. IsRetire(w, n, order)
  BY <1>4 DEF IsRetire, RetireStart
<1>6. retired_all(order, n) = w[n]
  BY DEF retired_all
<1> HIDE DEF w
<1> QED BY <1>5, <1>6

Sound(w) ==
  /\ Books(w.pool, w.info) /\ w.wallet \in [Users -> Nat]
  /\ w.keeper \in Nat /\ w.keeper >= Total(OwedTokens(w.info)) /\ w.reward \in Nat

\* What the pool of w can still give, and what it was made to give so far.
Given(w) == w.pool.reward - w.pool.withdrawn + w.reward

(* One user retired: the books stay right, the rewards paid come out of    *)
(* the pool, and the user's share is gone.                                 *)
LEMMA RetiredStep ==
  ASSUME NEW w, Sound(w), NEW u \in Users, block \in Nat
  PROVE  LET x == retired(w, u)
         IN /\ Sound(x) /\ Given(x) = Given(w)
            /\ x.pool.total_shares <= w.pool.total_shares
            /\ x.info[u].share = 0 /\ \A v \in Users : v # u => x.info[v] = w.info[v]
<1> DEFINE i == w.info[u]
           r == reward_to_withdraw(w.pool, i)
           q == claimed_pool(w.pool, i)
           j == claimed_share(w.pool, i)
           a == after_remove(q, j, i.share, block)
           value == due_value(a.info)
           m == IF a.info = NoInfo THEN NoInfo ELSE processed(a.info, TRUE)
           x == retired(w, u)
<1>1. /\ w.info \in [Users -> Infos] /\ Books(w.pool, w.info) /\ w.wallet \in [Users -> Nat]
      /\ w.keeper \in Nat /\ w.keeper >= Total(OwedTokens(w.info)) /\ w.reward \in Nat
  BY DEF Sound, Books
<1>2. /\ i \in Infos /\ NoShareNoDebt(i)
      /\ i.share <= w.pool.total_shares /\ i.withdrawn <= w.pool.withdrawn
      /\ w.pool.withdrawn <= w.pool.reward /\ w.pool \in Pools
  BY <1>1, UserWithinTotals
<1>3. x = [pool |-> a.pool, info |-> [w.info EXCEPT ![u] = m],
           wallet |-> [w.wallet EXCEPT ![u] = w.wallet[u] + value],
           keeper |-> w.keeper - value, reward |-> w.reward + r]
  BY DEF retired
<1> HIDE DEF i, r, q, j, a, value, m, x
<1>4. /\ r \in Nat /\ r <= w.pool.reward - w.pool.withdrawn
      /\ q \in Pools /\ q.total_shares = w.pool.total_shares /\ q.reward = w.pool.reward
      /\ q.withdrawn = w.pool.withdrawn + r
      /\ j \in Infos /\ j.share = i.share /\ j.withdrawn = i.withdrawn + r
      /\ j.withdraw_list = i.withdraw_list /\ NoShareNoDebt(j)
  BY <1>2, ClaimFacts DEF r, q, j
<1>5. /\ w.pool.total_shares \in Nat /\ w.pool.reward \in Nat /\ w.pool.withdrawn \in Nat
      /\ q.total_shares \in Nat /\ q.reward \in Nat /\ q.withdrawn \in Nat
      /\ i.share \in Nat /\ i.withdrawn \in Nat
      /\ OwedTo(i) \in Nat /\ OwedTo(j) = OwedTo(i)
  BY <1>2, <1>4, InfoFields, OwedNat DEF Pools, OwedTo
<1>6. j.share <= q.total_shares /\ j.withdrawn <= q.withdrawn /\ q.withdrawn <= q.reward
  BY <1>2, <1>4, <1>5
<1>7. /\ a.pool \in Pools /\ a.info \in Infos
      /\ a.pool.total_shares - a.info.share = q.total_shares - j.share
      /\ a.pool.withdrawn - a.info.withdrawn = q.withdrawn - j.withdrawn
      /\ a.pool.reward - a.pool.withdrawn = q.reward - q.withdrawn
      /\ a.info.share = j.share - i.share /\ NoShareNoDebt(a.info)
      /\ OwedTo(a.info) <= OwedTo(j)
  <2>1. i.share <= j.share /\ (i.share = 0 => j.share = 0)
    BY <1>4, <1>5
  <2> QED BY <1>4, <1>5, <1>6, <2>1, RemoveFacts DEF a
<1>8. /\ m \in Infos /\ m.share = a.info.share /\ m.withdrawn = a.info.withdrawn
      /\ NoShareNoDebt(m) /\ value \in Nat /\ OwedTo(m) = OwedTo(a.info) - value
  <2>1. CASE a.info = NoInfo
    <3>1. m = NoInfo /\ value = SplitList(<<>>).paid
      BY <2>1, NoInfoFields DEF m, value, due_value
    <3>2. <<>> \in Seq(Withdrawals)
      OBVIOUS
    <3>3. /\ SplitList(<<>>).left \in Seq(Withdrawals) /\ SplitList(<<>>).paid \in Nat
          /\ Values(SplitList(<<>>).left) + SplitList(<<>>).paid = Values(<<>>)
      BY <3>2, SplitAddsUp
    <3>4. Values(SplitList(<<>>).left) \in Nat
      BY <3>3, ValuesNat
    <3>5. value = 0
      BY <3>1, <3>3, <3>4, ValuesEmpty
    <3>6. OwedTo(a.info) \in Nat
      BY <1>7, OwedNat
    <3> QED BY <1>7, <2>1, <3>1, <3>5, <3>6, NoInfoFields
  <2>2. CASE a.info # NoInfo
    <3>1. a.info \in ShareInfos /\ m = processed(a.info, TRUE)
      BY <1>7, <2>2 DEF Infos, m
    <3> QED BY <1>7, <3>1, ProcessedFacts DEF value
  <2> QED BY <2>1, <2>2
<1>9. /\ a.pool.total_shares \in Nat /\ a.pool.reward \in Nat /\ a.pool.withdrawn \in Nat
      /\ m.share \in Nat /\ m.withdrawn \in Nat /\ OwedTo(m) \in Nat /\ OwedTo(a.info) \in Nat
  BY <1>7, <1>8, InfoFields, OwedNat DEF Pools
<1>10. /\ x.pool = a.pool /\ x.info = [w.info EXCEPT ![u] = m]
       /\ x.wallet = [w.wallet EXCEPT ![u] = w.wallet[u] + value]
       /\ x.keeper = w.keeper - value /\ x.reward = w.reward + r
  BY <1>3
<1>11. Books(x.pool, x.info)
  <2>1. a.pool.total_shares - m.share = w.pool.total_shares - w.info[u].share
    BY <1>4, <1>5, <1>7, <1>8, <1>9 DEF i
  <2>2. a.pool.withdrawn - m.withdrawn = w.pool.withdrawn - w.info[u].withdrawn
    BY <1>4, <1>5, <1>7, <1>8, <1>9 DEF i
  <2>3. a.pool.withdrawn <= a.pool.reward
    BY <1>4, <1>5, <1>7, <1>9
  <2> QED BY <1>1, <1>7, <1>8, <1>10, <2>1, <2>2, <2>3, OneUser
<1>12. x.keeper >= Total(OwedTokens(x.info)) /\ x.keeper \in Nat
  <2>1. x.keeper \in Int /\ x.keeper - OwedTo(m) >= w.keeper - OwedTo(w.info[u])
    BY <1>1, <1>5, <1>7, <1>8, <1>9, <1>10 DEF i
  <2> QED BY <1>1, <1>8, <1>10, <2>1, OneOwed
<1>13. x.wallet \in [Users -> Nat] /\ x.reward \in Nat
  BY <1>1, <1>4, <1>8, <1>10
<1>14. Given(x) = Given(w)
  BY <1>1, <1>4, <1>5, <1>7, <1>9, <1>10 DEF Given
<1>15. x.pool.total_shares <= w.pool.total_shares
  BY <1>4, <1>5, <1>7, <1>9, <1>8, <1>10
<1>16. x.info[u].share = 0 /\ \A v \in Users : v # u => x.info[v] = w.info[v]
  BY <1>1, <1>4, <1>5, <1>7, <1>8, <1>10
<1> QED BY <1>11, <1>12, <1>13, <1>14, <1>15, <1>16 DEF Sound, x

(* The loop over n users: as RetiredStep, and the users reached have no    *)
(* shares left.                                                            *)
LEMMA RetiredAllOK ==
  ASSUME Sound(RetireStart), block \in Nat, NEW n \in Nat, NEW order,
         \A k \in 1..n : order[k] \in Users
  PROVE  LET w == retired_all(order, n)
         IN /\ Sound(w) /\ Given(w) = Given(RetireStart)
            /\ w.pool.total_shares <= pool.total_shares
            /\ \A v \in Users : w.info[v] = info[v] \/ w.info[v].share = 0
            /\ \A k \in 1..n : w.info[order[k]].share = 0
<1>1. PICK w : IsRetire(w, n, order) /\ retired_all(order, n) = w[n]
  BY RetiredAllIs
<1> DEFINE Good(k) == /\ Sound(w[k]) /\ Given(w[k]) = Given(RetireStart)
                      /\ w[k].pool.total_shares <= pool.total_shares
                      /\ \A v \in Users : w[k].info[v] = info[v] \/ w[k].info[v].share = 0
                      /\ \A l \in 1..k : w[k].info[order[l]].share = 0
           T == {k \in Nat : k <= n => Good(k)}
<1>0. RetireStart.pool = pool /\ RetireStart.info = info
  BY DEF RetireStart
<1>2. 0 \in T
  <2>1. w[0] = RetireStart
    BY <1>1 DEF IsRetire
  <2>2. pool.total_shares \in Nat
    BY <1>0 DEF Sound, Books, Pools
  <2>3. Good(0)
    BY <1>0, <2>1, <2>2
  <2> HIDE DEF Good
  <2> QED BY <2>3
<1>3. \A k \in T : k + 1 \in T
  <2> HIDE DEF Good
  <2> SUFFICES ASSUME NEW k \in T, k + 1 <= n PROVE Good(k + 1)
    OBVIOUS
  <2>1. k \in Nat /\ k + 1 \in 1..n /\ k + 1 \in 0..n /\ k + 1 # 0 /\ k <= n /\ k + 1 - 1 = k
    OBVIOUS
  <2>2. Good(k)
    BY <2>1
  <2> USE DEF Good
  <2>3. w[k+1] = retired(w[k], order[k+1])
    BY <1>1, <2>1 DEF IsRetire
  <2>4. PICK u \in Users : u = order[k+1]
    BY <2>1
  <2>5. /\ Sound(w[k+1]) /\ Given(w[k+1]) = Given(w[k])
        /\ w[k+1].pool.total_shares <= w[k].pool.total_shares
        /\ w[k+1].info[u].share = 0
        /\ \A v \in Users : v # u => w[k+1].info[v] = w[k].info[v]
    BY <2>2, <2>3, <2>4, RetiredStep
  <2>6. w[k+1].pool.total_shares <= pool.total_shares
    <3>1. w[k+1].pool.total_shares \in Nat /\ w[k].pool.total_shares \in Nat /\ pool.total_shares \in Nat
      BY <1>0, <2>2, <2>5 DEF Sound, Books, Pools
    <3> QED BY <2>2, <2>5, <3>1
  <2>7. \A v \in Users : w[k+1].info[v] = info[v] \/ w[k+1].info[v].share = 0
    BY <2>2, <2>5
  <2>8. ASSUME NEW l \in 1..(k+1) PROVE w[k+1].info[order[l]].share = 0
    <3>1. CASE order[l] = u
      BY <2>5, <3>1
    <3>2. CASE order[l] # u
      <4>1. l \in 1..k /\ order[l] \in Users
        BY <2>1, <2>4, <3>2
      <4> QED BY <2>2, <2>5, <3>2, <4>1
    <3> QED BY <3>1, <3>2
  <2> QED BY <2>2, <2>5, <2>6, <2>7, <2>8
<1> HIDE DEF T
<1>4. T = Nat
  BY <1>2, <1>3, SetInduction DEF T
<1>5. Good(n)
  BY <1>4 DEF T
<1> QED BY <1>1, <1>5
-----------------------------------------------------------------------------
(* The invariant.                                                          *)

LEMMA EmptyBooks ==
  ASSUME NEW i \in [Users -> Infos], \A u \in Users : i[u].share = 0 /\ i[u].withdrawn = 0
  PROVE  Books(EmptyPool, i)
<1>1. IsFiniteSet(Users)
  BY FarmingAssumption
<1>2. \A u \in Users : Shares(i)[u] = 0 /\ Withdrawn(i)[u] = 0
  BY DEF Shares, Withdrawn
<1>3. Total(Shares(i)) = 0 /\ Total(Withdrawn(i)) = 0
  BY <1>1, <1>2, SetSumZero DEF Total
<1>4. /\ EmptyPool.total_shares = 0 /\ EmptyPool.reward = 0 /\ EmptyPool.withdrawn = 0
      /\ EmptyPool \in Pools
  BY DEF EmptyPool, Pools
<1> QED BY <1>3, <1>4 DEF Books, NoShareNoDebt

LEMMA NobodyOwed ==
  ASSUME NEW i, \A u \in Users : i[u] = NoInfo
  PROVE  Total(OwedTokens(i)) = 0
<1>1. \A u \in Users : OwedTokens(i)[u] = 0
  BY NoInfoFields, ValuesEmpty DEF OwedTokens
<1> QED BY <1>1, FarmingAssumption, SetSumZero DEF Total

LEMMA InitInv == Init => FarmInv
<1> SUFFICES ASSUME Init PROVE FarmInv
  OBVIOUS
<1> USE FarmingAssumption
<1>1. \A u \in Users : info[u] = NoInfo
  BY DEF Init
<1>2. info \in [Users -> Infos]
  BY NoInfoFields DEF Init
<1>3. Books(pool, info)
  BY <1>1, <1>2, EmptyBooks, NoInfoFields DEF Init
<1>4. keeper >= Total(OwedTokens(info))
  BY <1>1, NobodyOwed DEF Init
<1>5. pool \in Pools /\ pool.reward = 0 /\ pool.withdrawn = 0
  BY DEF Init, EmptyPool, Pools
<1>6. TypeOK
  <2>1. wallet \in [Users -> Nat] /\ keeper \in Nat /\ issuer \in Nat
    BY DEF Init
  <2>2. block \in 0..MaxBlock /\ state \in States /\ edits \in 0..MaxEdits
    BY DEF Init, States
  <2>3. /\ params \in [basic_rewards : Nat, withdraw_limit_time : Nat]
        /\ history \in [accrued : Nat, paid : Nat]
    BY DEF Init
  <2> QED BY <1>2, <1>5, <2>1, <2>2, <2>3 DEF TypeOK, Infos, Pools
<1>7. RewardsConserved
  BY <1>5 DEF RewardsConserved, Init
<1>8. state # "Retired"
  BY DEF Init
<1> QED BY <1>3, <1>4, <1>6, <1>7, <1>8 DEF FarmInv, KeeperCovers

(* The types, spelt out.                                                   *)
LEMMA TypeFacts ==
  ASSUME TypeOK
  PROVE  /\ block \in Nat /\ block \in 0..MaxBlock /\ state \in States /\ edits \in 0..MaxEdits
         /\ params.basic_rewards \in Nat /\ params.withdraw_limit_time \in Nat
         /\ params \in [basic_rewards : Nat, withdraw_limit_time : Nat]
         /\ pool \in Pools /\ pool.total_shares \in Nat /\ pool.reward \in Nat
         /\ pool.withdrawn \in Nat /\ info \in [Users -> Infos]
         /\ wallet \in [Users -> Nat] /\ keeper \in Nat /\ issuer \in Nat
         /\ history \in [accrued : Nat, paid : Nat]
         /\ history.accrued \in Nat /\ history.paid \in Nat
         /\ history = [accrued |-> history.accrued, paid |-> history.paid]
<1>1. block \in Nat
  BY FarmingAssumption DEF TypeOK
<1>2. info \in [Users -> Infos] /\ pool \in Pools
  BY DEF TypeOK, Infos, Pools
<1> QED BY <1>1, <1>2 DEF TypeOK, Pools

LEMMA DepositInv ==
  ASSUME FarmInv, NEW u \in Users, NEW amount \in Amounts, deposit(u, amount)
  PROVE  FarmInv'
<1> DEFINE i == IF info[u] = NoInfo
                THEN [share |-> 0, withdrawn |-> 0, claim_last_block |-> block,
                      withdraw_list |-> <<>>]
                ELSE info[u]
           f == inflation_of(pool, amount)
           q == inflated_pool(pool, amount, f)
           j == inflated_share(i, amount, f)
<1>1. TypeOK
  BY DEF FarmInv
<1>2. /\ block \in Nat /\ info \in [Users -> Infos] /\ pool \in Pools
      /\ wallet \in [Users -> Nat] /\ keeper \in Nat
      /\ pool.total_shares \in Nat /\ pool.reward \in Nat /\ pool.withdrawn \in Nat
  BY <1>1, TypeFacts
<1>3. /\ state # "Retired" /\ amount \in Nat /\ amount > 0 /\ amount <= wallet[u]
      /\ wallet' = [wallet EXCEPT ![u] = wallet[u] - amount]
      /\ keeper' = keeper + amount /\ pool' = q /\ info' = [info EXCEPT ![u] = j]
      /\ UNCHANGED <<block, state, params, issuer, history, edits>>
  BY FarmingAssumption DEF deposit
<1>4. /\ i \in ShareInfos /\ i.share = info[u].share /\ i.withdrawn = info[u].withdrawn
      /\ i.withdraw_list = info[u].withdraw_list
  <2>1. CASE info[u] = NoInfo
    <3>1. i = [share |-> 0, withdrawn |-> 0, claim_last_block |-> block, withdraw_list |-> <<>>]
      BY <2>1
    <3>2. <<>> \in Seq(Withdrawals)
      OBVIOUS
    <3> HIDE DEF i
    <3> QED BY <1>2, <2>1, <3>1, <3>2, NoInfoFields DEF ShareInfos
  <2>2. CASE info[u] # NoInfo
    BY <1>2, <2>2 DEF Infos
  <2> QED BY <2>1, <2>2
<1> HIDE DEF i
<1>5. /\ f \in Nat /\ q \in Pools /\ j \in Infos
      /\ q.total_shares = pool.total_shares + amount
      /\ q.reward = pool.reward + f /\ q.withdrawn = pool.withdrawn + f
      /\ j.share = i.share + amount /\ j.withdrawn = i.withdrawn + f
      /\ j.withdraw_list = i.withdraw_list /\ NoShareNoDebt(j)
  BY <1>2, <1>3, <1>4, InflateFacts
<1> HIDE DEF f, q, j
<1>6. Books(pool, info)
  BY <1>3 DEF FarmInv
<1>7. /\ info[u].share \in Nat /\ info[u].withdrawn \in Nat /\ pool.withdrawn <= pool.reward
      /\ OwedTo(info[u]) \in Nat /\ Values(info[u].withdraw_list) \in Nat
  BY <1>2, <1>6, InfoFields, OwedNat, ValuesNat DEF Books
<1>8. Books(q, info')
  <2>1. /\ q.total_shares - j.share = pool.total_shares - info[u].share
        /\ q.withdrawn - j.withdrawn = pool.withdrawn - info[u].withdrawn
        /\ q.withdrawn <= q.reward
    BY <1>2, <1>3, <1>4, <1>5, <1>7
  <2> QED BY <1>3, <1>5, <1>6, <2>1, OneUser
<1>9. keeper' >= Total(OwedTokens(info')) /\ keeper' \in Nat
  <2>1. OwedTo(j) = OwedTo(info[u]) + amount /\ OwedTo(j) \in Nat
    BY <1>3, <1>4, <1>5, <1>7 DEF OwedTo
  <2>2. keeper' \in Int /\ keeper \in Int /\ keeper' - OwedTo(j) >= keeper - OwedTo(info[u])
    BY <1>2, <1>3, <1>7, <2>1
  <2>3. keeper >= Total(OwedTokens(info))
    BY DEF FarmInv, KeeperCovers
  <2> QED BY <1>2, <1>3, <1>5, <2>2, <2>3, OneOwed
<1>10. info' \in [Users -> Infos] /\ wallet' \in [Users -> Nat] /\ pool' \in Pools
  BY <1>2, <1>3, <1>5
<1>11. TypeOK'
  BY <1>1, <1>3, <1>9, <1>10 DEF TypeOK, Infos, Pools
<1>12. RewardsConserved'
  <2>1. pool'.reward - pool'.withdrawn = pool.reward - pool.withdrawn
    BY <1>2, <1>3, <1>5
  <2> QED BY <1>3, <2>1 DEF FarmInv, RewardsConserved
<1>13. KeeperCovers'
  BY <1>9 DEF KeeperCovers
<1>14. Books(pool, info)'
  BY <1>3, <1>8
<1> QED BY <1>3, <1>11, <1>12, <1>13, <1>14 DEF FarmInv
(* Withdrawals, for both amounts withdraw may be called with.              *)
LEMMA WithdrawInv ==
  ASSUME FarmInv, NEW u \in Users, NEW amount \in Nat, withdraw(u, amount)
  PROVE  FarmInv' /\ pool'.total_shares <= pool.total_shares
<1> DEFINE i == info[u]
           r == reward_to_withdraw(pool, i)
           q == claimed_pool(pool, i)
           j == claimed_share(pool, i)
           due == block + params.withdraw_limit_time
           a == after_remove(q, j, amount, due)
<1>1. TypeOK
  BY DEF FarmInv
<1>2. /\ block \in Nat /\ due \in Nat /\ info \in [Users -> Infos] /\ pool \in Pools
      /\ keeper \in Nat /\ issuer \in Nat
      /\ pool.total_shares \in Nat /\ pool.reward \in Nat /\ pool.withdrawn \in Nat
      /\ history.accrued \in Nat /\ history.paid \in Nat
      /\ history = [accrued |-> history.accrued, paid |-> history.paid]
  BY <1>1, TypeFacts
<1>3. /\ state # "Retired" /\ amount <= i.share /\ (amount = 0 => i.share = 0)
      /\ r <= issuer /\ issuer' = issuer - r
      /\ history' = [history EXCEPT !.paid = history.paid + r]
      /\ pool' = a.pool /\ info' = [info EXCEPT ![u] = a.info]
      /\ UNCHANGED <<block, state, params, wallet, keeper, edits>>
  BY DEF withdraw, pays, can_pay
<1>4. Books(pool, info)
  BY <1>3 DEF FarmInv
<1>5. /\ i \in Infos /\ NoShareNoDebt(i)
      /\ i.share <= pool.total_shares /\ i.withdrawn <= pool.withdrawn
      /\ pool.withdrawn <= pool.reward /\ pool \in Pools
  BY <1>4, UserWithinTotals
<1> HIDE DEF i, r, q, j, a, due
<1>6. /\ r \in Nat /\ r <= pool.reward - pool.withdrawn
      /\ q \in Pools /\ q.total_shares = pool.total_shares /\ q.reward = pool.reward
      /\ q.withdrawn = pool.withdrawn + r
      /\ j \in Infos /\ j.share = i.share /\ j.withdrawn = i.withdrawn + r
      /\ j.withdraw_list = i.withdraw_list /\ NoShareNoDebt(j)
  BY <1>2, <1>5, ClaimFacts DEF r, q, j
<1>7. /\ q.total_shares \in Nat /\ q.reward \in Nat /\ q.withdrawn \in Nat
      /\ i.share \in Nat /\ i.withdrawn \in Nat
      /\ OwedTo(i) \in Nat /\ OwedTo(j) = OwedTo(i)
  BY <1>5, <1>6, InfoFields, OwedNat DEF Pools, OwedTo
<1>8. j.share <= q.total_shares /\ j.withdrawn <= q.withdrawn /\ q.withdrawn <= q.reward
  BY <1>2, <1>5, <1>6, <1>7
<1>9. /\ a.pool \in Pools /\ a.info \in Infos
      /\ a.pool.total_shares - a.info.share = q.total_shares - j.share
      /\ a.pool.withdrawn - a.info.withdrawn = q.withdrawn - j.withdrawn
      /\ a.pool.reward - a.pool.withdrawn = q.reward - q.withdrawn
      /\ a.info.share = j.share - amount /\ NoShareNoDebt(a.info)
      /\ OwedTo(a.info) <= OwedTo(j)
  <2>1. amount <= j.share /\ (amount = 0 => j.share = 0)
    BY <1>3, <1>6
  <2> QED BY <1>2, <1>6, <1>8, <2>1, RemoveFacts DEF a
<1>10. /\ a.pool.total_shares \in Nat /\ a.pool.reward \in Nat /\ a.pool.withdrawn \in Nat
       /\ a.info.share \in Nat /\ a.info.withdrawn \in Nat /\ OwedTo(a.info) \in Nat
  BY <1>9, InfoFields, OwedNat DEF Pools
<1>11. Books(a.pool, info')
  <2>1. a.pool.total_shares - a.info.share = pool.total_shares - info[u].share
    BY <1>6, <1>9 DEF i
  <2>2. a.pool.withdrawn - a.info.withdrawn = pool.withdrawn - info[u].withdrawn
    BY <1>2, <1>6, <1>7, <1>9, <1>10 DEF i
  <2>3. a.pool.withdrawn <= a.pool.reward
    BY <1>8, <1>7, <1>9, <1>10
  <2> QED BY <1>3, <1>4, <1>9, <2>1, <2>2, <2>3, OneUser
<1>12. keeper' >= Total(OwedTokens(info')) /\ keeper' \in Nat
  <2>1. keeper' \in Int /\ keeper \in Int /\ keeper' - OwedTo(a.info) >= keeper - OwedTo(info[u])
    BY <1>2, <1>3, <1>7, <1>9, <1>10 DEF i
  <2>2. keeper >= Total(OwedTokens(info))
    BY DEF FarmInv, KeeperCovers
  <2> QED BY <1>2, <1>3, <1>9, <2>1, <2>2, OneOwed
<1>13. issuer' \in Nat /\ history' = [accrued |-> history.accrued, paid |-> history.paid + r]
  BY <1>2, <1>3, <1>6
<1>14. /\ history' \in [accrued : Nat, paid : Nat] /\ history'.accrued = history.accrued
       /\ history'.paid = history.paid + r
  BY <1>2, <1>6, <1>13
<1>15. info' \in [Users -> Infos] /\ pool' \in Pools
  BY <1>2, <1>3, <1>9
<1>16. TypeOK'
  BY <1>1, <1>3, <1>12, <1>13, <1>14, <1>15 DEF TypeOK, Infos, Pools
<1>17. RewardsConserved'
  <2>1. pool'.reward - pool'.withdrawn = pool.reward - pool.withdrawn - r
    BY <1>2, <1>3, <1>6, <1>9
  <2>2. pool.reward - pool.withdrawn = history.accrued - history.paid
    BY <1>3 DEF FarmInv, RewardsConserved
  <2>3. pool'.reward - pool'.withdrawn = history'.accrued - history'.paid
    BY <1>2, <1>6, <1>14, <2>1, <2>2
  <2> QED BY <2>3 DEF RewardsConserved
<1>18. KeeperCovers'
  BY <1>12 DEF KeeperCovers
<1>19. Books(pool, info)'
  BY <1>3, <1>11
<1>20. pool'.total_shares <= pool.total_shares
  BY <1>2, <1>3, <1>6, <1>7, <1>9, <1>10
<1> QED BY <1>3, <1>16, <1>17, <1>18, <1>19, <1>20 DEF FarmInv

LEMMA ClaimInv ==
  ASSUME FarmInv, NEW u \in Users, claim(u)
  PROVE  FarmInv' /\ pool'.total_shares = pool.total_shares
<1> DEFINE i == info[u]
           r == reward_to_withdraw(pool, i)
           q == claimed_pool(pool, i)
           j == claimed_share(pool, i)
           m == processed(j, TRUE)
           value == due_value(i)
<1>1. TypeOK
  BY DEF FarmInv
<1>2. /\ block \in Nat /\ info \in [Users -> Infos] /\ pool \in Pools
      /\ wallet \in [Users -> Nat] /\ keeper \in Nat /\ issuer \in Nat
      /\ pool.total_shares \in Nat /\ pool.reward \in Nat /\ pool.withdrawn \in Nat
      /\ history.accrued \in Nat /\ history.paid \in Nat
      /\ history = [accrued |-> history.accrued, paid |-> history.paid]
  BY <1>1, TypeFacts
<1>3. /\ state # "Retired" /\ i # NoInfo
      /\ r <= issuer /\ issuer' = issuer - r
      /\ history' = [history EXCEPT !.paid = history.paid + r]
      /\ pool' = q /\ info' = [info EXCEPT ![u] = m]
      /\ value <= keeper /\ keeper' = keeper - value
      /\ wallet' = [wallet EXCEPT ![u] = wallet[u] + value]
      /\ UNCHANGED <<block, state, params, edits>>
  BY DEF claim, pays, can_pay, releases, Holders
<1>4. Books(pool, info)
  BY <1>3 DEF FarmInv
<1>5. /\ i \in Infos /\ NoShareNoDebt(i)
      /\ i.share <= pool.total_shares /\ i.withdrawn <= pool.withdrawn
      /\ pool.withdrawn <= pool.reward /\ pool \in Pools
  BY <1>4, UserWithinTotals
<1> HIDE DEF i, r, q, j, m, value
<1>6. /\ r \in Nat /\ r <= pool.reward - pool.withdrawn
      /\ q \in Pools /\ q.total_shares = pool.total_shares /\ q.reward = pool.reward
      /\ q.withdrawn = pool.withdrawn + r
      /\ j \in Infos /\ j.share = i.share /\ j.withdrawn = i.withdrawn + r
      /\ j.withdraw_list = i.withdraw_list /\ NoShareNoDebt(j)
      /\ i \in ShareInfos => j \in ShareInfos
  BY <1>2, <1>5, ClaimFacts DEF r, q, j
<1>7. /\ i.share \in Nat /\ i.withdrawn \in Nat
      /\ OwedTo(i) \in Nat /\ OwedTo(j) = OwedTo(i) /\ due_value(j) = value
  BY <1>5, <1>6, InfoFields, OwedNat DEF OwedTo, due_value, value
<1>8. j \in ShareInfos
  BY <1>3, <1>5, <1>6 DEF Infos
<1>9. /\ m \in Infos /\ m.share = j.share /\ m.withdrawn = j.withdrawn
      /\ NoShareNoDebt(m) /\ value \in Nat /\ OwedTo(m) = OwedTo(j) - value
  BY <1>2, <1>6, <1>7, <1>8, ProcessedFacts DEF m
<1>10. Books(q, info')
  <2>1. /\ q.total_shares - m.share = pool.total_shares - info[u].share
        /\ q.withdrawn - m.withdrawn = pool.withdrawn - info[u].withdrawn
        /\ q.withdrawn <= q.reward
    BY <1>2, <1>6, <1>7, <1>9 DEF i
  <2> QED BY <1>3, <1>4, <1>6, <1>9, <2>1, OneUser
<1>11. keeper' >= Total(OwedTokens(info')) /\ keeper' \in Nat
  <2>1. keeper' \in Int /\ keeper \in Int /\ keeper' - OwedTo(m) >= keeper - OwedTo(info[u])
    BY <1>2, <1>3, <1>7, <1>9 DEF i
  <2>2. keeper >= Total(OwedTokens(info))
    BY DEF FarmInv, KeeperCovers
  <2> QED BY <1>2, <1>3, <1>9, <2>1, <2>2, OneOwed
<1>12. issuer' \in Nat /\ history' = [accrued |-> history.accrued, paid |-> history.paid + r]
  BY <1>2, <1>3, <1>6
<1>13. /\ history' \in [accrued : Nat, paid : Nat] /\ history'.accrued = history.accrued
       /\ history'.paid = history.paid + r
  BY <1>2, <1>6, <1>12
<1>14. info' \in [Users -> Infos] /\ pool' \in Pools /\ wallet' \in [Users -> Nat]
  BY <1>2, <1>3, <1>6, <1>9
<1>15. TypeOK'
  BY <1>1, <1>3, <1>11, <1>12, <1>13, <1>14 DEF TypeOK, Infos, Pools
<1>16. RewardsConserved'
  <2>1. pool'.reward - pool'.withdrawn = pool.reward - pool.withdrawn - r
    BY <1>2, <1>3, <1>6
  <2>2. pool.reward - pool.withdrawn = history.accrued - history.paid
    BY <1>3 DEF FarmInv, RewardsConserved
  <2>3. pool'.reward - pool'.withdrawn = history'.accrued - history'.paid
    BY <1>2, <1>6, <1>13, <2>1, <2>2
  <2> QED BY <2>3 DEF RewardsConserved
<1>17. KeeperCovers'
  BY <1>11 DEF KeeperCovers
<1>18. Books(pool, info)'
  BY <1>3, <1>10
<1> QED BY <1>3, <1>6, <1>15, <1>16, <1>17, <1>18 DEF FarmInv

LEMMA WithdrawClaimInv ==
  ASSUME FarmInv, NEW u \in Users, withdraw_claim(u)
  PROVE  FarmInv'
<1> DEFINE i == info[u]
           m == processed(i, FALSE)
           value == due_value(i)
<1>1. TypeOK
  BY DEF FarmInv
<1>2. /\ block \in Nat /\ info \in [Users -> Infos] /\ pool \in Pools
      /\ wallet \in [Users -> Nat] /\ keeper \in Nat
  BY <1>1, TypeFacts
<1>3. /\ i # NoInfo /\ info' = [info EXCEPT ![u] = m]
      /\ value <= keeper /\ keeper' = keeper - value
      /\ wallet' = [wallet EXCEPT ![u] = wallet[u] + value]
      /\ UNCHANGED <<block, state, params, pool, issuer, history, edits>>
  BY DEF withdraw_claim, releases, Holders
<1>4. i \in ShareInfos /\ NoShareNoDebt(i)
  <2>1. i \in ShareInfos
    BY <1>2, <1>3 DEF Infos
  <2>2. NoShareNoDebt(i)
    BY DEF FarmInv, Books, NoShareNoDebt
  <2> QED BY <2>1, <2>2
<1>5. /\ i.share \in Nat /\ i.withdrawn \in Nat /\ OwedTo(i) \in Nat
  BY <1>2, InfoFields, OwedNat
<1> HIDE DEF i, m, value
<1>6. /\ m \in Infos /\ m.share = i.share /\ m.withdrawn = i.withdrawn
      /\ NoShareNoDebt(m) /\ value \in Nat /\ OwedTo(m) = OwedTo(i) - value
  <2>1. FALSE \in BOOLEAN
    OBVIOUS
  <2> QED BY <1>2, <1>4, <2>1, ProcessedFacts DEF m, value
<1>7. state # "Retired" => Books(pool, info')
  <2> HAVE state # "Retired"
  <2>1. Books(pool, info) /\ pool.withdrawn <= pool.reward
    BY DEF FarmInv, Books
  <2>2. /\ pool.total_shares - m.share = pool.total_shares - info[u].share
        /\ pool.withdrawn - m.withdrawn = pool.withdrawn - info[u].withdrawn
    BY <1>6 DEF i
  <2> QED BY <1>2, <1>3, <1>6, <2>1, <2>2, OneUser
<1>8. keeper' >= Total(OwedTokens(info')) /\ keeper' \in Nat
  <2>1. keeper' \in Int /\ keeper \in Int /\ keeper' - OwedTo(m) >= keeper - OwedTo(info[u])
    BY <1>2, <1>3, <1>5, <1>6 DEF i
  <2>2. keeper >= Total(OwedTokens(info))
    BY DEF FarmInv, KeeperCovers
  <2> QED BY <1>2, <1>3, <1>6, <2>1, <2>2, OneOwed
<1>9. info' \in [Users -> Infos] /\ wallet' \in [Users -> Nat]
  BY <1>2, <1>3, <1>6
<1>10. TypeOK'
  BY <1>1, <1>3, <1>8, <1>9 DEF TypeOK, Infos
<1>11. RewardsConserved'
  BY <1>3 DEF FarmInv, RewardsConserved
<1>12. KeeperCovers'
  BY <1>8 DEF KeeperCovers
<1>13. state' # "Retired" => Books(pool, info)'
  BY <1>3, <1>7
<1>14. state' = "Retired" => \A v \in Users : info'[v].share = 0 /\ info'[v].withdrawn = 0
  <2> SUFFICES ASSUME state' = "Retired", NEW v \in Users
               PROVE  info'[v].share = 0 /\ info'[v].withdrawn = 0
    OBVIOUS
  <2>1. info[v].share = 0 /\ info[v].withdrawn = 0
    BY <1>3 DEF FarmInv
  <2>2. CASE v = u
    BY <1>2, <1>3, <1>6, <2>1, <2>2 DEF i
  <2>3. CASE v # u
    BY <1>2, <1>3, <2>1, <2>3
  <2> QED BY <2>2, <2>3
<1> QED BY <1>10, <1>11, <1>12, <1>13, <1>14 DEF FarmInv
LEMMA ForceRetireInv ==
  ASSUME FarmInv, force_retire_pool
  PROVE  FarmInv' /\ pool'.total_shares <= pool.total_shares
<1> DEFINE N == Cardinality(Holders)
           n == Min({N, RetireLimit})
<1>1. TypeOK
  BY DEF FarmInv
<1>2. /\ block \in Nat /\ info \in [Users -> Infos] /\ pool \in Pools
      /\ wallet \in [Users -> Nat] /\ keeper \in Nat /\ issuer \in Nat
      /\ pool.total_shares \in Nat /\ pool.reward \in Nat /\ pool.withdrawn \in Nat
      /\ history.accrued \in Nat /\ history.paid \in Nat
      /\ history = [accrued |-> history.accrued, paid |-> history.paid]
  BY <1>1, TypeFacts
<1>3. Holders \subseteq Users /\ N \in Nat
  <2>1. Holders \subseteq Users /\ IsFiniteSet(Users)
    BY FarmingAssumption DEF Holders
  <2>2. IsFiniteSet(Holders)
    BY <2>1, FS_Subset
  <2> QED BY <2>1, <2>2, FS_CardinalityType
<1>4. PICK order \in Bijection(1..N, Holders) :
         LET w == retired_all(order, n)
         IN /\ state = "Dead"
            /\ pays(w.reward) /\ w.keeper >= 0
            /\ info' = w.info /\ wallet' = w.wallet /\ keeper' = w.keeper
            /\ IF n = N THEN state' = "Retired" /\ UNCHANGED pool
               ELSE pool' = w.pool /\ UNCHANGED state
            /\ UNCHANGED <<block, params, edits>>
  BY DEF force_retire_pool
<1>5. /\ order \in [1..N -> Holders]
      /\ \A u \in Holders : \E k \in 1..N : order[k] = u
  BY DEF Bijection, Surjection, Injection
<1>6. n \in Nat /\ n <= N
  <2>1. RetireLimit \in Nat
    BY FarmingAssumption
  <2> QED BY <1>3, <2>1, MinOfTwo
<1> HIDE DEF N, n
<1>7. PICK w : w = retired_all(order, n)
  OBVIOUS
<1>8. /\ state = "Dead" /\ w.reward <= issuer /\ issuer' = issuer - w.reward
      /\ history' = [history EXCEPT !.paid = history.paid + w.reward]
      /\ info' = w.info /\ wallet' = w.wallet /\ keeper' = w.keeper
      /\ IF n = N THEN state' = "Retired" /\ UNCHANGED pool
         ELSE pool' = w.pool /\ UNCHANGED state
      /\ UNCHANGED <<block, params, edits>>
  BY <1>4, <1>7 DEF pays, can_pay
<1>9. Sound(RetireStart) /\ Given(RetireStart) = pool.reward - pool.withdrawn
  <2>1. /\ RetireStart.pool = pool /\ RetireStart.info = info /\ RetireStart.wallet = wallet
        /\ RetireStart.keeper = keeper /\ RetireStart.reward = 0
    BY DEF RetireStart
  <2>2. Books(pool, info) /\ keeper >= Total(OwedTokens(info))
    BY <1>8 DEF FarmInv, KeeperCovers
  <2> QED BY <1>2, <2>1, <2>2 DEF Sound, Given
<1>10. \A k \in 1..n : order[k] \in Users
  BY <1>3, <1>5, <1>6
<1>11. /\ Sound(w) /\ Given(w) = Given(RetireStart)
       /\ w.pool.total_shares <= pool.total_shares
       /\ \A v \in Users : w.info[v] = info[v] \/ w.info[v].share = 0
       /\ \A k \in 1..n : w.info[order[k]].share = 0
  BY <1>2, <1>6, <1>7, <1>9, <1>10, RetiredAllOK
<1>12. /\ Books(w.pool, w.info) /\ w.wallet \in [Users -> Nat] /\ w.keeper \in Nat
       /\ w.keeper >= Total(OwedTokens(w.info)) /\ w.reward \in Nat
       /\ w.pool \in Pools /\ w.info \in [Users -> Infos]
       /\ \A v \in Users : NoShareNoDebt(w.info[v])
  BY <1>11 DEF Sound, Books
<1>13. /\ issuer' \in Nat
       /\ history' = [accrued |-> history.accrued, paid |-> history.paid + w.reward]
  BY <1>2, <1>8, <1>12
<1>14. /\ history' \in [accrued : Nat, paid : Nat] /\ history'.accrued = history.accrued
       /\ history'.paid = history.paid + w.reward
  BY <1>2, <1>12, <1>13
<1>15. pool' \in Pools /\ pool'.total_shares <= pool.total_shares
  BY <1>2, <1>8, <1>11, <1>12
<1>16. state' \in States
  BY <1>8 DEF States
<1>17. TypeOK'
  BY <1>1, <1>8, <1>12, <1>13, <1>14, <1>15, <1>16 DEF TypeOK, Infos, Pools
<1>18. RewardsConserved'
  <2>1. CASE n = N
    BY <1>8, <2>1 DEF RewardsConserved
  <2>2. CASE n # N
    <3>1. /\ w.pool.reward - w.pool.withdrawn + w.reward = pool.reward - pool.withdrawn
          /\ pool.reward - pool.withdrawn = history.accrued - history.paid
          /\ w.pool.reward \in Nat /\ w.pool.withdrawn \in Nat
      BY <1>8, <1>9, <1>11, <1>12 DEF Given, FarmInv, RewardsConserved, Pools
    <3>2. w.pool.reward - w.pool.withdrawn = history'.accrued - history'.paid
      <4>1. PICK given, rest, accrued, paid \in Int :
               /\ given = w.reward /\ rest = w.pool.reward - w.pool.withdrawn
               /\ accrued = history.accrued /\ paid = history.paid
        BY <1>2, <1>12, <3>1, SMTT(30)
      <4>2. rest + given = accrued - paid
        BY <3>1, <4>1
      <4>3. history'.accrued = accrued /\ history'.paid = paid + given
        BY <1>14, <4>1
      <4> QED BY <4>1, <4>2, <4>3, SMTT(30)
    <3> QED BY <1>8, <2>2, <3>2 DEF RewardsConserved
  <2> QED BY <2>1, <2>2
<1>19. KeeperCovers'
  BY <1>8, <1>12 DEF KeeperCovers
<1>20. state' # "Retired" => Books(pool, info)'
  BY <1>8, <1>12
<1>21. state' = "Retired" => \A v \in Users : info'[v].share = 0 /\ info'[v].withdrawn = 0
  <2> SUFFICES ASSUME state' = "Retired", NEW v \in Users
               PROVE  info'[v].share = 0 /\ info'[v].withdrawn = 0
    OBVIOUS
  <2>1. n = N
    BY <1>8
  <2>2. w.info[v].share = 0
    <3>1. CASE v \in Holders
      BY <1>5, <1>11, <2>1, <3>1
    <3>2. CASE v \notin Holders
      <4>1. info[v] = NoInfo
        BY <3>2 DEF Holders
      <4> QED BY <1>11, <4>1, NoInfoFields
    <3> QED BY <3>1, <3>2
  <2> QED BY <1>8, <1>12, <2>2 DEF NoShareNoDebt
<1> QED BY <1>15, <1>17, <1>18, <1>19, <1>20, <1>21 DEF FarmInv

(* The calls that leave every share as it is, and those that start over.   *)
LEMMA PlainInv ==
  ASSUME FarmInv,
         \/ \E amount \in Charges : charge(amount)
         \/ close_pool
         \/ \E rewards \in BasicRewards, limit_time \in LimitTimes : edit_pool(rewards, limit_time)
  PROVE  FarmInv' /\ pool' = pool
<1> USE FarmingAssumption
<1>1. TypeOK
  BY DEF FarmInv
<1>2. /\ UNCHANGED <<block, pool, info, wallet, keeper, history>>
      /\ state' # state => state # "Retired" /\ state' # "Retired"
      /\ state' \in States /\ issuer' \in Nat /\ edits' \in 0..MaxEdits
      /\ params' \in [basic_rewards : Nat, withdraw_limit_time : Nat]
  <2>0. /\ state \in States /\ issuer \in Nat /\ edits \in 0..MaxEdits /\ MaxEdits \in Nat
        /\ params \in [basic_rewards : Nat, withdraw_limit_time : Nat]
    BY <1>1 DEF TypeOK
  <2>1. CASE \E amount \in Charges : charge(amount)
    BY <2>0, <2>1 DEF charge, States
  <2>2. CASE close_pool
    BY <2>0, <2>2 DEF close_pool, States
  <2>3. CASE \E rewards \in BasicRewards, limit_time \in LimitTimes : edit_pool(rewards, limit_time)
    <3>1. PICK rewards \in BasicRewards, limit_time \in LimitTimes : edit_pool(rewards, limit_time)
      BY <2>3
    <3>2. rewards \in Nat /\ limit_time \in Nat
      OBVIOUS
    <3>3. params' \in [basic_rewards : Nat, withdraw_limit_time : Nat]
      BY <3>1, <3>2 DEF edit_pool
    <3>4. edits' \in 0..MaxEdits
      BY <2>0, <3>1 DEF edit_pool
    <3> QED BY <2>0, <3>1, <3>3, <3>4 DEF edit_pool
  <2> QED BY <2>1, <2>2, <2>3
<1>3. TypeOK'
  BY <1>1, <1>2 DEF TypeOK
<1>4. KeeperCovers' /\ RewardsConserved'
  BY <1>2 DEF FarmInv, KeeperCovers, RewardsConserved
<1>5. state' # "Retired" => Books(pool, info)'
  BY <1>2 DEF FarmInv
<1>6. state' = "Retired" => \A v \in Users : info'[v].share = 0 /\ info'[v].withdrawn = 0
  BY <1>2 DEF FarmInv
<1> QED BY <1>2, <1>3, <1>4, <1>5, <1>6 DEF FarmInv

LEMMA RestartInv ==
  ASSUME FarmInv, reset_pool \/ kill_pool
  PROVE  FarmInv' /\ pool'.total_shares = 0
<1> USE FarmingAssumption
<1>1. TypeOK /\ info \in [Users -> Infos]
  BY TypeFacts DEF FarmInv
<1>2. /\ pool' = EmptyPool /\ history' = [accrued |-> 0, paid |-> 0]
      /\ UNCHANGED <<block, params, wallet, keeper, issuer>>
      /\ state' \in {"UnCharged", "Killed"} /\ edits' \in 0..MaxEdits
  BY <1>1 DEF reset_pool, kill_pool, TypeOK
<1>3. /\ info' \in [Users -> Infos] /\ keeper' >= Total(OwedTokens(info'))
      /\ \A u \in Users : info'[u].share = 0 /\ info'[u].withdrawn = 0
  <2>1. CASE reset_pool
    BY <1>1, <2>1 DEF reset_pool, FarmInv, KeeperCovers
  <2>2. CASE kill_pool
    <3>1. info' = [u \in Users |-> NoInfo] /\ keeper' = keeper /\ keeper \in Nat
      BY <1>1, <2>2 DEF kill_pool, TypeOK
    <3>2. \A u \in Users : info'[u] = NoInfo
      BY <3>1
    <3>3. PICK i : i = info'
      OBVIOUS
    <3>4. Total(OwedTokens(i)) = 0
      BY <3>2, <3>3, NobodyOwed
    <3> QED BY <3>1, <3>2, <3>3, <3>4, NoInfoFields
  <2> QED BY <2>1, <2>2
<1>4. PICK i : i = info'
  OBVIOUS
<1>5. Books(EmptyPool, i)
  BY <1>3, <1>4, EmptyBooks
<1>6. /\ EmptyPool \in Pools /\ EmptyPool.total_shares = 0 /\ EmptyPool.reward = 0
      /\ EmptyPool.withdrawn = 0
  BY DEF EmptyPool, Pools
<1>7. TypeOK'
  <2>1. state' \in States
    BY <1>2 DEF States
  <2>2. history' \in [accrued : Nat, paid : Nat]
    BY <1>2
  <2> QED BY <1>1, <1>2, <1>3, <1>6, <2>1, <2>2 DEF TypeOK, Infos, Pools
<1>8. RewardsConserved' /\ KeeperCovers'
  BY <1>2, <1>3, <1>6 DEF RewardsConserved, KeeperCovers
<1>9. Books(pool, info)' /\ state' # "Retired"
  BY <1>2, <1>4, <1>5
<1> QED BY <1>2, <1>6, <1>7, <1>8, <1>9 DEF FarmInv

LEMMA InitializeInv ==
  ASSUME FarmInv, on_initialize
  PROVE  FarmInv' /\ pool'.total_shares = pool.total_shares
<1> DEFINE accrued == IF state = "Ongoing" THEN params.basic_rewards ELSE 0
<1> USE FarmingAssumption
<1>1. TypeOK
  BY DEF FarmInv
<1>2. /\ block \in 0..MaxBlock /\ state \in States /\ params.basic_rewards \in Nat
      /\ pool \in Pools /\ pool.total_shares \in Nat /\ pool.reward \in Nat /\ pool.withdrawn \in Nat
      /\ history.accrued \in Nat /\ history.paid \in Nat
      /\ history = [accrued |-> history.accrued, paid |-> history.paid]
  BY <1>1, TypeFacts
<1>3. /\ block < MaxBlock /\ block' = block + 1
      /\ pool' = [pool EXCEPT !.reward = pool.reward + accrued]
      /\ history' = [history EXCEPT !.accrued = history.accrued + accrued]
      /\ state' \in {state, "Ongoing"} /\ (state' = "Ongoing" => state \in {"Charged", "Ongoing"})
      /\ UNCHANGED <<params, info, wallet, keeper, issuer, edits>>
  BY DEF on_initialize
<1>4. accrued \in Nat
  BY <1>2
<1> HIDE DEF accrued
<1>5. pool' = [total_shares |-> pool.total_shares, reward |-> pool.reward + accrued,
               withdrawn |-> pool.withdrawn]
  <2>1. pool = [total_shares |-> pool.total_shares, reward |-> pool.reward,
                withdrawn |-> pool.withdrawn]
    BY <1>2 DEF Pools
  <2> QED BY <1>3, <2>1
<1>6. /\ pool' \in Pools /\ pool'.total_shares = pool.total_shares
      /\ pool'.reward = pool.reward + accrued /\ pool'.withdrawn = pool.withdrawn
  BY <1>2, <1>4, <1>5 DEF Pools
<1>7. history' = [accrued |-> history.accrued + accrued, paid |-> history.paid]
  BY <1>2, <1>3
<1>8. /\ history' \in [accrued : Nat, paid : Nat]
      /\ history'.accrued = history.accrued + accrued /\ history'.paid = history.paid
  BY <1>2, <1>4, <1>7
<1>9. TypeOK'
  <2>1. block' \in 0..MaxBlock /\ state' \in States
    BY <1>2, <1>3 DEF States
  <2> QED BY <1>1, <1>3, <1>6, <1>8, <2>1 DEF TypeOK, Pools
<1>10. KeeperCovers'
  BY <1>3 DEF FarmInv, KeeperCovers
<1>11. state' = "Retired" <=> state = "Retired"
  BY <1>3
<1>12. RewardsConserved'
  <2> SUFFICES ASSUME state' # "Retired"
               PROVE  pool'.reward - pool'.withdrawn = history'.accrued - history'.paid
    BY DEF RewardsConserved
  <2>1. pool.reward - pool.withdrawn = history.accrued - history.paid
    BY <1>11 DEF FarmInv, RewardsConserved
  <2> QED BY <1>2, <1>4, <1>6, <1>8, <2>1
<1>13. state' # "Retired" => Books(pool, info)'
  <2> HAVE state' # "Retired"
  <2>1. Books(pool, info)
    BY <1>11 DEF FarmInv
  <2>2. pool'.withdrawn <= pool'.reward
    BY <1>2, <1>4, <1>6, <2>1 DEF Books
  <2> QED BY <1>3, <1>6, <2>1, <2>2 DEF Books
<1>14. state' = "Retired" => \A v \in Users : info'[v].share = 0 /\ info'[v].withdrawn = 0
  BY <1>3, <1>11 DEF FarmInv
<1> QED BY <1>6, <1>9, <1>10, <1>12, <1>13, <1>14 DEF FarmInv

LEMMA NextInv == FarmInv /\ [Next]_vars => FarmInv'
<1> SUFFICES ASSUME FarmInv, [Next]_vars PROVE FarmInv'
  OBVIOUS
<1>0. info \in [Users -> Infos]
  BY TypeFacts DEF FarmInv
<1>1. ASSUME NEW u \in Users, NEW amount \in Amounts, deposit(u, amount) PROVE FarmInv'
  BY <1>1, DepositInv
<1>2. ASSUME NEW u \in Users, NEW amount \in Amounts, withdraw(u, amount) PROVE FarmInv'
  <2>1. amount \in Nat
    BY FarmingAssumption
  <2> QED BY <1>2, <2>1, WithdrawInv
<1>3. ASSUME NEW u \in Users, withdraw(u, info[u].share) PROVE FarmInv'
  <2>1. info[u].share \in Nat
    BY <1>0, InfoFields
  <2> QED BY <1>3, <2>1, WithdrawInv
<1>4. ASSUME NEW u \in Users, claim(u) PROVE FarmInv'
  BY <1>4, ClaimInv
<1>5. ASSUME NEW u \in Users, withdraw_claim(u) PROVE FarmInv'
  BY <1>5, WithdrawClaimInv
<1>6. CASE UNCHANGED vars
  BY <1>6 DEF vars, FarmInv, TypeOK, KeeperCovers, RewardsConserved, Books
<1> QED BY <1>1, <1>2, <1>3, <1>4, <1>5, <1>6, ForceRetireInv, PlainInv, RestartInv, InitializeInv
        DEF Next

LEMMA AlwaysFarmInv == Spec => []FarmInv
BY InitInv, NextInv, PTL DEF Spec
(* Every storage item of the pool keeps its type, and neither the keeper   *)
(* nor the reward issuer is overdrawn (SharesAndWithdrawnRewards,          *)
(* PoolInfos).                                                             *)
THEOREM TypeCorrect == Spec => []TypeOK
<1>1. FarmInv => TypeOK
  BY DEF FarmInv
<1> QED BY <1>1, AlwaysFarmInv, PTL

(* The totals of a pool are the sums over its users, for any number of     *)
(* them, any rounding and any order of retirement (add_share,              *)
(* remove_share, claim_rewards, force_retire_pool).                        *)
THEOREM SharesExact == Spec => []SharesAgree
<1>1. FarmInv => SharesAgree
  BY DEF FarmInv, SharesAgree, Books
<1> QED BY <1>1, AlwaysFarmInv, PTL

(* The keeper account holds every share and every withdrawal still to be   *)
(* paid (withdraw, process_withdraw_list, force_retire_pool).              *)
THEOREM KeeperAlwaysCovers == Spec => []KeeperCovers
<1>1. FarmInv => KeeperCovers
  BY DEF FarmInv
<1> QED BY <1>1, AlwaysFarmInv, PTL

(* Inflation, claims and removals neither make nor lose rewards: what is   *)
(* left to give is what accrued and was not paid.                          *)
THEOREM RewardsStay == Spec => []RewardsConserved
<1>1. FarmInv => RewardsConserved
  BY DEF FarmInv
<1> QED BY <1>1, AlwaysFarmInv, PTL

-----------------------------------------------------------------------------
(* Deposits.                                                               *)

(* Inflating R by f and T by a, with f at most a's part of R, does not     *)
(* raise what S shares amount to.                                          *)
LEMMA InflationBound ==
  ASSUME NEW S \in Nat, NEW R \in Nat, NEW f \in Nat, NEW a \in Nat, NEW T \in Nat, T > 0,
         f * T <= a * R
  PROVE  LET X == (S * (R + f)) \div (T + a)
         IN X \in Nat /\ X * T <= S * R
<1> DEFINE X == (S * (R + f)) \div (T + a)
           n == T + a
           m == R + f
<1>1. n \in Nat \ {0} /\ m \in Nat /\ S * m \in Nat
  BY MulMonotone
<1>2. X = (S * m) \div n
  OBVIOUS
<1>3. m * T <= R * n
  <2>1. m * T = R * T + f * T /\ R * n = R * T + a * R
    OBVIOUS
  <2>2. R * T \in Nat /\ f * T \in Nat /\ a * R \in Nat
    BY MulMonotone
  <2> QED BY <2>1, <2>2
<1> HIDE DEF X, n, m
<1>4. X \in Nat /\ X * n <= S * m
  BY <1>1, <1>2, DivBound
<1>5. (X * T) * n <= (S * R) * n
  <2>1. (X * n) * T <= (S * m) * T
    <3>1. X * n \in Nat
      BY <1>1, <1>4, MulMonotone
    <3> QED BY ONLY <1>1, <1>4, <3>1, MulMonotone, T \in Nat
  <2>2. S * (m * T) <= S * (R * n)
    <3>1. m * T \in Nat /\ R * n \in Nat
      BY <1>1, MulMonotone
    <3>2. (m * T) * S <= (R * n) * S
      BY ONLY <1>3, <3>1, MulMonotone, S \in Nat
    <3>3. (m * T) * S = S * (m * T) /\ (R * n) * S = S * (R * n)
      BY <1>1, <3>1
    <3> QED BY <3>2, <3>3
  <2>3. (X * n) * T = (X * T) * n
    BY <1>1, <1>4
  <2>4. (S * m) * T = S * (m * T) /\ S * (R * n) = (S * R) * n
    BY <1>1
  <2>5. (S * m) * T \in Nat /\ (S * R) * n \in Nat /\ (X * T) * n \in Nat
    BY <1>1, <1>4, MulMonotone
  <2> QED BY <2>1, <2>2, <2>3, <2>4, <2>5
<1>6. X * T \in Nat /\ S * R \in Nat
  BY <1>4, MulMonotone
<1>7. X * T <= S * R
  <2> SUFFICES ASSUME S * R < X * T PROVE FALSE
    BY <1>6
  <2>1. PICK y, z \in Nat : y = X * T /\ z = S * R
    BY <1>6
  <2>2. z * n + n <= y * n /\ z * n \in Nat /\ y * n \in Nat
    BY <1>1, <2>1, MulStrict
  <2>3. y * n <= z * n
    BY <1>5, <2>1
  <2> QED BY <1>1, <2>2, <2>3
<1> QED BY <1>4, <1>7 DEF X

(* What a claim may pay before and after a deposit.                        *)
LEMMA DepositGain ==
  ASSUME NEW T \in Nat, T > 0, NEW R \in Nat, NEW a \in Nat, NEW s \in Nat, NEW f,
         f = Proportion(a, R, T)
  PROVE  /\ Proportion(s, R + f, T + a) <= Proportion(s, R, T)
         /\ Proportion(s + a, R + f, T + a) <= Proportion(s, R, T) + f + 1
         /\ Proportion(s, R + f, T + a) \in Nat /\ Proportion(s + a, R + f, T + a) \in Nat
         /\ Proportion(s, R, T) \in Nat
<1> DEFINE y == (s * R) \div T
           X == (s * (R + f)) \div (T + a)
           Z == ((s + a) * (R + f)) \div (T + a)
<1>1. f \in Nat /\ f * T <= a * R /\ a * R < f * T + T
  <2>1. f = (a * R) \div T /\ a * R \in Nat /\ T \in Nat \ {0}
    BY MulMonotone DEF Proportion
  <2> QED BY <2>1, DivBound
<1>2. y \in Nat /\ s * R < y * T + T
  <2>1. s * R \in Nat /\ T \in Nat \ {0}
    BY MulMonotone
  <2> QED BY <2>1, DivBound
<1>3. X \in Nat /\ X * T <= s * R
  BY <1>1, InflationBound
<1>4. Z \in Nat /\ Z * T <= (s + a) * R
  <2>1. s + a \in Nat
    OBVIOUS
  <2> QED BY <1>1, <2>1, InflationBound
<1>5. /\ Proportion(s, R, T) = y /\ Proportion(s, R + f, T + a) = X
      /\ Proportion(s + a, R + f, T + a) = Z
  BY <1>1 DEF Proportion
<1> HIDE DEF X, Z, y
<1>6. X <= y
  <2> SUFFICES ASSUME y < X PROVE FALSE
    BY <1>2, <1>3
  <2>1. y * T + T <= X * T /\ y * T \in Nat /\ X * T \in Nat
    BY <1>2, <1>3, MulStrict
  <2>2. s * R \in Nat
    BY MulMonotone
  <2> QED BY <1>2, <1>3, <2>1, <2>2
<1>7. Z <= y + f + 1
  <2> SUFFICES ASSUME y + f + 1 < Z PROVE FALSE
    BY <1>1, <1>2, <1>4
  <2>1. (y + f + 1) * T + T <= Z * T /\ Z * T \in Nat
    BY <1>1, <1>2, <1>4, MulStrict
  <2>2. (y + f + 1) * T = y * T + f * T + T /\ (s + a) * R = s * R + a * R
    BY <1>1, <1>2
  <2>3. s * R \in Nat /\ a * R \in Nat /\ y * T \in Nat /\ f * T \in Nat
    BY <1>1, <1>2, MulMonotone
  <2> QED BY <1>1, <1>2, <1>4, <2>1, <2>2, <2>3
<1> QED BY <1>2, <1>3, <1>4, <1>5, <1>6, <1>7

(* Claims before and after a deposit by u.                                 *)
LEMMA DepositKeepsClaims ==
  ASSUME FarmInv, NEW u \in Users, NEW amount \in Amounts, deposit(u, amount),
         pool.total_shares > 0, NEW v \in Users
  PROVE  reward_to_withdraw(pool', info'[v]) <= reward_to_withdraw(pool, info[v]) + 1
<1> DEFINE i == IF info[u] = NoInfo
                THEN [share |-> 0, withdrawn |-> 0, claim_last_block |-> block,
                      withdraw_list |-> <<>>]
                ELSE info[u]
           f == inflation_of(pool, amount)
<1>1. TypeOK
  BY DEF FarmInv
<1>2. /\ block \in Nat /\ info \in [Users -> Infos] /\ pool \in Pools
      /\ pool.total_shares \in Nat /\ pool.reward \in Nat /\ pool.withdrawn \in Nat
  BY <1>1, TypeFacts
<1>3. /\ state # "Retired" /\ amount \in Nat /\ amount > 0
      /\ pool' = inflated_pool(pool, amount, f)
      /\ info' = [info EXCEPT ![u] = inflated_share(i, amount, f)]
  BY FarmingAssumption DEF deposit
<1>4. i \in ShareInfos /\ i.share = info[u].share /\ i.withdrawn = info[u].withdrawn
  <2>1. CASE info[u] = NoInfo
    <3>1. i = [share |-> 0, withdrawn |-> 0, claim_last_block |-> block, withdraw_list |-> <<>>]
      BY <2>1
    <3>2. <<>> \in Seq(Withdrawals)
      OBVIOUS
    <3> HIDE DEF i
    <3> QED BY <1>2, <2>1, <3>1, <3>2, NoInfoFields DEF ShareInfos
  <2>2. CASE info[u] # NoInfo
    BY <1>2, <2>2 DEF Infos
  <2> QED BY <2>1, <2>2
<1> HIDE DEF i
<1>5. f = Proportion(amount, pool.reward, pool.total_shares)
  BY DEF inflation_of
<1>6. /\ f \in Nat
      /\ pool'.total_shares = pool.total_shares + amount
      /\ pool'.reward = pool.reward + f /\ pool'.withdrawn = pool.withdrawn + f
      /\ inflated_share(i, amount, f).share = i.share + amount
      /\ inflated_share(i, amount, f).withdrawn = i.withdrawn + f
  BY <1>2, <1>3, <1>4, InflateFacts
<1> HIDE DEF f
<1>7. PICK T, R, W, s, wd \in Nat :
         /\ T = pool.total_shares /\ R = pool.reward /\ W = pool.withdrawn
         /\ s = info[v].share /\ wd = info[v].withdrawn
  BY <1>2, InfoFields
<1>8. W <= R
  BY <1>3, <1>7 DEF FarmInv, Books
<1>9. /\ Proportion(s, R + f, T + amount) <= Proportion(s, R, T)
      /\ Proportion(s + amount, R + f, T + amount) <= Proportion(s, R, T) + f + 1
      /\ Proportion(s, R + f, T + amount) \in Nat
      /\ Proportion(s + amount, R + f, T + amount) \in Nat
      /\ Proportion(s, R, T) \in Nat
  BY <1>3, <1>5, <1>7, DepositGain
<1>10. PICK y, X, Z \in Nat :
         /\ y = Proportion(s, R, T) /\ X = Proportion(s, R + f, T + amount)
         /\ Z = Proportion(s + amount, R + f, T + amount)
  BY <1>9
<1>11. reward_to_withdraw(pool, info[v]) = Min({SatSub(y, wd), SatSub(R, W)})
  BY <1>7, <1>10 DEF reward_to_withdraw
<1>12. SatSub(R, W) = R - W /\ SatSub(R + f, W + f) = R - W
  <2>1. R + f \in Int /\ W + f \in Int
    BY <1>6
  <2>2. SatSub(R, W) = IF R >= W THEN R - W ELSE 0
    BY SatSubIs
  <2>3. SatSub(R + f, W + f) = IF R + f >= W + f THEN (R + f) - (W + f) ELSE 0
    BY <2>1, SatSubIs
  <2> QED BY <1>6, <1>8, <2>2, <2>3
<1>13. SatSub(y, wd) = IF y >= wd THEN y - wd ELSE 0
  BY SatSubIs
<1>14. CASE v # u
  <2>1. reward_to_withdraw(pool', info'[v]) = Min({SatSub(X, wd), SatSub(R + f, W + f)})
    <3>1. info'[v] = info[v]
      BY <1>2, <1>3, <1>14
    <3> QED BY <1>6, <1>7, <1>10, <3>1 DEF reward_to_withdraw
  <2>2. SatSub(X, wd) = IF X >= wd THEN X - wd ELSE 0
    BY SatSubIs
  <2>3. X <= y
    BY <1>9, <1>10
  <2>4. PICK b, c, d \in Int : b = SatSub(X, wd) /\ c = SatSub(y, wd) /\ d = R - W
    <3>1. SatSub(X, wd) \in Int /\ SatSub(y, wd) \in Int /\ R - W \in Int
      BY <1>13, <2>2
    <3> QED BY <3>1
  <2>5. b <= c
    BY <1>13, <2>2, <2>3, <2>4
  <2>6. Min({b, d}) <= Min({c, d}) + 1
    BY <2>5, MinOfTwo
  <2> QED BY <1>11, <1>12, <2>1, <2>4, <2>6
<1>15. CASE v = u
  <2>1. reward_to_withdraw(pool', info'[v]) = Min({SatSub(Z, wd + f), SatSub(R + f, W + f)})
    <3>1. info'[v] = inflated_share(i, amount, f)
      BY <1>2, <1>3, <1>15
    <3>2. info'[v].share = s + amount /\ info'[v].withdrawn = wd + f
      BY <1>4, <1>6, <1>7, <1>15, <3>1
    <3> QED BY <1>6, <1>7, <1>10, <3>2 DEF reward_to_withdraw
  <2>2. SatSub(Z, wd + f) = IF Z >= wd + f THEN Z - (wd + f) ELSE 0
    <3>1. wd + f \in Int
      BY <1>6
    <3> QED BY <3>1, SatSubIs
  <2>3. Z <= y + f + 1
    BY <1>9, <1>10
  <2>4. PICK b, c, d \in Int : b = SatSub(Z, wd + f) /\ c = SatSub(y, wd) /\ d = R - W
    <3>1. SatSub(Z, wd + f) \in Int /\ SatSub(y, wd) \in Int /\ R - W \in Int
      BY <1>6, <1>13, <2>2
    <3> QED BY <3>1
  <2>5. b <= c + 1
    BY <1>6, <1>13, <2>2, <2>3, <2>4
  <2>6. Min({b, d}) <= Min({c, d}) + 1
    BY <2>5, MinOfTwo
  <2> QED BY <1>11, <1>12, <2>1, <2>4, <2>6
<1> QED BY <1>14, <1>15

(* A deposit gives nobody, the depositor included, a reward that accrued   *)
(* before it, beyond the one unit of rounding (add_share's inflation).     *)
THEOREM DepositsTakeNothing == Spec => NoGainByDeposit
<1> DEFINE A == pool'.total_shares > pool.total_shares /\ pool.total_shares > 0
                  => \A u \in Users : reward_to_withdraw(pool', info'[u])
                                        <= reward_to_withdraw(pool, info[u]) + 1
<1>1. FarmInv /\ [Next]_vars => [A]_vars
  <2> SUFFICES ASSUME FarmInv, Next, pool'.total_shares > pool.total_shares,
                      pool.total_shares > 0, NEW v \in Users
               PROVE  reward_to_withdraw(pool', info'[v]) <= reward_to_withdraw(pool, info[v]) + 1
    OBVIOUS
  <2>0. info \in [Users -> Infos] /\ pool.total_shares \in Nat
    BY TypeFacts DEF FarmInv
  <2>1. ASSUME NEW u \in Users, NEW amount \in Amounts, deposit(u, amount)
        PROVE  reward_to_withdraw(pool', info'[v]) <= reward_to_withdraw(pool, info[v]) + 1
    BY <2>1, DepositKeepsClaims
  <2>2. ASSUME NEW u \in Users, NEW amount \in Amounts, withdraw(u, amount) PROVE FALSE
    <3>1. amount \in Nat
      BY FarmingAssumption
    <3>2. pool'.total_shares <= pool.total_shares /\ pool'.total_shares \in Nat
      BY <2>2, <3>1, WithdrawInv DEF FarmInv, TypeOK
    <3> QED BY <2>0, <3>2
  <2>3. ASSUME NEW u \in Users, withdraw(u, info[u].share) PROVE FALSE
    <3>1. info[u].share \in Nat
      BY <2>0, InfoFields
    <3>2. pool'.total_shares <= pool.total_shares /\ pool'.total_shares \in Nat
      BY <2>3, <3>1, WithdrawInv DEF FarmInv, TypeOK
    <3> QED BY <2>0, <3>2
  <2>4. ASSUME NEW u \in Users, claim(u) \/ withdraw_claim(u) PROVE FALSE
    <3>1. pool'.total_shares = pool.total_shares
      BY <2>4, ClaimInv DEF withdraw_claim
    <3> QED BY <2>0, <3>1
  <2>5. ASSUME force_retire_pool PROVE FALSE
    <3>1. pool'.total_shares <= pool.total_shares /\ pool'.total_shares \in Nat
      BY <2>5, ForceRetireInv DEF FarmInv, TypeOK
    <3> QED BY <2>0, <3>1
  <2>6. ASSUME \/ \E amount \in Charges : charge(amount)
               \/ close_pool
               \/ \E rewards \in BasicRewards, limit_time \in LimitTimes :
                    edit_pool(rewards, limit_time)
        PROVE  FALSE
    <3>1. pool' = pool
      BY <2>6, PlainInv
    <3> QED BY <2>0, <3>1
  <2>7. ASSUME reset_pool \/ kill_pool PROVE FALSE
    <3>1. pool'.total_shares = 0
      BY <2>7, RestartInv
    <3> QED BY <2>0, <3>1
  <2>8. ASSUME on_initialize PROVE FALSE
    <3>1. pool'.total_shares = pool.total_shares
      BY <2>8, InitializeInv
    <3> QED BY <2>0, <3>1
  <2> QED BY <2>1, <2>2, <2>3, <2>4, <2>5, <2>6, <2>7, <2>8 DEF Next
<1> QED BY <1>1, AlwaysFarmInv, PTL DEF Spec, NoGainByDeposit
=============================================================================
