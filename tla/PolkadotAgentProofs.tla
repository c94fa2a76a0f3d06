------------------------ MODULE PolkadotAgentProofs ------------------------
(* Proofs about the SLP pallet: the lists of unlock chunks, the types, the *)
(* rate of a tune, the nominations, and the ledgers that mirror the stakes *)
(* of the other chain.                                                     *)
EXTENDS PolkadotAgent, NatSumsProofs

-----------------------------------------------------------------------------
(* Lists of unlock chunks.                                                 *)

(* What the chunks from the i-th on hold.                                  *)
From(s, i) == SumFunctionOnSet(Values(s), i..Len(s))

(* What the chunks hold that come free at t or later.                      *)
LockedFrom(s, t) == SumFunctionOnSet(Values(s), {i \in DOMAIN s : s[i].time >= t})

(* The members of a list of chunks.                                        *)
LEMMA ChunkFacts ==
  ASSUME NEW s \in Seq(Chunks)
  PROVE  /\ IsFiniteSet(DOMAIN s) /\ DOMAIN s = 1..Len(s) /\ Len(s) \in Nat
         /\ \A i \in DOMAIN s :
              /\ Values(s)[i] = s[i].value /\ Values(s)[i] \in Nat /\ Values(s)[i] \in Int
              /\ s[i] \in Chunks /\ s[i].value \in Nat
              /\ s[i].time \in TimeUnits /\ s[i].time \in Nat /\ s[i].time \in Int
<1>1. DOMAIN s = 1..Len(s) /\ Len(s) \in Nat
  OBVIOUS
<1>2. IsFiniteSet(DOMAIN s)
  BY <1>1, FS_Interval
<1>3. \A i \in DOMAIN s : s[i] \in Chunks
  OBVIOUS
<1>4. \A i \in DOMAIN s : s[i].value \in Nat /\ s[i].time \in TimeUnits
  BY <1>3 DEF Chunks
<1>5. \A t \in TimeUnits : t \in Nat /\ t \in Int
  BY SlpAssumption DEF TimeUnits
<1>6. \A i \in DOMAIN s : Values(s)[i] = s[i].value
  BY DEF Values
<1> QED BY <1>1, <1>2, <1>3, <1>4, <1>5, <1>6

(* A sum over chunks of the list is a natural.                             *)
LEMMA ChunkSum ==
  ASSUME NEW s \in Seq(Chunks), NEW S \in SUBSET DOMAIN s
  PROVE  IsFiniteSet(S) /\ SumFunctionOnSet(Values(s), S) \in Nat
<1>1. IsFiniteSet(S)
  BY ChunkFacts, FS_Subset
<1>2. \A i \in S : Values(s)[i] \in Nat
  BY ChunkFacts
<1> QED BY <1>1, <1>2, SetSumNat

(* Taking the chunks from the end, one at a time.                          *)
LEMMA FromStep ==
  ASSUME NEW s \in Seq(Chunks)
  PROVE  /\ \A i \in 1..(Len(s) + 1) : From(s, i) \in Nat
         /\ From(s, Len(s) + 1) = 0
         /\ \A i \in 1..Len(s) : From(s, i) = s[i].value + From(s, i + 1)
         /\ From(s, 1) = Unlocking(s)
<1>0. /\ DOMAIN s = 1..Len(s) /\ Len(s) \in Nat
      /\ \A i \in DOMAIN s : Values(s)[i] = s[i].value /\ s[i].value \in Nat
  BY ChunkFacts
<1>1. \A i \in 1..(Len(s) + 1) : From(s, i) \in Nat
  <2> SUFFICES ASSUME NEW i \in 1..(Len(s) + 1) PROVE From(s, i) \in Nat
    OBVIOUS
  <2>1. i..Len(s) \in SUBSET DOMAIN s
    BY <1>0
  <2> QED BY <2>1, ChunkSum DEF From
<1>2. From(s, Len(s) + 1) = 0
  <2>1. (Len(s) + 1)..Len(s) = {}
    BY <1>0
  <2> QED BY <2>1, SetSumEmpty DEF From
<1>3. ASSUME NEW i \in 1..Len(s) PROVE From(s, i) = s[i].value + From(s, i + 1)
  <2> DEFINE S == i..Len(s)
  <2>1. S \in SUBSET DOMAIN s /\ i \in S
    BY <1>0
  <2>2. IsFiniteSet(S)
    BY <2>1, ChunkSum
  <2>3. S \ {i} = (i + 1)..Len(s)
    BY <1>0
  <2>4. \A x \in S : Values(s)[x] \in Int
    BY <1>0, <2>1
  <2> HIDE DEF S
  <2>5. SumFunctionOnSet(Values(s), S) = Values(s)[i] + SumFunctionOnSet(Values(s), S \ {i})
    BY <2>1, <2>2, <2>4, SetSumRemove
  <2> QED BY <1>0, <2>1, <2>3, <2>5 DEF From, S
<1>4. From(s, 1) = Unlocking(s)
  BY <1>0 DEF From, Unlocking
<1> QED BY <1>1, <1>2, <1>3, <1>4

(* A sum from further on is smaller.                                       *)
LEMMA FromFalls ==
  ASSUME NEW s \in Seq(Chunks), NEW i \in 1..(Len(s) + 1), NEW j \in i..(Len(s) + 1)
  PROVE  From(s, j) <= From(s, i)
<1> DEFINE S == i..Len(s)
           R == j..Len(s)
<1>1. S \in SUBSET DOMAIN s /\ R \in SUBSET S /\ S \ R \in SUBSET DOMAIN s /\ R \in SUBSET DOMAIN s
  OBVIOUS
<1>2. \A x \in S : Values(s)[x] \in Int
  BY <1>1, ChunkFacts
<1>3. IsFiniteSet(S)
  BY <1>1, ChunkSum
<1> HIDE DEF S, R
<1>4. SumFunctionOnSet(Values(s), S)
        = SumFunctionOnSet(Values(s), R) + SumFunctionOnSet(Values(s), S \ R)
  BY <1>1, <1>2, <1>3, SetSumSplit
<1>5. SumFunctionOnSet(Values(s), R) \in Nat /\ SumFunctionOnSet(Values(s), S \ R) \in Nat
  BY <1>1, ChunkSum
<1>6. SumFunctionOnSet(Values(s), R) <= SumFunctionOnSet(Values(s), S)
  BY <1>4, <1>5
<1> QED BY <1>6 DEF S, R, From

(* The chunks come in the order of their time, but for empty ones.         *)
Ordered(s) == \A i, j \in DOMAIN s : i < j => s[i].time <= s[j].time \/ s[j].value = 0

(* Cut(s, t, j): the chunks before the j-th come free before t, the others *)
(* do not or are empty.                                                    *)
Cut(s, t, j) ==
  /\ j \in 1..(Len(s) + 1)
  /\ \A i \in 1..(j - 1) : s[i].time < t
  /\ \A i \in j..Len(s) : s[i].time >= t \/ s[i].value = 0

(* Where the list is cut at t, the sums by time and by position agree.     *)
LEMMA CutSum ==
  ASSUME NEW s \in Seq(Chunks), NEW t \in Int, NEW j, Cut(s, t, j)
  PROVE  LockedFrom(s, t) = From(s, j)
<1> DEFINE S == j..Len(s)
           R == {i \in DOMAIN s : s[i].time >= t}
<1>0. DOMAIN s = 1..Len(s) /\ Len(s) \in Nat /\ j \in 1..(Len(s) + 1)
  BY DEF Cut
<1>1. \A i \in DOMAIN s : s[i].time \in Int
  BY ChunkFacts
<1>2. S \in SUBSET DOMAIN s
  BY <1>0
<1>3. R \in SUBSET S
  <2> SUFFICES ASSUME NEW i \in R PROVE i \in S
    OBVIOUS
  <2>1. i \in DOMAIN s /\ s[i].time >= t
    OBVIOUS
  <2>2. ~ (i \in 1..(j - 1))
    BY <1>1, <2>1 DEF Cut
  <2> QED BY <1>0, <2>1, <2>2
<1>4. \A i \in S \ R : Values(s)[i] = 0
  <2> SUFFICES ASSUME NEW i \in S \ R PROVE s[i].value = 0
    BY <1>2, ChunkFacts
  <2> QED BY <1>2 DEF Cut
<1>5. IsFiniteSet(S) /\ IsFiniteSet(S \ R)
  BY <1>2, <1>3, ChunkSum, FS_Subset
<1>6. \A i \in S : Values(s)[i] \in Int
  BY <1>2, ChunkFacts
<1>7. SumFunctionOnSet(Values(s), R) \in Nat
  BY <1>2, <1>3, ChunkSum
<1> HIDE DEF S, R
<1>8. SumFunctionOnSet(Values(s), S)
        = SumFunctionOnSet(Values(s), R) + SumFunctionOnSet(Values(s), S \ R)
  BY <1>3, <1>5, <1>6, SetSumSplit
<1>9. SumFunctionOnSet(Values(s), S \ R) = 0
  BY <1>4, <1>5, SetSumZero
<1>10. SumFunctionOnSet(Values(s), S) = SumFunctionOnSet(Values(s), R)
  BY <1>7, <1>8, <1>9
<1> QED BY <1>10 DEF S, R, From, LockedFrom

(* An ordered list can be cut at every time.                               *)
LEMMA CutExists ==
  ASSUME NEW s \in Seq(Chunks), Ordered(s), NEW t \in Int
  PROVE  \E j : Cut(s, t, j)
<1> DEFINE T == {i \in DOMAIN s : s[i].time >= t}
<1>0. DOMAIN s = 1..Len(s) /\ Len(s) \in Nat
  OBVIOUS
<1>1. \A i \in DOMAIN s : s[i].time \in Int
  BY ChunkFacts
<1>2. CASE T = {}
  <2>1. \A i \in DOMAIN s : s[i].time < t
    BY <1>1, <1>2
  <2>2. Cut(s, t, Len(s) + 1)
    BY <1>0, <2>1 DEF Cut
  <2> QED BY <2>2
<1>3. CASE T # {}
  <2>1. T \subseteq Nat
    BY <1>0
  <2>2. PICK j \in T : \A i \in T : j <= i
    BY <1>3, <2>1, NatMinimum
  <2>3. j \in 1..Len(s) /\ s[j].time >= t
    BY <1>0, <2>2
  <2>4. \A i \in 1..(j - 1) : s[i].time < t
    BY <1>0, <1>1, <2>2, <2>3
  <2>5. ASSUME NEW i \in j..Len(s) PROVE s[i].time >= t \/ s[i].value = 0
    <3>1. i \in DOMAIN s /\ j \in DOMAIN s /\ s[i].time \in Int /\ s[j].time \in Int
      BY <1>0, <1>1, <2>3
    <3>2. i = j \/ s[j].time <= s[i].time \/ s[i].value = 0
      BY <2>3, <3>1 DEF Ordered
    <3> QED BY <2>3, <3>1, <3>2
  <2>6. Cut(s, t, j)
    BY <1>0, <2>3, <2>4, <2>5 DEF Cut
  <2> QED BY <2>6
<1> QED BY <1>2, <1>3

(* What comes free at t is the difference of two sums.                     *)
LEMMA LockedSteps ==
  ASSUME NEW s \in Seq(Chunks)
  PROVE  /\ \A t \in Int : LockedFrom(s, t) \in Nat
         /\ LockedFrom(s, 0) = Unlocking(s)
         /\ \A t \in Int : UnlockingAt(s, t) = LockedFrom(s, t) - LockedFrom(s, t + 1)
<1>0. DOMAIN s = 1..Len(s) /\ \A i \in DOMAIN s : s[i].time \in Nat
  BY ChunkFacts
<1>1. ASSUME NEW t \in Int PROVE LockedFrom(s, t) \in Nat
  BY ChunkSum DEF LockedFrom
<1>2. LockedFrom(s, 0) = Unlocking(s)
  <2>1. {i \in DOMAIN s : s[i].time >= 0} = DOMAIN s
    BY <1>0
  <2> QED BY <2>1 DEF LockedFrom, Unlocking
<1>3. ASSUME NEW t \in Int
      PROVE  UnlockingAt(s, t) = LockedFrom(s, t) - LockedFrom(s, t + 1)
  <2> DEFINE S == {i \in DOMAIN s : s[i].time >= t}
             R == {i \in DOMAIN s : s[i].time >= t + 1}
             E == {i \in DOMAIN s : s[i].time = t}
  <2>1. R \in SUBSET S /\ S \in SUBSET DOMAIN s /\ S \ R = E
    BY <1>0
  <2>2. IsFiniteSet(S)
    BY <2>1, ChunkSum
  <2>3. \A i \in S : Values(s)[i] \in Int
    BY <2>1, ChunkFacts
  <2>4. UnlockingAt(s, t) = SumFunctionOnSet(Values(s), E)
    BY DEF UnlockingAt
  <2>5. LockedFrom(s, t) = SumFunctionOnSet(Values(s), S)
    BY DEF LockedFrom
  <2>6. LockedFrom(s, t + 1) = SumFunctionOnSet(Values(s), R)
    BY DEF LockedFrom
  <2>7. SumFunctionOnSet(Values(s), E) \in Nat /\ SumFunctionOnSet(Values(s), R) \in Nat
    BY ChunkSum
  <2> HIDE DEF S, R, E
  <2>8. SumFunctionOnSet(Values(s), S)
          = SumFunctionOnSet(Values(s), R) + SumFunctionOnSet(Values(s), E)
    BY <2>1, <2>2, <2>3, SetSumSplit
  <2> QED BY <2>4, <2>5, <2>6, <2>7, <2>8
<1> QED BY <1>1, <1>2, <1>3

(* The chunks that a rebond leaves.                                        *)
LEMMA RebondedShape ==
  ASSUME NEW s \in Seq(Chunks), NEW a \in Nat
  PROVE  \E k \in 0..Len(s) :
           /\ Rebonded(s, a) = [i \in 1..k |-> Chunk(Min({s[i].value, From(s, i) - a}), s[i].time)]
           /\ \A i \in 1..Len(s) : i <= k <=> From(s, i) > a
<1> DEFINE D == {i \in DOMAIN s : From(s, i) > a}
<1>0. DOMAIN s = 1..Len(s) /\ Len(s) \in Nat /\ \A i \in 1..(Len(s) + 1) : From(s, i) \in Nat
  BY ChunkFacts, FromStep
<1>1. D \in SUBSET (1..Len(s))
  BY <1>0
<1>2. ASSUME NEW i \in D, NEW j \in 1..i PROVE j \in D
  <2>1. j \in 1..Len(s) /\ i \in j..(Len(s) + 1) /\ i \in 1..(Len(s) + 1) /\ j \in 1..(Len(s) + 1)
    BY <1>0, <1>1
  <2>2. From(s, i) <= From(s, j)
    BY <2>1, FromFalls
  <2>3. From(s, i) > a /\ From(s, i) \in Nat /\ From(s, j) \in Nat
    BY <1>0, <2>1
  <2> QED BY <1>0, <2>1, <2>2, <2>3
<1>3. Rebonded(s, a) = [i \in 1..Cardinality(D) |->
                          Chunk(Min({s[i].value, From(s, i) - a}), s[i].time)]
  BY DEF Rebonded, From
<1>4. \A i \in 1..Len(s) : i \in D <=> From(s, i) > a
  BY <1>0
<1> HIDE DEF D
<1>5. D = 1..Cardinality(D) /\ Cardinality(D) \in 0..Len(s)
  BY <1>0, <1>1, <1>2, InitialSegment
<1>6. \A i \in 1..Len(s) : i <= Cardinality(D) <=> From(s, i) > a
  BY <1>0, <1>4, <1>5
<1> QED BY <1>3, <1>5, <1>6

(* A rebond takes the amount from the sums.                                *)
LEMMA RebondedEffect ==
  ASSUME NEW s \in Seq(Chunks), NEW a \in Nat
  PROVE  LET r == Rebonded(s, a)
         IN /\ r \in Seq(Chunks) /\ Len(r) <= Len(s)
            /\ \A i \in 1..Len(r) : /\ r[i].time = s[i].time
                                    /\ s[i].value = 0 <=> r[i].value = 0
            /\ \A i \in 1..Len(s) : i <= Len(r) <=> From(s, i) > a
            /\ \A j \in 1..(Len(r) + 1) :
                 From(r, j) = IF From(s, j) > a THEN From(s, j) - a ELSE 0
<1> DEFINE r == Rebonded(s, a)
           n == Len(s)
<1>1. PICK k \in 0..n :
        /\ r = [i \in 1..k |-> Chunk(Min({s[i].value, From(s, i) - a}), s[i].time)]
        /\ \A i \in 1..n : i <= k <=> From(s, i) > a
  BY RebondedShape
<1> HIDE DEF r
<1>2. /\ n \in Nat /\ DOMAIN s = 1..n
      /\ \A i \in 1..n : s[i].value \in Nat /\ s[i].time \in TimeUnits
  BY ChunkFacts
<1>3. /\ \A i \in 1..(n + 1) : From(s, i) \in Nat
      /\ From(s, n + 1) = 0
      /\ \A i \in 1..n : From(s, i) = s[i].value + From(s, i + 1)
  BY FromStep
<1> DEFINE G(j) == IF From(s, j) > a THEN From(s, j) - a ELSE 0
<1>4. ASSUME NEW i \in 1..k
      PROVE  /\ r[i].time = s[i].time /\ r[i].value \in Nat /\ r[i].value = G(i) - G(i + 1)
             /\ s[i].value = 0 <=> r[i].value = 0
             /\ r[i] \in Chunks
  <2>1. i \in 1..n /\ i + 1 \in 1..(n + 1)
    BY <1>2
  <2>2. From(s, i) > a /\ s[i].value \in Nat /\ From(s, i) \in Nat /\ From(s, i + 1) \in Nat
    <3>1. i <= k <=> From(s, i) > a
      BY <1>1, <2>1
    <3>2. i <= k
      OBVIOUS
    <3>3. From(s, i) \in Nat /\ From(s, i + 1) \in Nat
      BY <1>2, <1>3, <2>1
    <3> QED BY <1>2, <2>1, <3>1, <3>2, <3>3
  <2>3. From(s, i) - a \in Int /\ s[i].value \in Int
    BY <2>2
  <2>4. Min({s[i].value, From(s, i) - a})
          = IF s[i].value <= From(s, i) - a THEN s[i].value ELSE From(s, i) - a
    BY <2>3, MinOfTwo
  <2>5. r[i] = [value |-> Min({s[i].value, From(s, i) - a}), time |-> s[i].time]
    BY <1>1 DEF Chunk
  <2>6. r[i].time = s[i].time
        /\ r[i].value = IF s[i].value <= From(s, i) - a THEN s[i].value ELSE From(s, i) - a
    BY <2>4, <2>5
  <2>7. From(s, i) = s[i].value + From(s, i + 1)
    BY <1>3, <2>1
  <2>8. /\ r[i].value \in Nat /\ r[i].value = G(i) - G(i + 1)
        /\ s[i].value = 0 <=> r[i].value = 0
    BY <2>2, <2>6, <2>7
  <2>9. r[i] \in Chunks
    BY <1>2, <2>1, <2>5, <2>6, <2>8 DEF Chunks
  <2> QED BY <2>6, <2>8, <2>9
<1>5. r \in Seq(Chunks) /\ Len(r) = k
  <2>1. r \in [1..k -> Chunks] /\ k \in Nat
    BY <1>1, <1>4
  <2> QED BY <2>1
<1> HIDE DEF G
<1>6. /\ From(r, k + 1) = 0 /\ \A i \in 1..k : From(r, i) = r[i].value + From(r, i + 1)
      /\ \A i \in 1..(k + 1) : From(r, i) \in Nat
  BY <1>5, FromStep
<1>7. G(k + 1) = 0
  <2>1. CASE k = n
    BY <1>2, <1>3, <2>1 DEF G
  <2>2. CASE k # n
    <3>1. k + 1 \in 1..n /\ ~ (k + 1 <= k)
      BY <1>2, <2>2
    <3> QED BY <1>1, <3>1 DEF G
  <2> QED BY <2>1, <2>2
<1>8. \A j \in 1..(k + 1) : G(j) \in Int
  BY <1>2, <1>3 DEF G
<1> DEFINE T == {m \in Nat : m <= k => From(r, (k + 1) - m) = G((k + 1) - m)}
<1>9. 0 \in T
  BY <1>6, <1>7
<1>10. \A m \in T : m + 1 \in T
  <2> SUFFICES ASSUME NEW m \in Nat, m + 1 <= k, From(r, (k + 1) - m) = G((k + 1) - m)
               PROVE  From(r, (k + 1) - (m + 1)) = G((k + 1) - (m + 1))
    OBVIOUS
  <2> DEFINE i == (k + 1) - (m + 1)
  <2>1. i \in 1..k /\ i + 1 = (k + 1) - m /\ i + 1 \in 1..(k + 1) /\ i \in 1..(k + 1)
    OBVIOUS
  <2> HIDE DEF i
  <2>2. From(r, i) = r[i].value + From(r, i + 1) /\ r[i].value = G(i) - G(i + 1)
    BY <1>4, <1>6, <2>1
  <2>3. From(r, i + 1) = G(i + 1)
    BY <2>1
  <2>4. G(i) \in Int /\ G(i + 1) \in Int
    BY <1>8, <2>1
  <2>5. From(r, i) = G(i)
    BY <2>2, <2>3, <2>4
  <2> QED BY <2>5 DEF i
<1> HIDE DEF T
<1>11. T = Nat
  BY <1>9, <1>10, SetInduction DEF T
<1>12. ASSUME NEW j \in 1..(k + 1) PROVE From(r, j) = G(j)
  <2>1. (k + 1) - j \in T /\ (k + 1) - j <= k /\ (k + 1) - ((k + 1) - j) = j
    BY <1>11
  <2> QED BY <2>1 DEF T
<1>13. \A i \in 1..Len(s) : i <= Len(r) <=> From(s, i) > a
  BY <1>1, <1>5
<1>14. \A i \in 1..Len(r) : r[i].time = s[i].time /\ (s[i].value = 0 <=> r[i].value = 0)
  BY <1>4, <1>5
<1>15. \A j \in 1..(Len(r) + 1) : From(r, j) = IF From(s, j) > a THEN From(s, j) - a ELSE 0
  BY <1>5, <1>12 DEF G
<1>16. Len(r) <= Len(s)
  BY <1>2, <1>5
<1> QED BY <1>5, <1>13, <1>14, <1>15, <1>16 DEF r

(* In time, too.                                                           *)
LEMMA RebondedLocked ==
  ASSUME NEW s \in Seq(Chunks), Ordered(s), NEW a \in Nat, NEW t \in Int
  PROVE  /\ Ordered(Rebonded(s, a))
         /\ LockedFrom(Rebonded(s, a), t)
              = IF LockedFrom(s, t) > a THEN LockedFrom(s, t) - a ELSE 0
<1> DEFINE r == Rebonded(s, a)
<1>1. /\ r \in Seq(Chunks) /\ Len(r) <= Len(s)
      /\ \A i \in 1..Len(r) : r[i].time = s[i].time /\ (s[i].value = 0 <=> r[i].value = 0)
      /\ \A i \in 1..Len(s) : i <= Len(r) <=> From(s, i) > a
      /\ \A j \in 1..(Len(r) + 1) : From(r, j) = IF From(s, j) > a THEN From(s, j) - a ELSE 0
  BY RebondedEffect
<1> HIDE DEF r
<1>2. DOMAIN s = 1..Len(s) /\ Len(s) \in Nat /\ DOMAIN r = 1..Len(r) /\ Len(r) \in Nat
  BY <1>1, ChunkFacts
<1>3. Ordered(r)
  BY <1>1, <1>2 DEF Ordered
<1>4. PICK j : Cut(s, t, j)
  BY CutExists
<1>5. LockedFrom(s, t) = From(s, j) /\ j \in 1..(Len(s) + 1)
  BY <1>4, CutSum DEF Cut
<1>6. CASE j <= Len(r)
  <2>1. j \in 1..(Len(r) + 1)
    BY <1>2, <1>5, <1>6
  <2>2. \A i \in 1..Len(r) : i \in 1..Len(s)
    BY <1>1, <1>2
  <2>3. Cut(r, t, j)
    BY <1>1, <1>2, <1>4, <1>6, <2>1, <2>2 DEF Cut
  <2>4. LockedFrom(r, t) = From(r, j)
    BY <1>1, <2>3, CutSum
  <2> QED BY <1>1, <1>3, <1>5, <2>1, <2>4 DEF r
<1>7. CASE ~ (j <= Len(r))
  <2>1. \A i \in 1..Len(r) : i \in 1..(j - 1)
    BY <1>2, <1>5, <1>7
  <2>2. Cut(r, t, Len(r) + 1)
    BY <1>1, <1>2, <1>4, <2>1 DEF Cut
  <2>3. LockedFrom(r, t) = 0
    BY <1>1, <2>2, CutSum, FromStep
  <2>4. ~ (From(s, j) > a)
    BY <1>1, <1>2, <1>5, <1>7, FromStep
  <2> QED BY <1>3, <1>5, <2>3, <2>4 DEF r
<1> QED BY <1>6, <1>7

(* A new chunk adds its value to the sums up to its time.                  *)
LEMMA AppendLocked ==
  ASSUME NEW s \in Seq(Chunks), NEW c \in Chunks, NEW t \in Int
  PROVE  /\ Append(s, c) \in Seq(Chunks)
         /\ LockedFrom(Append(s, c), t) = LockedFrom(s, t) + (IF c.time >= t THEN c.value ELSE 0)
<1> DEFINE a == Append(s, c)
           n == Len(s)
           S == {i \in DOMAIN s : s[i].time >= t}
           A == {i \in DOMAIN a : a[i].time >= t}
<1>1. /\ a \in Seq(Chunks) /\ Len(a) = n + 1 /\ n \in Nat /\ DOMAIN s = 1..n /\ DOMAIN a = 1..(n + 1)
      /\ \A i \in 1..n : a[i] = s[i]
  OBVIOUS
<1>2. a[n + 1] = c
  OBVIOUS
<1>3. \A i \in 1..n : Values(a)[i] = Values(s)[i]
  <2> SUFFICES ASSUME NEW i \in 1..n PROVE Values(a)[i] = Values(s)[i]
    OBVIOUS
  <2>1. i \in DOMAIN a /\ i \in DOMAIN s /\ a[i] = s[i]
    BY <1>1
  <2> HIDE DEF a
  <2> QED BY <2>1 DEF Values
<1>4. Values(a)[n + 1] = c.value /\ c.value \in Nat
  BY <1>1, <1>2, n + 1 \in 1..(n + 1) DEF Values, Chunks
<1> HIDE DEF a
<1>5. S \in SUBSET (1..n) /\ A \in SUBSET DOMAIN a /\ S \in SUBSET DOMAIN s
  BY <1>1
<1>6. IsFiniteSet(S) /\ IsFiniteSet(A)
  BY <1>1, <1>5, ChunkSum
<1>7. \A i \in A : Values(a)[i] \in Int
  BY <1>1, <1>5, ChunkFacts
<1>8. SumFunctionOnSet(Values(s), S) = SumFunctionOnSet(Values(a), S)
  BY <1>3, <1>5, <1>6, SetSumSame
<1>9. SumFunctionOnSet(Values(s), S) \in Nat
  BY <1>5, ChunkSum
<1>10. CASE c.time >= t
  <2>1. A = S \cup {n + 1} /\ A \ {n + 1} = S /\ n + 1 \in A
    BY <1>1, <1>2, <1>10
  <2> HIDE DEF A, S
  <2>2. SumFunctionOnSet(Values(a), A) = Values(a)[n + 1] + SumFunctionOnSet(Values(a), A \ {n + 1})
    BY <1>6, <1>7, <2>1, SetSumRemove
  <2>3. SumFunctionOnSet(Values(a), A) = c.value + SumFunctionOnSet(Values(s), S)
    BY <1>4, <1>8, <2>1, <2>2, Zenon
  <2>4. \A x, y \in Nat : x + y = y + x
    OBVIOUS
  <2>5. SumFunctionOnSet(Values(a), A) = SumFunctionOnSet(Values(s), S) + c.value
    BY <1>4, <1>9, <2>3, <2>4, Zenon
  <2> QED BY <1>1, <1>10, <2>5 DEF A, S, a, LockedFrom
<1>11. CASE ~ (c.time >= t)
  <2>1. A = S
    BY <1>1, <1>2, <1>11
  <2> HIDE DEF A, S
  <2>2. SumFunctionOnSet(Values(a), A) = SumFunctionOnSet(Values(s), S)
    BY <1>8, <2>1, Zenon
  <2>3. \A x \in Nat : x = x + 0
    OBVIOUS
  <2>4. SumFunctionOnSet(Values(a), A) = SumFunctionOnSet(Values(s), S) + 0
    BY <1>9, <2>2, <2>3, Zenon
  <2> QED BY <1>1, <1>11, <2>4 DEF A, S, a, LockedFrom
<1> QED BY <1>10, <1>11

(* Which chunks are due.                                                   *)
LEMMA DueCountFacts ==
  ASSUME NEW s \in Seq(Chunks), NEW t \in Int
  PROVE  /\ DueCount(s, t) \in 0..Len(s)
         /\ \A i \in 1..DueCount(s, t) : s[i].time <= t
         /\ DueCount(s, t) < Len(s) => s[DueCount(s, t) + 1].time > t
<1> DEFINE K == {k \in 0..Len(s) : \A i \in 1..k : s[i].time <= t}
           m == Max(K)
<1>0. Len(s) \in Nat /\ \A i \in 1..Len(s) : s[i].time \in Int
  BY ChunkFacts
<1>1. 0 \in K /\ K \in SUBSET Nat /\ \A k \in K : k <= Len(s)
  BY <1>0
<1>2. m \in K /\ \A k \in K : k <= m
  BY <1>0, <1>1, MaxOfSet
<1>3. DueCount(s, t) = m
  BY DEF DueCount
<1> HIDE DEF m
<1>4. m \in 0..Len(s) /\ \A i \in 1..m : s[i].time <= t
  BY <1>2
<1>5. ASSUME m < Len(s), ~ (s[m + 1].time > t) PROVE FALSE
  <2>1. m + 1 \in 1..Len(s) /\ s[m + 1].time <= t
    BY <1>0, <1>4, <1>5
  <2>2. m + 1 \in K
    BY <1>0, <1>4, <2>1
  <2> QED BY <1>2, <1>4, <2>2
<1> QED BY <1>3, <1>4, <1>5

(* The sums of what is left when the due chunks are taken away.            *)
LEMMA NotDueFrom ==
  ASSUME NEW s \in Seq(Chunks), NEW k \in 0..Len(s)
  PROVE  LET u == SubSeq(s, k + 1, Len(s))
         IN /\ u \in Seq(Chunks) /\ Len(u) = Len(s) - k
            /\ \A i \in 1..Len(u) : u[i] = s[i + k]
            /\ \A j \in 1..(Len(u) + 1) : From(u, j) = From(s, j + k)
<1> DEFINE u == SubSeq(s, k + 1, Len(s))
           n == Len(s)
<1>1. n \in Nat /\ DOMAIN s = 1..n /\ \A i \in 1..n : s[i].value \in Nat
  BY ChunkFacts
<1>2. u \in Seq(Chunks) /\ Len(u) = n - k /\ \A i \in 1..(n - k) : u[i] = s[i + k]
  OBVIOUS
<1> HIDE DEF u
<1>3. /\ \A i \in 1..(n + 1) : From(s, i) \in Nat
      /\ From(s, n + 1) = 0
      /\ \A i \in 1..n : From(s, i) = s[i].value + From(s, i + 1)
  BY FromStep
<1>4. /\ From(u, (n - k) + 1) = 0
      /\ \A i \in 1..(n - k) : From(u, i) = u[i].value + From(u, i + 1)
  BY <1>2, FromStep
<1> DEFINE T == {m \in Nat : m <= n - k => From(u, ((n - k) + 1) - m) = From(s, (n + 1) - m)}
<1>5. 0 \in T
  BY <1>1, <1>3, <1>4
<1>6. \A m \in T : m + 1 \in T
  <2> SUFFICES ASSUME NEW m \in Nat, m + 1 <= n - k,
                      From(u, ((n - k) + 1) - m) = From(s, (n + 1) - m)
               PROVE  From(u, ((n - k) + 1) - (m + 1)) = From(s, (n + 1) - (m + 1))
    BY <1>1
  <2> DEFINE i == ((n - k) + 1) - (m + 1)
  <2>1. /\ i \in 1..(n - k) /\ i + 1 = ((n - k) + 1) - m /\ i + k \in 1..n
        /\ (i + k) + 1 = (n + 1) - m /\ i + k = (n + 1) - (m + 1)
    BY <1>1
  <2> HIDE DEF i
  <2>2. From(u, i) = u[i].value + From(u, i + 1) /\ u[i] = s[i + k]
    BY <1>2, <1>4, <2>1
  <2>3. From(s, i + k) = s[i + k].value + From(s, (i + k) + 1)
    BY <1>3, <2>1
  <2>4. From(u, i) = From(s, i + k)
    BY <2>1, <2>2, <2>3
  <2> QED BY <2>1, <2>4 DEF i
<1> HIDE DEF T
<1>7. T = Nat
  BY <1>5, <1>6, SetInduction DEF T
<1>8. ASSUME NEW j \in 1..((n - k) + 1) PROVE From(u, j) = From(s, j + k)
  <2>1. /\ ((n - k) + 1) - j \in T /\ ((n - k) + 1) - j <= n - k
        /\ ((n - k) + 1) - (((n - k) + 1) - j) = j /\ (n + 1) - (((n - k) + 1) - j) = j + k
    BY <1>1, <1>7
  <2> QED BY <2>1 DEF T
<1> QED BY <1>2, <1>8 DEF u

(* The due chunks and the rest, by position.                               *)
LEMMA DueSplit ==
  ASSUME NEW s \in Seq(Chunks), NEW t \in Int
  PROVE  /\ Due(s, t) \in Seq(Chunks) /\ NotDue(s, t) \in Seq(Chunks)
         /\ Unlocking(Due(s, t)) \in Nat
         /\ Unlocking(s) = Unlocking(Due(s, t)) + From(s, DueCount(s, t) + 1)
<1> DEFINE k == DueCount(s, t)
           n == Len(s)
           d == Due(s, t)
<1>1. k \in 0..n /\ n \in Nat /\ DOMAIN s = 1..n
  BY DueCountFacts
<1>2. d = SubSeq(s, 1, k) /\ NotDue(s, t) = SubSeq(s, k + 1, n)
  BY DEF Due, NotDue
<1> HIDE DEF k, d
<1>3. /\ d \in Seq(Chunks) /\ NotDue(s, t) \in Seq(Chunks) /\ DOMAIN d = 1..k
      /\ \A i \in 1..k : d[i] = s[i]
  BY <1>1, <1>2
<1>4. \A i \in 1..k : Values(d)[i] = Values(s)[i]
  <2> SUFFICES ASSUME NEW i \in 1..k PROVE Values(d)[i] = Values(s)[i]
    OBVIOUS
  <2>1. i \in DOMAIN d /\ i \in DOMAIN s /\ d[i] = s[i]
    BY <1>1, <1>3
  <2> QED BY <2>1 DEF Values
<1>5. 1..k \in SUBSET (1..n) /\ (1..n) \ (1..k) = (k + 1)..n
  BY <1>1
<1>6. IsFiniteSet(1..n) /\ IsFiniteSet(1..k) /\ \A i \in 1..n : Values(s)[i] \in Int
  <2>1. 1 \in Int /\ n \in Int /\ k \in Int
    BY <1>1
  <2>2. IsFiniteSet(1..n) /\ IsFiniteSet(1..k)
    BY ONLY <2>1, FS_Interval
  <2>3. \A i \in 1..n : Values(s)[i] \in Int
    BY <1>1, ChunkFacts
  <2> QED BY <2>2, <2>3
<1>7. SumFunctionOnSet(Values(d), 1..k) = SumFunctionOnSet(Values(s), 1..k)
  BY <1>4, <1>6, SetSumSame
<1>8. SumFunctionOnSet(Values(s), 1..n)
        = SumFunctionOnSet(Values(s), 1..k) + SumFunctionOnSet(Values(s), (1..n) \ (1..k))
  <2> DEFINE S == 1..n
             R == 1..k
  <2>1. R \in SUBSET S /\ IsFiniteSet(S) /\ \A i \in S : Values(s)[i] \in Int
    BY <1>5, <1>6
  <2> HIDE DEF S, R
  <2>2. SumFunctionOnSet(Values(s), S)
          = SumFunctionOnSet(Values(s), R) + SumFunctionOnSet(Values(s), S \ R)
    BY <2>1, SetSumSplit
  <2> QED BY <2>2 DEF S, R
<1>9. Unlocking(s) = SumFunctionOnSet(Values(s), 1..n)
  BY <1>1 DEF Unlocking
<1>10. Unlocking(d) = SumFunctionOnSet(Values(d), 1..k)
  BY <1>3 DEF Unlocking
<1>11. From(s, k + 1) = SumFunctionOnSet(Values(s), (1..n) \ (1..k))
  BY <1>5 DEF From
<1>12. Unlocking(d) \in Nat
  BY <1>3, <1>10, ChunkSum
<1>13. Unlocking(s) = Unlocking(d) + From(s, k + 1)
  BY <1>7, <1>8, <1>9, <1>10, <1>11, Zenon
<1> QED BY <1>3, <1>12, <1>13 DEF k, d

(* In time: what is left is what comes free after t.                       *)
LEMMA NotDueLocked ==
  ASSUME NEW s \in Seq(Chunks), Ordered(s), NEW t \in Int
  PROVE  /\ Ordered(NotDue(s, t))
         /\ \A v \in Int : LockedFrom(NotDue(s, t), v)
                             = LockedFrom(s, IF v > t THEN v ELSE t + 1)
         /\ Unlocking(s) = Unlocking(Due(s, t)) + LockedFrom(s, t + 1)
<1> DEFINE k == DueCount(s, t)
           n == Len(s)
           u == NotDue(s, t)
<1>1. /\ k \in 0..n /\ n \in Nat /\ DOMAIN s = 1..n
      /\ \A i \in 1..k : s[i].time <= t
      /\ k < n => s[k + 1].time > t
  BY DueCountFacts
<1>2. \A i \in 1..n : s[i].time \in Int
  BY ChunkFacts
<1>3. u = SubSeq(s, k + 1, n)
  BY DEF NotDue
<1>4. Unlocking(s) = Unlocking(Due(s, t)) + From(s, k + 1)
  BY DueSplit
<1> HIDE DEF k, u
<1>5. /\ u \in Seq(Chunks) /\ Len(u) = n - k
      /\ \A i \in 1..Len(u) : u[i] = s[i + k]
      /\ \A j \in 1..(Len(u) + 1) : From(u, j) = From(s, j + k)
  BY <1>1, <1>3, NotDueFrom
<1>6. Ordered(u)
  <2> SUFFICES ASSUME NEW i \in DOMAIN u, NEW j \in DOMAIN u, i < j
               PROVE  u[i].time <= u[j].time \/ u[j].value = 0
    BY DEF Ordered
  <2>1. i \in 1..Len(u) /\ j \in 1..Len(u)
    BY <1>5
  <2>2. i + k \in DOMAIN s /\ j + k \in DOMAIN s /\ i + k < j + k
    BY <1>1, <1>5, <2>1
  <2> QED BY <1>5, <2>1, <2>2 DEF Ordered
<1>7. \A i \in (k + 1)..n : s[i].time > t \/ s[i].value = 0
  <2> SUFFICES ASSUME NEW i \in (k + 1)..n PROVE s[i].time > t \/ s[i].value = 0
    OBVIOUS
  <2>1. i \in 1..n /\ k + 1 \in 1..n /\ s[k + 1].time > t
    BY <1>1
  <2>2. i = k + 1 \/ s[k + 1].time <= s[i].time \/ s[i].value = 0
    BY <1>1, <2>1 DEF Ordered
  <2> QED BY <1>2, <2>1, <2>2
<1>8. Cut(s, t + 1, k + 1)
  BY <1>1, <1>2, <1>7 DEF Cut
<1>9. Unlocking(s) = Unlocking(Due(s, t)) + LockedFrom(s, t + 1)
  BY <1>4, <1>8, CutSum
<1>10. ASSUME NEW v \in Int, v > t PROVE LockedFrom(u, v) = LockedFrom(s, v)
  <2>1. PICK j : Cut(s, v, j)
    BY CutExists
  <2> DEFINE c == IF j > k THEN j ELSE k + 1
  <2>2. j \in 1..(n + 1) /\ c \in (k + 1)..(n + 1)
    BY <1>1, <2>1 DEF Cut
  <2>3. \A i \in 1..(c - 1) : s[i].time < v
    <3> SUFFICES ASSUME NEW i \in 1..(c - 1) PROVE s[i].time < v
      OBVIOUS
    <3>1. i \in 1..n /\ (i \in 1..k \/ i \in 1..(j - 1))
      BY <1>1, <2>2
    <3> QED BY <1>1, <1>2, <1>10, <2>1, <3>1 DEF Cut
  <2>4. \A i \in c..n : s[i].time >= v \/ s[i].value = 0
    BY <1>1, <2>1, <2>2 DEF Cut
  <2> HIDE DEF c
  <2>5. Cut(s, v, c)
    BY <1>1, <2>2, <2>3, <2>4 DEF Cut
  <2>6. c - k \in 1..(Len(u) + 1) /\ (c - k) + k = c
    BY <1>1, <1>5, <2>2
  <2>7. Cut(u, v, c - k)
    <3>1. \A i \in 1..((c - k) - 1) : i \in 1..Len(u) /\ i + k \in 1..(c - 1)
      BY <1>1, <1>5, <2>2
    <3>2. \A i \in (c - k)..Len(u) : i \in 1..Len(u) /\ i + k \in c..n
      BY <1>1, <1>5, <2>2
    <3> QED BY <1>5, <2>3, <2>4, <2>6, <3>1, <3>2 DEF Cut
  <2>8. LockedFrom(s, v) = From(s, c)
    BY <2>5, CutSum
  <2>9. LockedFrom(u, v) = From(u, c - k)
    BY <1>5, <2>7, CutSum
  <2> QED BY <1>5, <2>6, <2>8, <2>9
<1>11. ASSUME NEW v \in Int, ~ (v > t) PROVE LockedFrom(u, v) = LockedFrom(s, t + 1)
  <2>1. Cut(u, v, 1)
    <3>1. \A i \in 1..Len(u) : i + k \in (k + 1)..n /\ i + k \in 1..n
      BY <1>1, <1>5
    <3>2. Len(u) \in Nat
      BY <1>5
    <3> QED BY <1>2, <1>5, <1>7, <1>11, <3>1, <3>2 DEF Cut
  <2>2. LockedFrom(u, v) = From(u, 1) /\ 1 \in 1..(Len(u) + 1) /\ 1 + k = k + 1
    BY <1>1, <1>5, <2>1, CutSum
  <2> QED BY <1>5, <1>8, <2>2, CutSum
<1> QED BY <1>6, <1>9, <1>10, <1>11 DEF u

-----------------------------------------------------------------------------
(* Types.                                                                  *)

LEMMA UnlockingType ==
  ASSUME NEW s \in Seq(Chunks)
  PROVE  Unlocking(s) \in Nat
BY ChunkSum DEF Unlocking

(* A delegator without a ledger is told from one with a ledger.            *)
LEMMA NoLedgerFacts ==
  /\ NoLedger \notin Ledgers
  /\ NoLedger.total = 0 /\ NoLedger.active = 0 /\ NoLedger.unlocking = <<>>
BY DEF NoLedger, Ledgers

LEMMA LedgerFacts ==
  ASSUME NEW l \in Ledgers
  PROVE  /\ l.total \in Nat /\ l.active \in Nat /\ l.unlocking \in Seq(Chunks)
         /\ l # NoLedger
BY NoLedgerFacts DEF Ledgers

LEMMA EntryFacts ==
  ASSUME NEW e \in Entries
  PROVE  /\ e.who \in Delegators /\ e.op \in Operations /\ e.amount \in Nat
         /\ e.time \in TimeUnits /\ e.time \in Int /\ e.timeout \in Nat
BY SlpAssumption DEF Entries, TimeUnits

LEMMA StakeFacts ==
  ASSUME NEW r \in Stakes
  PROVE  /\ r.free \in Nat /\ r.bonded \in BOOLEAN /\ r.active \in Nat
         /\ r.unlocking \in Seq(Chunks) /\ r.noms \in SUBSET Validators
BY DEF Stakes

LEMMA MessageFacts ==
  ASSUME NEW m \in Messages
  PROVE  /\ m.query \in Nat /\ m.call \in RelayCalls /\ m.who \in Delegators /\ m.amount \in Nat
         /\ m.targets \in SUBSET Validators /\ m.time \in TimeUnits /\ m.time \in Int
BY SlpAssumption DEF Messages, TimeUnits

(* What an answer makes of a ledger, field by field.                       *)
LEMMA AppliedEffect ==
  ASSUME NEW l \in Ledgers, NEW e \in Entries, CanApply(l, e)
  PROVE  /\ Applied(l, e) \in Ledgers
         /\ e.op = "Bond" => /\ Applied(l, e).active = l.active + e.amount
                             /\ Applied(l, e).total = l.total + e.amount
                             /\ Applied(l, e).unlocking = l.unlocking
         /\ e.op = "Unlock" => /\ Applied(l, e).active = l.active - e.amount
                               /\ Applied(l, e).total = l.total
                               /\ Applied(l, e).unlocking
                                    = Append(l.unlocking, Chunk(e.amount, e.time))
         /\ e.op = "Rebond" => /\ Applied(l, e).active = l.active + e.amount
                               /\ Applied(l, e).total = l.total
                               /\ Applied(l, e).unlocking = Rebonded(l.unlocking, e.amount)
         /\ e.op = "Liquidize" => /\ Applied(l, e).active = l.active
                                  /\ Applied(l, e).total
                                       = l.total - Unlocking(Due(l.unlocking, e.time))
                                  /\ Applied(l, e).unlocking = NotDue(l.unlocking, e.time)
<1>1. /\ l.total \in Nat /\ l.active \in Nat /\ l.unlocking \in Seq(Chunks)
      /\ l = [total |-> l.total, active |-> l.active, unlocking |-> l.unlocking]
  BY LedgerFacts DEF Ledgers
<1>2. e.op \in Operations /\ e.amount \in Nat /\ e.time \in TimeUnits /\ e.time \in Int
  BY EntryFacts
<1>3. CASE e.op = "Bond"
  <2>1. Applied(l, e) = [total |-> l.total + e.amount, active |-> l.active + e.amount,
                         unlocking |-> l.unlocking]
    BY <1>1, <1>3 DEF Applied
  <2>2. l.total + e.amount \in Nat /\ l.active + e.amount \in Nat
    BY <1>1, <1>2
  <2>3. Applied(l, e) \in Ledgers
    BY <1>1, <2>1, <2>2 DEF Ledgers
  <2> QED BY <1>3, <2>1, <2>3
<1>4. CASE e.op = "Unlock"
  <2>1. Applied(l, e) = [total |-> l.total, active |-> l.active - e.amount,
                         unlocking |-> Append(l.unlocking, Chunk(e.amount, e.time))]
    BY <1>1, <1>4 DEF Applied
  <2>2. l.active - e.amount \in Nat
    BY <1>1, <1>2, <1>4 DEF CanApply
  <2>3. Append(l.unlocking, Chunk(e.amount, e.time)) \in Seq(Chunks)
    BY <1>1, <1>2 DEF Chunk, Chunks
  <2>4. Applied(l, e) \in Ledgers
    BY <1>1, <2>1, <2>2, <2>3 DEF Ledgers
  <2> QED BY <1>4, <2>1, <2>4
<1>5. CASE e.op = "Rebond"
  <2>1. Applied(l, e) = [total |-> l.total, active |-> l.active + e.amount,
                         unlocking |-> Rebonded(l.unlocking, e.amount)]
    BY <1>1, <1>5 DEF Applied, rebonded
  <2>2. l.active + e.amount \in Nat
    BY <1>1, <1>2
  <2>3. Rebonded(l.unlocking, e.amount) \in Seq(Chunks)
    BY <1>1, <1>2, RebondedEffect
  <2>4. Applied(l, e) \in Ledgers
    BY <1>1, <2>1, <2>2, <2>3 DEF Ledgers
  <2> QED BY <1>5, <2>1, <2>4
<1>6. CASE e.op = "Liquidize"
  <2>1. Applied(l, e) = [total |-> l.total - Unlocking(Due(l.unlocking, e.time)),
                         active |-> l.active, unlocking |-> NotDue(l.unlocking, e.time)]
    BY <1>1, <1>6 DEF Applied
  <2>2. Unlocking(Due(l.unlocking, e.time)) \in Nat /\ NotDue(l.unlocking, e.time) \in Seq(Chunks)
    BY <1>1, <1>2, DueSplit
  <2>3. l.total - Unlocking(Due(l.unlocking, e.time)) \in Nat
    BY <1>1, <1>6, <2>2 DEF CanApply
  <2>4. Applied(l, e) \in Ledgers
    BY <1>1, <2>1, <2>2, <2>3 DEF Ledgers
  <2> QED BY <1>6, <2>1, <2>4
<1> QED BY <1>2, <1>3, <1>4, <1>5, <1>6 DEF Operations

(* What a successful call makes of the stake, call by call.                *)
LEMMA AfterEffect ==
  ASSUME NEW m \in Messages, NEW r \in Stakes, era \in 0..MaxEra, Succeeds(m, r),
         m.call # "payout_stakers"
  PROVE  /\ After(m, r) \in Stakes
         /\ m.call \in {"bond", "bond_extra"} =>
              LET most == IF m.amount <= r.free THEN m.amount ELSE r.free
              IN After(m, r) = [r EXCEPT !.bonded = TRUE, !.active = r.active + most,
                                         !.free = r.free - most]
         /\ m.call = "unbond" =>
              LET cut == IF m.amount <= r.active THEN m.amount ELSE r.active
              IN After(m, r) = [r EXCEPT !.active = r.active - cut,
                                  !.unlocking = IF cut = 0 THEN r.unlocking
                                    ELSE Append(r.unlocking, Chunk(cut, era + UnlockDelay))]
         /\ m.call = "rebond" =>
              LET back == IF m.amount <= Unlocking(r.unlocking) THEN m.amount
                          ELSE Unlocking(r.unlocking)
              IN After(m, r) = [r EXCEPT !.active = r.active + back,
                                         !.unlocking = Rebonded(r.unlocking, m.amount)]
         /\ m.call = "withdraw_unbonded" => After(m, r) = Withdrawn(r)
         /\ m.call = "chill" => After(m, r) = [r EXCEPT !.noms = {}]
         /\ m.call = "nominate" => After(m, r) = [r EXCEPT !.noms = m.targets]
         /\ m.call = "transfer_back" => After(m, r) = [r EXCEPT !.free = r.free - m.amount]
         /\ m.call = "deposit" => After(m, r) = [r EXCEPT !.free = r.free + m.amount]
<1>1. /\ r.free \in Nat /\ r.bonded \in BOOLEAN /\ r.active \in Nat
      /\ r.unlocking \in Seq(Chunks) /\ r.noms \in SUBSET Validators
  BY StakeFacts
<1>2. /\ m.call \in RelayCalls /\ m.amount \in Nat /\ m.targets \in SUBSET Validators
  BY MessageFacts
<1>3. Unlocking(r.unlocking) \in Nat
  BY <1>1, UnlockingType
<1>4. era + UnlockDelay \in TimeUnits /\ era \in Int
  BY SlpAssumption DEF TimeUnits
<1>5. CASE m.call \in {"bond", "bond_extra"}
  <2> DEFINE most == IF m.amount <= r.free THEN m.amount ELSE r.free
  <2>1. Min({m.amount, r.free}) = most
    BY <1>1, <1>2, MinOfTwo
  <2>2. most \in Nat /\ r.free - most \in Nat /\ r.active + most \in Nat
    BY <1>1, <1>2
  <2>3. After(m, r) = [r EXCEPT !.bonded = TRUE, !.active = r.active + most,
                                !.free = r.free - most]
    BY <1>5, <2>1 DEF After
  <2> HIDE DEF most
  <2>4. After(m, r) \in Stakes
    BY <1>1, <2>2, <2>3 DEF Stakes
  <2> QED BY <1>5, <2>3, <2>4 DEF most
<1>6. CASE m.call = "unbond"
  <2> DEFINE cut == IF m.amount <= r.active THEN m.amount ELSE r.active
             new == IF cut = 0 THEN r.unlocking
                    ELSE Append(r.unlocking, Chunk(cut, era + UnlockDelay))
  <2>1. Min({m.amount, r.active}) = cut
    BY <1>1, <1>2, MinOfTwo
  <2>2. cut \in Nat /\ r.active - cut \in Nat
    BY <1>1, <1>2
  <2>3. After(m, r) = [r EXCEPT !.active = r.active - cut, !.unlocking = new]
    BY <1>6, <2>1 DEF After
  <2> HIDE DEF cut
  <2>4. new \in Seq(Chunks)
    <3>1. Chunk(cut, era + UnlockDelay) \in Chunks
      BY <1>4, <2>2 DEF Chunk, Chunks
    <3> QED BY <1>1, <3>1
  <2> HIDE DEF new
  <2>5. After(m, r) \in Stakes
    BY <1>1, <2>2, <2>3, <2>4 DEF Stakes
  <2> QED BY <1>6, <2>3, <2>5 DEF cut, new
<1>7. CASE m.call = "rebond"
  <2> DEFINE back == IF m.amount <= Unlocking(r.unlocking) THEN m.amount
                     ELSE Unlocking(r.unlocking)
             new == Rebonded(r.unlocking, m.amount)
  <2>1. Min({m.amount, Unlocking(r.unlocking)}) = back
    BY <1>2, <1>3, MinOfTwo
  <2>2. back \in Nat /\ r.active + back \in Nat
    BY <1>1, <1>2, <1>3
  <2>3. After(m, r) = [r EXCEPT !.active = r.active + back, !.unlocking = new]
    BY <1>7, <2>1 DEF After
  <2>4. new \in Seq(Chunks)
    BY <1>1, <1>2, RebondedEffect
  <2> HIDE DEF back, new
  <2>5. After(m, r) \in Stakes
    BY <1>1, <2>2, <2>3, <2>4 DEF Stakes
  <2> QED BY <1>7, <2>3, <2>5 DEF back, new
<1>8. CASE m.call = "withdraw_unbonded"
  <2> DEFINE left == NotDue(r.unlocking, era)
             kept == r.active > 0 \/ left # <<>>
             due == Unlocking(Due(r.unlocking, era))
  <2>1. left \in Seq(Chunks) /\ due \in Nat
    BY <1>1, <1>4, DueSplit
  <2>2. After(m, r) = Withdrawn(r)
    BY <1>8 DEF After
  <2>3. Withdrawn(r) = [r EXCEPT !.free = r.free + due, !.unlocking = left, !.bonded = kept,
                                 !.noms = IF kept THEN r.noms ELSE {}]
    BY DEF Withdrawn
  <2>4. kept \in BOOLEAN /\ r.free + due \in Nat /\ (IF kept THEN r.noms ELSE {}) \in SUBSET Validators
    BY <1>1, <2>1
  <2> HIDE DEF left, kept, due
  <2>5. After(m, r) \in Stakes
    BY <1>1, <2>1, <2>2, <2>3, <2>4 DEF Stakes
  <2> QED BY <1>8, <2>2, <2>5
<1>9. CASE m.call = "chill"
  <2>1. After(m, r) = [r EXCEPT !.noms = {}]
    BY <1>9 DEF After
  <2>2. After(m, r) \in Stakes
    BY <2>1 DEF Stakes
  <2> QED BY <1>9, <2>1, <2>2
<1>10. CASE m.call = "nominate"
  <2>1. After(m, r) = [r EXCEPT !.noms = m.targets]
    BY <1>10 DEF After
  <2>2. After(m, r) \in Stakes
    BY <1>2, <2>1 DEF Stakes
  <2> QED BY <1>10, <2>1, <2>2
<1>11. CASE m.call = "transfer_back"
  <2>1. After(m, r) = [r EXCEPT !.free = r.free - m.amount]
    BY <1>11 DEF After
  <2>2. r.free - m.amount \in Nat
    BY <1>1, <1>2, <1>11 DEF Succeeds
  <2>3. After(m, r) \in Stakes
    BY <2>1, <2>2 DEF Stakes
  <2> QED BY <1>11, <2>1, <2>3
<1>12. CASE m.call = "deposit"
  <2>1. After(m, r) = [r EXCEPT !.free = r.free + m.amount]
    BY <1>12 DEF After
  <2>2. r.free + m.amount \in Nat
    BY <1>1, <1>2
  <2>3. After(m, r) \in Stakes
    BY <2>1, <2>2 DEF Stakes
  <2> QED BY <1>12, <2>1, <2>3
<1> QED BY <1>2, <1>5, <1>6, <1>7, <1>8, <1>9, <1>10, <1>11, <1>12 DEF RelayCalls

LEMMA PutFacts ==
  ASSUME NEW f, NEW q, NEW e
  PROVE  /\ DOMAIN Put(f, q, e) = DOMAIN f \cup {q} /\ Put(f, q, e)[q] = e
         /\ \A x \in DOMAIN f : x # q => Put(f, q, e)[x] = f[x]
         /\ \A S : f \in [DOMAIN f -> S] /\ e \in S => Put(f, q, e) \in [DOMAIN f \cup {q} -> S]
BY DEF Put

LEMMA WithoutFacts ==
  ASSUME NEW f, NEW q
  PROVE  /\ DOMAIN Without(f, q) = DOMAIN f \ {q}
         /\ \A x \in DOMAIN f \ {q} : Without(f, q)[x] = f[x]
         /\ \A S : f \in [DOMAIN f -> S] => Without(f, q) \in [DOMAIN f \ {q} -> S]
BY DEF Without

LEMMA SpoilType ==
  ASSUME spoiled \in [Kinds -> SUBSET Delegators], NEW c, NEW k \in Kinds, NEW d \in Delegators
  PROVE  SpoilIf(c, k, d) \in [Kinds -> SUBSET Delegators]
BY DEF SpoilIf

(* The constants.                                                          *)
LEMMA ConstantFacts ==
  /\ MaxDelegators \in Nat /\ MaxDelegators > 1 /\ UnlockDelay \in Nat /\ TIMEOUT_BLOCKS \in Nat
  /\ MaxBlock \in Nat /\ MaxEra \in Nat /\ MaxCalls \in Nat
  /\ InitialPool \in Nat /\ InitialIssuance \in Nat /\ InitialEntrance \in Nat
  /\ InitialBond \in Nat /\ InitialBond > 0
  /\ TimeUnits \subseteq Nat /\ 0 \in TimeUnits /\ 0 \in Delegators
  /\ \A a \in Amounts \cup PoolValues \cup Rewards : a \in Nat
BY SlpAssumption DEF TimeUnits, Delegators

LEMMA ClockFacts ==
  ASSUME ClockTypes
  PROVE  /\ block \in Nat /\ era \in Nat /\ era \in Int /\ era <= MaxEra
         /\ time_unit \in Nat /\ time_unit \in Int /\ time_unit <= era /\ calls \in Nat
         /\ era + UnlockDelay \in TimeUnits /\ time_unit + UnlockDelay \in TimeUnits
         /\ time_unit \in TimeUnits /\ time_unit \in 0..MaxEra
BY ConstantFacts DEF ClockTypes, TimeUnits

(* The time a request's entry carries.                                     *)
LEMMA UnlockTimeType ==
  ASSUME ClockTypes, NEW op
  PROVE  /\ unlock_time(op) \in TimeUnits /\ unlock_time(op) \in Nat
         /\ unlock_time(op) <= time_unit + UnlockDelay
         /\ op = "Unlock" => unlock_time(op) = time_unit + UnlockDelay
BY ClockFacts, ConstantFacts DEF unlock_time, get_unlocking_time_unit_from_current

LEMMA CallType ==
  ASSUME ClockTypes, Called, UNCHANGED clocks
  PROVE  ClockTypes'
BY ConstantFacts DEF ClockTypes, Called, clocks

LEMMA SendType ==
  ASSUME TypeOK, NEW call \in RelayCalls, NEW d \in Delegators, NEW amount \in Nat,
         send(call, d, amount), entrance' \in Nat
  PROVE  TypeOK'
<1> DEFINE m == Message(0, call, d, amount, {}, 0)
<1>1. m \in Messages
  BY ConstantFacts DEF Message, Messages
<1>2. channel' = Append(channel, m) /\ Called /\ UNCHANGED clocks
  BY DEF send
<1>3. ClockTypes'
  BY <1>2, CallType DEF TypeOK
<1> HIDE DEF m
<1>4. channel' \in Seq(Messages)
  BY <1>1, <1>2 DEF TypeOK, QueryTypes
<1>5. QueryTypes'
  BY <1>4 DEF TypeOK, QueryTypes, send, queries
<1>6. AccountTypes' /\ LedgerTypes'
  BY DEF TypeOK, AccountTypes, LedgerTypes, send, accounts, tunes
<1> QED BY <1>3, <1>5, <1>6 DEF TypeOK

(* Everything a message with a query leaves alone or changes itself.       *)
LEMMA SendQueryType ==
  ASSUME TypeOK, NEW call \in RelayCalls, NEW d \in Delegators, NEW amount \in Nat,
         NEW targets \in SUBSET Validators, NEW t \in TimeUnits,
         send_with_query(call, d, amount, targets, t)
  PROVE  /\ ClockTypes' /\ AccountTypes' /\ channel' \in Seq(Messages)
         /\ Message(nextQuery, call, d, amount, targets, t) \in Messages
         /\ nextQuery' = nextQuery + 1 /\ nextQuery \in Nat \ {0} /\ nextQuery' \in Nat \ {0}
         /\ nextQuery \notin DOMAIN LedgerQueue \cup DOMAIN ValidatorsQueue
         /\ nextQuery \in 1..(nextQuery' - 1)
         /\ 1..(nextQuery - 1) \subseteq 1..(nextQuery' - 1)
<1> DEFINE m == Message(nextQuery, call, d, amount, targets, t)
<1>1. m \in Messages
  BY DEF Message, Messages, TypeOK, QueryTypes
<1>2. channel' = Append(channel, m) /\ Called /\ UNCHANGED clocks
  BY DEF send_with_query
<1>3. ClockTypes'
  BY <1>2, CallType DEF TypeOK
<1> HIDE DEF m
<1>4. channel' \in Seq(Messages)
  BY <1>1, <1>2 DEF TypeOK, QueryTypes
<1>5. AccountTypes'
  BY DEF TypeOK, AccountTypes, send_with_query, accounts, tunes
<1>6. nextQuery' = nextQuery + 1 /\ nextQuery \in Nat \ {0}
  BY DEF send_with_query, TypeOK, QueryTypes
<1>7. nextQuery \notin DOMAIN LedgerQueue \cup DOMAIN ValidatorsQueue
  BY <1>6 DEF TypeOK, QueryTypes
<1> QED BY <1>1, <1>3, <1>4, <1>5, <1>6, <1>7 DEF m

LEMMA RequestType ==
  ASSUME TypeOK, NEW call \in RelayCalls, NEW op \in Operations, NEW d \in Delegators,
         NEW amount \in Nat, request(call, op, d, amount),
         DelegatorLedgers' \in [Delegators -> Ledgers \cup {NoLedger}]
  PROVE  TypeOK'
<1> DEFINE e == [who |-> d, op |-> op, amount |-> amount, time |-> unlock_time(op),
                 timeout |-> block + TIMEOUT_BLOCKS]
           none == {}
<1>1. unlock_time(op) \in TimeUnits
  BY UnlockTimeType DEF TypeOK
<1>2. send_with_query(call, d, amount, none, unlock_time(op)) /\ none \in SUBSET Validators
  BY DEF request
<1>3. LedgerQueue' = Put(LedgerQueue, nextQuery, e)
  BY DEF request
<1>4. e \in Entries
  <2>1. block + TIMEOUT_BLOCKS \in Nat
    BY ConstantFacts, ClockFacts DEF TypeOK
  <2> QED BY <1>1, <2>1 DEF Entries
<1> HIDE DEF e, none
<1>5. /\ ClockTypes' /\ AccountTypes' /\ channel' \in Seq(Messages)
      /\ nextQuery' = nextQuery + 1 /\ nextQuery' \in Nat \ {0}
      /\ nextQuery \notin DOMAIN LedgerQueue \cup DOMAIN ValidatorsQueue
      /\ nextQuery \in 1..(nextQuery' - 1)
      /\ 1..(nextQuery - 1) \subseteq 1..(nextQuery' - 1)
  BY <1>1, <1>2, SendQueryType
<1>6. LedgerQueue' \in [DOMAIN LedgerQueue \cup {nextQuery} -> Entries]
  BY <1>3, <1>4, PutFacts DEF TypeOK, QueryTypes
<1>7. UNCHANGED <<ValidatorsQueue, ValidatorsByDelegator, outcome, relay, unreported>>
  BY DEF request, send_with_query
<1>8. spoiled' \in [Kinds -> SUBSET Delegators]
  BY SpoilType DEF request, TypeOK, LedgerTypes, Kinds
<1>9. LedgerTypes'
  BY <1>7, <1>8 DEF LedgerTypes, TypeOK
<1>10. DOMAIN LedgerQueue' = DOMAIN LedgerQueue \cup {nextQuery}
  BY <1>6
<1>11. /\ DOMAIN LedgerQueue' \cup DOMAIN ValidatorsQueue' \subseteq 1..(nextQuery' - 1)
       /\ DOMAIN outcome' \subseteq DOMAIN LedgerQueue' \cup DOMAIN ValidatorsQueue'
       /\ DOMAIN LedgerQueue' \cap DOMAIN ValidatorsQueue' = {}
  BY <1>5, <1>7, <1>10 DEF TypeOK, QueryTypes
<1>12. QueryTypes'
  BY <1>5, <1>6, <1>7, <1>10, <1>11 DEF TypeOK, QueryTypes
<1> QED BY <1>5, <1>9, <1>12 DEF TypeOK

LEMMA NominateType ==
  ASSUME TypeOK, NEW d \in Delegators, NEW targets \in SUBSET Validators, nominate(d, targets)
  PROVE  TypeOK'
<1> DEFINE e == [who |-> d, validators |-> targets, timeout |-> block + TIMEOUT_BLOCKS]
<1>1. 0 \in TimeUnits /\ "nominate" \in RelayCalls /\ 0 \in Nat
  BY ConstantFacts DEF RelayCalls
<1>2. send_with_query("nominate", d, 0, targets, 0)
  BY DEF nominate
<1>3. ValidatorsQueue' = Put(ValidatorsQueue, nextQuery, e)
  BY DEF nominate
<1>4. e \in Nominations
  <2>1. block + TIMEOUT_BLOCKS \in Nat
    BY ConstantFacts, ClockFacts DEF TypeOK
  <2> QED BY <2>1 DEF Nominations
<1> HIDE DEF e
<1>5. /\ ClockTypes' /\ AccountTypes' /\ channel' \in Seq(Messages)
      /\ nextQuery' = nextQuery + 1 /\ nextQuery' \in Nat \ {0}
      /\ nextQuery \notin DOMAIN LedgerQueue \cup DOMAIN ValidatorsQueue
      /\ nextQuery \in 1..(nextQuery' - 1)
      /\ 1..(nextQuery - 1) \subseteq 1..(nextQuery' - 1)
  BY <1>1, <1>2, SendQueryType
<1>6. ValidatorsQueue' \in [DOMAIN ValidatorsQueue \cup {nextQuery} -> Nominations]
  BY <1>3, <1>4, PutFacts DEF TypeOK, QueryTypes
<1>7. UNCHANGED <<LedgerQueue, DelegatorLedgers, ValidatorsByDelegator, outcome, relay, unreported>>
  BY DEF nominate, send_with_query
<1>8. spoiled' \in [Kinds -> SUBSET Delegators]
  BY SpoilType DEF nominate, TypeOK, LedgerTypes, Kinds
<1>9. LedgerTypes'
  BY <1>7, <1>8 DEF LedgerTypes, TypeOK
<1>10. DOMAIN ValidatorsQueue' = DOMAIN ValidatorsQueue \cup {nextQuery}
  BY <1>6
<1>11. /\ DOMAIN LedgerQueue' \cup DOMAIN ValidatorsQueue' \subseteq 1..(nextQuery' - 1)
       /\ DOMAIN outcome' \subseteq DOMAIN LedgerQueue' \cup DOMAIN ValidatorsQueue'
       /\ DOMAIN LedgerQueue' \cap DOMAIN ValidatorsQueue' = {}
  BY <1>5, <1>7, <1>10 DEF TypeOK, QueryTypes
<1>12. QueryTypes'
  BY <1>5, <1>6, <1>7, <1>10, <1>11 DEF TypeOK, QueryTypes
<1> QED BY <1>5, <1>9, <1>12 DEF TypeOK

LEMMA DelegatorFacts ==
  ASSUME LedgerTypes, NEW d \in Delegators
  PROVE  /\ DelegatorLedgers[d] \in Ledgers \cup {NoLedger} /\ relay[d] \in Stakes
         /\ Bonded(d) <=> DelegatorLedgers[d] \in Ledgers
         /\ DelegatorLedgers[d].active \in Nat /\ DelegatorLedgers[d].total \in Nat
         /\ DelegatorLedgers[d].unlocking \in Seq(Chunks)
         /\ unreported[d] \in Nat /\ ValidatorsByDelegator[d] \in SUBSET Validators
<1>1. DelegatorLedgers[d] \in Ledgers \cup {NoLedger} /\ relay[d] \in Stakes
      /\ unreported[d] \in Nat /\ ValidatorsByDelegator[d] \in SUBSET Validators
  BY DEF LedgerTypes
<1>2. Bonded(d) <=> DelegatorLedgers[d] \in Ledgers
  BY <1>1, NoLedgerFacts DEF Bonded
<1>3. CASE DelegatorLedgers[d] \in Ledgers
  BY <1>1, <1>2, <1>3, LedgerFacts
<1>4. CASE DelegatorLedgers[d] = NoLedger
  <2>1. <<>> \in Seq(Chunks)
    OBVIOUS
  <2> QED BY <1>1, <1>2, <1>4, <2>1, NoLedgerFacts
<1> QED BY <1>1, <1>3, <1>4

(* The staking calls of the operator.                                      *)
LEMMA StakingCallsType ==
  ASSUME TypeOK, NEW d \in Delegators
  PROVE  /\ \A amount \in Amounts :
              /\ bond(d, amount) \/ bond_extra(d, amount) \/ unbond(d, amount)
                   \/ rebond(d, amount) => TypeOK'
              /\ transfer_back(d, amount) \/ transfer_to(d, amount) => TypeOK'
         /\ unbond_all(d) \/ liquidize(d) \/ chill(d) \/ payout(d) => TypeOK'
         /\ \A targets \in SUBSET Validators :
              delegate(d, targets) \/ undelegate(d, targets) => TypeOK'
<1>0. /\ DelegatorLedgers \in [Delegators -> Ledgers \cup {NoLedger}] /\ entrance \in Nat
      /\ Operations = {"Bond", "Unlock", "Rebond", "Liquidize"}
      /\ DelegatorLedgers[d].active \in Nat /\ 0 \in Nat
  BY DelegatorFacts DEF TypeOK, LedgerTypes, AccountTypes, Operations
<1>1. ASSUME NEW amount \in Amounts
      PROVE  /\ bond(d, amount) \/ bond_extra(d, amount) \/ unbond(d, amount) \/ rebond(d, amount)
                => TypeOK'
             /\ transfer_back(d, amount) \/ transfer_to(d, amount) => TypeOK'
  <2>0. amount \in Nat
    BY ConstantFacts
  <2>1. ASSUME bond(d, amount) PROVE TypeOK'
    <3>1. [total |-> 0, active |-> 0, unlocking |-> <<>>] \in Ledgers
      BY DEF Ledgers
    <3>2. DelegatorLedgers' \in [Delegators -> Ledgers \cup {NoLedger}]
      BY <1>0, <2>1, <3>1 DEF bond
    <3>3. request("bond", "Bond", d, amount) /\ "bond" \in RelayCalls /\ "Bond" \in Operations
      BY <2>1 DEF bond, RelayCalls, Operations
    <3> QED BY <2>0, <3>2, <3>3, RequestType
  <2>2. ASSUME bond_extra(d, amount) PROVE TypeOK'
    <3>1. request("bond_extra", "Bond", d, amount) /\ DelegatorLedgers' = DelegatorLedgers
      BY <2>2 DEF bond_extra
    <3>2. "bond_extra" \in RelayCalls /\ "Bond" \in Operations
      BY DEF RelayCalls, Operations
    <3> QED BY <1>0, <2>0, <3>1, <3>2, RequestType
  <2>3. ASSUME unbond(d, amount) PROVE TypeOK'
    <3>1. request("unbond", "Unlock", d, amount) /\ DelegatorLedgers' = DelegatorLedgers
      BY <2>3 DEF unbond
    <3>2. "unbond" \in RelayCalls /\ "Unlock" \in Operations
      BY DEF RelayCalls, Operations
    <3> QED BY <1>0, <2>0, <3>1, <3>2, RequestType
  <2>4. ASSUME rebond(d, amount) PROVE TypeOK'
    <3>1. request("rebond", "Rebond", d, amount) /\ DelegatorLedgers' = DelegatorLedgers
      BY <2>4 DEF rebond
    <3>2. "rebond" \in RelayCalls /\ "Rebond" \in Operations
      BY DEF RelayCalls, Operations
    <3> QED BY <1>0, <2>0, <3>1, <3>2, RequestType
  <2>5. ASSUME transfer_back(d, amount) PROVE TypeOK'
    <3>1. send("transfer_back", d, amount) /\ entrance' = entrance /\ "transfer_back" \in RelayCalls
      BY <2>5 DEF transfer_back, RelayCalls
    <3> QED BY <1>0, <2>0, <3>1, SendType
  <2>6. ASSUME transfer_to(d, amount) PROVE TypeOK'
    <3>1. send("deposit", d, amount) /\ entrance' = entrance - amount /\ amount <= entrance
          /\ "deposit" \in RelayCalls
      BY <2>6 DEF transfer_to, RelayCalls
    <3>2. entrance' \in Nat
      BY <1>0, <2>0, <3>1
    <3> QED BY <2>0, <3>1, <3>2, SendType
  <2> QED BY <2>1, <2>2, <2>3, <2>4, <2>5, <2>6
<1>2. ASSUME unbond_all(d) PROVE TypeOK'
  <2>1. /\ request("unbond", "Unlock", d, DelegatorLedgers[d].active)
        /\ DelegatorLedgers' = DelegatorLedgers
    BY <1>2 DEF unbond_all
  <2>2. "unbond" \in RelayCalls /\ "Unlock" \in Operations
    BY DEF RelayCalls, Operations
  <2> QED BY <1>0, <2>1, <2>2, RequestType
<1>3. ASSUME liquidize(d) PROVE TypeOK'
  <2>1. request("withdraw_unbonded", "Liquidize", d, 0) /\ DelegatorLedgers' = DelegatorLedgers
    BY <1>3 DEF liquidize
  <2>2. "withdraw_unbonded" \in RelayCalls /\ "Liquidize" \in Operations
    BY DEF RelayCalls, Operations
  <2> QED BY <1>0, <2>1, <2>2, RequestType
<1>4. ASSUME chill(d) PROVE TypeOK'
  <2>1. /\ request("chill", "Unlock", d, DelegatorLedgers[d].active)
        /\ DelegatorLedgers' = DelegatorLedgers
    BY <1>4 DEF chill
  <2>2. "chill" \in RelayCalls /\ "Unlock" \in Operations
    BY DEF RelayCalls, Operations
  <2> QED BY <1>0, <2>1, <2>2, RequestType
<1>5. ASSUME payout(d) PROVE TypeOK'
  <2>1. send("payout_stakers", d, 0) /\ entrance' = entrance /\ "payout_stakers" \in RelayCalls
    BY <1>5 DEF payout, RelayCalls
  <2> QED BY <1>0, <2>1, SendType
<1>6. ASSUME NEW targets \in SUBSET Validators, delegate(d, targets) \/ undelegate(d, targets)
      PROVE  TypeOK'
  <2>1. \E new \in SUBSET Validators : nominate(d, new)
    <3>1. ValidatorsByDelegator[d] \ targets \in SUBSET Validators
      BY DelegatorFacts DEF TypeOK
    <3> QED BY <1>6, <3>1 DEF delegate, undelegate
  <2> QED BY <2>1, NominateType
<1> QED BY <1>1, <1>2, <1>3, <1>4, <1>5, <1>6

(* Answers.                                                                *)
LEMMA ConfirmLedgerType ==
  ASSUME TypeOK, NEW q \in DOMAIN LedgerQueue, NEW success \in BOOLEAN,
         confirm_delegator_ledger(q, success)
  PROVE  TypeOK'
<1> DEFINE e == LedgerQueue[q]
           applied == success /\ block <= e.timeout
           l == DelegatorLedgers[e.who]
<1>1. e \in Entries /\ e.who \in Delegators
  BY EntryFacts DEF TypeOK, QueryTypes
<1>2. DelegatorLedgers' \in [Delegators -> Ledgers \cup {NoLedger}]
  <2>1. CASE applied
    <3>1. CanApply(l, e) /\ DelegatorLedgers' = [DelegatorLedgers EXCEPT ![e.who] = Applied(l, e)]
      BY <2>1 DEF confirm_delegator_ledger
    <3>2. l \in Ledgers
      BY <1>1, <3>1, DelegatorFacts DEF TypeOK, CanApply
    <3>3. Applied(l, e) \in Ledgers
      BY <1>1, <3>1, <3>2, AppliedEffect
    <3> QED BY <3>1, <3>3 DEF TypeOK, LedgerTypes
  <2>2. CASE ~applied
    BY <2>2 DEF confirm_delegator_ledger, TypeOK, LedgerTypes
  <2> QED BY <2>1, <2>2
<1>3. /\ LedgerQueue' = Without(LedgerQueue, q) /\ outcome' = Without(outcome, q)
      /\ spoiled' = SpoilIf(q \notin DOMAIN outcome \/ (applied # (outcome[q] = "ok")),
                            "stake", e.who)
      /\ UNCHANGED <<clocks, accounts, ValidatorsQueue, nextQuery, ValidatorsByDelegator,
                     entrance, channel, relay, calls, unreported>>
  BY DEF confirm_delegator_ledger
<1> HIDE DEF e, applied, l
<1>4. spoiled' \in [Kinds -> SUBSET Delegators]
  BY <1>1, <1>3, SpoilType DEF TypeOK, LedgerTypes, Kinds
<1>5. ClockTypes' /\ AccountTypes'
  BY <1>3 DEF clocks, accounts, tunes, TypeOK, ClockTypes, AccountTypes
<1>6. LedgerTypes'
  BY <1>2, <1>3, <1>4 DEF TypeOK, LedgerTypes
<1>7. /\ LedgerQueue' \in [DOMAIN LedgerQueue \ {q} -> Entries]
      /\ outcome' \in [DOMAIN outcome \ {q} -> {"ok", "failed"}]
  BY <1>3, WithoutFacts DEF TypeOK, QueryTypes
<1>8. q \notin DOMAIN ValidatorsQueue
  BY DEF TypeOK, QueryTypes
<1>9. QueryTypes'
  <2>1. DOMAIN LedgerQueue' = DOMAIN LedgerQueue \ {q} /\ DOMAIN outcome' = DOMAIN outcome \ {q}
    BY <1>7
  <2>2. /\ DOMAIN LedgerQueue' \cup DOMAIN ValidatorsQueue' \subseteq 1..(nextQuery' - 1)
        /\ DOMAIN outcome' \subseteq DOMAIN LedgerQueue' \cup DOMAIN ValidatorsQueue'
        /\ DOMAIN LedgerQueue' \cap DOMAIN ValidatorsQueue' = {}
    BY <1>3, <1>8, <2>1 DEF TypeOK, QueryTypes
  <2> QED BY <1>3, <1>7, <2>1, <2>2 DEF TypeOK, QueryTypes
<1> QED BY <1>5, <1>6, <1>9 DEF TypeOK

LEMMA ConfirmValidatorsType ==
  ASSUME TypeOK, NEW q \in DOMAIN ValidatorsQueue, NEW success \in BOOLEAN,
         confirm_validators_by_delegator(q, success)
  PROVE  TypeOK'
<1> DEFINE e == ValidatorsQueue[q]
           applied == success /\ block <= e.timeout
<1>1. e \in Nominations /\ e.who \in Delegators /\ e.validators \in SUBSET Validators
  BY DEF TypeOK, QueryTypes, Nominations
<1>2. ValidatorsByDelegator' \in [Delegators -> SUBSET Validators]
  BY <1>1 DEF confirm_validators_by_delegator, validators_after, TypeOK, LedgerTypes
<1>3. /\ ValidatorsQueue' = Without(ValidatorsQueue, q) /\ outcome' = Without(outcome, q)
      /\ spoiled' = SpoilIf(q \notin DOMAIN outcome \/ (applied # (outcome[q] = "ok")),
                            "noms", e.who)
      /\ UNCHANGED <<clocks, accounts, LedgerQueue, nextQuery, DelegatorLedgers,
                     entrance, channel, relay, calls, unreported>>
  BY DEF confirm_validators_by_delegator
<1> HIDE DEF e, applied
<1>4. spoiled' \in [Kinds -> SUBSET Delegators]
  BY <1>1, <1>3, SpoilType DEF TypeOK, LedgerTypes, Kinds
<1>5. ClockTypes' /\ AccountTypes'
  BY <1>3 DEF clocks, accounts, tunes, TypeOK, ClockTypes, AccountTypes
<1>6. LedgerTypes'
  BY <1>2, <1>3, <1>4 DEF TypeOK, LedgerTypes
<1>7. /\ ValidatorsQueue' \in [DOMAIN ValidatorsQueue \ {q} -> Nominations]
      /\ outcome' \in [DOMAIN outcome \ {q} -> {"ok", "failed"}]
  BY <1>3, WithoutFacts DEF TypeOK, QueryTypes
<1>8. q \notin DOMAIN LedgerQueue
  BY DEF TypeOK, QueryTypes
<1>9. QueryTypes'
  <2>1. /\ DOMAIN ValidatorsQueue' = DOMAIN ValidatorsQueue \ {q}
        /\ DOMAIN outcome' = DOMAIN outcome \ {q}
    BY <1>7
  <2>2. /\ DOMAIN LedgerQueue' \cup DOMAIN ValidatorsQueue' \subseteq 1..(nextQuery' - 1)
        /\ DOMAIN outcome' \subseteq DOMAIN LedgerQueue' \cup DOMAIN ValidatorsQueue'
        /\ DOMAIN LedgerQueue' \cap DOMAIN ValidatorsQueue' = {}
    BY <1>3, <1>8, <2>1 DEF TypeOK, QueryTypes
  <2> QED BY <1>3, <1>7, <2>1, <2>2 DEF TypeOK, QueryTypes
<1> QED BY <1>5, <1>6, <1>9 DEF TypeOK

(* Delegators, and the operator's corrections.                             *)
LEMMA AddDelegatorType ==
  ASSUME TypeOK, NEW d \in Delegators, NEW next \in Nat, inner_add_delegator(d, next)
  PROVE  TypeOK'
<1>1. ClockTypes'
  BY CallType DEF inner_add_delegator, TypeOK
<1>2. AccountTypes'
  BY ConstantFacts DEF inner_add_delegator, TypeOK, AccountTypes, tunes
<1>3. LedgerTypes' /\ QueryTypes'
  BY DEF inner_add_delegator, TypeOK, LedgerTypes, QueryTypes, queries
<1> QED BY <1>1, <1>2, <1>3 DEF TypeOK

LEMMA RemoveDelegatorType ==
  ASSUME TypeOK, NEW d \in Delegators, remove_delegator(d)
  PROVE  TypeOK'
<1>1. ClockTypes'
  BY CallType DEF remove_delegator, TypeOK
<1>2. AccountTypes'
  BY DEF remove_delegator, TypeOK, AccountTypes, tunes
<1>3. spoiled' \in [Kinds -> SUBSET Delegators]
  BY SpoilType DEF remove_delegator, TypeOK, LedgerTypes, Kinds
<1>4. LedgerTypes'
  BY <1>3 DEF remove_delegator, TypeOK, LedgerTypes
<1>5. QueryTypes'
  BY DEF remove_delegator, TypeOK, QueryTypes, queries
<1> QED BY <1>1, <1>2, <1>4, <1>5 DEF TypeOK

LEMMA SetLedgerType ==
  ASSUME TypeOK, NEW d \in Delegators, NEW copy \in BOOLEAN, set_delegator_ledger(d, copy)
  PROVE  TypeOK'
<1> DEFINE new == [total |-> relay[d].active + Unlocking(relay[d].unlocking),
                   active |-> relay[d].active, unlocking |-> relay[d].unlocking]
<1>1. new \in Ledgers
  <2>1. relay[d].active \in Nat /\ relay[d].unlocking \in Seq(Chunks)
    BY DelegatorFacts, StakeFacts DEF TypeOK
  <2>2. Unlocking(relay[d].unlocking) \in Nat
    BY <2>1, UnlockingType
  <2>3. relay[d].active + Unlocking(relay[d].unlocking) \in Nat
    BY <2>1, <2>2
  <2> QED BY <2>1, <2>3 DEF Ledgers
<1>2. DelegatorLedgers' = [DelegatorLedgers EXCEPT ![d] = IF copy THEN new ELSE NoLedger]
  BY DEF set_delegator_ledger
<1> HIDE DEF new
<1>3. DelegatorLedgers' \in [Delegators -> Ledgers \cup {NoLedger}]
  BY <1>1, <1>2 DEF TypeOK, LedgerTypes
<1>4. unreported' \in [Delegators -> Nat]
  BY DEF set_delegator_ledger, TypeOK, LedgerTypes
<1>5. spoiled' \in [Kinds -> SUBSET Delegators]
  <2>1. spoiled \in [Kinds -> SUBSET Delegators] /\ "stake" \in Kinds /\ "chill" \in Kinds
    BY DEF TypeOK, LedgerTypes, Kinds
  <2>2. [spoiled EXCEPT !["stake"] = @ \ {d}, !["chill"] = @ \ {d}] \in [Kinds -> SUBSET Delegators]
    BY <2>1
  <2>3. SpoilIf(TRUE, "stake", d) \in [Kinds -> SUBSET Delegators]
    BY <2>1, SpoilType
  <2> QED BY <2>2, <2>3 DEF set_delegator_ledger
<1>6. LedgerTypes'
  BY <1>3, <1>4, <1>5 DEF set_delegator_ledger, TypeOK, LedgerTypes
<1>7. ClockTypes'
  BY CallType DEF set_delegator_ledger, TypeOK
<1>8. AccountTypes' /\ QueryTypes'
  BY DEF set_delegator_ledger, TypeOK, AccountTypes, QueryTypes, accounts, tunes, queries
<1> QED BY <1>6, <1>7, <1>8 DEF TypeOK

LEMMA SetValidatorsType ==
  ASSUME TypeOK, NEW d \in Delegators, NEW targets \in SUBSET Validators,
         set_validators_by_delegator(d, targets)
  PROVE  TypeOK'
<1>1. ClockTypes'
  BY CallType DEF set_validators_by_delegator, TypeOK
<1>2. AccountTypes' /\ QueryTypes'
  BY DEF set_validators_by_delegator, TypeOK, AccountTypes, QueryTypes, accounts, tunes, queries
<1>3. spoiled' \in [Kinds -> SUBSET Delegators]
  <2>1. spoiled \in [Kinds -> SUBSET Delegators] /\ "noms" \in Kinds
    BY DEF TypeOK, LedgerTypes, Kinds
  <2>2. [spoiled EXCEPT !["noms"] = @ \ {d}] \in [Kinds -> SUBSET Delegators]
    BY <2>1
  <2>3. SpoilIf(TRUE, "noms", d) \in [Kinds -> SUBSET Delegators]
    BY <2>1, SpoilType
  <2> QED BY <2>2, <2>3 DEF set_validators_by_delegator
<1>4. LedgerTypes'
  BY <1>3 DEF set_validators_by_delegator, TypeOK, LedgerTypes
<1> QED BY <1>1, <1>2, <1>4 DEF TypeOK

(* The hosting fee is a natural, and worth at most the reward.             *)
LEMMA HostingFeeFacts ==
  ASSUME AccountTypes, NEW v \in Nat
  PROVE  LET charge == hosting_fee(mul_floor(HostingFee, v))
         IN charge \in Nat /\ charge * pool.token <= v * pool.issuance
<1> DEFINE fee == mul_floor(HostingFee, v)
           t == pool.token
           i == pool.issuance
<1>1. t \in Nat /\ i \in Nat /\ HostingFee \in Nat /\ Permill \in Nat \ {0} /\ HostingFee <= Permill
  BY SlpAssumption DEF AccountTypes
<1>2. fee \in Nat /\ fee <= v
  BY <1>1, ShareBound DEF mul_floor
<1>3. hosting_fee(fee) = IF t = 0 THEN 0 ELSE (fee * i) \div t
  BY DEF hosting_fee
<1> HIDE DEF fee, t, i
<1>4. fee * i \in Nat /\ v * i \in Nat /\ fee * i <= v * i
  BY <1>1, <1>2, MulMonotone
<1>5. CASE t = 0
  BY <1>3, <1>4, <1>5 DEF fee, t, i
<1>6. CASE t # 0
  <2> DEFINE c == (fee * i) \div t
  <2>1. c \in Nat /\ c * t <= fee * i
    BY <1>1, <1>4, <1>6, DivBound
  <2>2. hosting_fee(fee) = c
    BY <1>3, <1>6
  <2> HIDE DEF c
  <2>3. c * t \in Nat
    BY <1>1, <2>1
  <2>4. c * t <= v * i
    BY <1>4, <2>1, <2>3
  <2> QED BY <2>1, <2>2, <2>4 DEF fee, t, i
<1> QED BY <1>5, <1>6

LEMMA TuneType ==
  ASSUME TypeOK, NEW d \in Delegators, NEW v \in PoolValues, NEW w \in Rewards \ {0},
         tune_vtoken_exchange_rate(d, v, w)
  PROVE  /\ TypeOK'
         /\ pool' = [token |-> pool.token + v,
                     issuance |-> pool.issuance + hosting_fee(mul_floor(HostingFee, v))]
         /\ DelegatorLedgers[d] \in Ledgers
         /\ DelegatorLedgers' = [DelegatorLedgers EXCEPT
              ![d] = [DelegatorLedgers[d] EXCEPT !.active = DelegatorLedgers[d].active + w,
                                                 !.total = DelegatorLedgers[d].total + w]]
         /\ unreported' = [unreported EXCEPT
              ![d] = IF w <= unreported[d] THEN unreported[d] - w ELSE 0]
<1> DEFINE l == DelegatorLedgers[d]
           new == [l EXCEPT !.active = l.active + w, !.total = l.total + w]
           charge == hosting_fee(mul_floor(HostingFee, v))
<1>0. v \in Nat /\ w \in Nat
  BY ConstantFacts
<1>1. Bonded(d) /\ l \in Ledgers /\ l.active \in Nat /\ l.total \in Nat
  BY DelegatorFacts DEF tune_vtoken_exchange_rate, TypeOK
<1>2. DelegatorLedgers' = [DelegatorLedgers EXCEPT ![d] = new]
  BY <1>1 DEF tune_vtoken_exchange_rate, TypeOK, LedgerTypes
<1>3. new \in Ledgers
  <2>1. l.active + w \in Nat /\ l.total + w \in Nat
    BY <1>0, <1>1
  <2> QED BY <1>1, <2>1 DEF Ledgers
<1>4. charge \in Nat /\ pool.token \in Nat /\ pool.issuance \in Nat
      /\ pool = [token |-> pool.token, issuance |-> pool.issuance]
  BY <1>0, HostingFeeFacts DEF TypeOK, AccountTypes
<1>5. pool' = [token |-> pool.token + v, issuance |-> pool.issuance + charge]
  <2>1. pool' = increase_token_pool([pool EXCEPT !.issuance = @ + charge], v)
    BY DEF tune_vtoken_exchange_rate
  <2> HIDE DEF charge
  <2> QED BY <1>4, <2>1 DEF increase_token_pool
<1>6. unreported' = [unreported EXCEPT ![d] = IF w <= unreported[d] THEN unreported[d] - w ELSE 0]
  <2>1. unreported' = [unreported EXCEPT ![d] = Max({unreported[d] - w, 0})]
    BY DEF tune_vtoken_exchange_rate, TypeOK, LedgerTypes
  <2>2. unreported[d] - w \in Int /\ 0 \in Int /\ unreported[d] \in Nat
    BY <1>0, DelegatorFacts DEF TypeOK
  <2>3. Max({unreported[d] - w, 0}) = IF unreported[d] - w >= 0 THEN unreported[d] - w ELSE 0
    BY <2>2, MaxOfTwo
  <2>4. Max({unreported[d] - w, 0}) = IF w <= unreported[d] THEN unreported[d] - w ELSE 0
    BY <1>0, <2>2, <2>3
  <2> QED BY <2>1, <2>4
<1>7. pool' \in [token : Nat, issuance : Nat]
  <2> HIDE DEF charge
  <2>1. pool.token + v \in Nat /\ pool.issuance + charge \in Nat
    BY <1>0, <1>4
  <2> QED BY <1>5, <2>1
<1>8. TuneRecord' \in [time : 0..MaxEra, count : Nat]
  <2>1. TuneRecord \in [time : 0..MaxEra, count : Nat] /\ time_unit \in 0..MaxEra
    BY ClockFacts DEF TypeOK, AccountTypes
  <2> DEFINE tuned == IF TuneRecord.time = time_unit THEN TuneRecord.count ELSE 0
  <2>2. tuned \in Nat
    BY <2>1
  <2>3. TuneRecord' = [time |-> time_unit, count |-> tuned + 1]
    BY DEF tune_vtoken_exchange_rate
  <2> HIDE DEF tuned
  <2> QED BY <2>1, <2>2, <2>3
<1>9. DelegatorLatestTuneRecord' \in [Delegators -> -1..MaxEra]
  <2>1. time_unit \in -1..MaxEra
    BY ClockFacts, ConstantFacts DEF TypeOK
  <2> QED BY <2>1 DEF tune_vtoken_exchange_rate, TypeOK, AccountTypes
<1> HIDE DEF l, new, charge
<1>10. AccountTypes'
  BY <1>7, <1>8, <1>9 DEF tune_vtoken_exchange_rate, TypeOK, AccountTypes
<1>11. unreported' \in [Delegators -> Nat]
  <2>1. (IF w <= unreported[d] THEN unreported[d] - w ELSE 0) \in Nat
    BY <1>0, DelegatorFacts DEF TypeOK
  <2> QED BY <1>6, <2>1 DEF TypeOK, LedgerTypes
<1>12. spoiled' \in [Kinds -> SUBSET Delegators]
  BY SpoilType DEF tune_vtoken_exchange_rate, TypeOK, LedgerTypes, Kinds
<1>13. LedgerTypes'
  <2>1. DelegatorLedgers' \in [Delegators -> Ledgers \cup {NoLedger}]
    BY <1>2, <1>3 DEF TypeOK, LedgerTypes
  <2>2. UNCHANGED <<ValidatorsByDelegator, relay>>
    BY DEF tune_vtoken_exchange_rate
  <2> QED BY <1>11, <1>12, <2>1, <2>2 DEF TypeOK, LedgerTypes
<1>14. ClockTypes'
  BY CallType DEF tune_vtoken_exchange_rate, TypeOK
<1>15. QueryTypes'
  BY DEF tune_vtoken_exchange_rate, TypeOK, QueryTypes, queries
<1>16. TypeOK'
  BY <1>10, <1>13, <1>14, <1>15 DEF TypeOK
<1> QED BY <1>1, <1>2, <1>5, <1>6, <1>16 DEF l, new, charge

(* The other chain runs a message.                                         *)
LEMMA RelayRunsType ==
  ASSUME TypeOK, relay_runs
  PROVE  /\ TypeOK'
         /\ channel # <<>> /\ Head(channel) \in Messages /\ Head(channel).who \in Delegators
<1> DEFINE m == Head(channel)
           r == relay[m.who]
           queued == DOMAIN LedgerQueue \cup DOMAIN ValidatorsQueue
<1>1. channel # <<>> /\ m.call # "payout_stakers" /\ channel \in Seq(Messages)
  BY DEF relay_runs, TypeOK, QueryTypes
<1>2. m \in Messages /\ m.who \in Delegators /\ m.amount \in Nat /\ m.query \in Nat
      /\ Tail(channel) \in Seq(Messages)
  <2>1. m \in Messages /\ Tail(channel) \in Seq(Messages)
    BY <1>1
  <2> QED BY <2>1, MessageFacts
<1>3. r \in Stakes
  BY <1>2, DelegatorFacts DEF TypeOK
<1>4. /\ channel' = Tail(channel)
      /\ relay' = IF Succeeds(m, r) THEN [relay EXCEPT ![m.who] = After(m, r)] ELSE relay
      /\ entrance' = IF m.call = "transfer_back" /\ Succeeds(m, r) THEN entrance + m.amount
                     ELSE entrance
      /\ outcome' = IF m.query \in queued
                    THEN Put(outcome, m.query, IF Succeeds(m, r) THEN "ok" ELSE "failed")
                    ELSE outcome
      /\ spoiled' = [spoiled EXCEPT
           !["stake"] = IF Succeeds(m, r) /\ Differs(m, r) THEN @ \cup {m.who} ELSE @,
           !["noms"] = IF Succeeds(m, r) /\ LosesNominations(m, r) THEN @ \cup {m.who} ELSE @,
           !["chill"] = IF m.call = "chill" /\ Succeeds(m, r) /\ m.amount > 0
                        THEN @ \cup {m.who} ELSE @]
  BY DEF relay_runs
<1>5. UNCHANGED <<block, time_unit, era, DelegatorNextIndex, known, TuneRecord,
                  DelegatorLatestTuneRecord, pool, LedgerQueue, ValidatorsQueue, nextQuery,
                  DelegatorLedgers, ValidatorsByDelegator, calls, unreported>>
  BY DEF relay_runs, clocks, accounts, tunes
<1> HIDE DEF m, r
<1>6. relay' \in [Delegators -> Stakes]
  <2>1. CASE Succeeds(m, r)
    <3>1. era \in 0..MaxEra
      BY DEF TypeOK, ClockTypes
    <3>2. After(m, r) \in Stakes
      BY <1>1, <1>2, <1>3, <2>1, <3>1, AfterEffect
    <3> QED BY <1>4, <2>1, <3>2 DEF TypeOK, LedgerTypes
  <2>2. CASE ~Succeeds(m, r)
    BY <1>4, <2>2 DEF TypeOK, LedgerTypes
  <2> QED BY <2>1, <2>2
<1>7. spoiled' \in [Kinds -> SUBSET Delegators]
  <2>1. spoiled \in [Kinds -> SUBSET Delegators]
    BY DEF TypeOK, LedgerTypes
  <2> QED BY <1>2, <1>4, <2>1 DEF Kinds
<1>8. LedgerTypes'
  BY <1>5, <1>6, <1>7 DEF TypeOK, LedgerTypes
<1>9. entrance' \in Nat
  BY <1>2, <1>4 DEF TypeOK, AccountTypes
<1>10. ClockTypes' /\ AccountTypes'
  BY <1>5, <1>9 DEF TypeOK, ClockTypes, AccountTypes
<1>11. outcome' \in [DOMAIN outcome' -> {"ok", "failed"}] /\ DOMAIN outcome' \subseteq queued
  <2>1. outcome \in [DOMAIN outcome -> {"ok", "failed"}] /\ DOMAIN outcome \subseteq queued
    BY DEF TypeOK, QueryTypes
  <2>2. CASE m.query \in queued
    <3> DEFINE x == IF Succeeds(m, r) THEN "ok" ELSE "failed"
    <3>1. x \in {"ok", "failed"} /\ outcome' = Put(outcome, m.query, x)
      BY <1>4, <2>2
    <3> HIDE DEF x, queued
    <3>2. outcome' \in [DOMAIN outcome \cup {m.query} -> {"ok", "failed"}]
      BY <2>1, <3>1, PutFacts
    <3> QED BY <2>1, <2>2, <3>2
  <2>3. CASE m.query \notin queued
    <3>1. outcome' = outcome
      BY <1>4, <2>3
    <3> QED BY <2>1, <3>1
  <2> QED BY <2>2, <2>3
<1>12. QueryTypes'
  BY <1>2, <1>4, <1>5, <1>11 DEF TypeOK, QueryTypes
<1> QED BY <1>1, <1>2, <1>8, <1>10, <1>12 DEF TypeOK, m

(* Rewards are paid.                                                       *)
LEMMA RelayPaysType ==
  ASSUME TypeOK, NEW v \in Rewards, relay_pays(v)
  PROVE  /\ TypeOK'
         /\ channel # <<>> /\ Head(channel) \in Messages /\ Head(channel).who \in Delegators
         /\ relay' = [relay EXCEPT ![Head(channel).who] =
              [relay[Head(channel).who] EXCEPT !.active = relay[Head(channel).who].active + v]]
         /\ unreported' = [unreported EXCEPT ![Head(channel).who] = unreported[Head(channel).who] + v]
<1> DEFINE d == Head(channel).who
           new == [relay[d] EXCEPT !.active = relay[d].active + v]
<1>0. v \in Nat
  BY ConstantFacts
<1>1. channel # <<>> /\ channel \in Seq(Messages)
  BY DEF relay_pays, TypeOK, QueryTypes
<1>2. Head(channel) \in Messages /\ d \in Delegators /\ Tail(channel) \in Seq(Messages)
  <2>1. Head(channel) \in Messages /\ Tail(channel) \in Seq(Messages)
    BY <1>1
  <2> QED BY <2>1, MessageFacts
<1>3. /\ channel' = Tail(channel)
      /\ relay' = [relay EXCEPT ![d].active = @ + v]
      /\ unreported' = [unreported EXCEPT ![d] = @ + v]
  BY DEF relay_pays
<1>4. UNCHANGED <<block, time_unit, era, DelegatorNextIndex, known, TuneRecord,
                  DelegatorLatestTuneRecord, pool, LedgerQueue, ValidatorsQueue, nextQuery,
                  outcome, DelegatorLedgers, ValidatorsByDelegator, entrance, calls, spoiled>>
  BY DEF relay_pays, clocks, accounts, tunes, queries
<1> HIDE DEF d
<1>5. relay[d] \in Stakes /\ relay[d].active \in Nat /\ unreported[d] \in Nat
  BY <1>2, DelegatorFacts, StakeFacts DEF TypeOK
<1>6. new \in Stakes
  <2>1. relay[d].active + v \in Nat
    BY <1>0, <1>5
  <2> QED BY <1>5, <2>1 DEF Stakes
<1>7. relay' = [relay EXCEPT ![d] = new]
  BY <1>2, <1>3 DEF TypeOK, LedgerTypes
<1>8. unreported' = [unreported EXCEPT ![d] = unreported[d] + v] /\ unreported[d] + v \in Nat
  BY <1>0, <1>2, <1>3, <1>5 DEF TypeOK, LedgerTypes
<1> HIDE DEF new
<1>9. LedgerTypes'
  BY <1>4, <1>6, <1>7, <1>8 DEF TypeOK, LedgerTypes
<1>10. ClockTypes' /\ AccountTypes'
  BY <1>4 DEF TypeOK, ClockTypes, AccountTypes
<1>11. QueryTypes'
  BY <1>2, <1>3, <1>4 DEF TypeOK, QueryTypes
<1> QED BY <1>1, <1>2, <1>7, <1>8, <1>9, <1>10, <1>11 DEF TypeOK, d, new

(* Time passes.                                                            *)
LEMMA TimeType ==
  ASSUME TypeOK, tick \/ new_era \/ \E t \in 1..MaxEra : update_ongoing_time_unit(t)
  PROVE  TypeOK'
<1>1. ClockTypes'
  BY ConstantFacts DEF TypeOK, ClockTypes, tick, new_era, update_ongoing_time_unit
<1>2. AccountTypes' /\ LedgerTypes' /\ QueryTypes'
  <2>1. UNCHANGED <<accounts, queries, DelegatorLedgers, ValidatorsByDelegator, entrance, channel,
                    relay, calls, unreported, spoiled>>
    BY DEF tick, new_era, update_ongoing_time_unit
  <2> QED BY <2>1 DEF TypeOK, AccountTypes, LedgerTypes, QueryTypes, accounts, tunes, queries
<1> QED BY <1>1, <1>2 DEF TypeOK

LEMMA TypeOKStep == TypeOK /\ [Next]_vars => TypeOK'
<1> SUFFICES ASSUME TypeOK, [Next]_vars PROVE TypeOK'
  OBVIOUS
<1>1. ASSUME NEW d \in Delegators, NEW amount \in Amounts,
             \/ bond(d, amount) \/ bond_extra(d, amount) \/ unbond(d, amount) \/ rebond(d, amount)
             \/ transfer_back(d, amount) \/ transfer_to(d, amount)
      PROVE  TypeOK'
  BY <1>1, StakingCallsType, Zenon
<1>2. ASSUME NEW d \in Delegators, unbond_all(d) \/ liquidize(d) \/ chill(d) \/ payout(d)
      PROVE  TypeOK'
  BY <1>2, StakingCallsType
<1>3. ASSUME NEW d \in Delegators, NEW targets \in SUBSET Validators,
             \/ delegate(d, targets) \/ undelegate(d, targets)
             \/ set_validators_by_delegator(d, targets)
      PROVE  TypeOK'
  BY <1>3, StakingCallsType, SetValidatorsType
<1>4. ASSUME NEW d \in Delegators, remove_delegator(d) PROVE TypeOK'
  BY <1>4, RemoveDelegatorType
<1>5. ASSUME NEW d \in Delegators, NEW copy \in BOOLEAN, set_delegator_ledger(d, copy)
      PROVE  TypeOK'
  BY <1>5, SetLedgerType
<1>6. ASSUME NEW d \in Delegators, NEW v \in PoolValues, NEW w \in Rewards \ {0},
             tune_vtoken_exchange_rate(d, v, w)
      PROVE  TypeOK'
  BY <1>6, TuneType
<1>7. ASSUME initialize_delegator PROVE TypeOK'
  <2>1. DelegatorNextIndex \in Nat /\ DelegatorNextIndex + 1 \in Nat
    BY ConstantFacts DEF TypeOK, AccountTypes
  <2>2. DelegatorNextIndex \in Delegators
    BY <1>7, <2>1, ConstantFacts DEF initialize_delegator, inner_add_delegator, Delegators
  <2> QED BY <1>7, <2>1, <2>2, AddDelegatorType DEF initialize_delegator
<1>8. ASSUME NEW d \in Readded, add_delegator(d) PROVE TypeOK'
  <2>1. d \in Delegators
    BY SlpAssumption
  <2>2. DelegatorNextIndex \in Nat
    BY ConstantFacts DEF TypeOK, AccountTypes
  <2> QED BY <1>8, <2>1, <2>2, AddDelegatorType DEF add_delegator
<1>9. ASSUME NEW q \in DOMAIN LedgerQueue, NEW success \in BOOLEAN,
             confirm_delegator_ledger(q, success)
      PROVE  TypeOK'
  BY <1>9, ConfirmLedgerType
<1>10. ASSUME NEW q \in DOMAIN ValidatorsQueue, NEW success \in BOOLEAN,
              confirm_validators_by_delegator(q, success)
       PROVE  TypeOK'
  BY <1>10, ConfirmValidatorsType
<1>11. ASSUME tick \/ new_era \/ \E t \in 1..MaxEra : update_ongoing_time_unit(t) PROVE TypeOK'
  BY <1>11, TimeType
<1>12. ASSUME relay_runs PROVE TypeOK'
  BY <1>12, RelayRunsType
<1>13. ASSUME NEW v \in Rewards, relay_pays(v) PROVE TypeOK'
  BY <1>13, RelayPaysType
<1>14. CASE UNCHANGED vars
  BY <1>14 DEF vars, clocks, accounts, tunes, queries, TypeOK, ClockTypes, AccountTypes,
               LedgerTypes, QueryTypes
<1> QED
  BY <1>1, <1>2, <1>3, <1>4, <1>5, <1>6, <1>7, <1>8, <1>9, <1>10, <1>11, <1>12, <1>13, <1>14
  DEF Next

LEMMA InitTypeOK == Init => TypeOK
<1> SUFFICES ASSUME Init PROVE TypeOK
  OBVIOUS
<1>1. ClockTypes /\ AccountTypes
  BY ConstantFacts DEF Init, ClockTypes, AccountTypes, Delegators
<1>2. LedgerTypes
  <2>1. [total |-> InitialBond, active |-> InitialBond, unlocking |-> <<>>] \in Ledgers
    BY ConstantFacts DEF Ledgers
  <2>2. \A b \in BOOLEAN : \A a \in Nat :
          [free |-> 0, bonded |-> b, active |-> a, unlocking |-> <<>>, noms |-> {}] \in Stakes
    BY DEF Stakes
  <2>3. relay \in [Delegators -> Stakes]
    BY <2>2, ConstantFacts DEF Init
  <2>4. DelegatorLedgers \in [Delegators -> Ledgers \cup {NoLedger}]
    BY <2>1 DEF Init
  <2> QED BY <2>3, <2>4 DEF Init, LedgerTypes
<1>3. QueryTypes
  BY DEF Init, QueryTypes
<1> QED BY <1>1, <1>2, <1>3 DEF TypeOK

(* Every storage item holds values of its type; an answer is never applied *)
(* past zero (update_ledger_query_response_storage).                       *)
THEOREM TypeCorrect == Spec => []TypeOK
BY InitTypeOK, TypeOKStep, PTL DEF Spec

(* TuneKeepsRate: the vtokens minted for the hosting fee are worth no more *)
(* than the reward that is booked, so a tune never lowers the exchange     *)
(* rate, and nothing else in this pallet moves the pool.                   *)
THEOREM TuneKeepsExchangeRate == Spec => TuneKeepsRate
<1>1. ASSUME TypeOK, [Next]_vars
      PROVE  [pool'.token * pool.issuance >= pool.token * pool'.issuance]_pool
  <2>1. ASSUME NEW d \in Delegators, NEW v \in PoolValues, NEW w \in Rewards \ {0},
               tune_vtoken_exchange_rate(d, v, w)
        PROVE  pool'.token * pool.issuance >= pool.token * pool'.issuance
    <3> DEFINE charge == hosting_fee(mul_floor(HostingFee, v))
               t == pool.token
               i == pool.issuance
    <3>1. pool' = [token |-> t + v, issuance |-> i + charge]
      BY <1>1, <2>1, TuneType
    <3>2. v \in Nat
      BY ConstantFacts
    <3>3. charge \in Nat /\ charge * t <= v * i
      BY <1>1, <3>2, HostingFeeFacts DEF TypeOK
    <3>4. t \in Nat /\ i \in Nat
      BY <1>1 DEF TypeOK, AccountTypes
    <3> HIDE DEF charge, t, i
    <3>5. (t + v) * i = t * i + v * i /\ t * (i + charge) = t * i + charge * t
      BY <3>2, <3>3, <3>4
    <3>6. t * i \in Nat /\ v * i \in Nat /\ charge * t \in Nat
      BY <3>2, <3>3, <3>4
    <3>7. (t + v) * i >= t * (i + charge)
      BY <3>3, <3>5, <3>6
    <3> QED BY <3>1, <3>7 DEF t, i
  <2>2. ASSUME NEW d \in Delegators, NEW amount \in Amounts,
               \/ bond(d, amount) \/ bond_extra(d, amount) \/ unbond(d, amount)
               \/ rebond(d, amount) \/ transfer_back(d, amount) \/ transfer_to(d, amount)
        PROVE  UNCHANGED pool
    BY <2>2 DEF bond, bond_extra, unbond, rebond, transfer_back, transfer_to, request, send,
                send_with_query, accounts, tunes
  <2>3. ASSUME NEW d \in Delegators, NEW targets \in SUBSET Validators,
               \/ delegate(d, targets) \/ undelegate(d, targets)
               \/ set_validators_by_delegator(d, targets)
        PROVE  UNCHANGED pool
    BY <2>3 DEF delegate, undelegate, nominate, send_with_query, set_validators_by_delegator,
                accounts, tunes
  <2>4. ASSUME NEW d \in Delegators, NEW copy \in BOOLEAN,
               \/ unbond_all(d) \/ liquidize(d) \/ chill(d) \/ payout(d)
               \/ remove_delegator(d) \/ set_delegator_ledger(d, copy) \/ add_delegator(d)
        PROVE  UNCHANGED pool
    BY <2>4 DEF unbond_all, liquidize, chill, payout, request, send, send_with_query,
                remove_delegator, set_delegator_ledger, add_delegator, inner_add_delegator,
                accounts, tunes
  <2>5. ASSUME NEW q, NEW success,
               \/ confirm_delegator_ledger(q, success)
               \/ confirm_validators_by_delegator(q, success)
        PROVE  UNCHANGED pool
    BY <2>5 DEF confirm_delegator_ledger, confirm_validators_by_delegator, accounts, tunes
  <2>6. ASSUME NEW v, NEW t,
               \/ tick \/ new_era \/ update_ongoing_time_unit(t) \/ relay_runs \/ relay_pays(v)
               \/ initialize_delegator
        PROVE  UNCHANGED pool
    BY <2>6 DEF tick, new_era, update_ongoing_time_unit, relay_runs, relay_pays,
                initialize_delegator, inner_add_delegator, accounts, tunes
  <2>7. CASE UNCHANGED vars
    BY <2>7 DEF vars, accounts, tunes
  <2>8. Readded \subseteq Delegators
    BY SlpAssumption
  <2> QED BY <1>1, <2>1, <2>2, <2>3, <2>4, <2>5, <2>6, <2>7, <2>8 DEF Next
<1> QED BY <1>1, TypeCorrect, PTL DEF Spec, TuneKeepsRate

-----------------------------------------------------------------------------
(* Messages and the entries that wait for their answers.                   *)

(* The call of entry q has succeeded on the other chain.                   *)
Succeeded(q) == q \in DOMAIN outcome /\ outcome[q] = "ok"

(* The calls an entry of each kind is sent with.                           *)
OpCalls(op) ==
  CASE op = "Bond" -> {"bond", "bond_extra"}
    [] op = "Unlock" -> {"unbond", "chill"}
    [] op = "Rebond" -> {"rebond"}
    [] op = "Liquidize" -> {"withdraw_unbonded"}

(* A message and its entry say the same; it has not been answered yet.     *)
Matches(m) ==
  /\ m.query < nextQuery /\ m.query \notin DOMAIN outcome
  /\ m.query \in DOMAIN ValidatorsQueue =>
       /\ m.call = "nominate" /\ m.who = ValidatorsQueue[m.query].who
       /\ m.targets = ValidatorsQueue[m.query].validators
  /\ m.query \in DOMAIN LedgerQueue =>
       /\ m.call \in OpCalls(LedgerQueue[m.query].op) /\ m.who = LedgerQueue[m.query].who
       /\ m.amount = LedgerQueue[m.query].amount /\ m.time = LedgerQueue[m.query].time

(* Every query has one message at most, which matches its entry.           *)
QueriesOK ==
  /\ \A i \in DOMAIN channel : Matches(channel[i])
  /\ \A i, j \in DOMAIN channel :
       channel[i].query = channel[j].query /\ channel[i].query # 0 => i = j

(* The messages after one more is sent, and after the oldest has run.      *)
LEMMA Sending ==
  ASSUME NEW s \in Seq(Messages), NEW m
  PROVE  \E n \in Nat : /\ DOMAIN Append(s, m) = DOMAIN s \cup {n} /\ Append(s, m)[n] = m
                        /\ \A i \in DOMAIN s : Append(s, m)[i] = s[i] /\ i # n
<1> DEFINE n == Len(s) + 1
<1>1. /\ n \in Nat /\ DOMAIN Append(s, m) = DOMAIN s \cup {n} /\ Append(s, m)[n] = m
      /\ \A i \in DOMAIN s : Append(s, m)[i] = s[i] /\ i # n
  OBVIOUS
<1> QED BY <1>1

LEMMA Running ==
  ASSUME NEW s \in Seq(Messages), s # <<>>
  PROVE  /\ 1 \in DOMAIN s /\ Head(s) = s[1]
         /\ \A i \in DOMAIN Tail(s) : i \in Nat /\ i + 1 # 1 /\ i + 1 \in DOMAIN s
                                      /\ Tail(s)[i] = s[i + 1]
OBVIOUS

(* What QueryTypes says of the queries.                                    *)
LEMMA QueryFacts ==
  ASSUME TypeOK
  PROVE  /\ nextQuery \in Nat /\ nextQuery > 0 /\ channel \in Seq(Messages)
         /\ \A q \in DOMAIN LedgerQueue : /\ q \in Nat /\ q # 0 /\ q < nextQuery
                                          /\ q \notin DOMAIN ValidatorsQueue
                                          /\ LedgerQueue[q] \in Entries
         /\ \A q \in DOMAIN ValidatorsQueue : /\ q \in Nat /\ q # 0 /\ q < nextQuery
                                              /\ q \notin DOMAIN LedgerQueue
                                              /\ ValidatorsQueue[q] \in Nominations
         /\ DOMAIN outcome \subseteq DOMAIN LedgerQueue \cup DOMAIN ValidatorsQueue
         /\ \A q \in DOMAIN outcome : q \in Nat /\ q # 0 /\ q < nextQuery
         /\ \A i \in DOMAIN channel : channel[i] \in Messages /\ channel[i].query \in Nat
<1>1. /\ nextQuery \in Nat /\ nextQuery > 0 /\ channel \in Seq(Messages)
      /\ DOMAIN LedgerQueue \cup DOMAIN ValidatorsQueue \subseteq 1..(nextQuery - 1)
      /\ DOMAIN outcome \subseteq DOMAIN LedgerQueue \cup DOMAIN ValidatorsQueue
      /\ DOMAIN LedgerQueue \cap DOMAIN ValidatorsQueue = {}
  BY DEF TypeOK, QueryTypes
<1>2. \A q \in 1..(nextQuery - 1) : q \in Nat /\ q # 0 /\ q < nextQuery
  BY <1>1
<1>3. /\ \A q \in DOMAIN LedgerQueue : LedgerQueue[q] \in Entries
      /\ \A q \in DOMAIN ValidatorsQueue : ValidatorsQueue[q] \in Nominations
  BY DEF TypeOK, QueryTypes
<1>4. \A i \in DOMAIN channel : channel[i] \in Messages
  BY <1>1
<1>5. \A i \in DOMAIN channel : channel[i].query \in Nat
  BY <1>4, MessageFacts
<1> QED BY <1>1, <1>2, <1>3, <1>4, <1>5

(* What an answer takes away does not matter to the other messages.        *)
LEMMA MatchesFewer ==
  ASSUME NEW m, Matches(m), nextQuery' = nextQuery, DOMAIN outcome' \subseteq DOMAIN outcome,
         DOMAIN LedgerQueue' \subseteq DOMAIN LedgerQueue,
         DOMAIN ValidatorsQueue' \subseteq DOMAIN ValidatorsQueue,
         \A q \in DOMAIN LedgerQueue' : LedgerQueue'[q] = LedgerQueue[q],
         \A q \in DOMAIN ValidatorsQueue' : ValidatorsQueue'[q] = ValidatorsQueue[q]
  PROVE  /\ m.query < nextQuery' /\ m.query \notin DOMAIN outcome'
         /\ m.query \in DOMAIN ValidatorsQueue' =>
              /\ m.call = "nominate" /\ m.who = ValidatorsQueue'[m.query].who
              /\ m.targets = ValidatorsQueue'[m.query].validators
         /\ m.query \in DOMAIN LedgerQueue' =>
              /\ m.call \in OpCalls(LedgerQueue'[m.query].op)
              /\ m.who = LedgerQueue'[m.query].who
              /\ m.amount = LedgerQueue'[m.query].amount
              /\ m.time = LedgerQueue'[m.query].time
BY DEF Matches

(* Steps that send nothing and ask nothing.                                *)
LEMMA QueriesQuiet ==
  ASSUME TypeOK, QueriesOK, channel' = channel, nextQuery' = nextQuery,
         DOMAIN outcome' \subseteq DOMAIN outcome,
         DOMAIN LedgerQueue' \subseteq DOMAIN LedgerQueue,
         DOMAIN ValidatorsQueue' \subseteq DOMAIN ValidatorsQueue,
         \A q \in DOMAIN LedgerQueue' : LedgerQueue'[q] = LedgerQueue[q],
         \A q \in DOMAIN ValidatorsQueue' : ValidatorsQueue'[q] = ValidatorsQueue[q]
  PROVE  QueriesOK'
<1>1. ASSUME NEW i \in DOMAIN channel PROVE Matches(channel[i])'
  <2>1. Matches(channel[i])
    BY DEF QueriesOK
  <2> QED BY <2>1, MatchesFewer DEF Matches
<1> QED BY <1>1 DEF QueriesOK

(* A message without a query.                                              *)
LEMMA QueriesSend ==
  ASSUME TypeOK, QueriesOK, NEW call, NEW d, NEW amount, send(call, d, amount)
  PROVE  QueriesOK'
<1> DEFINE m == Message(0, call, d, amount, {}, 0)
<1>1. /\ channel' = Append(channel, m) /\ m.query = 0
      /\ UNCHANGED <<LedgerQueue, ValidatorsQueue, nextQuery, outcome>>
  BY DEF send, queries, Message
<1>2. PICK n \in Nat : /\ DOMAIN channel' = DOMAIN channel \cup {n} /\ channel'[n] = m
                       /\ \A i \in DOMAIN channel : channel'[i] = channel[i] /\ i # n
  BY <1>1, QueryFacts, Sending
<1> HIDE DEF m
<1>3. ASSUME NEW i \in DOMAIN channel PROVE Matches(channel[i])'
  <2>1. Matches(channel[i]) /\ channel'[i] = channel[i]
    BY <1>2 DEF QueriesOK
  <2> QED BY <1>1, <2>1 DEF Matches
<1>4. Matches(channel[n])'
  BY <1>1, <1>2, QueryFacts DEF Matches
<1>5. ASSUME NEW i \in DOMAIN channel' PROVE Matches(channel[i])'
  BY <1>2, <1>3, <1>4
<1>6. \A i, j \in DOMAIN channel' :
        channel'[i].query = channel'[j].query /\ channel'[i].query # 0 => i = j
  BY <1>1, <1>2 DEF QueriesOK
<1> QED BY <1>5, <1>6 DEF QueriesOK

(* A message with a query, and its entry in one of the queues.             *)
LEMMA QueriesAsk ==
  ASSUME TypeOK, QueriesOK, NEW m, m.query = nextQuery,
         channel' = Append(channel, m), nextQuery' = nextQuery + 1, outcome' = outcome,
         DOMAIN LedgerQueue' \subseteq DOMAIN LedgerQueue \cup {nextQuery},
         DOMAIN ValidatorsQueue' \subseteq DOMAIN ValidatorsQueue \cup {nextQuery},
         \A q \in DOMAIN LedgerQueue : LedgerQueue'[q] = LedgerQueue[q],
         \A q \in DOMAIN ValidatorsQueue : ValidatorsQueue'[q] = ValidatorsQueue[q],
         nextQuery \in DOMAIN ValidatorsQueue' =>
           /\ m.call = "nominate" /\ m.who = ValidatorsQueue'[nextQuery].who
           /\ m.targets = ValidatorsQueue'[nextQuery].validators,
         nextQuery \in DOMAIN LedgerQueue' =>
           /\ m.call \in OpCalls(LedgerQueue'[nextQuery].op)
           /\ m.who = LedgerQueue'[nextQuery].who
           /\ m.amount = LedgerQueue'[nextQuery].amount
           /\ m.time = LedgerQueue'[nextQuery].time
  PROVE  QueriesOK'
<1>1. PICK n \in Nat : /\ DOMAIN channel' = DOMAIN channel \cup {n} /\ channel'[n] = m
                       /\ \A i \in DOMAIN channel : channel'[i] = channel[i] /\ i # n
  BY QueryFacts, Sending
<1>2. nextQuery \in Nat /\ nextQuery < nextQuery' /\ nextQuery # 0
  BY QueryFacts
<1>3. ASSUME NEW i \in DOMAIN channel PROVE Matches(channel[i])' /\ channel[i].query < nextQuery
  <2>1. Matches(channel[i]) /\ channel'[i] = channel[i] /\ channel[i].query \in Nat
    BY <1>1, QueryFacts DEF QueriesOK
  <2>2. channel[i].query < nextQuery /\ channel[i].query < nextQuery'
        /\ channel[i].query # nextQuery
    BY <1>2, <2>1 DEF Matches
  <2> QED BY <2>1, <2>2 DEF Matches
<1>4. Matches(channel[n])'
  <2>1. nextQuery \notin DOMAIN outcome
    BY <1>2, QueryFacts
  <2> QED BY <1>1, <1>2, <2>1 DEF Matches
<1>5. ASSUME NEW i \in DOMAIN channel' PROVE Matches(channel[i])'
  BY <1>1, <1>3, <1>4
<1>6. \A i, j \in DOMAIN channel' :
        channel'[i].query = channel'[j].query /\ channel'[i].query # 0 => i = j
  <2>1. \A i \in DOMAIN channel : channel[i].query # nextQuery
    BY <1>2, <1>3, QueryFacts
  <2> QED BY <1>1, <2>1 DEF QueriesOK
<1> QED BY <1>5, <1>6 DEF QueriesOK

LEMMA QueriesRequest ==
  ASSUME TypeOK, QueriesOK, NEW op \in Operations, NEW call \in OpCalls(op), NEW d, NEW amount,
         request(call, op, d, amount)
  PROVE  QueriesOK'
<1> DEFINE e == [who |-> d, op |-> op, amount |-> amount, time |-> unlock_time(op),
                 timeout |-> block + TIMEOUT_BLOCKS]
           m == Message(nextQuery, call, d, amount, {}, unlock_time(op))
<1>1. /\ channel' = Append(channel, m) /\ nextQuery' = nextQuery + 1
      /\ UNCHANGED <<outcome, ValidatorsQueue>>
      /\ LedgerQueue' = Put(LedgerQueue, nextQuery, e)
  BY DEF request, send_with_query
<1>2. /\ m.query = nextQuery /\ m.call \in OpCalls(e.op) /\ m.who = e.who
      /\ m.amount = e.amount /\ m.time = e.time
  BY DEF Message
<1> HIDE DEF e, m
<1>3. /\ DOMAIN LedgerQueue' = DOMAIN LedgerQueue \cup {nextQuery} /\ LedgerQueue'[nextQuery] = e
      /\ \A q \in DOMAIN LedgerQueue : q # nextQuery => LedgerQueue'[q] = LedgerQueue[q]
  BY <1>1 DEF Put
<1>4. nextQuery \notin DOMAIN LedgerQueue \cup DOMAIN ValidatorsQueue
  BY QueryFacts
<1> QED BY <1>1, <1>2, <1>3, <1>4, QueriesAsk

LEMMA QueriesNominate ==
  ASSUME TypeOK, QueriesOK, NEW d, NEW targets, nominate(d, targets)
  PROVE  QueriesOK'
<1> DEFINE e == [who |-> d, validators |-> targets, timeout |-> block + TIMEOUT_BLOCKS]
           m == Message(nextQuery, "nominate", d, 0, targets, 0)
<1>1. /\ channel' = Append(channel, m) /\ nextQuery' = nextQuery + 1
      /\ UNCHANGED <<outcome, LedgerQueue>>
      /\ ValidatorsQueue' = Put(ValidatorsQueue, nextQuery, e)
  BY DEF nominate, send_with_query
<1>2. /\ m.query = nextQuery /\ m.call = "nominate" /\ m.who = e.who
      /\ m.targets = e.validators
  BY DEF Message
<1> HIDE DEF e, m
<1>3. /\ DOMAIN ValidatorsQueue' = DOMAIN ValidatorsQueue \cup {nextQuery}
      /\ ValidatorsQueue'[nextQuery] = e
      /\ \A q \in DOMAIN ValidatorsQueue :
           q # nextQuery => ValidatorsQueue'[q] = ValidatorsQueue[q]
  BY <1>1 DEF Put
<1>4. nextQuery \notin DOMAIN LedgerQueue \cup DOMAIN ValidatorsQueue
  BY QueryFacts
<1> QED BY <1>1, <1>2, <1>3, <1>4, QueriesAsk

(* The oldest message runs.                                                *)
LEMMA QueriesRun ==
  ASSUME TypeOK, QueriesOK, channel # <<>>, channel' = Tail(channel),
         UNCHANGED <<LedgerQueue, ValidatorsQueue, nextQuery>>,
         DOMAIN outcome' \subseteq DOMAIN outcome \cup
           (IF Head(channel).query = 0 THEN {} ELSE {Head(channel).query})
  PROVE  QueriesOK'
<1>1. /\ 1 \in DOMAIN channel /\ Head(channel) = channel[1]
      /\ \A i \in DOMAIN channel' : i \in Nat /\ i + 1 # 1 /\ i + 1 \in DOMAIN channel
                                    /\ channel'[i] = channel[i + 1]
  BY QueryFacts, Running
<1>2. ASSUME NEW i \in DOMAIN channel' PROVE Matches(channel[i])'
  <2>1. Matches(channel[i + 1]) /\ channel'[i] = channel[i + 1]
    BY <1>1 DEF QueriesOK
  <2>2. channel[i + 1].query \notin DOMAIN outcome'
    BY <1>1, <2>1 DEF QueriesOK, Matches
  <2> QED BY <2>1, <2>2 DEF Matches
<1>3. \A i, j \in DOMAIN channel' :
        channel'[i].query = channel'[j].query /\ channel'[i].query # 0 => i = j
  <2> SUFFICES ASSUME NEW i \in DOMAIN channel', NEW j \in DOMAIN channel',
                      channel'[i].query = channel'[j].query, channel'[i].query # 0
               PROVE  i = j
    OBVIOUS
  <2>1. i + 1 = j + 1
    BY <1>1 DEF QueriesOK
  <2> QED BY <1>1, <2>1
<1> QED BY <1>2, <1>3 DEF QueriesOK

(* An answer takes its entry and its outcome away.                         *)
LEMMA QueriesConfirm ==
  ASSUME TypeOK, QueriesOK, NEW q, NEW success,
         \/ confirm_delegator_ledger(q, success)
         \/ confirm_validators_by_delegator(q, success)
  PROVE  QueriesOK'
<1>1. /\ channel' = channel /\ nextQuery' = nextQuery /\ outcome' = Without(outcome, q)
      /\ LedgerQueue' = LedgerQueue \/ LedgerQueue' = Without(LedgerQueue, q)
      /\ ValidatorsQueue' = ValidatorsQueue \/ ValidatorsQueue' = Without(ValidatorsQueue, q)
  BY DEF confirm_delegator_ledger, confirm_validators_by_delegator
<1>2. DOMAIN outcome' \subseteq DOMAIN outcome
  BY <1>1 DEF Without
<1>3. /\ DOMAIN LedgerQueue' \subseteq DOMAIN LedgerQueue
      /\ \A p \in DOMAIN LedgerQueue' : LedgerQueue'[p] = LedgerQueue[p]
  BY <1>1 DEF Without
<1>4. /\ DOMAIN ValidatorsQueue' \subseteq DOMAIN ValidatorsQueue
      /\ \A p \in DOMAIN ValidatorsQueue' : ValidatorsQueue'[p] = ValidatorsQueue[p]
  BY <1>1 DEF Without
<1> QED BY <1>1, <1>2, <1>3, <1>4, QueriesQuiet

LEMMA QueriesStep == TypeOK /\ QueriesOK /\ [Next]_vars => QueriesOK'
<1> SUFFICES ASSUME TypeOK, QueriesOK, [Next]_vars PROVE QueriesOK'
  OBVIOUS
<1>0. ASSUME UNCHANGED <<channel, queries>> PROVE QueriesOK'
  BY <1>0, QueriesQuiet DEF queries
<1>1. ASSUME NEW d \in Delegators, NEW amount \in Amounts,
             bond(d, amount) \/ bond_extra(d, amount) \/ unbond(d, amount) \/ rebond(d, amount)
      PROVE  QueriesOK'
  <2>1. \E op \in Operations : \E call \in OpCalls(op) : request(call, op, d, amount)
    BY <1>1 DEF bond, bond_extra, unbond, rebond, Operations, OpCalls
  <2> QED BY <2>1, QueriesRequest
<1>2. ASSUME NEW d \in Delegators, NEW amount \in Amounts,
             transfer_back(d, amount) \/ transfer_to(d, amount)
      PROVE  QueriesOK'
  BY <1>2, QueriesSend DEF transfer_back, transfer_to
<1>3. ASSUME NEW d \in Delegators, unbond_all(d) \/ liquidize(d) \/ chill(d)
      PROVE  QueriesOK'
  <2>1. \E n : \E op \in Operations : \E call \in OpCalls(op) : request(call, op, d, n)
    BY <1>3 DEF unbond_all, liquidize, chill, Operations, OpCalls
  <2> QED BY <2>1, QueriesRequest
<1>4. ASSUME NEW d \in Delegators, payout(d) PROVE QueriesOK'
  BY <1>4, QueriesSend DEF payout
<1>5. ASSUME NEW d \in Delegators, NEW targets \in SUBSET Validators,
             delegate(d, targets) \/ undelegate(d, targets)
      PROVE  QueriesOK'
  BY <1>5, QueriesNominate DEF delegate, undelegate
<1>6. ASSUME NEW q, NEW success,
             \/ confirm_delegator_ledger(q, success)
             \/ confirm_validators_by_delegator(q, success)
      PROVE  QueriesOK'
  BY <1>6, QueriesConfirm
<1>7. ASSUME relay_runs PROVE QueriesOK'
  <2>1. /\ channel # <<>> /\ channel' = Tail(channel)
        /\ UNCHANGED <<LedgerQueue, ValidatorsQueue, nextQuery>>
    BY <1>7 DEF relay_runs
  <2>2. DOMAIN outcome' \subseteq DOMAIN outcome \cup
          (IF Head(channel).query = 0 THEN {} ELSE {Head(channel).query})
    <3>1. CASE Head(channel).query \in DOMAIN LedgerQueue \cup DOMAIN ValidatorsQueue
      <4>1. Head(channel).query # 0
        BY <3>1, QueryFacts
      <4>2. \E o : outcome' = Put(outcome, Head(channel).query, o)
        BY <1>7, <3>1 DEF relay_runs
      <4> QED BY <4>1, <4>2 DEF Put
    <3>2. CASE Head(channel).query \notin DOMAIN LedgerQueue \cup DOMAIN ValidatorsQueue
      BY <1>7, <3>2 DEF relay_runs
    <3> QED BY <3>1, <3>2
  <2> QED BY <2>1, <2>2, QueriesRun
<1>8. ASSUME NEW v, relay_pays(v) PROVE QueriesOK'
  <2>1. /\ channel # <<>> /\ channel' = Tail(channel)
        /\ UNCHANGED <<LedgerQueue, ValidatorsQueue, nextQuery, outcome>>
    BY <1>8 DEF relay_pays, queries
  <2> QED BY <2>1, QueriesRun
<1>9. ASSUME NEW d, NEW copy, NEW targets, NEW v, NEW w, NEW t,
             \/ remove_delegator(d) \/ set_delegator_ledger(d, copy)
             \/ tune_vtoken_exchange_rate(d, v, w) \/ set_validators_by_delegator(d, targets)
             \/ add_delegator(d) \/ initialize_delegator
             \/ tick \/ new_era \/ update_ongoing_time_unit(t)
      PROVE  QueriesOK'
  <2>1. UNCHANGED <<channel, queries>>
    BY <1>9 DEF remove_delegator, set_delegator_ledger, tune_vtoken_exchange_rate,
         set_validators_by_delegator, add_delegator, initialize_delegator, inner_add_delegator,
         tick, new_era, update_ongoing_time_unit
  <2> QED BY <1>0, <2>1
<1>10. CASE UNCHANGED vars
  BY <1>0, <1>10 DEF vars
<1> QED BY <1>1, <1>2, <1>3, <1>4, <1>5, <1>6, <1>7, <1>8, <1>9, <1>10 DEF Next

-----------------------------------------------------------------------------
(* The nominations.                                                        *)

(* At most one nomination of d waits for its answer.  Once it has run, the *)
(* other chain has what it asked for; until then, what is stored here.     *)
NominationsKnown(d) ==
  /\ \A p, q \in NominationsOf(d) : p = q
  /\ \A i \in DOMAIN channel :
       channel[i].who = d /\ channel[i].call = "nominate" =>
         channel[i].query \in NominationsOf(d)
  /\ \A q \in NominationsOf(d) :
       Succeeded(q) => relay[d].noms = ValidatorsQueue[q].validators
  /\ (\A q \in NominationsOf(d) : ~Succeeded(q)) => relay[d].noms = ValidatorsByDelegator[d]

NominationsInv ==
  TypeOK /\ QueriesOK /\ \A d \in Delegators \ spoiled["noms"] : NominationsKnown(d)

(* Steps that do not concern the nominations of d.                         *)
LEMMA NominationsFrame ==
  ASSUME NEW d, NominationsKnown(d), NominationsOf(d)' = NominationsOf(d),
         \A q \in NominationsOf(d) : ValidatorsQueue'[q] = ValidatorsQueue[q],
         \A q \in NominationsOf(d) : Succeeded(q)' <=> Succeeded(q),
         \A i \in DOMAIN channel' : channel'[i].who = d /\ channel'[i].call = "nominate" =>
           \E j \in DOMAIN channel : channel[j] = channel'[i],
         relay'[d].noms = relay[d].noms, ValidatorsByDelegator'[d] = ValidatorsByDelegator[d]
  PROVE  NominationsKnown(d)'
<1>1. \A i \in DOMAIN channel' :
        channel'[i].who = d /\ channel'[i].call = "nominate" =>
          channel'[i].query \in NominationsOf(d)'
  BY DEF NominationsKnown
<1>2. \A p, q \in NominationsOf(d)' : p = q
  BY DEF NominationsKnown
<1>3. \A q \in NominationsOf(d)' :
       Succeeded(q)' => relay'[d].noms = ValidatorsQueue'[q].validators
  BY DEF NominationsKnown
<1>4. (\A q \in NominationsOf(d)' : ~Succeeded(q)') => relay'[d].noms = ValidatorsByDelegator'[d]
  BY DEF NominationsKnown
<1> QED BY <1>1, <1>2, <1>3, <1>4 DEF NominationsKnown

(* Steps that leave the queue of nominations and the other chain alone.    *)
LEMMA NominationsQuiet ==
  ASSUME NEW d, NominationsKnown(d), UNCHANGED <<ValidatorsQueue, outcome, relay>>,
         \A i \in DOMAIN channel' : channel'[i].who = d /\ channel'[i].call = "nominate" =>
           \E j \in DOMAIN channel : channel[j] = channel'[i],
         ValidatorsByDelegator'[d] = ValidatorsByDelegator[d]
  PROVE  NominationsKnown(d)'
<1>1. NominationsOf(d)' = NominationsOf(d)
  BY DEF NominationsOf
<1>2. \A q \in NominationsOf(d) : Succeeded(q)' <=> Succeeded(q)
  BY DEF Succeeded
<1> QED BY <1>1, <1>2, NominationsFrame

(* A message that is no nomination.                                        *)
LEMMA NominationsOther ==
  ASSUME NominationsInv, NEW m, m.call # "nominate", channel' = Append(channel, m),
         UNCHANGED <<ValidatorsQueue, outcome, relay, ValidatorsByDelegator>>,
         spoiled'["noms"] = spoiled["noms"]
  PROVE  \A d \in Delegators \ spoiled'["noms"] : NominationsKnown(d)'
<1> SUFFICES ASSUME NEW d \in Delegators \ spoiled["noms"] PROVE NominationsKnown(d)'
  OBVIOUS
<1>1. PICK n \in Nat : /\ DOMAIN channel' = DOMAIN channel \cup {n} /\ channel'[n] = m
                       /\ \A i \in DOMAIN channel : channel'[i] = channel[i] /\ i # n
  BY QueryFacts, Sending DEF NominationsInv
<1>2. NominationsKnown(d)
  BY DEF NominationsInv
<1> QED BY <1>1, <1>2, NominationsQuiet

LEMMA NominationsNominate ==
  ASSUME NominationsInv, NEW d \in Delegators, NEW targets \in SUBSET Validators,
         nominate(d, targets)
  PROVE  \A b \in Delegators \ spoiled'["noms"] : NominationsKnown(b)'
<1> DEFINE m == Message(nextQuery, "nominate", d, 0, targets, 0)
           e == [who |-> d, validators |-> targets, timeout |-> block + TIMEOUT_BLOCKS]
<1>1. /\ channel' = Append(channel, m) /\ ValidatorsQueue' = Put(ValidatorsQueue, nextQuery, e)
      /\ UNCHANGED <<outcome, relay, ValidatorsByDelegator>> /\ TypeOK /\ QueriesOK
      /\ spoiled' = SpoilIf(NominationsOf(d) # {}, "noms", d)
  BY DEF nominate, send_with_query, NominationsInv
<1>2. PICK n \in Nat : /\ DOMAIN channel' = DOMAIN channel \cup {n} /\ channel'[n] = m
                       /\ \A i \in DOMAIN channel : channel'[i] = channel[i] /\ i # n
  BY <1>1, QueryFacts, Sending
<1>3. /\ DOMAIN ValidatorsQueue' = DOMAIN ValidatorsQueue \cup {nextQuery}
      /\ ValidatorsQueue'[nextQuery] = e /\ nextQuery \notin DOMAIN ValidatorsQueue
      /\ \A q \in DOMAIN ValidatorsQueue : ValidatorsQueue'[q] = ValidatorsQueue[q]
      /\ nextQuery \notin DOMAIN outcome
  BY <1>1, QueryFacts DEF Put
<1>4. /\ spoiled["noms"] \subseteq spoiled'["noms"]
      /\ d \notin spoiled'["noms"] => NominationsOf(d) = {}
  BY <1>1 DEF SpoilIf, TypeOK, LedgerTypes, Kinds
<1>5. m.who = d /\ m.query = nextQuery /\ e.who = d
  BY DEF Message
<1> HIDE DEF m, e
<1>6. \A b, q : Succeeded(q)' <=> Succeeded(q)
  BY <1>1 DEF Succeeded
<1>7. ASSUME NEW b \in Delegators \ spoiled'["noms"], b # d PROVE NominationsKnown(b)'
  <2>1. NominationsKnown(b)
    BY <1>4 DEF NominationsInv
  <2>2. NominationsOf(b)' = NominationsOf(b)
    BY <1>3, <1>5, <1>7 DEF NominationsOf
  <2>3. \A q \in NominationsOf(b) : ValidatorsQueue'[q] = ValidatorsQueue[q]
    BY <1>3 DEF NominationsOf
  <2>4. \A i \in DOMAIN channel' : channel'[i].who = b /\ channel'[i].call = "nominate" =>
          \E j \in DOMAIN channel : channel[j] = channel'[i]
    BY <1>2, <1>5, <1>7
  <2> QED BY <1>1, <1>6, <2>1, <2>2, <2>3, <2>4, NominationsFrame
<1>8. ASSUME d \notin spoiled'["noms"] PROVE NominationsKnown(d)'
  <2>1. NominationsOf(d) = {} /\ NominationsKnown(d)
    BY <1>4, <1>8 DEF NominationsInv
  <2>2. NominationsOf(d)' = {nextQuery}
    BY <1>3, <1>5, <2>1 DEF NominationsOf
  <2>3. \A i \in DOMAIN channel' : channel'[i].who = d /\ channel'[i].call = "nominate" =>
          channel'[i].query \in NominationsOf(d)'
    BY <1>2, <1>5, <2>1, <2>2 DEF NominationsKnown
  <2>4. relay'[d].noms = ValidatorsByDelegator'[d]
    BY <1>1, <2>1 DEF NominationsKnown
  <2>5. \A q \in NominationsOf(d)' : ~Succeeded(q)'
    BY <1>3, <1>6, <2>2 DEF Succeeded
  <2> QED BY <2>2, <2>3, <2>4, <2>5 DEF NominationsKnown
<1> QED BY <1>7, <1>8

(* Disagreement is only ever added, and to one kind at a time.             *)
LEMMA SpoilFacts ==
  ASSUME TypeOK, NEW c, NEW k \in Kinds, NEW d
  PROVE  /\ \A j \in Kinds : spoiled[j] \subseteq SpoilIf(c, k, d)[j]
         /\ \A j \in Kinds : j # k => SpoilIf(c, k, d)[j] = spoiled[j]
         /\ c => d \in SpoilIf(c, k, d)[k]
BY DEF TypeOK, LedgerTypes, SpoilIf

LEMMA NominationsConfirm ==
  ASSUME NominationsInv, NEW q \in DOMAIN ValidatorsQueue, NEW success \in BOOLEAN,
         confirm_validators_by_delegator(q, success)
  PROVE  \A b \in Delegators \ spoiled'["noms"] : NominationsKnown(b)'
<1> DEFINE e == ValidatorsQueue[q]
           applied == success /\ block <= e.timeout
           wrong == q \notin DOMAIN outcome \/ (applied # (outcome[q] = "ok"))
<1>1. /\ ValidatorsByDelegator' = IF applied THEN [ValidatorsByDelegator EXCEPT ![e.who] = e.validators]
                                  ELSE ValidatorsByDelegator
      /\ ValidatorsQueue' = Without(ValidatorsQueue, q) /\ outcome' = Without(outcome, q)
      /\ spoiled' = SpoilIf(wrong, "noms", e.who)
      /\ UNCHANGED <<channel, relay>> /\ TypeOK /\ QueriesOK
  BY DEF confirm_validators_by_delegator, validators_after, NominationsInv
<1>2. e.who \in Delegators /\ wrong \in BOOLEAN /\ applied \in BOOLEAN
  BY <1>1, QueryFacts DEF Nominations
<1>3. spoiled["noms"] \subseteq spoiled'["noms"] /\ (wrong => e.who \in spoiled'["noms"])
  BY <1>1, <1>2, SpoilFacts DEF Kinds
<1>4. /\ DOMAIN ValidatorsQueue' = DOMAIN ValidatorsQueue \ {q}
      /\ \A p \in DOMAIN ValidatorsQueue' : ValidatorsQueue'[p] = ValidatorsQueue[p]
      /\ \A p : p # q => (Succeeded(p)' <=> Succeeded(p))
  BY <1>1 DEF Without, Succeeded
<1>5. ASSUME NEW b \in Delegators \ spoiled'["noms"], b # e.who PROVE NominationsKnown(b)'
  <2>1. NominationsKnown(b) /\ ValidatorsByDelegator'[b] = ValidatorsByDelegator[b]
    BY <1>1, <1>3, <1>5 DEF NominationsInv, TypeOK, LedgerTypes
  <2>2. NominationsOf(b)' = NominationsOf(b) /\ q \notin NominationsOf(b)
    BY <1>4, <1>5 DEF NominationsOf
  <2>3. \A p \in NominationsOf(b) :
          ValidatorsQueue'[p] = ValidatorsQueue[p] /\ (Succeeded(p)' <=> Succeeded(p))
    BY <1>4, <2>2 DEF NominationsOf
  <2> QED BY <1>1, <2>1, <2>2, <2>3, NominationsFrame
<1>6. ASSUME NEW b, b = e.who, b \notin spoiled'["noms"] PROVE NominationsKnown(b)'
  <2>1. NominationsKnown(b) /\ q \in DOMAIN outcome /\ (applied <=> outcome[q] = "ok")
    BY <1>2, <1>3, <1>6 DEF NominationsInv
  <2>2. NominationsOf(b) = {q}
    BY <1>6, <2>1 DEF NominationsKnown, NominationsOf
  <2>3. NominationsOf(b)' = {}
    BY <1>4, <2>2 DEF NominationsOf
  <2>4. \A i \in DOMAIN channel' :
          ~(channel'[i].who = b /\ channel'[i].call = "nominate")
    BY <1>1, <2>1, <2>2 DEF NominationsKnown, QueriesOK, Matches
  <2>5. relay'[b].noms = ValidatorsByDelegator'[b]
    <3>1. CASE applied
      BY <1>1, <1>2, <1>6, <2>1, <2>2, <3>1
      DEF NominationsKnown, Succeeded, TypeOK, LedgerTypes
    <3>2. CASE ~applied
      BY <1>1, <2>1, <2>2, <3>2 DEF NominationsKnown, Succeeded
    <3> QED BY <3>1, <3>2
  <2> QED BY <2>3, <2>4, <2>5 DEF NominationsKnown
<1> QED BY <1>5, <1>6

LEMMA NominationsLedger ==
  ASSUME NominationsInv, NEW q \in DOMAIN LedgerQueue, NEW success \in BOOLEAN,
         confirm_delegator_ledger(q, success)
  PROVE  \A b \in Delegators \ spoiled'["noms"] : NominationsKnown(b)'
<1>1. /\ outcome' = Without(outcome, q) /\ TypeOK
      /\ UNCHANGED <<channel, relay, ValidatorsQueue, ValidatorsByDelegator>>
      /\ \E c \in BOOLEAN : spoiled' = SpoilIf(c, "stake", LedgerQueue[q].who)
  BY DEF confirm_delegator_ledger, NominationsInv
<1>2. spoiled'["noms"] = spoiled["noms"]
  BY <1>1, SpoilFacts DEF Kinds
<1>3. q \notin DOMAIN ValidatorsQueue
  BY <1>1, QueryFacts
<1>4. \A p : p # q => (Succeeded(p)' <=> Succeeded(p))
  BY <1>1 DEF Without, Succeeded
<1> SUFFICES ASSUME NEW b \in Delegators \ spoiled["noms"] PROVE NominationsKnown(b)'
  BY <1>2
<1>5. NominationsKnown(b) /\ NominationsOf(b)' = NominationsOf(b) /\ q \notin NominationsOf(b)
  BY <1>1, <1>3 DEF NominationsInv, NominationsOf
<1> QED BY <1>1, <1>4, <1>5, NominationsFrame

(* What the calls make of the nominations on the other chain.              *)
LEMMA AfterNominations ==
  ASSUME NEW m \in Messages, NEW r \in Stakes, era \in 0..MaxEra, Succeeds(m, r),
         m.call # "payout_stakers"
  PROVE  /\ m.call = "nominate" => After(m, r).noms = m.targets
         /\ m.call # "nominate" /\ ~LosesNominations(m, r) => After(m, r).noms = r.noms
<1>1. m.call \in RelayCalls
  BY MessageFacts
<1>2. CASE m.call \in {"bond", "bond_extra"}
  BY <1>2 DEF After, Stakes
<1>3. CASE m.call \in {"unbond", "rebond"}
  BY <1>3 DEF After, Stakes
<1>4. CASE m.call \in {"chill", "withdraw_unbonded"}
  BY <1>4 DEF LosesNominations
<1>5. CASE m.call \in {"nominate", "transfer_back", "deposit"}
  BY <1>5 DEF After, Stakes
<1> QED BY <1>1, <1>2, <1>3, <1>4, <1>5 DEF RelayCalls

LEMMA NominationsRun ==
  ASSUME NominationsInv, relay_runs
  PROVE  \A b \in Delegators \ spoiled'["noms"] : NominationsKnown(b)'
<1>0. PICK m : m = Head(channel)
  OBVIOUS
<1> DEFINE r == relay[m.who]
           o == IF Succeeds(m, r) THEN "ok" ELSE "failed"
<1>1. /\ channel # <<>> /\ m.call # "payout_stakers" /\ channel' = Tail(channel)
      /\ relay' = IF Succeeds(m, r) THEN [relay EXCEPT ![m.who] = After(m, r)] ELSE relay
      /\ outcome' = IF m.query \in DOMAIN LedgerQueue \cup DOMAIN ValidatorsQueue
                    THEN Put(outcome, m.query, o) ELSE outcome
      /\ UNCHANGED <<ValidatorsQueue, ValidatorsByDelegator>> /\ TypeOK /\ QueriesOK
  BY <1>0 DEF relay_runs, NominationsInv
<1>2. /\ spoiled["noms"] \subseteq spoiled'["noms"]
      /\ Succeeds(m, r) /\ LosesNominations(m, r) => m.who \in spoiled'["noms"]
  BY <1>0, <1>1 DEF relay_runs, TypeOK, LedgerTypes, Kinds
<1>3. m \in Messages /\ m.who \in Delegators /\ r \in Stakes /\ era \in 0..MaxEra
  BY <1>0, <1>1, RelayRunsType, DelegatorFacts DEF TypeOK, ClockTypes
<1>4. /\ m = channel[1] /\ 1 \in DOMAIN channel
      /\ \A i \in DOMAIN channel' : \E j \in DOMAIN channel : j # 1 /\ channel[j] = channel'[i]
  BY <1>0, <1>1, QueryFacts, Running
<1>5. Matches(m) /\ \A j \in DOMAIN channel : channel[j].query = m.query /\ m.query # 0 => j = 1
  BY <1>1, <1>4 DEF QueriesOK
<1>6. \A p : p # m.query => (Succeeded(p)' <=> Succeeded(p))
  BY <1>1 DEF Put, Succeeded
<1>7. ~Succeeded(m.query)
  BY <1>5 DEF Matches, Succeeded
<1>8. m.query \in DOMAIN ValidatorsQueue => (outcome'[m.query] = o /\ m.query \in DOMAIN outcome')
  BY <1>1 DEF Put
<1> SUFFICES ASSUME NEW b \in Delegators \ spoiled'["noms"] PROVE NominationsKnown(b)'
  OBVIOUS
<1>9. NominationsKnown(b) /\ NominationsOf(b)' = NominationsOf(b)
  BY <1>1, <1>2 DEF NominationsInv, NominationsOf
<1>10. CASE m.query \in NominationsOf(b) /\ Succeeds(m, r)
  <2>1. /\ m.query \in DOMAIN ValidatorsQueue /\ m.call = "nominate" /\ m.who = b
        /\ m.targets = ValidatorsQueue[m.query].validators
    BY <1>5, <1>10 DEF NominationsOf, Matches
  <2>2. relay'[b].noms = m.targets
    BY <1>1, <1>3, <1>10, <2>1, AfterNominations DEF TypeOK, LedgerTypes
  <2>3. m.query # 0
    BY <1>1, <2>1, QueryFacts
  <2>4. NominationsOf(b) = {m.query}
    BY <1>9, <1>10 DEF NominationsKnown
  <2>5. Succeeded(m.query)'
    BY <1>8, <1>10, <2>1 DEF Succeeded
  <2>6. \A i \in DOMAIN channel' : channel'[i].who = b /\ channel'[i].call = "nominate" =>
          channel'[i].query \in NominationsOf(b)'
    BY <1>4, <1>9 DEF NominationsKnown
  <2> QED BY <1>1, <1>9, <2>1, <2>2, <2>4, <2>5, <2>6 DEF NominationsKnown
<1>11. CASE ~(m.query \in NominationsOf(b) /\ Succeeds(m, r))
  <2>1. \A q \in NominationsOf(b) : Succeeded(q)' <=> Succeeded(q)
    <3>1. m.query \in NominationsOf(b) => ~Succeeded(m.query)'
      BY <1>8, <1>11 DEF NominationsOf, Succeeded
    <3> QED BY <1>6, <1>7, <3>1
  <2>2. relay'[b].noms = relay[b].noms
    <3>1. CASE Succeeds(m, r) /\ m.who = b
      <4>1. m.call # "nominate"
        BY <1>4, <1>9, <1>11, <3>1 DEF NominationsKnown
      <4>2. ~LosesNominations(m, r)
        BY <1>2, <3>1
      <4>3. After(m, r).noms = r.noms
        BY <1>1, <1>3, <3>1, <4>1, <4>2, AfterNominations
      <4> QED BY <1>1, <1>3, <3>1, <4>3 DEF TypeOK, LedgerTypes
    <3>2. CASE ~(Succeeds(m, r) /\ m.who = b)
      BY <1>1, <3>2 DEF TypeOK, LedgerTypes
    <3> QED BY <3>1, <3>2
  <2> QED BY <1>1, <1>4, <1>9, <2>1, <2>2, NominationsFrame
<1> QED BY <1>10, <1>11

LEMMA NominationsPay ==
  ASSUME NominationsInv, NEW v \in Rewards, relay_pays(v)
  PROVE  \A b \in Delegators \ spoiled'["noms"] : NominationsKnown(b)'
<1>1. /\ TypeOK /\ channel # <<>> /\ channel' = Tail(channel) /\ spoiled' = spoiled
      /\ UNCHANGED <<ValidatorsQueue, outcome, ValidatorsByDelegator>>
  BY DEF relay_pays, queries, NominationsInv
<1>2. \A b \in Delegators : relay'[b].noms = relay[b].noms
  BY <1>1 DEF relay_pays, TypeOK, LedgerTypes, Stakes
<1>3. \A i \in DOMAIN channel' : \E j \in DOMAIN channel : channel[j] = channel'[i]
  BY <1>1, QueryFacts, Running
<1> SUFFICES ASSUME NEW b \in Delegators \ spoiled["noms"] PROVE NominationsKnown(b)'
  BY <1>1
<1>4. /\ NominationsKnown(b) /\ NominationsOf(b)' = NominationsOf(b)
      /\ \A q \in NominationsOf(b) : Succeeded(q)' <=> Succeeded(q)
  BY <1>1 DEF NominationsInv, NominationsOf, Succeeded
<1> QED BY <1>1, <1>2, <1>3, <1>4, NominationsFrame

(* Governance writes the nominations: they are known again only when they  *)
(* are what the other chain has and nothing is under way.                  *)
LEMMA NominationsSet ==
  ASSUME NominationsInv, NEW d \in Delegators, NEW targets \in SUBSET Validators,
         set_validators_by_delegator(d, targets)
  PROVE  \A b \in Delegators \ spoiled'["noms"] : NominationsKnown(b)'
<1> DEFINE sure == NominationsOf(d) = {} /\ ~InFlight(d) /\ targets = relay[d].noms
<1>1. /\ ValidatorsByDelegator' = [ValidatorsByDelegator EXCEPT ![d] = targets]
      /\ spoiled' = IF sure THEN [spoiled EXCEPT !["noms"] = @ \ {d}]
                    ELSE SpoilIf(TRUE, "noms", d)
      /\ UNCHANGED <<channel, relay, ValidatorsQueue, outcome>> /\ TypeOK
  BY DEF set_validators_by_delegator, queries, NominationsInv
<1>2. /\ spoiled["noms"] \ {d} \subseteq spoiled'["noms"] /\ (d \notin spoiled'["noms"] => sure)
  <2>1. CASE sure
    BY <1>1, <2>1 DEF TypeOK, LedgerTypes, Kinds
  <2>2. CASE ~sure
    BY <1>1, <2>2, SpoilFacts DEF Kinds
  <2> QED BY <2>1, <2>2
<1>3. ASSUME NEW b \in Delegators \ spoiled'["noms"], b # d PROVE NominationsKnown(b)'
  <2>1. NominationsKnown(b) /\ ValidatorsByDelegator'[b] = ValidatorsByDelegator[b]
    BY <1>1, <1>2, <1>3 DEF NominationsInv, TypeOK, LedgerTypes
  <2> QED BY <1>1, <2>1, NominationsQuiet
<1>4. ASSUME d \notin spoiled'["noms"] PROVE NominationsKnown(d)'
  <2>1. NominationsOf(d) = {} /\ ~InFlight(d) /\ targets = relay[d].noms
    BY <1>2, <1>4
  <2>2. NominationsOf(d)' = {}
    BY <1>1, <2>1 DEF NominationsOf
  <2>3. \A i \in DOMAIN channel' : channel'[i].who # d
    BY <1>1, <2>1 DEF InFlight
  <2>4. ValidatorsByDelegator'[d] = targets
    BY <1>1 DEF TypeOK, LedgerTypes
  <2> QED BY <1>1, <2>1, <2>2, <2>3, <2>4 DEF NominationsKnown
<1> QED BY <1>3, <1>4

LEMMA NominationsStep == NominationsInv /\ [Next]_vars => NominationsInv'
<1> SUFFICES ASSUME NominationsInv, [Next]_vars PROVE NominationsInv'
  OBVIOUS
<1> DEFINE Goal == \A b \in Delegators \ spoiled'["noms"] : NominationsKnown(b)'
<1>0. TypeOK /\ QueriesOK /\ TypeOK' /\ QueriesOK'
  BY TypeOKStep, QueriesStep DEF NominationsInv
<1>1. ASSUME NEW call, NEW op, NEW d, NEW amount, call # "nominate", request(call, op, d, amount)
      PROVE  Goal
  <2> DEFINE m == Message(nextQuery, call, d, amount, {}, unlock_time(op))
  <2>1. /\ channel' = Append(channel, m) /\ m.call # "nominate"
        /\ UNCHANGED <<ValidatorsQueue, outcome, relay, ValidatorsByDelegator>>
        /\ \E c \in BOOLEAN : spoiled' = SpoilIf(c, "stake", d)
    BY <1>1 DEF request, send_with_query, Message, Overlaps
  <2>2. spoiled'["noms"] = spoiled["noms"]
    BY <1>0, <2>1, SpoilFacts DEF Kinds
  <2> HIDE DEF m
  <2> QED BY <2>1, <2>2, NominationsOther
<1>2. ASSUME NEW call, NEW d, NEW amount, call # "nominate", send(call, d, amount) PROVE Goal
  <2> DEFINE m == Message(0, call, d, amount, {}, 0)
  <2>1. /\ channel' = Append(channel, m) /\ m.call # "nominate"
        /\ UNCHANGED <<ValidatorsQueue, outcome, relay, ValidatorsByDelegator, spoiled>>
    BY <1>2 DEF send, queries, Message
  <2> HIDE DEF m
  <2> QED BY <2>1, NominationsOther
<1>3. ASSUME UNCHANGED <<channel, relay, ValidatorsQueue, outcome, ValidatorsByDelegator>>,
             spoiled'["noms"] = spoiled["noms"]
      PROVE  Goal
  BY <1>3, NominationsQuiet DEF NominationsInv
<1>4. ASSUME NEW d \in Delegators, NEW amount \in Amounts,
             bond(d, amount) \/ bond_extra(d, amount) \/ unbond(d, amount) \/ rebond(d, amount)
      PROVE  Goal
  BY <1>1, <1>4 DEF bond, bond_extra, unbond, rebond
<1>5. ASSUME NEW d \in Delegators, unbond_all(d) \/ liquidize(d) \/ chill(d) PROVE Goal
  BY <1>1, <1>5 DEF unbond_all, liquidize, chill
<1>6. ASSUME NEW d \in Delegators, NEW amount \in Amounts,
             transfer_back(d, amount) \/ transfer_to(d, amount)
      PROVE  Goal
  BY <1>2, <1>6 DEF transfer_back, transfer_to
<1>7. ASSUME NEW d \in Delegators, payout(d) PROVE Goal
  BY <1>2, <1>7 DEF payout
<1>8. ASSUME NEW d \in Delegators, NEW targets \in SUBSET Validators,
             delegate(d, targets) \/ undelegate(d, targets)
      PROVE  Goal
  <2>1. \E new \in SUBSET Validators : nominate(d, new)
    <3>1. ValidatorsByDelegator[d] \ targets \in SUBSET Validators
      BY <1>0, DelegatorFacts DEF TypeOK
    <3> QED BY <1>8, <3>1 DEF delegate, undelegate
  <2> QED BY <2>1, NominationsNominate
<1>9. ASSUME NEW d \in Delegators, NEW copy \in BOOLEAN, set_delegator_ledger(d, copy) PROVE Goal
  <2>1. UNCHANGED <<channel, relay, ValidatorsQueue, outcome, ValidatorsByDelegator>>
    BY <1>9 DEF set_delegator_ledger, queries
  <2>2. spoiled'["noms"] = spoiled["noms"]
    <3>1. CASE copy /\ PendingOf(d) = {} /\ ~InFlight(d)
      BY <1>0, <1>9, <3>1 DEF set_delegator_ledger, TypeOK, LedgerTypes, Kinds
    <3>2. CASE ~(copy /\ PendingOf(d) = {} /\ ~InFlight(d))
      <4>1. spoiled' = SpoilIf(TRUE, "stake", d)
        BY <1>9, <3>2 DEF set_delegator_ledger
      <4> QED BY <1>0, <4>1, SpoilFacts DEF Kinds
    <3> QED BY <3>1, <3>2
  <2> QED BY <1>3, <2>1, <2>2
<1>10. ASSUME NEW d \in Delegators, NEW v, NEW w,
              remove_delegator(d) \/ tune_vtoken_exchange_rate(d, v, w)
       PROVE  Goal
  <2>1. UNCHANGED <<channel, relay, ValidatorsQueue, outcome, ValidatorsByDelegator>>
    BY <1>10 DEF remove_delegator, tune_vtoken_exchange_rate, queries
  <2>2. \/ spoiled' = SpoilIf(PendingOf(d) # {} \/ unreported[d] > 0, "stake", d)
        \/ spoiled' = SpoilIf(w > unreported[d], "stake", d)
    BY <1>10 DEF remove_delegator, tune_vtoken_exchange_rate
  <2>3. spoiled'["noms"] = spoiled["noms"]
    BY <1>0, <2>2 DEF SpoilIf, Kinds, TypeOK, LedgerTypes
  <2> QED BY <1>3, <2>1, <2>3
<1>11. ASSUME NEW d, NEW t,
              \/ add_delegator(d) \/ initialize_delegator
              \/ tick \/ new_era \/ update_ongoing_time_unit(t)
       PROVE  Goal
  <2>1. UNCHANGED <<channel, relay, ValidatorsQueue, outcome, ValidatorsByDelegator, spoiled>>
    BY <1>11 DEF add_delegator, initialize_delegator, inner_add_delegator, tick, new_era,
                 update_ongoing_time_unit, queries
  <2> QED BY <1>3, <2>1
<1>12. ASSUME NEW d \in Delegators, NEW targets \in SUBSET Validators,
              set_validators_by_delegator(d, targets)
       PROVE  Goal
  BY <1>12, NominationsSet
<1>13. ASSUME NEW q \in DOMAIN LedgerQueue, NEW success \in BOOLEAN,
              confirm_delegator_ledger(q, success)
       PROVE  Goal
  BY <1>13, NominationsLedger
<1>14. ASSUME NEW q \in DOMAIN ValidatorsQueue, NEW success \in BOOLEAN,
              confirm_validators_by_delegator(q, success)
       PROVE  Goal
  BY <1>14, NominationsConfirm
<1>15. ASSUME relay_runs PROVE Goal
  BY <1>15, NominationsRun
<1>16. ASSUME NEW v \in Rewards, relay_pays(v) PROVE Goal
  BY <1>16, NominationsPay
<1>17. ASSUME UNCHANGED vars PROVE Goal
  BY <1>3, <1>17 DEF vars, queries
<1> HIDE DEF Goal
<1>18. Goal
  BY <1>4, <1>5, <1>6, <1>7, <1>8, <1>9, <1>10, <1>11, <1>12, <1>13, <1>14, <1>15, <1>16, <1>17
  DEF Next
<1> QED BY <1>0, <1>18 DEF NominationsInv, Goal

(* NominationsMirror: when no nomination waits for its answer, the stored  *)
(* validators (confirm_validators_by_delegator, set_validators_by_-        *)
(* delegator) are the ones the other chain has, in whatever order answers, *)
(* corrections and removals came.                                          *)
THEOREM NominationsAgree == Spec => []NominationsMirror
<1>1. Init => NominationsInv
  <2> SUFFICES ASSUME Init PROVE NominationsInv
    OBVIOUS
  <2>1. TypeOK
    BY InitTypeOK
  <2>2. channel = <<>> /\ DOMAIN channel = {} /\ DOMAIN ValidatorsQueue = {}
    BY DEF Init
  <2>3. QueriesOK
    BY <2>2 DEF QueriesOK
  <2>4. \A d \in Delegators : NominationsKnown(d)
    <3>1. \A d \in Delegators : relay[d].noms = {} /\ ValidatorsByDelegator[d] = {}
      BY DEF Init
    <3>2. \A d \in Delegators : NominationsOf(d) = {}
      BY <2>2 DEF NominationsOf
    <3> QED BY <2>2, <3>1, <3>2 DEF NominationsKnown
  <2> QED BY <2>1, <2>3, <2>4 DEF NominationsInv
<1>2. NominationsInv => NominationsMirror
  BY DEF NominationsInv, NominationsMirror, NominationsKnown
<1> QED BY <1>1, <1>2, NominationsStep, PTL DEF Spec

-----------------------------------------------------------------------------
(* The stakes on the other chain and the ledgers, each for itself.         *)

(* No chunk comes free after h.                                            *)
Within(s, h) == \A i \in DOMAIN s : s[i].time <= h

(* Chunks on the other chain hold something and are in the order of their  *)
(* times; a stash with nothing staked is gone.                             *)
Sound(r, h) ==
  /\ Within(r.unlocking, h)
  /\ \A i \in DOMAIN r.unlocking : r.unlocking[i].value > 0
  /\ \A i, j \in DOMAIN r.unlocking : i < j => r.unlocking[i].time <= r.unlocking[j].time
  /\ r.bonded <=> r.active > 0 \/ r.unlocking # <<>>

RelaySound == \A d \in Delegators : Sound(relay[d], era + UnlockDelay)

(* No chunk of a ledger or of a queued unlock is of a later era.           *)
TimesSound ==
  /\ \A d \in Delegators : Within(DelegatorLedgers[d].unlocking, era + UnlockDelay)
  /\ \A q \in DOMAIN LedgerQueue : LedgerQueue[q].time <= era + UnlockDelay

LEMMA SoundOrdered ==
  ASSUME NEW r, NEW h, Sound(r, h)
  PROVE  Ordered(r.unlocking)
BY DEF Sound, Ordered

(* Chunks taken back leave the others as they were.                        *)
LEMMA SoundRebonded ==
  ASSUME NEW r \in Stakes, NEW h, Sound(r, h), NEW a \in Nat, NEW q \in Stakes,
         r.bonded, r.unlocking # <<>>, q.bonded = r.bonded,
         q.unlocking = Rebonded(r.unlocking, a),
         q.active = r.active + (IF a <= Unlocking(r.unlocking) THEN a ELSE Unlocking(r.unlocking))
  PROVE  Sound(q, h)
<1> DEFINE s == r.unlocking
           u == q.unlocking
<1>1. s \in Seq(Chunks) /\ u \in Seq(Chunks) /\ r.active \in Nat /\ q.active \in Nat
  BY StakeFacts
<1>2. /\ Len(u) \in Nat /\ Len(s) \in Nat /\ Len(u) <= Len(s)
      /\ \A i \in 1..Len(u) : u[i].time = s[i].time /\ (s[i].value = 0 <=> u[i].value = 0)
      /\ \A i \in 1..Len(s) : i <= Len(u) <=> From(s, i) > a
  <2>1. Len(u) \in Nat /\ Len(s) \in Nat
    BY <1>1
  <2>2. u = Rebonded(s, a)
    OBVIOUS
  <2> HIDE DEF u, s
  <2> QED BY ONLY <1>1, <2>1, <2>2, a \in Nat, RebondedEffect
<1>3. DOMAIN s = 1..Len(s) /\ DOMAIN u = 1..Len(u) /\ DOMAIN u \subseteq DOMAIN s
  BY <1>1, <1>2
<1>4. \A i \in DOMAIN u : u[i].value \in Nat /\ s[i].value \in Nat
  BY <1>1, <1>3, ChunkFacts
<1>5. Within(u, h)
  BY <1>2, <1>3 DEF Sound, Within
<1>6. \A i \in DOMAIN u : u[i].value > 0
  BY <1>2, <1>3, <1>4 DEF Sound
<1>7. \A i, j \in DOMAIN u : i < j => u[i].time <= u[j].time
  BY <1>2, <1>3 DEF Sound
<1>8. 1 \in 1..Len(s) /\ Len(s) # 0
  BY <1>1
<1>9. s[1].value > 0 /\ s[1].value \in Nat
  BY <1>1, <1>3, <1>8, ChunkFacts DEF Sound
<1>10. /\ From(s, 1) = s[1].value + From(s, 1 + 1) /\ From(s, 1 + 1) \in Nat
       /\ From(s, 1) = Unlocking(s)
  BY <1>1, <1>8, FromStep
<1>11. Unlocking(s) > 0 /\ Unlocking(s) \in Nat
  BY <1>9, <1>10
<1>12. CASE a = 0
  <2>1. 1 <= Len(u)
    BY <1>2, <1>8, <1>10, <1>11, <1>12
  <2>2. u # <<>>
    BY <2>1
  <2> QED BY <1>5, <1>6, <1>7, <2>2 DEF Sound
<1>13. CASE a # 0
  <2>1. q.active > 0
    BY <1>1, <1>11, <1>13
  <2> QED BY <1>5, <1>6, <1>7, <2>1 DEF Sound
<1> QED BY <1>12, <1>13

LEMMA SoundNotDue ==
  ASSUME NEW r \in Stakes, NEW h, Sound(r, h), NEW t \in Int, NEW q \in Stakes,
         q.unlocking = NotDue(r.unlocking, t), q.active = r.active,
         q.bonded <=> r.active > 0 \/ q.unlocking # <<>>
  PROVE  Sound(q, h)
<1> DEFINE s == r.unlocking
           u == q.unlocking
           k == DueCount(s, t)
<1>1. s \in Seq(Chunks) /\ u \in Seq(Chunks)
  BY StakeFacts
<1>2. k \in 0..Len(s)
  BY <1>1, DueCountFacts
<1>3. Len(u) = Len(s) - k /\ \A i \in 1..Len(u) : u[i] = s[i + k]
  BY <1>1, <1>2, NotDueFrom DEF NotDue
<1> HIDE DEF k
<1>4. \A i \in DOMAIN u : i \in Int /\ i + k \in DOMAIN s /\ u[i] = s[i + k]
  BY <1>1, <1>2, <1>3, SMTT(30)
<1>5. Within(u, h) /\ \A i \in DOMAIN u : u[i].value > 0
  BY <1>4 DEF Sound, Within
<1>6. \A i, j \in DOMAIN u : i < j => u[i].time <= u[j].time
  <2>1. \A i, j \in DOMAIN u : i < j => i + k < j + k
    BY <1>2, <1>4
  <2> QED BY <1>4, <2>1 DEF Sound
<1> QED BY <1>5, <1>6 DEF Sound

LEMMA SoundAppend ==
  ASSUME NEW r \in Stakes, NEW h \in TimeUnits, Sound(r, h), NEW a \in Nat, a > 0, NEW q \in Stakes,
         q.unlocking = Append(r.unlocking, Chunk(a, h)), q.bonded
  PROVE  Sound(q, h)
<1> DEFINE s == r.unlocking
           u == q.unlocking
           n == Len(s) + 1
<1>1. s \in Seq(Chunks)
  BY StakeFacts
<1>2. h \in Int
  BY ConstantFacts
<1>3. /\ DOMAIN u = DOMAIN s \cup {n} /\ u[n] = Chunk(a, h) /\ u # <<>>
      /\ \A i \in DOMAIN s : u[i] = s[i] /\ i < n
  BY <1>1
<1>4. Chunk(a, h).value = a /\ Chunk(a, h).time = h
  BY DEF Chunk
<1>5. Within(u, h) /\ \A i \in DOMAIN u : u[i].value > 0
  BY <1>2, <1>3, <1>4 DEF Sound, Within
<1>6. \A i, j \in DOMAIN u : i < j => u[i].time <= u[j].time
  <2>1. \A i \in DOMAIN s : s[i].time <= h
    BY DEF Sound, Within
  <2>2. \A j \in DOMAIN s : ~(n < j)
    BY <1>1
  <2>3. n \in Nat /\ ~(n < n)
    BY <1>1
  <2> QED BY <1>3, <1>4, <2>1, <2>2, <2>3 DEF Sound
<1> QED BY <1>3, <1>5, <1>6 DEF Sound

(* Whatever call succeeds, and whether or not it was ours.                 *)
LEMMA SoundAfter ==
  ASSUME TypeOK, NEW m \in Messages, NEW r \in Stakes, Succeeds(m, r),
         m.call # "payout_stakers", Sound(r, era + UnlockDelay)
  PROVE  Sound(After(m, r), era + UnlockDelay)
<1> DEFINE h == era + UnlockDelay
           q == After(m, r)
<1>0. /\ era \in 0..MaxEra /\ era \in Int /\ h \in TimeUnits
  BY ClockFacts DEF TypeOK, ClockTypes
<1>1. q \in Stakes
  BY <1>0, AfterEffect
<1>2. /\ r.free \in Nat /\ r.active \in Nat /\ m.amount \in Nat /\ m.call \in RelayCalls
      /\ r.unlocking \in Seq(Chunks) /\ q.active \in Nat
  BY <1>1, StakeFacts, MessageFacts
<1>3. Sound(r, h) /\ Min({m.amount, r.free}) \in Nat
  BY <1>2, MinOfTwo
<1>4. CASE m.call = "bond"
  <2>1. q.bonded /\ q.unlocking = r.unlocking /\ q.active = r.active + Min({m.amount, r.free})
    BY <1>4 DEF After, Stakes
  <2>2. Min({m.amount, r.free}) > 0
    BY <1>4 DEF Succeeds
  <2>3. q.active > 0
    BY <1>2, <1>3, <2>1, <2>2
  <2> QED BY <1>3, <2>1, <2>3 DEF Sound
<1>5. CASE m.call = "bond_extra"
  <2>1. q.bonded /\ q.unlocking = r.unlocking /\ q.active = r.active + Min({m.amount, r.free})
    BY <1>5 DEF After, Stakes
  <2>2. r.bonded
    BY <1>5 DEF Succeeds
  <2>3. r.active > 0 => q.active > 0
    BY <1>2, <1>3, <2>1
  <2> QED BY <1>3, <2>1, <2>2, <2>3 DEF Sound
<1>6. CASE m.call = "unbond"
  <2> DEFINE cut == IF m.amount <= r.active THEN m.amount ELSE r.active
  <2>1. q = [r EXCEPT !.active = r.active - cut,
                      !.unlocking = IF cut = 0 THEN r.unlocking
                                    ELSE Append(r.unlocking, Chunk(cut, era + UnlockDelay))]
    BY <1>0, <1>6, AfterEffect
  <2>2. cut \in Nat /\ r.bonded
    BY <1>2, <1>6 DEF Succeeds
  <2> HIDE DEF cut, q
  <2>3. CASE cut = 0
    <3>1. q.bonded = r.bonded /\ q.unlocking = r.unlocking /\ q.active = r.active
      BY <1>2, <2>1, <2>3 DEF Stakes
    <3> QED BY <1>3, <3>1 DEF Sound, q
  <2>4. CASE cut # 0
    <3>1. q.bonded /\ q.unlocking = Append(r.unlocking, Chunk(cut, h))
      BY <1>2, <2>1, <2>2, <2>4 DEF Stakes
    <3>2. cut > 0
      BY <2>2, <2>4
    <3> HIDE DEF h
    <3> QED BY <1>0, <1>1, <1>3, <2>2, <3>1, <3>2, SoundAppend DEF q, h
  <2> QED BY <2>3, <2>4
<1>7. CASE m.call = "rebond"
  <2> DEFINE back == IF m.amount <= Unlocking(r.unlocking) THEN m.amount ELSE Unlocking(r.unlocking)
  <2>1. q = [r EXCEPT !.active = r.active + back, !.unlocking = Rebonded(r.unlocking, m.amount)]
    BY <1>0, <1>7, AfterEffect
  <2>2. /\ q.bonded = r.bonded /\ q.unlocking = Rebonded(r.unlocking, m.amount)
        /\ q.active = r.active + back
    BY <2>1 DEF Stakes
  <2>3. r.bonded /\ r.unlocking # <<>>
    BY <1>7 DEF Succeeds
  <2> HIDE DEF q, h
  <2> QED BY <1>1, <1>2, <1>3, <2>2, <2>3, SoundRebonded DEF q, h
<1>8. CASE m.call = "withdraw_unbonded"
  <2>1. q = Withdrawn(r)
    BY <1>0, <1>8, AfterEffect
  <2>2. /\ q.unlocking = NotDue(r.unlocking, era) /\ q.active = r.active
        /\ q.bonded <=> r.active > 0 \/ q.unlocking # <<>>
    BY <2>1 DEF Withdrawn, Stakes
  <2> HIDE DEF q, h
  <2> QED BY <1>0, <1>1, <1>3, <2>2, SoundNotDue DEF q, h
<1>9. CASE m.call \in {"chill", "nominate", "transfer_back", "deposit"}
  <2>1. q.bonded = r.bonded /\ q.unlocking = r.unlocking /\ q.active = r.active
    BY <1>9 DEF After, Stakes
  <2> QED BY <1>3, <2>1 DEF Sound
<1> QED BY <1>2, <1>4, <1>5, <1>6, <1>7, <1>8, <1>9 DEF RelayCalls

(* A later horizon.                                                        *)
LEMMA SoundLater ==
  ASSUME NEW h \in Int, NEW k \in Int, h <= k
  PROVE  /\ \A s \in Seq(Chunks) : Within(s, h) => Within(s, k)
         /\ \A r \in Stakes : Sound(r, h) => Sound(r, k)
<1>1. ASSUME NEW s \in Seq(Chunks), Within(s, h) PROVE Within(s, k)
  BY <1>1, ChunkFacts DEF Within
<1>2. ASSUME NEW r \in Stakes, Sound(r, h) PROVE Sound(r, k)
  BY <1>1, <1>2, StakeFacts DEF Sound
<1> QED BY <1>1, <1>2

LEMMA AppliedWithin ==
  ASSUME NEW l \in Ledgers, NEW e \in Entries, CanApply(l, e), NEW h \in Int,
         Within(l.unlocking, h), e.time <= h
  PROVE  Within(Applied(l, e).unlocking, h)
<1> DEFINE s == l.unlocking
           u == Applied(l, e).unlocking
<1>1. s \in Seq(Chunks) /\ e.op \in Operations /\ e.amount \in Nat /\ e.time \in Int
  BY LedgerFacts, EntryFacts
<1>2. CASE e.op = "Bond"
  BY <1>2, AppliedEffect
<1>3. CASE e.op = "Unlock"
  <2>1. u = Append(s, Chunk(e.amount, e.time)) /\ Chunk(e.amount, e.time).time = e.time
    BY <1>3, AppliedEffect DEF Chunk
  <2>2. /\ DOMAIN u = DOMAIN s \cup {Len(s) + 1} /\ u[Len(s) + 1] = Chunk(e.amount, e.time)
        /\ \A i \in DOMAIN s : u[i] = s[i]
    BY <1>1, <2>1
  <2> QED BY <2>1, <2>2 DEF Within
<1>4. CASE e.op = "Rebond"
  <2>1. u = Rebonded(s, e.amount)
    BY <1>4, AppliedEffect
  <2> HIDE DEF u, s
  <2>2. u \in Seq(Chunks) /\ Len(u) <= Len(s) /\ \A i \in 1..Len(u) : u[i].time = s[i].time
    BY ONLY <1>1, <2>1, RebondedEffect
  <2>3. DOMAIN u = 1..Len(u) /\ DOMAIN u \subseteq DOMAIN s
    BY <1>1, <2>2
  <2> QED BY <2>2, <2>3 DEF Within, u, s
<1>5. CASE e.op = "Liquidize"
  <2> DEFINE k == DueCount(s, e.time)
  <2>1. u = SubSeq(s, k + 1, Len(s))
    BY <1>5, AppliedEffect DEF NotDue
  <2>2. k \in 0..Len(s)
    BY <1>1, DueCountFacts
  <2> HIDE DEF u, s, k
  <2>3. u \in Seq(Chunks) /\ Len(u) = Len(s) - k /\ \A i \in 1..Len(u) : u[i] = s[i + k]
    BY <1>1, <2>1, <2>2, NotDueFrom
  <2>4. \A i \in DOMAIN u : i + k \in DOMAIN s /\ u[i] = s[i + k]
    BY <1>1, <2>2, <2>3
  <2> QED BY <2>4 DEF Within, u, s
<1> QED BY <1>1, <1>2, <1>3, <1>4, <1>5 DEF Operations

LEMMA RelaySoundStep == TypeOK /\ RelaySound /\ [Next]_vars => RelaySound'
<1> SUFFICES ASSUME TypeOK, RelaySound, [Next]_vars PROVE RelaySound'
  OBVIOUS
<1>0. era \in Int /\ UnlockDelay \in Nat /\ \A d \in Delegators : relay[d] \in Stakes
  BY ClockFacts, ConstantFacts, DelegatorFacts DEF TypeOK
<1>1. ASSUME UNCHANGED <<relay, era>> PROVE RelaySound'
  BY <1>1 DEF RelaySound
<1>2. ASSUME NEW d \in Delegators, NEW amount \in Amounts,
             \/ bond(d, amount) \/ bond_extra(d, amount) \/ unbond(d, amount)
             \/ rebond(d, amount) \/ transfer_back(d, amount) \/ transfer_to(d, amount)
      PROVE  RelaySound'
  <2>1. UNCHANGED <<relay, era>>
    BY <1>2 DEF bond, bond_extra, unbond, rebond, transfer_back, transfer_to, request, send,
                send_with_query, clocks
  <2> QED BY <1>1, <2>1
<1>3. ASSUME NEW d \in Delegators, NEW targets \in SUBSET Validators,
             \/ delegate(d, targets) \/ undelegate(d, targets)
             \/ set_validators_by_delegator(d, targets)
      PROVE  RelaySound'
  <2>1. UNCHANGED <<relay, era>>
    BY <1>3 DEF delegate, undelegate, nominate, send_with_query, set_validators_by_delegator,
                clocks
  <2> QED BY <1>1, <2>1
<1>4. ASSUME NEW d \in Delegators, NEW copy \in BOOLEAN, NEW v, NEW w,
             \/ unbond_all(d) \/ liquidize(d) \/ chill(d) \/ payout(d) \/ remove_delegator(d)
             \/ set_delegator_ledger(d, copy) \/ tune_vtoken_exchange_rate(d, v, w)
      PROVE  RelaySound'
  <2>1. UNCHANGED <<relay, era>>
    BY <1>4 DEF unbond_all, liquidize, chill, payout, request, send, send_with_query,
                remove_delegator, set_delegator_ledger, tune_vtoken_exchange_rate, clocks
  <2> QED BY <1>1, <2>1
<1>5. ASSUME NEW q, NEW success, NEW d, NEW t,
             \/ confirm_delegator_ledger(q, success)
             \/ confirm_validators_by_delegator(q, success)
             \/ add_delegator(d) \/ initialize_delegator \/ tick \/ update_ongoing_time_unit(t)
      PROVE  RelaySound'
  <2>1. UNCHANGED <<relay, era>>
    BY <1>5 DEF confirm_delegator_ledger, confirm_validators_by_delegator, add_delegator,
                initialize_delegator, inner_add_delegator, tick, update_ongoing_time_unit, clocks
  <2> QED BY <1>1, <2>1
<1>6. ASSUME new_era PROVE RelaySound'
  <2>1. era' = era + 1 /\ relay' = relay
    BY <1>6 DEF new_era
  <2>2. era + UnlockDelay \in Int /\ era' + UnlockDelay \in Int
        /\ era + UnlockDelay <= era' + UnlockDelay
    BY <1>0, <2>1
  <2>3. \A r \in Stakes : Sound(r, era + UnlockDelay) => Sound(r, era' + UnlockDelay)
    BY <2>2, SoundLater
  <2>4. \A d \in Delegators : Sound(relay'[d], era' + UnlockDelay)
    BY <1>0, <2>1, <2>3 DEF RelaySound
  <2> QED BY <2>4 DEF RelaySound
<1>7. ASSUME relay_runs PROVE RelaySound'
  <2> DEFINE m == Head(channel)
             r == relay[m.who]
  <2>1. /\ m.call # "payout_stakers" /\ era' = era
        /\ relay' = IF Succeeds(m, r) THEN [relay EXCEPT ![m.who] = After(m, r)] ELSE relay
    BY <1>7 DEF relay_runs, clocks
  <2>2. m \in Messages /\ m.who \in Delegators /\ r \in Stakes
    BY <1>0, <1>7, RelayRunsType
  <2> HIDE DEF m
  <2>3. Succeeds(m, r) => Sound(After(m, r), era + UnlockDelay)
    BY <2>1, <2>2, SoundAfter DEF RelaySound
  <2>4. relay \in [Delegators -> Stakes]
    BY DEF TypeOK, LedgerTypes
  <2>5. \A d \in Delegators : Sound(relay'[d], era + UnlockDelay)
    BY <2>1, <2>2, <2>3, <2>4 DEF RelaySound
  <2> QED BY <2>1, <2>5 DEF RelaySound
<1>8. ASSUME NEW v \in Rewards, relay_pays(v) PROVE RelaySound'
  <2> DEFINE d == Head(channel).who
             r == relay[d]
             q == [r EXCEPT !.active = r.active + v]
  <2>1. /\ d \in Delegators /\ relay' = [relay EXCEPT ![d] = q]
        /\ era' = era /\ (v > 0 => r.bonded) /\ v \in Nat
    BY <1>8, RelayPaysType, ConstantFacts DEF relay_pays, clocks
  <2> HIDE DEF d
  <2>2. r \in Stakes /\ r.active \in Nat
    BY <1>0, <2>1, StakeFacts
  <2>3. q.active = r.active + v /\ q.unlocking = r.unlocking /\ q.bonded = r.bonded
    BY <2>2 DEF Stakes
  <2>4. Sound(r, era + UnlockDelay)
    BY <2>1 DEF RelaySound
  <2> HIDE DEF q
  <2>5. q.active > 0 <=> r.active > 0 \/ v > 0
    BY <2>1, <2>2, <2>3
  <2>6. Sound(q, era + UnlockDelay)
    BY <2>1, <2>3, <2>4, <2>5 DEF Sound
  <2>7. relay \in [Delegators -> Stakes]
    BY DEF TypeOK, LedgerTypes
  <2>8. \A b \in Delegators : Sound(relay'[b], era + UnlockDelay)
    BY <2>1, <2>6, <2>7 DEF RelaySound
  <2> QED BY <2>1, <2>8 DEF RelaySound
<1>9. ASSUME UNCHANGED vars PROVE RelaySound'
  BY <1>1, <1>9 DEF vars, clocks
<1> QED BY <1>2, <1>3, <1>4, <1>5, <1>6, <1>7, <1>8, <1>9 DEF Next

LEMMA TimesSoundStep == TypeOK /\ RelaySound /\ TimesSound /\ [Next]_vars => TimesSound'
<1> SUFFICES ASSUME TypeOK, RelaySound, TimesSound, [Next]_vars PROVE TimesSound'
  OBVIOUS
<1> DEFINE h == era + UnlockDelay
<1>0. /\ era \in Int /\ UnlockDelay \in Nat /\ h \in Int /\ time_unit + UnlockDelay \in Int
      /\ time_unit + UnlockDelay <= h
  BY ClockFacts, ConstantFacts DEF TypeOK
<1>1. Within(<<>>, h) /\ Within(NoLedger.unlocking, h)
  BY NoLedgerFacts DEF Within
<1>2. DelegatorLedgers \in [Delegators -> Ledgers \cup {NoLedger}]
  BY DEF TypeOK, LedgerTypes
<1>3. ASSUME UNCHANGED <<era, LedgerQueue>>, NEW d \in Delegators, NEW l,
             DelegatorLedgers' = [DelegatorLedgers EXCEPT ![d] = l], Within(l.unlocking, h)
      PROVE  TimesSound'
  BY <1>2, <1>3 DEF TimesSound
<1>4. ASSUME UNCHANGED <<era, DelegatorLedgers, LedgerQueue>> PROVE TimesSound'
  BY <1>4 DEF TimesSound
<1>5. ASSUME NEW call, NEW op, NEW d, NEW amount, request(call, op, d, amount),
             \A b \in Delegators : Within(DelegatorLedgers'[b].unlocking, h)
      PROVE  TimesSound'
  <2>1. /\ era' = era /\ DOMAIN LedgerQueue' = DOMAIN LedgerQueue \cup {nextQuery}
        /\ LedgerQueue'[nextQuery].time = unlock_time(op)
        /\ \A q \in DOMAIN LedgerQueue : q # nextQuery => LedgerQueue'[q] = LedgerQueue[q]
    BY <1>5 DEF request, send_with_query, clocks, Put
  <2>2. unlock_time(op) <= time_unit + UnlockDelay /\ unlock_time(op) \in Nat
    BY UnlockTimeType DEF TypeOK
  <2>3. unlock_time(op) <= h
    BY <1>0, <2>2
  <2>4. \A q \in DOMAIN LedgerQueue' : LedgerQueue'[q].time <= h
    BY <2>1, <2>3 DEF TimesSound
  <2> QED BY <1>5, <2>1, <2>4 DEF TimesSound
<1>6. ASSUME NEW d \in Delegators, NEW amount \in Amounts, bond(d, amount) PROVE TimesSound'
  <2> DEFINE new == [total |-> 0, active |-> 0, unlocking |-> <<>>]
  <2>1. /\ request("bond", "Bond", d, amount)
        /\ DelegatorLedgers' = [DelegatorLedgers EXCEPT ![d] = new] /\ new.unlocking = <<>>
    BY <1>6 DEF bond
  <2> HIDE DEF new
  <2>2. \A b \in Delegators : Within(DelegatorLedgers'[b].unlocking, h)
    BY <1>1, <1>2, <2>1 DEF TimesSound
  <2> QED BY <1>5, <2>1, <2>2
<1>7. ASSUME NEW d \in Delegators, NEW amount \in Amounts,
             bond_extra(d, amount) \/ unbond(d, amount) \/ rebond(d, amount)
      PROVE  TimesSound'
  BY <1>5, <1>7 DEF bond_extra, unbond, rebond, TimesSound
<1>8. ASSUME NEW d \in Delegators, unbond_all(d) \/ liquidize(d) \/ chill(d) PROVE TimesSound'
  BY <1>5, <1>8 DEF unbond_all, liquidize, chill, TimesSound
<1>9. ASSUME NEW d \in Delegators, NEW amount, NEW targets,
             \/ transfer_back(d, amount) \/ transfer_to(d, amount) \/ payout(d)
             \/ delegate(d, targets) \/ undelegate(d, targets)
             \/ set_validators_by_delegator(d, targets)
      PROVE  TimesSound'
  <2>1. UNCHANGED <<era, DelegatorLedgers, LedgerQueue>>
    BY <1>9 DEF transfer_back, transfer_to, payout, send, delegate, undelegate, nominate,
                send_with_query, set_validators_by_delegator, clocks, queries
  <2> QED BY <1>4, <2>1
<1>10. ASSUME NEW d \in Delegators, remove_delegator(d) PROVE TimesSound'
  <2>1. /\ UNCHANGED <<era, LedgerQueue>>
        /\ DelegatorLedgers' = [DelegatorLedgers EXCEPT ![d] = NoLedger]
    BY <1>10 DEF remove_delegator, clocks, queries
  <2> QED BY <1>1, <1>3, <2>1
<1>11. ASSUME NEW d \in Delegators, NEW copy \in BOOLEAN, set_delegator_ledger(d, copy)
       PROVE  TimesSound'
  <2> DEFINE new == [total |-> relay[d].active + Unlocking(relay[d].unlocking),
                     active |-> relay[d].active, unlocking |-> relay[d].unlocking]
  <2>1. /\ UNCHANGED <<era, LedgerQueue>>
        /\ DelegatorLedgers' = [DelegatorLedgers EXCEPT ![d] = IF copy THEN new ELSE NoLedger]
    BY <1>11 DEF set_delegator_ledger, clocks, queries
  <2>2. Within(new.unlocking, h)
    BY DEF RelaySound, Sound
  <2> HIDE DEF new
  <2>3. Within((IF copy THEN new ELSE NoLedger).unlocking, h)
    BY <1>1, <2>2
  <2> QED BY <1>3, <2>1, <2>3
<1>12. ASSUME NEW d \in Delegators, NEW v \in PoolValues, NEW w \in Rewards \ {0},
              tune_vtoken_exchange_rate(d, v, w)
       PROVE  TimesSound'
  <2> DEFINE l == DelegatorLedgers[d]
             new == [l EXCEPT !.active = l.active + w, !.total = l.total + w]
  <2>1. /\ UNCHANGED <<era, LedgerQueue>> /\ l \in Ledgers
        /\ DelegatorLedgers' = [DelegatorLedgers EXCEPT ![d] = new]
    BY <1>12, TuneType DEF tune_vtoken_exchange_rate, clocks, queries
  <2>2. new.unlocking = l.unlocking
    BY <2>1 DEF Ledgers
  <2>3. Within(new.unlocking, h)
    BY <2>2 DEF TimesSound
  <2> HIDE DEF new
  <2> QED BY <1>3, <2>1, <2>3
<1>13. ASSUME NEW q \in DOMAIN LedgerQueue, NEW success \in BOOLEAN,
              confirm_delegator_ledger(q, success)
       PROVE  TimesSound'
  <2> DEFINE e == LedgerQueue[q]
             l == DelegatorLedgers[e.who]
  <2>1. /\ era' = era /\ LedgerQueue' = Without(LedgerQueue, q)
        /\ \/ DelegatorLedgers' = DelegatorLedgers
           \/ /\ CanApply(l, e)
              /\ DelegatorLedgers' = [DelegatorLedgers EXCEPT ![e.who] = Applied(l, e)]
    BY <1>13 DEF confirm_delegator_ledger, clocks
  <2>2. e \in Entries /\ e.who \in Delegators
    BY QueryFacts, EntryFacts
  <2>3. \A p \in DOMAIN LedgerQueue' : LedgerQueue'[p].time <= h
    BY <2>1 DEF Without, TimesSound
  <2>4. CASE CanApply(l, e)
    <3>1. l \in Ledgers
      BY <2>2, <2>4, DelegatorFacts DEF CanApply, TypeOK
    <3>2. Within(Applied(l, e).unlocking, h)
      BY <1>0, <2>2, <2>4, <3>1, AppliedWithin DEF TimesSound
    <3>3. \A b \in Delegators : Within(DelegatorLedgers'[b].unlocking, h)
      BY <1>2, <2>1, <2>2, <3>2 DEF TimesSound
    <3> QED BY <2>1, <2>3, <3>3 DEF TimesSound
  <2>5. CASE ~CanApply(l, e)
    BY <2>1, <2>3, <2>5 DEF TimesSound
  <2> QED BY <2>4, <2>5
<1>14. ASSUME NEW q, NEW success, NEW d, NEW t, NEW v,
              \/ confirm_validators_by_delegator(q, success) \/ add_delegator(d)
              \/ initialize_delegator \/ tick \/ update_ongoing_time_unit(t)
              \/ relay_runs \/ relay_pays(v)
       PROVE  TimesSound'
  <2>1. UNCHANGED <<era, DelegatorLedgers, LedgerQueue>>
    BY <1>14 DEF confirm_validators_by_delegator, add_delegator, initialize_delegator,
                 inner_add_delegator, tick, update_ongoing_time_unit, relay_runs, relay_pays,
                 clocks, queries
  <2> QED BY <1>4, <2>1
<1>15. ASSUME new_era PROVE TimesSound'
  <2>1. era' = era + 1 /\ UNCHANGED <<DelegatorLedgers, LedgerQueue>>
    BY <1>15 DEF new_era, queries
  <2>2. era' + UnlockDelay \in Int /\ h <= era' + UnlockDelay
    BY <1>0, <2>1
  <2> HIDE DEF h
  <2>3. \A d \in Delegators : Within(DelegatorLedgers[d].unlocking, era' + UnlockDelay)
    BY <1>0, <2>2, SoundLater, DelegatorFacts DEF TypeOK, TimesSound, h
  <2>4. \A q \in DOMAIN LedgerQueue : LedgerQueue[q].time <= era' + UnlockDelay
    <3>1. \A q \in DOMAIN LedgerQueue : LedgerQueue[q].time \in Int
      BY QueryFacts, EntryFacts
    <3>2. \A q \in DOMAIN LedgerQueue : LedgerQueue[q].time <= h
      BY DEF TimesSound, h
    <3> QED BY <1>0, <2>2, <3>1, <3>2
  <2> QED BY <2>1, <2>3, <2>4 DEF TimesSound
<1>16. ASSUME UNCHANGED vars PROVE TimesSound'
  BY <1>4, <1>16 DEF vars, clocks, queries
<1> QED BY <1>6, <1>7, <1>8, <1>9, <1>10, <1>11, <1>12, <1>13, <1>14, <1>15, <1>16 DEF Next

-----------------------------------------------------------------------------
(* The ledger and the stake it mirrors.                                    *)

Horizons == 0..(MaxEra + UnlockDelay + 1)

(* The total is the sum of its parts, and chunks are in order.             *)
WellFormed(l) == l.total = l.active + Unlocking(l.unlocking) /\ Ordered(l.unlocking)

(* The stake is x ahead of the ledger; the chunks are the same, but for    *)
(* empty ones.                                                             *)
Mirrors(l, r, x) ==
  /\ l.active + x = r.active
  /\ \A t \in Horizons : LockedFrom(l.unlocking, t) = LockedFrom(r.unlocking, t)

(* The ledger has what a queued change moves.                              *)
Fits(l, e) ==
  /\ e.op = "Unlock" => e.amount <= l.active
  /\ e.op = "Rebond" => e.amount <= Unlocking(l.unlocking)
  /\ e.op # "Liquidize" => l # NoLedger

(* A change that succeeded can be booked, and keeps the chunks in order.   *)
Ripe(l, e) ==
  /\ CanApply(l, e)
  /\ e.op = "Unlock" => e.amount = 0 \/ Within(l.unlocking, e.time)

LEMMA HorizonFacts ==
  /\ Horizons \subseteq Int /\ 0 \in Horizons
  /\ \A t \in TimeUnits : t \in Int /\ t \in Horizons /\ t + 1 \in Horizons
BY SlpAssumption DEF Horizons, TimeUnits

LEMMA MirrorsUnlocking ==
  ASSUME NEW l \in Ledgers \cup {NoLedger}, NEW r \in Stakes, NEW x, Mirrors(l, r, x)
  PROVE  /\ Unlocking(l.unlocking) = Unlocking(r.unlocking) /\ Unlocking(l.unlocking) \in Nat
         /\ \A t \in TimeUnits : UnlockingAt(l.unlocking, t) = UnlockingAt(r.unlocking, t)
<1>1. l.unlocking \in Seq(Chunks) /\ r.unlocking \in Seq(Chunks)
  <2>1. l \in Ledgers => l.unlocking \in Seq(Chunks)
    BY LedgerFacts
  <2>2. <<>> \in Seq(Chunks)
    OBVIOUS
  <2>3. l = NoLedger => l.unlocking \in Seq(Chunks)
    BY <2>2, NoLedgerFacts
  <2> QED BY <2>1, <2>3, StakeFacts
<1>2. /\ LockedFrom(l.unlocking, 0) = Unlocking(l.unlocking)
      /\ LockedFrom(r.unlocking, 0) = Unlocking(r.unlocking)
  BY <1>1, LockedSteps
<1>3. ASSUME NEW t \in TimeUnits
      PROVE  UnlockingAt(l.unlocking, t) = UnlockingAt(r.unlocking, t)
  <2>1. t \in Int /\ t \in Horizons /\ t + 1 \in Horizons
    BY HorizonFacts
  <2>2. /\ LockedFrom(l.unlocking, t) = LockedFrom(r.unlocking, t)
        /\ LockedFrom(l.unlocking, t + 1) = LockedFrom(r.unlocking, t + 1)
    BY <2>1 DEF Mirrors
  <2>3. /\ UnlockingAt(l.unlocking, t) = LockedFrom(l.unlocking, t) - LockedFrom(l.unlocking, t + 1)
        /\ UnlockingAt(r.unlocking, t) = LockedFrom(r.unlocking, t) - LockedFrom(r.unlocking, t + 1)
    BY <1>1, <2>1, LockedSteps
  <2> QED BY <2>2, <2>3
<1> QED BY <1>1, <1>2, <1>3, HorizonFacts, UnlockingType DEF Mirrors

(* Booking a change keeps a ledger well formed.                            *)
LEMMA AppliedWellFormed ==
  ASSUME NEW l \in Ledgers, NEW e \in Entries, WellFormed(l), Fits(l, e), Ripe(l, e)
  PROVE  WellFormed(Applied(l, e))
<1> DEFINE s == l.unlocking
           k == Applied(l, e)
<1>0. CanApply(l, e)
  BY DEF Ripe
<1>1. /\ s \in Seq(Chunks) /\ l.active \in Nat /\ l.total \in Nat /\ Unlocking(s) \in Nat
      /\ l.total = l.active + Unlocking(s) /\ Ordered(s)
  BY LedgerFacts, UnlockingType DEF WellFormed
<1>2. e.op \in Operations /\ e.amount \in Nat /\ e.time \in TimeUnits /\ e.time \in Int
  BY EntryFacts
<1>3. CASE e.op = "Bond"
  <2>1. k.active = l.active + e.amount /\ k.total = l.total + e.amount /\ k.unlocking = s
    BY <1>0, <1>3, AppliedEffect
  <2>2. l.total + e.amount = l.active + e.amount + Unlocking(s)
    BY <1>1, <1>2
  <2> QED BY <1>1, <2>1, <2>2 DEF WellFormed
<1>4. CASE e.op = "Unlock"
  <2> DEFINE c == Chunk(e.amount, e.time)
             u == Append(s, c)
  <2>1. k.active = l.active - e.amount /\ k.total = l.total /\ k.unlocking = u
    BY <1>0, <1>4, AppliedEffect
  <2>2. c \in Chunks /\ c.value = e.amount /\ c.time = e.time /\ c.time >= 0
    BY <1>2, ConstantFacts DEF Chunk, Chunks
  <2> HIDE DEF c
  <2>3. u \in Seq(Chunks) /\ LockedFrom(u, 0) = LockedFrom(s, 0) + c.value
    BY <1>1, <2>2, AppendLocked
  <2>4. Unlocking(u) = Unlocking(s) + e.amount
    BY <1>1, <2>2, <2>3, LockedSteps
  <2>5. Ordered(u)
    <3>1. /\ DOMAIN u = DOMAIN s \cup {Len(s) + 1} /\ u[Len(s) + 1] = c
          /\ \A i \in DOMAIN s : u[i] = s[i] /\ ~(Len(s) + 1 < i)
          /\ ~(Len(s) + 1 < Len(s) + 1)
      BY <1>1
    <3>2. e.amount = 0 \/ \A i \in DOMAIN s : s[i].time <= e.time
      BY <1>4 DEF Ripe, Within
    <3> QED BY <1>1, <2>2, <3>1, <3>2 DEF Ordered
  <2>6. e.amount <= l.active
    BY <1>4 DEF Fits
  <2> HIDE DEF u
  <2>7. l.total = (l.active - e.amount) + (Unlocking(s) + e.amount)
    BY <1>1, <1>2, <2>6
  <2> QED BY <2>1, <2>4, <2>5, <2>7 DEF WellFormed
<1>5. CASE e.op = "Rebond"
  <2> DEFINE u == Rebonded(s, e.amount)
  <2>1. k.active = l.active + e.amount /\ k.total = l.total /\ k.unlocking = u
    BY <1>0, <1>5, AppliedEffect
  <2>2. u \in Seq(Chunks)
    BY <1>1, <1>2, RebondedEffect
  <2>3. Ordered(u) /\ LockedFrom(u, 0) = IF LockedFrom(s, 0) > e.amount
                                         THEN LockedFrom(s, 0) - e.amount ELSE 0
    BY <1>1, <1>2, RebondedLocked
  <2>4. LockedFrom(u, 0) = Unlocking(u) /\ LockedFrom(s, 0) = Unlocking(s)
    BY <1>1, <2>2, LockedSteps
  <2>5. e.amount <= Unlocking(s)
    BY <1>5 DEF Fits
  <2> HIDE DEF u
  <2>6. l.total = (l.active + e.amount) + Unlocking(u)
    BY <1>1, <1>2, <2>3, <2>4, <2>5
  <2> QED BY <2>1, <2>3, <2>6 DEF WellFormed
<1>6. CASE e.op = "Liquidize"
  <2> DEFINE u == NotDue(s, e.time)
             due == Unlocking(Due(s, e.time))
  <2>1. k.active = l.active /\ k.total = l.total - due /\ k.unlocking = u
    BY <1>0, <1>6, AppliedEffect
  <2>2. u \in Seq(Chunks) /\ due \in Nat
    BY <1>1, <1>2, DueSplit
  <2>3. /\ Ordered(u) /\ Unlocking(s) = due + LockedFrom(s, e.time + 1)
        /\ \A v \in Int : LockedFrom(u, v) = LockedFrom(s, IF v > e.time THEN v ELSE e.time + 1)
    BY <1>1, <1>2, NotDueLocked
  <2>4. LockedFrom(u, 0) = LockedFrom(s, e.time + 1)
    BY <1>2, <2>3, ConstantFacts
  <2>5. LockedFrom(u, 0) = Unlocking(u) /\ Unlocking(u) \in Nat
    BY <2>2, LockedSteps, UnlockingType
  <2> HIDE DEF u, due
  <2>6. l.total - due = l.active + Unlocking(u)
    BY <1>1, <2>2, <2>3, <2>4, <2>5
  <2> QED BY <2>1, <2>3, <2>6 DEF WellFormed
<1> QED BY <1>2, <1>3, <1>4, <1>5, <1>6 DEF Operations

(* A change that the other chain has made as its entry says.               *)
LEMMA MirrorsUnlock ==
  ASSUME NEW l \in Ledgers, NEW r \in Stakes, NEW x \in Nat, NEW e \in Entries, NEW q \in Stakes,
         Mirrors(l, r, x), e.op = "Unlock", e.amount <= l.active,
         q.active = r.active - e.amount,
         q.unlocking = IF e.amount = 0 THEN r.unlocking
                       ELSE Append(r.unlocking, Chunk(e.amount, e.time))
  PROVE  CanApply(l, e) /\ Mirrors(Applied(l, e), q, x)
<1> DEFINE c == Chunk(e.amount, e.time)
           k == Applied(l, e)
<1>1. CanApply(l, e)
  BY LedgerFacts DEF CanApply
<1>2. /\ l.active \in Nat /\ l.unlocking \in Seq(Chunks) /\ r.active \in Nat
      /\ r.unlocking \in Seq(Chunks) /\ e.amount \in Nat /\ e.time \in TimeUnits
  BY LedgerFacts, StakeFacts, EntryFacts
<1>3. k.active = l.active - e.amount /\ k.unlocking = Append(l.unlocking, c)
  BY <1>1, AppliedEffect
<1>4. c \in Chunks /\ c.value = e.amount /\ c.value \in Nat
  BY <1>2 DEF Chunk, Chunks
<1> HIDE DEF c, k
<1>5. k.active + x = q.active
  BY <1>2, <1>3 DEF Mirrors
<1>6. ASSUME NEW t \in Horizons PROVE LockedFrom(k.unlocking, t) = LockedFrom(q.unlocking, t)
  <2>1. /\ t \in Int /\ LockedFrom(l.unlocking, t) = LockedFrom(r.unlocking, t)
        /\ LockedFrom(l.unlocking, t) \in Nat
    BY <1>2, HorizonFacts, LockedSteps DEF Mirrors
  <2>2. LockedFrom(k.unlocking, t) = LockedFrom(l.unlocking, t) + (IF c.time >= t THEN c.value ELSE 0)
    BY <1>2, <1>3, <1>4, <2>1, AppendLocked
  <2>3. CASE e.amount = 0
    BY <1>4, <2>1, <2>2, <2>3
  <2>4. CASE e.amount # 0
    <3>1. q.unlocking = Append(r.unlocking, c)
      BY <2>4 DEF c
    <3>2. LockedFrom(q.unlocking, t)
            = LockedFrom(r.unlocking, t) + (IF c.time >= t THEN c.value ELSE 0)
      BY <1>2, <1>4, <2>1, <3>1, AppendLocked
    <3> QED BY <2>1, <2>2, <3>2
  <2> QED BY <2>3, <2>4
<1>7. Mirrors(k, q, x)
  BY <1>5, <1>6 DEF Mirrors
<1> QED BY <1>1, <1>7 DEF k

LEMMA MirrorsRebond ==
  ASSUME NEW l \in Ledgers, NEW r \in Stakes, NEW x \in Nat, NEW e \in Entries, NEW q \in Stakes,
         Mirrors(l, r, x), e.op = "Rebond", Ordered(l.unlocking), Ordered(r.unlocking),
         q.active = r.active + e.amount, q.unlocking = Rebonded(r.unlocking, e.amount)
  PROVE  CanApply(l, e) /\ Mirrors(Applied(l, e), q, x)
<1> DEFINE k == Applied(l, e)
<1>1. CanApply(l, e)
  BY LedgerFacts DEF CanApply
<1>2. /\ l.active \in Nat /\ l.unlocking \in Seq(Chunks) /\ r.active \in Nat
      /\ r.unlocking \in Seq(Chunks) /\ e.amount \in Nat
  BY LedgerFacts, StakeFacts, EntryFacts
<1>3. k.active = l.active + e.amount /\ k.unlocking = Rebonded(l.unlocking, e.amount)
  BY <1>1, AppliedEffect
<1> HIDE DEF k
<1>4. k.active + x = q.active
  BY <1>2, <1>3 DEF Mirrors
<1>5. ASSUME NEW t \in Horizons PROVE LockedFrom(k.unlocking, t) = LockedFrom(q.unlocking, t)
  <2>1. t \in Int /\ LockedFrom(l.unlocking, t) = LockedFrom(r.unlocking, t)
    BY HorizonFacts DEF Mirrors
  <2>2. LockedFrom(Rebonded(l.unlocking, e.amount), t)
          = IF LockedFrom(l.unlocking, t) > e.amount
            THEN LockedFrom(l.unlocking, t) - e.amount ELSE 0
    BY <1>2, <2>1, RebondedLocked
  <2>3. LockedFrom(Rebonded(r.unlocking, e.amount), t)
          = IF LockedFrom(r.unlocking, t) > e.amount
            THEN LockedFrom(r.unlocking, t) - e.amount ELSE 0
    BY <1>2, <2>1, RebondedLocked
  <2> QED BY <1>3, <2>1, <2>2, <2>3
<1>6. Mirrors(k, q, x)
  BY <1>4, <1>5 DEF Mirrors
<1> QED BY <1>1, <1>6 DEF k

LEMMA MirrorsWithdraw ==
  ASSUME NEW l \in Ledgers, NEW r \in Stakes, NEW x \in Nat, NEW e \in Entries, NEW q \in Stakes,
         Mirrors(l, r, x), e.op = "Liquidize", WellFormed(l), Ordered(r.unlocking),
         q.active = r.active, q.unlocking = NotDue(r.unlocking, e.time)
  PROVE  CanApply(l, e) /\ Mirrors(Applied(l, e), q, x)
<1> DEFINE k == Applied(l, e)
<1>1. /\ l.active \in Nat /\ l.total \in Nat /\ l.unlocking \in Seq(Chunks) /\ l # NoLedger
      /\ r.unlocking \in Seq(Chunks) /\ e.time \in TimeUnits /\ e.time \in Int
      /\ Ordered(l.unlocking) /\ l.total = l.active + Unlocking(l.unlocking)
      /\ Unlocking(l.unlocking) \in Nat
  BY LedgerFacts, StakeFacts, EntryFacts, UnlockingType DEF WellFormed
<1>2. CanApply(l, e)
  <2>1. /\ Unlocking(Due(l.unlocking, e.time)) \in Nat
        /\ Unlocking(l.unlocking)
             = Unlocking(Due(l.unlocking, e.time)) + LockedFrom(l.unlocking, e.time + 1)
    BY <1>1, DueSplit, NotDueLocked
  <2>2. e.time + 1 \in Int
    BY <1>1
  <2>3. LockedFrom(l.unlocking, e.time + 1) \in Nat
    BY <1>1, <2>2, LockedSteps
  <2>4. Unlocking(Due(l.unlocking, e.time)) <= l.total
    BY <1>1, <2>1, <2>3
  <2> QED BY <1>1, <2>4 DEF CanApply
<1>3. k.active = l.active /\ k.unlocking = NotDue(l.unlocking, e.time)
  BY <1>2, AppliedEffect
<1> HIDE DEF k
<1>4. ASSUME NEW t \in Horizons PROVE LockedFrom(k.unlocking, t) = LockedFrom(q.unlocking, t)
  <2> DEFINE v == IF t > e.time THEN t ELSE e.time + 1
  <2>1. t \in Int /\ v \in Horizons
    BY <1>1, HorizonFacts
  <2>2. \A w \in Int : LockedFrom(NotDue(l.unlocking, e.time), w)
                         = LockedFrom(l.unlocking, IF w > e.time THEN w ELSE e.time + 1)
    BY <1>1, NotDueLocked
  <2>3. \A w \in Int : LockedFrom(NotDue(r.unlocking, e.time), w)
                         = LockedFrom(r.unlocking, IF w > e.time THEN w ELSE e.time + 1)
    BY <1>1, NotDueLocked
  <2>4. /\ LockedFrom(k.unlocking, t) = LockedFrom(l.unlocking, v)
        /\ LockedFrom(q.unlocking, t) = LockedFrom(r.unlocking, v)
    BY <1>3, <2>1, <2>2, <2>3
  <2> HIDE DEF v
  <2> QED BY <2>1, <2>4 DEF Mirrors
<1>5. Mirrors(k, q, x)
  BY <1>3, <1>4 DEF Mirrors
<1> QED BY <1>2, <1>5 DEF k

(* a more is in the ledger, and the stake is a less ahead of it.           *)
LEMMA MirrorsBooked ==
  ASSUME NEW l \in Ledgers, NEW k \in Ledgers, NEW r \in Stakes, NEW x \in Nat, NEW y \in Nat,
         NEW a \in Nat, y = x + a,
         k.active = l.active + a, k.total = l.total + a, k.unlocking = l.unlocking
  PROVE  /\ Mirrors(l, r, y) => Mirrors(k, r, x)
         /\ WellFormed(l) => WellFormed(k)
         /\ \A e \in Entries :
              /\ Fits(l, e) => Fits(k, e)
              /\ e.op # "Bond" /\ Ripe(l, e) => Ripe(k, e)
              /\ e.op # "Bond" /\ Ripe(l, e) /\ Mirrors(Applied(l, e), r, y)
                   => Mirrors(Applied(k, e), r, x)
<1>0. /\ l.active \in Nat /\ l.total \in Nat /\ k.active \in Nat /\ k.total \in Nat
      /\ l # NoLedger /\ k # NoLedger /\ Unlocking(l.unlocking) \in Nat
  BY LedgerFacts, UnlockingType
<1>1. Mirrors(l, r, y) => Mirrors(k, r, x)
  BY <1>0 DEF Mirrors
<1>2. WellFormed(l) => WellFormed(k)
  BY <1>0 DEF WellFormed
<1>3. ASSUME NEW e \in Entries PROVE Fits(l, e) => Fits(k, e)
  <2>1. e.amount \in Nat
    BY EntryFacts
  <2> QED BY <1>0, <2>1 DEF Fits
<1>4. ASSUME NEW e \in Entries, e.op # "Bond", Ripe(l, e) PROVE Ripe(k, e)
  <2>1. e.amount \in Nat /\ e.time \in Int
    BY EntryFacts
  <2>2. Unlocking(Due(l.unlocking, e.time)) \in Nat
    BY <2>1, LedgerFacts, DueSplit
  <2> QED BY <1>0, <1>4, <2>1, <2>2 DEF Ripe, CanApply
<1>5. ASSUME NEW e \in Entries, e.op # "Bond", Ripe(l, e), Mirrors(Applied(l, e), r, y)
      PROVE  Mirrors(Applied(k, e), r, x)
  <2>1. CanApply(l, e) /\ CanApply(k, e)
    BY <1>4, <1>5 DEF Ripe
  <2>2. e.op \in Operations /\ e.amount \in Nat
    BY EntryFacts
  <2>3. /\ Applied(k, e).unlocking = Applied(l, e).unlocking
        /\ Applied(k, e).active = Applied(l, e).active + a
    <3>1. CASE e.op = "Unlock"
      <4>1. /\ Applied(k, e).unlocking = Append(k.unlocking, Chunk(e.amount, e.time))
            /\ Applied(k, e).active = k.active - e.amount
        BY <2>1, <3>1, AppliedEffect
      <4>2. /\ Applied(l, e).unlocking = Append(l.unlocking, Chunk(e.amount, e.time))
            /\ Applied(l, e).active = l.active - e.amount
        BY <2>1, <3>1, AppliedEffect
      <4>3. (l.active + a) - e.amount = (l.active - e.amount) + a
        BY <1>0, <2>2
      <4> QED BY <4>1, <4>2, <4>3
    <3>2. CASE e.op = "Rebond"
      BY <1>0, <2>1, <2>2, <3>2, AppliedEffect
    <3>3. CASE e.op = "Liquidize"
      BY <1>0, <2>1, <2>2, <3>3, AppliedEffect
    <3> QED BY <1>5, <2>2, <3>1, <3>2, <3>3 DEF Operations
  <2>4. Applied(l, e).active \in Nat
    BY <2>1, AppliedEffect, LedgerFacts
  <2>5. Applied(k, e).active + x = r.active
    BY <1>5, <2>3, <2>4 DEF Mirrors
  <2> QED BY <1>5, <2>3, <2>5 DEF Mirrors
<1> QED BY <1>1, <1>2, <1>3, <1>4, <1>5

(* The stake grows by a.                                                   *)
LEMMA MirrorsGain ==
  ASSUME NEW l, l.active \in Nat, NEW r \in Stakes, NEW q \in Stakes, NEW x \in Nat, NEW a \in Nat,
         q.active = r.active + a, q.unlocking = r.unlocking, Mirrors(l, r, x)
  PROVE  Mirrors(l, q, x + a)
BY StakeFacts DEF Mirrors

-----------------------------------------------------------------------------
(* What is known of a delegator's stake at every moment, with changes that *)
(* were sent, that have run and that were answered.                        *)

StakeCalls == {"bond", "bond_extra", "unbond", "chill", "rebond", "withdraw_unbonded"}

(* Queued changes that do not commute, and bonds that have run.            *)
Changes(d) == {q \in PendingOf(d) : LedgerQueue[q].op # "Bond"}
Credits(d) == {q \in PendingOf(d) : LedgerQueue[q].op = "Bond" /\ Succeeded(q)}

(* By how much the active stake is ahead of the ledger: bonds that have    *)
(* run but are not booked, and rewards not yet reported.                   *)
QueuedAmounts == [q \in DOMAIN LedgerQueue |-> LedgerQueue[q].amount]
Ahead(d) == SumFunctionOnSet(QueuedAmounts, Credits(d)) + unreported[d]

(* At most one change waits for its answer, every message that touches the *)
(* stake has its entry, and the ledger has what the entries move.          *)
PendingKnown(d) ==
  /\ \A p, q \in Changes(d) : p = q
  /\ \A i \in DOMAIN channel :
       channel[i].who = d /\ channel[i].call \in StakeCalls => channel[i].query \in PendingOf(d)
  /\ \A q \in PendingOf(d) : Fits(DelegatorLedgers[d], LedgerQueue[q])

(* Nothing is staked without a ledger; a change that has run can be booked *)
(* and then mirrors the stake; with none, the ledger mirrors it already.   *)
StakeKnown(d) ==
  /\ PendingKnown(d) /\ WellFormed(DelegatorLedgers[d])
  /\ DelegatorLedgers[d] = NoLedger =>
       ~relay[d].bonded /\ unreported[d] = 0 /\ \A q \in PendingOf(d) : ~Succeeded(q)
  /\ \A q \in Changes(d) : Succeeded(q) =>
       /\ Ripe(DelegatorLedgers[d], LedgerQueue[q])
       /\ Mirrors(Applied(DelegatorLedgers[d], LedgerQueue[q]), relay[d], Ahead(d))
  /\ (\A q \in Changes(d) : ~Succeeded(q)) => Mirrors(DelegatorLedgers[d], relay[d], Ahead(d))

Unspoiled == Delegators \ (spoiled["stake"] \cup spoiled["chill"])

StakeInv ==
  TypeOK /\ QueriesOK /\ RelaySound /\ TimesSound /\ \A d \in Unspoiled : StakeKnown(d)

LEMMA PendingFacts ==
  ASSUME TypeOK, NEW d
  PROVE  /\ IsFiniteSet(PendingOf(d)) /\ IsFiniteSet(Credits(d)) /\ Credits(d) \subseteq PendingOf(d)
         /\ Changes(d) \subseteq PendingOf(d)
         /\ \A q \in PendingOf(d) :
              /\ q \in DOMAIN LedgerQueue /\ LedgerQueue[q] \in Entries /\ LedgerQueue[q].who = d
              /\ LedgerQueue[q].amount \in Nat /\ QueuedAmounts[q] = LedgerQueue[q].amount
<1>1. PendingOf(d) \subseteq 1..(nextQuery - 1)
  BY DEF PendingOf, TypeOK, QueryTypes
<1>2. IsFiniteSet(1..(nextQuery - 1))
  BY FS_Interval DEF TypeOK, QueryTypes
<1>3. IsFiniteSet(PendingOf(d))
  BY <1>1, <1>2, FS_Subset
<1>4. Credits(d) \subseteq PendingOf(d) /\ Changes(d) \subseteq PendingOf(d)
  BY DEF Credits, Changes
<1>5. \A q \in PendingOf(d) :
         q \in DOMAIN LedgerQueue /\ LedgerQueue[q] \in Entries /\ LedgerQueue[q].who = d
  BY QueryFacts DEF PendingOf
<1>6. \A q \in PendingOf(d) : LedgerQueue[q].amount \in Nat
  BY <1>5, EntryFacts
<1>7. \A q \in PendingOf(d) : QueuedAmounts[q] = LedgerQueue[q].amount
  BY <1>5 DEF QueuedAmounts
<1> QED BY <1>3, <1>4, <1>5, <1>6, <1>7, FS_Subset

LEMMA AheadType ==
  ASSUME TypeOK, NEW d \in Delegators
  PROVE  /\ Ahead(d) \in Nat /\ SumFunctionOnSet(QueuedAmounts, Credits(d)) \in Nat
         /\ (Credits(d) = {} => Ahead(d) = unreported[d])
<1>1. unreported[d] \in Nat
  BY DelegatorFacts DEF TypeOK
<1>2. IsFiniteSet(Credits(d)) /\ \A q \in Credits(d) : QueuedAmounts[q] \in Nat
  BY PendingFacts
<1>3. SumFunctionOnSet(QueuedAmounts, Credits(d)) \in Nat
  BY <1>2, SetSumNat
<1>4. Credits(d) = {} => SumFunctionOnSet(QueuedAmounts, Credits(d)) = 0
  BY SetSumEmpty
<1> QED BY <1>1, <1>3, <1>4 DEF Ahead

LEMMA AheadSame ==
  ASSUME TypeOK, TypeOK', NEW d, Credits(d)' = Credits(d), unreported'[d] = unreported[d],
         \A q \in Credits(d) : LedgerQueue'[q] = LedgerQueue[q]
  PROVE  Ahead(d)' = Ahead(d)
<1> DEFINE f == QueuedAmounts
           g == QueuedAmounts'
           S == Credits(d)
<1>1. IsFiniteSet(S) /\ \A q \in S : q \in DOMAIN LedgerQueue /\ f[q] = LedgerQueue[q].amount
  BY PendingFacts
<1>2. \A q \in S : q \in DOMAIN LedgerQueue'
  BY DEF Credits, PendingOf
<1>3. \A q \in S : g[q] = f[q]
  BY <1>1, <1>2 DEF QueuedAmounts
<1> HIDE DEF f, g, S
<1>4. SumFunctionOnSet(f, S) = SumFunctionOnSet(g, S)
  BY <1>1, <1>3, SetSumSame
<1> QED BY <1>4 DEF Ahead, f, g, S

(* A bond has run.                                                         *)
LEMMA AheadMore ==
  ASSUME TypeOK, TypeOK', NEW d, NEW q \in PendingOf(d), q \notin Credits(d),
         Credits(d)' = Credits(d) \cup {q}, unreported[d] \in Nat, unreported'[d] = unreported[d],
         LedgerQueue' = LedgerQueue
  PROVE  Ahead(d)' = Ahead(d) + LedgerQueue[q].amount
<1> DEFINE f == QueuedAmounts
           S == Credits(d) \cup {q}
<1>1. /\ IsFiniteSet(Credits(d)) /\ f[q] = LedgerQueue[q].amount
      /\ \A p \in S : f[p] \in Nat /\ f[p] \in Int
  BY PendingFacts
<1>2. IsFiniteSet(S) /\ S \ {q} = Credits(d) /\ q \in S
  BY <1>1, FS_AddElement
<1>3. QueuedAmounts' = f
  BY DEF QueuedAmounts
<1>4. SumFunctionOnSet(f, Credits(d)) \in Nat
  BY <1>1, SetSumNat
<1> HIDE DEF f, S
<1>5. SumFunctionOnSet(f, S) = f[q] + SumFunctionOnSet(f, S \ {q})
  BY <1>1, <1>2, SetSumRemove
<1>6. Credits(d)' = S
  BY DEF S
<1>7. Ahead(d)' = SumFunctionOnSet(f, S) + unreported[d]
  BY <1>3, <1>6 DEF Ahead
<1>8. Ahead(d) = SumFunctionOnSet(f, Credits(d)) + unreported[d]
  BY DEF Ahead, f
<1>9. f[q] \in Nat
  BY <1>1, <1>2
<1>10. SumFunctionOnSet(f, S) = f[q] + SumFunctionOnSet(f, Credits(d))
  BY <1>2, <1>5
<1> QED BY ONLY <1>1, <1>4, <1>7, <1>8, <1>9, <1>10, unreported[d] \in Nat

(* A bond is booked.                                                       *)
LEMMA AheadLess ==
  ASSUME TypeOK, TypeOK', NEW d, NEW q \in Credits(d),
         Credits(d)' = Credits(d) \ {q}, unreported[d] \in Nat, unreported'[d] = unreported[d],
         \A p \in Credits(d) \ {q} : LedgerQueue'[p] = LedgerQueue[p]
  PROVE  Ahead(d) = Ahead(d)' + LedgerQueue[q].amount /\ Ahead(d)' \in Nat
<1> DEFINE f == QueuedAmounts
           g == QueuedAmounts'
           S == Credits(d)
           R == S \ {q}
<1>1. /\ IsFiniteSet(S) /\ f[q] = LedgerQueue[q].amount /\ f[q] \in Nat
      /\ \A p \in S : f[p] \in Nat /\ f[p] \in Int /\ p \in DOMAIN LedgerQueue
      /\ \A p \in S : f[p] = LedgerQueue[p].amount
  BY PendingFacts
<1>2. \A p \in R : p \in DOMAIN LedgerQueue'
  BY DEF Credits, PendingOf
<1>3. \A p \in R : g[p] = f[p]
  BY <1>1, <1>2 DEF QueuedAmounts
<1>4. IsFiniteSet(R) /\ \A p \in R : f[p] \in Nat
  BY <1>1, FS_Subset
<1> HIDE DEF f, g
<1>5. SumFunctionOnSet(f, S) = f[q] + SumFunctionOnSet(f, R)
  BY <1>1, SetSumRemove
<1>6. SumFunctionOnSet(f, R) \in Nat
  BY <1>4, SetSumNat
<1>7. SumFunctionOnSet(f, R) = SumFunctionOnSet(g, R)
  BY <1>3, <1>4, SetSumSame
<1>8. Ahead(d) = SumFunctionOnSet(f, S) + unreported[d]
  BY DEF Ahead, f
<1>9. Ahead(d)' = SumFunctionOnSet(g, R) + unreported[d]
  BY DEF Ahead, g
<1> HIDE DEF S, R
<1> QED BY <1>1, <1>5, <1>6, <1>7, <1>8, <1>9

(* Steps that do not concern the stake of d.                               *)
LEMMA StakeFrame ==
  ASSUME TypeOK, TypeOK', NEW d \in Delegators, StakeKnown(d),
         DelegatorLedgers'[d] = DelegatorLedgers[d], unreported'[d] = unreported[d],
         relay'[d].active = relay[d].active, relay'[d].bonded = relay[d].bonded,
         relay'[d].unlocking = relay[d].unlocking, PendingOf(d)' = PendingOf(d),
         \A q \in PendingOf(d) : LedgerQueue'[q] = LedgerQueue[q],
         \A q \in PendingOf(d) : Succeeded(q)' <=> Succeeded(q),
         \A i \in DOMAIN channel' : channel'[i].who = d /\ channel'[i].call \in StakeCalls =>
           \E j \in DOMAIN channel : channel[j] = channel'[i]
  PROVE  StakeKnown(d)'
<1>1. Changes(d)' = Changes(d) /\ Credits(d)' = Credits(d)
  BY DEF Changes, Credits
<1>2. Ahead(d)' = Ahead(d)
  BY <1>1, AheadSame DEF Credits
<1>3. PendingKnown(d)'
  <2>1. \A p, q \in Changes(d)' : p = q
    BY <1>1 DEF StakeKnown, PendingKnown
  <2>2. \A i \in DOMAIN channel' :
          channel'[i].who = d /\ channel'[i].call \in StakeCalls =>
            channel'[i].query \in PendingOf(d)'
    BY DEF StakeKnown, PendingKnown
  <2>3. \A q \in PendingOf(d)' : Fits(DelegatorLedgers'[d], LedgerQueue'[q])
    BY DEF StakeKnown, PendingKnown
  <2> QED BY <2>1, <2>2, <2>3 DEF PendingKnown
<1>4. \A k, x : Mirrors(k, relay[d], x) => Mirrors(k, relay'[d], x)
  BY DEF Mirrors
<1>5. /\ WellFormed(DelegatorLedgers'[d])
      /\ DelegatorLedgers'[d] = NoLedger =>
           ~relay'[d].bonded /\ unreported'[d] = 0 /\ \A q \in PendingOf(d)' : ~Succeeded(q)'
  BY DEF StakeKnown
<1>6. \A q \in Changes(d)' : Succeeded(q)' =>
        /\ Ripe(DelegatorLedgers'[d], LedgerQueue'[q])
        /\ Mirrors(Applied(DelegatorLedgers'[d], LedgerQueue'[q]), relay'[d], Ahead(d)')
  <2> SUFFICES ASSUME NEW q \in Changes(d), Succeeded(q)'
               PROVE  /\ Ripe(DelegatorLedgers'[d], LedgerQueue'[q])
                      /\ Mirrors(Applied(DelegatorLedgers'[d], LedgerQueue'[q]), relay'[d], Ahead(d)')
    BY <1>1
  <2>1. q \in PendingOf(d)
    BY DEF Changes
  <2> QED BY <1>2, <1>4, <2>1 DEF StakeKnown
<1>7. (\A q \in Changes(d)' : ~Succeeded(q)')
        => Mirrors(DelegatorLedgers'[d], relay'[d], Ahead(d)')
  <2>1. \A q \in Changes(d) : q \in PendingOf(d)
    BY DEF Changes
  <2> QED BY <1>1, <1>2, <1>4, <2>1 DEF StakeKnown
<1> QED BY <1>3, <1>5, <1>6, <1>7 DEF StakeKnown

(* A request: its entry joins the queue, and its message the channel.  A   *)
(* bond also creates the ledger, which is empty.                           *)
LEMMA StakeRequest ==
  ASSUME StakeInv, TypeOK', NEW call, NEW op, NEW d \in Delegators, NEW amount,
         request(call, op, d, amount),
         \A b \in Delegators : b # d => DelegatorLedgers'[b] = DelegatorLedgers[b],
         DelegatorLedgers'[d] = DelegatorLedgers[d] \/ DelegatorLedgers[d] = NoLedger,
         DelegatorLedgers'[d].active = DelegatorLedgers[d].active,
         DelegatorLedgers'[d].total = DelegatorLedgers[d].total,
         DelegatorLedgers'[d].unlocking = DelegatorLedgers[d].unlocking,
         \A e : e.op = op /\ e.amount = amount => Fits(DelegatorLedgers'[d], e)
  PROVE  \A b \in Unspoiled' : StakeKnown(b)'
<1>0. PICK n, e, m, over :
        /\ n = nextQuery /\ m = Message(nextQuery, call, d, amount, {}, unlock_time(op))
        /\ e = [who |-> d, op |-> op, amount |-> amount, time |-> unlock_time(op),
                timeout |-> block + TIMEOUT_BLOCKS]
        /\ over = Overlaps(op, d)
  OBVIOUS
<1>1. /\ TypeOK /\ channel' = Append(channel, m) /\ LedgerQueue' = Put(LedgerQueue, n, e)
      /\ UNCHANGED <<outcome, relay, unreported>>
      /\ spoiled' = SpoilIf(over, "stake", d)
  BY <1>0 DEF request, send_with_query, StakeInv, SpoilIf
<1>2. m.who = d /\ m.query = n /\ e.who = d /\ e.op = op /\ e.amount = amount
  BY <1>0 DEF Message
<1>3. /\ n \notin DOMAIN LedgerQueue /\ n \notin DOMAIN outcome
  BY <1>0, <1>1, QueryFacts
<1>4. /\ Unspoiled' \subseteq Unspoiled /\ (over => d \notin Unspoiled')
  BY <1>1, SpoilFacts DEF Unspoiled, Kinds
<1>5. /\ DOMAIN LedgerQueue' = DOMAIN LedgerQueue \cup {n} /\ LedgerQueue'[n] = e
      /\ \A q \in DOMAIN LedgerQueue : LedgerQueue'[q] = LedgerQueue[q]
  BY <1>1, <1>3 DEF Put
<1>6. \A q : Succeeded(q)' <=> Succeeded(q)
  BY <1>1 DEF Succeeded
<1>7. PICK z \in Nat : /\ DOMAIN channel' = DOMAIN channel \cup {z} /\ channel'[z] = m
                       /\ \A i \in DOMAIN channel : channel'[i] = channel[i] /\ i # z
  BY <1>1, QueryFacts, Sending
<1>8. ASSUME NEW b \in Unspoiled', b # d PROVE StakeKnown(b)'
  <2>1. /\ StakeKnown(b) /\ b \in Delegators /\ DelegatorLedgers'[b] = DelegatorLedgers[b]
    BY <1>4, <1>8 DEF StakeInv, Unspoiled
  <2>2. /\ PendingOf(b)' = PendingOf(b)
        /\ \A q \in PendingOf(b) : LedgerQueue'[q] = LedgerQueue[q]
    BY <1>2, <1>5, <1>8 DEF PendingOf
  <2>3. \A i \in DOMAIN channel' : channel'[i].who = b /\ channel'[i].call \in StakeCalls =>
           \E j \in DOMAIN channel : channel[j] = channel'[i]
    BY <1>2, <1>7, <1>8
  <2> QED BY <1>1, <1>6, <2>1, <2>2, <2>3, StakeFrame
<1>9. ASSUME d \in Unspoiled' PROVE StakeKnown(d)'
  <2>1. StakeKnown(d) /\ PendingKnown(d) /\ ~over
    BY <1>4, <1>9 DEF StakeInv, StakeKnown
  <2>2. PendingOf(d)' = PendingOf(d) \cup {n} /\ n \notin PendingOf(d)
    BY <1>2, <1>3, <1>5 DEF PendingOf
  <2>3. ~Succeeded(n)'
    BY <1>3, <1>6 DEF Succeeded
  <2>4. \A q \in PendingOf(d) : LedgerQueue'[q] = LedgerQueue[q]
    BY <1>5 DEF PendingOf
  <2>5. Credits(d)' = Credits(d)
    BY <1>6, <2>2, <2>3, <2>4 DEF Credits
  <2>6. Ahead(d)' = Ahead(d)
    BY <1>1, <2>4, <2>5, AheadSame DEF Credits
  <2>7. /\ Changes(d) \subseteq Changes(d)' /\ Changes(d)' \subseteq Changes(d) \cup {n}
        /\ n \in Changes(d)' => op # "Bond"
    BY <1>2, <1>5, <2>2, <2>4 DEF Changes
  <2>8. op # "Bond" => Changes(d) = {}
    BY <1>0, <2>1 DEF Overlaps, Changes
  <2>9. \A p, q \in Changes(d)' : p = q
    BY <2>1, <2>7, <2>8 DEF PendingKnown
  <2>10. \A i \in DOMAIN channel' : channel'[i].who = d /\ channel'[i].call \in StakeCalls =>
            channel'[i].query \in PendingOf(d)'
    BY <1>2, <1>7, <2>1, <2>2 DEF PendingKnown
  <2>11. ASSUME NEW q \in PendingOf(d) PROVE Fits(DelegatorLedgers'[d], LedgerQueue'[q])
    <3>1. Fits(DelegatorLedgers[d], LedgerQueue[q]) /\ LedgerQueue'[q] = LedgerQueue[q]
      BY <2>1, <2>4 DEF PendingKnown
    <3> QED BY <3>1 DEF Fits
  <2>12. Fits(DelegatorLedgers'[d], LedgerQueue'[n])
    BY <1>2, <1>5
  <2>13. PendingKnown(d)'
    BY <2>2, <2>9, <2>10, <2>11, <2>12 DEF PendingKnown
  <2>14. WellFormed(DelegatorLedgers'[d])
    BY <2>1 DEF StakeKnown, WellFormed
  <2>15. DelegatorLedgers'[d] = NoLedger =>
           ~relay'[d].bonded /\ unreported'[d] = 0 /\ \A q \in PendingOf(d)' : ~Succeeded(q)'
    BY <1>1, <1>6, <2>1, <2>2, <2>3 DEF StakeKnown
  <2>16. ASSUME NEW q \in Changes(d)', Succeeded(q)'
         PROVE  /\ Ripe(DelegatorLedgers'[d], LedgerQueue'[q])
                /\ Mirrors(Applied(DelegatorLedgers'[d], LedgerQueue'[q]), relay'[d], Ahead(d)')
    <3>1. q \in Changes(d) /\ Succeeded(q) /\ q \in PendingOf(d)
      BY <1>6, <2>3, <2>7, <2>16 DEF Changes
    <3>2. DelegatorLedgers'[d] = DelegatorLedgers[d]
      BY <2>1, <3>1 DEF StakeKnown
    <3> QED BY <1>1, <2>1, <2>4, <2>6, <3>1, <3>2 DEF StakeKnown
  <2>17. ASSUME \A q \in Changes(d)' : ~Succeeded(q)'
         PROVE  Mirrors(DelegatorLedgers'[d], relay'[d], Ahead(d)')
    <3>1. Mirrors(DelegatorLedgers[d], relay[d], Ahead(d))
      BY <1>6, <2>1, <2>7, <2>17 DEF StakeKnown
    <3> QED BY <1>1, <2>6, <3>1 DEF Mirrors
  <2> QED BY <2>13, <2>14, <2>15, <2>16, <2>17 DEF StakeKnown
<1> QED BY <1>8, <1>9

(* Steps that leave the ledgers, their queue and the stakes alone.         *)
LEMMA StakeQuiet ==
  ASSUME StakeInv, TypeOK', UNCHANGED <<DelegatorLedgers, LedgerQueue, relay, unreported>>,
         \A q \in DOMAIN LedgerQueue : Succeeded(q)' <=> Succeeded(q),
         \A i \in DOMAIN channel' : channel'[i].call \in StakeCalls =>
           \E j \in DOMAIN channel : channel[j] = channel'[i],
         \A k \in Kinds : spoiled[k] \subseteq spoiled'[k]
  PROVE  \A b \in Unspoiled' : StakeKnown(b)'
<1> SUFFICES ASSUME NEW b \in Unspoiled' PROVE StakeKnown(b)'
  OBVIOUS
<1>1. TypeOK /\ StakeKnown(b) /\ b \in Delegators
  BY DEF StakeInv, Unspoiled, Kinds
<1>2. /\ PendingOf(b)' = PendingOf(b)
      /\ \A q \in PendingOf(b) : Succeeded(q)' <=> Succeeded(q)
  BY DEF PendingOf
<1> QED BY <1>1, <1>2, StakeFrame

(* A message that does not touch the stake.                                *)
LEMMA StakeSend ==
  ASSUME StakeInv, TypeOK', NEW m, m.call \notin StakeCalls, channel' = Append(channel, m),
         UNCHANGED <<DelegatorLedgers, LedgerQueue, relay, unreported, outcome>>,
         \A k \in Kinds : spoiled[k] \subseteq spoiled'[k]
  PROVE  \A b \in Unspoiled' : StakeKnown(b)'
<1>1. PICK n \in Nat : /\ DOMAIN channel' = DOMAIN channel \cup {n} /\ channel'[n] = m
                       /\ \A i \in DOMAIN channel : channel'[i] = channel[i] /\ i # n
  BY QueryFacts, Sending DEF StakeInv
<1>2. \A q \in DOMAIN LedgerQueue : Succeeded(q)' <=> Succeeded(q)
  BY DEF Succeeded
<1> QED BY <1>1, <1>2, StakeQuiet

(* The answer to a nomination.                                             *)
LEMMA StakeNominations ==
  ASSUME StakeInv, TypeOK', NEW q \in DOMAIN ValidatorsQueue, NEW success \in BOOLEAN,
         confirm_validators_by_delegator(q, success)
  PROVE  \A b \in Unspoiled' : StakeKnown(b)'
<1>0. PICK e, wrong : e = ValidatorsQueue[q]
        /\ wrong = (q \notin DOMAIN outcome
                    \/ ((success /\ block <= e.timeout) # (outcome[q] = "ok")))
  OBVIOUS
<1>1. /\ TypeOK /\ outcome' = Without(outcome, q) /\ spoiled' = SpoilIf(wrong, "noms", e.who)
      /\ UNCHANGED <<DelegatorLedgers, LedgerQueue, relay, unreported, channel>>
  BY <1>0 DEF confirm_validators_by_delegator, StakeInv
<1>2. \A k \in Kinds : spoiled[k] \subseteq spoiled'[k]
  BY <1>1, SpoilFacts DEF Kinds
<1>3. \A p \in DOMAIN LedgerQueue : Succeeded(p)' <=> Succeeded(p)
  BY <1>1, QueryFacts DEF Without, Succeeded
<1> QED BY <1>1, <1>2, <1>3, StakeQuiet

(* The answer to a change of the stake: a wrong one spoils the delegator.  *)
LEMMA StakeConfirm ==
  ASSUME StakeInv, TypeOK', NEW q \in DOMAIN LedgerQueue, NEW success \in BOOLEAN,
         confirm_delegator_ledger(q, success)
  PROVE  \A b \in Unspoiled' : StakeKnown(b)'
<1>0. PICK e, l, applied, wrong :
        /\ e = LedgerQueue[q] /\ l = DelegatorLedgers[e.who]
        /\ applied = (success /\ block <= e.timeout)
        /\ wrong = (q \notin DOMAIN outcome \/ (applied # (outcome[q] = "ok")))
  OBVIOUS
<1>1. /\ TypeOK /\ QueriesOK
      /\ LedgerQueue' = Without(LedgerQueue, q) /\ outcome' = Without(outcome, q)
      /\ spoiled' = SpoilIf(wrong, "stake", e.who)
      /\ UNCHANGED <<channel, relay, unreported>>
  BY <1>0 DEF confirm_delegator_ledger, StakeInv
<1>2. /\ applied => CanApply(l, e)
      /\ applied => DelegatorLedgers' = [DelegatorLedgers EXCEPT ![e.who] = Applied(l, e)]
      /\ ~applied => DelegatorLedgers' = DelegatorLedgers
  BY <1>0 DEF confirm_delegator_ledger
<1>3. PICK d \in Delegators : d = e.who
  BY <1>0, <1>1, QueryFacts, EntryFacts
<1>4. /\ e \in Entries /\ l \in Ledgers \cup {NoLedger} /\ relay[d] \in Stakes
      /\ unreported[d] \in Nat
  BY <1>0, <1>1, <1>3, QueryFacts DEF TypeOK, LedgerTypes
<1>5. Unspoiled' \subseteq Unspoiled /\ (wrong => d \notin Unspoiled')
  BY <1>1, <1>3, SpoilFacts DEF Unspoiled, Kinds
<1>6. /\ DOMAIN LedgerQueue' = DOMAIN LedgerQueue \ {q}
      /\ \A p \in DOMAIN LedgerQueue' : LedgerQueue'[p] = LedgerQueue[p]
      /\ \A p : p # q => (Succeeded(p)' <=> Succeeded(p))
  BY <1>1 DEF Without, Succeeded
<1>7. ASSUME NEW b \in Unspoiled', b # d PROVE StakeKnown(b)'
  <2>1. StakeKnown(b) /\ b \in Delegators
    BY <1>5 DEF StakeInv, Unspoiled
  <2>2. DelegatorLedgers'[b] = DelegatorLedgers[b]
    BY <1>1, <1>2, <1>3, <1>7, <2>1 DEF TypeOK, LedgerTypes
  <2>3. PendingOf(b)' = PendingOf(b) /\ q \notin PendingOf(b)
    BY <1>0, <1>3, <1>6, <1>7 DEF PendingOf
  <2>4. \A p \in PendingOf(b) :
          LedgerQueue'[p] = LedgerQueue[p] /\ (Succeeded(p)' <=> Succeeded(p))
    BY <1>6, <2>3 DEF PendingOf
  <2> QED BY <1>1, <2>1, <2>2, <2>3, <2>4, StakeFrame
<1>8. ASSUME d \in Unspoiled' PROVE StakeKnown(d)'
  <2>1. StakeKnown(d) /\ PendingKnown(d) /\ (applied <=> Succeeded(q)) /\ q \in DOMAIN outcome
    BY <1>0, <1>5, <1>8 DEF StakeInv, StakeKnown, Succeeded
  <2>2. q \in PendingOf(d) /\ PendingOf(d)' = PendingOf(d) \ {q}
    BY <1>0, <1>3, <1>6 DEF PendingOf
  <2>3. \A p \in PendingOf(d)' :
          /\ LedgerQueue'[p] = LedgerQueue[p] /\ (Succeeded(p)' <=> Succeeded(p))
          /\ p # q /\ p \in PendingOf(d)
    BY <1>6, <2>2 DEF PendingOf
  <2>4. \A i \in DOMAIN channel' : channel'[i].who = d /\ channel'[i].call \in StakeCalls =>
          channel'[i].query \in PendingOf(d)'
    BY <1>1, <2>1, <2>2 DEF PendingKnown, QueriesOK, Matches
  <2>5. Changes(d)' = Changes(d) \ {q} /\ Credits(d)' = Credits(d) \ {q}
    BY <2>2, <2>3 DEF Changes, Credits
  <2>6. \A p, r \in Changes(d)' : p = r
    BY <2>1, <2>5 DEF PendingKnown
  <2>7. CASE ~applied
    <3>1. DelegatorLedgers'[d] = DelegatorLedgers[d] /\ ~Succeeded(q)
      BY <1>2, <2>1, <2>7
    <3>2. Credits(d)' = Credits(d)
      BY <2>5, <3>1 DEF Credits
    <3>3. Ahead(d)' = Ahead(d)
      <4>1. \A p \in Credits(d) : LedgerQueue'[p] = LedgerQueue[p]
        BY <2>3, <3>2 DEF Credits
      <4> QED BY <1>1, <3>2, <4>1, AheadSame
    <3>4. PendingKnown(d)'
      BY <2>1, <2>3, <2>4, <2>6, <3>1 DEF PendingKnown
    <3>5. \A p \in Changes(d)' : p \in Changes(d) /\ p \in PendingOf(d)'
      BY <2>5 DEF Changes
    <3>6. \A p \in Changes(d)' : Succeeded(p)' =>
            /\ Ripe(DelegatorLedgers'[d], LedgerQueue'[p])
            /\ Mirrors(Applied(DelegatorLedgers'[d], LedgerQueue'[p]), relay'[d], Ahead(d)')
      BY <1>1, <2>1, <2>3, <3>1, <3>3, <3>5 DEF StakeKnown
    <3>7. (\A p \in Changes(d)' : ~Succeeded(p)')
            => Mirrors(DelegatorLedgers'[d], relay'[d], Ahead(d)')
      <4>1. (\A p \in Changes(d)' : ~Succeeded(p)') => \A p \in Changes(d) : ~Succeeded(p)
        BY <2>3, <2>5, <3>1, <3>5
      <4> QED BY <1>1, <2>1, <3>1, <3>3, <4>1 DEF StakeKnown
    <3>8. /\ WellFormed(DelegatorLedgers'[d])
          /\ DelegatorLedgers'[d] = NoLedger =>
               ~relay'[d].bonded /\ unreported'[d] = 0 /\ \A p \in PendingOf(d)' : ~Succeeded(p)'
      BY <1>1, <2>1, <2>3, <3>1 DEF StakeKnown
    <3> QED BY <3>4, <3>6, <3>7, <3>8 DEF StakeKnown
  <2>8. CASE applied
    <3>0. PICK k : k = Applied(l, e)
      OBVIOUS
    <3>1. /\ CanApply(l, e) /\ DelegatorLedgers'[d] = k /\ l = DelegatorLedgers[d] /\ Succeeded(q)
      BY <1>0, <1>1, <1>2, <1>3, <2>1, <2>8, <3>0 DEF TypeOK, LedgerTypes
    <3>2. l \in Ledgers /\ k \in Ledgers /\ k # NoLedger
      BY <1>4, <3>0, <3>1, AppliedEffect, LedgerFacts DEF CanApply
    <3>3. WellFormed(l) /\ Fits(l, e)
      BY <1>0, <2>1, <2>2, <3>1 DEF StakeKnown, PendingKnown
    <3>4. CASE e.op = "Bond"
      <4>0. PICK x, y : x = Ahead(d)' /\ y = Ahead(d)
        OBVIOUS
      <4>1. q \in Credits(d) /\ q \notin Changes(d)
        BY <1>0, <2>2, <3>1, <3>4 DEF Credits, Changes
      <4>2. \A p \in Credits(d) \ {q} : LedgerQueue'[p] = LedgerQueue[p]
        BY <2>3, <2>5 DEF Credits
      <4>3. y = x + e.amount /\ x \in Nat /\ y \in Nat /\ e.amount \in Nat
        <5>1. Ahead(d) = Ahead(d)' + LedgerQueue[q].amount /\ Ahead(d)' \in Nat
          BY <1>1, <1>4, <2>5, <4>1, <4>2, AheadLess
        <5>2. Ahead(d) \in Nat /\ e.amount \in Nat
          BY <1>1, <1>4, AheadType, EntryFacts
        <5> QED BY <1>0, <4>0, <5>1, <5>2
      <4>4. k.active = l.active + e.amount /\ k.total = l.total + e.amount
            /\ k.unlocking = l.unlocking
        BY <3>0, <3>1, <3>2, <3>4, <1>4, AppliedEffect
      <4>5. /\ Mirrors(l, relay[d], y) => Mirrors(k, relay[d], x)
            /\ WellFormed(l) => WellFormed(k)
            /\ \A f \in Entries :
                 /\ Fits(l, f) => Fits(k, f)
                 /\ f.op # "Bond" /\ Ripe(l, f) => Ripe(k, f)
                 /\ f.op # "Bond" /\ Ripe(l, f) /\ Mirrors(Applied(l, f), relay[d], y)
                     => Mirrors(Applied(k, f), relay[d], x)
        BY <1>4, <3>2, <4>3, <4>4, MirrorsBooked
      <4>6. \A p \in PendingOf(d)' : LedgerQueue'[p] \in Entries
        BY <1>1, <2>3, PendingFacts
      <4>7. PendingKnown(d)'
        BY <2>1, <2>3, <2>4, <2>6, <3>1, <4>5, <4>6 DEF PendingKnown
      <4>8. \A p \in Changes(d)' :
              p \in Changes(d) /\ p \in PendingOf(d)' /\ LedgerQueue'[p].op # "Bond"
        BY <2>5 DEF Changes
      <4>9. \A p \in Changes(d)' : Succeeded(p)' =>
              /\ Ripe(DelegatorLedgers'[d], LedgerQueue'[p])
              /\ Mirrors(Applied(DelegatorLedgers'[d], LedgerQueue'[p]), relay'[d], Ahead(d)')
        <5> SUFFICES ASSUME NEW p \in Changes(d)', Succeeded(p)'
                     PROVE  /\ Ripe(k, LedgerQueue[p])
                            /\ Mirrors(Applied(k, LedgerQueue[p]), relay[d], x)
          BY <1>1, <2>3, <3>1, <4>0, <4>8
        <5>1. /\ Ripe(l, LedgerQueue[p]) /\ Mirrors(Applied(l, LedgerQueue[p]), relay[d], y)
              /\ LedgerQueue[p] \in Entries /\ LedgerQueue[p].op # "Bond"
          BY <2>1, <2>3, <3>1, <4>0, <4>6, <4>8 DEF StakeKnown
        <5> QED BY <4>5, <5>1
      <4>10. (\A p \in Changes(d)' : ~Succeeded(p)')
               => Mirrors(DelegatorLedgers'[d], relay'[d], Ahead(d)')
        <5>1. (\A p \in Changes(d)' : ~Succeeded(p)') => \A p \in Changes(d) : ~Succeeded(p)
          BY <2>3, <2>5, <4>1, <4>8
        <5> QED BY <1>1, <2>1, <3>1, <4>0, <4>5, <5>1 DEF StakeKnown
      <4> QED BY <3>1, <3>2, <3>3, <4>5, <4>7, <4>9, <4>10 DEF StakeKnown
    <3>5. CASE e.op # "Bond"
      <4>1. q \in Changes(d) /\ q \notin Credits(d)
        BY <1>0, <2>2, <3>1, <3>5 DEF Credits, Changes
      <4>2. Changes(d)' = {} /\ Credits(d)' = Credits(d)
        BY <2>1, <2>5, <4>1 DEF PendingKnown
      <4>3. Ahead(d)' = Ahead(d)
        <5>1. \A p \in Credits(d) : LedgerQueue'[p] = LedgerQueue[p]
          BY <2>3, <4>2 DEF Credits
        <5> QED BY <1>1, <4>2, <5>1, AheadSame
      <4>4. Ripe(l, e) /\ Mirrors(k, relay[d], Ahead(d))
        BY <1>0, <2>1, <3>0, <3>1, <4>1 DEF StakeKnown
      <4>5. WellFormed(k)
        BY <1>4, <3>0, <3>2, <3>3, <4>4, AppliedWellFormed
      <4>6. \A p \in PendingOf(d)' : LedgerQueue'[p].op = "Bond"
        BY <4>2 DEF Changes
      <4>7. \A p \in PendingOf(d)' : Fits(DelegatorLedgers'[d], LedgerQueue'[p])
        BY <3>1, <3>2, <4>6 DEF Fits
      <4>8. PendingKnown(d)'
        BY <2>4, <2>6, <4>7 DEF PendingKnown
      <4> QED BY <1>1, <3>1, <3>2, <4>2, <4>3, <4>4, <4>5, <4>8 DEF StakeKnown
    <3> QED BY <3>4, <3>5
  <2> QED BY <2>7, <2>8
<1> QED BY <1>7, <1>8

(* The part of Ahead that is queued does not depend on what is reported.   *)
LEMMA AheadReported ==
  ASSUME TypeOK, NEW d \in Delegators, LedgerQueue' = LedgerQueue, outcome' = outcome
  PROVE  \E c \in Nat : Ahead(d) = c + unreported[d] /\ Ahead(d)' = c + unreported'[d]
<1>1. SumFunctionOnSet(QueuedAmounts, Credits(d)) \in Nat
  BY AheadType
<1>2. QueuedAmounts' = QueuedAmounts /\ Credits(d)' = Credits(d)
  BY DEF QueuedAmounts, Credits, PendingOf, Succeeded
<1> QED BY <1>1, <1>2 DEF Ahead

(* A stake of nothing.                                                     *)
LEMMA NothingStaked ==
  ASSUME NEW r \in Stakes, NEW h, Sound(r, h), Unlocking(r.unlocking) = 0
  PROVE  r.unlocking = <<>>
<1> DEFINE s == r.unlocking
<1>1. SUFFICES ASSUME s # <<>> PROVE FALSE
  OBVIOUS
<1>2. s \in Seq(Chunks)
  BY StakeFacts
<1>3. 1 \in DOMAIN s
  BY <1>1, <1>2
<1>4. s[1].value > 0
  BY <1>3 DEF Sound
<1>5. /\ IsFiniteSet(DOMAIN s) /\ \A i \in DOMAIN s : Values(s)[i] \in Nat
      /\ Values(s)[1] = s[1].value
  BY <1>2, <1>3, ChunkFacts
<1>6. /\ Unlocking(s) = Values(s)[1] + SumFunctionOnSet(Values(s), DOMAIN s \ {1})
      /\ SumFunctionOnSet(Values(s), DOMAIN s \ {1}) \in Nat
  <2>1. IsFiniteSet(DOMAIN s \ {1})
    BY <1>5, FS_Subset
  <2>2. \A i \in DOMAIN s : Values(s)[i] \in Int
    BY <1>5
  <2> QED BY <1>3, <1>5, <2>1, <2>2, SetSumRemove, SetSumNat DEF Unlocking
<1> HIDE DEF s
<1>7. Values(s)[1] \in Nat
  BY <1>3, <1>5
<1> QED BY <1>4, <1>5, <1>6, <1>7 DEF s

LEMMA EmptyLedger ==
  /\ WellFormed(NoLedger)
  /\ \A r : r.active = 0 /\ r.unlocking = <<>> => Mirrors(NoLedger, r, 0)
<1>1. DOMAIN <<>> = {}
  OBVIOUS
<1>2. Unlocking(<<>>) = 0
  BY <1>1, SetSumEmpty DEF Unlocking
<1>3. Ordered(<<>>)
  BY <1>1 DEF Ordered
<1>4. WellFormed(NoLedger)
  BY <1>2, <1>3, NoLedgerFacts DEF WellFormed
<1> QED BY <1>4, NoLedgerFacts DEF Mirrors

(* A ledger of nothing is removed with nothing on its way: the stake is    *)
(* gone too.                                                               *)
LEMMA StakeRemove ==
  ASSUME StakeInv, TypeOK', NEW d \in Delegators, remove_delegator(d)
  PROVE  \A b \in Unspoiled' : StakeKnown(b)'
<1>0. PICK left : left = (PendingOf(d) # {} \/ unreported[d] > 0)
  OBVIOUS
<1>1. /\ TypeOK /\ DelegatorLedgers[d] # NoLedger /\ DelegatorLedgers[d].total = 0
      /\ DelegatorLedgers' = [DelegatorLedgers EXCEPT ![d] = NoLedger]
      /\ spoiled' = SpoilIf(left, "stake", d)
      /\ UNCHANGED <<LedgerQueue, outcome, channel, relay, unreported>>
  BY <1>0 DEF remove_delegator, Bonded, queries, StakeInv
<1>2. Unspoiled' \subseteq Unspoiled /\ (left => d \notin Unspoiled')
  BY <1>1, SpoilFacts DEF Unspoiled, Kinds
<1>3. ASSUME NEW b PROVE PendingOf(b)' = PendingOf(b) /\ (Succeeded(b)' <=> Succeeded(b))
  BY <1>1 DEF PendingOf, Succeeded
<1>4. ASSUME NEW b \in Unspoiled', b # d PROVE StakeKnown(b)'
  <2>1. StakeKnown(b) /\ b \in Delegators
    BY <1>2 DEF StakeInv, Unspoiled
  <2>2. DelegatorLedgers'[b] = DelegatorLedgers[b]
    BY <1>1, <1>4, <2>1 DEF TypeOK, LedgerTypes
  <2> QED BY <1>1, <1>3, <2>1, <2>2, StakeFrame
<1>5. ASSUME d \in Unspoiled' PROVE StakeKnown(d)'
  <2>0. PICK l, r : l = DelegatorLedgers[d] /\ r = relay[d]
    OBVIOUS
  <2>1. StakeKnown(d) /\ PendingOf(d) = {} /\ unreported[d] = 0
    <3>1. unreported[d] \in Nat
      BY <1>1, DelegatorFacts DEF TypeOK
    <3>2. ~left /\ d \in Unspoiled
      BY <1>2, <1>5
    <3>3. ~(PendingOf(d) # {} \/ unreported[d] > 0)
      BY <1>0, <3>2, Zenon
    <3> QED BY <3>1, <3>2, <3>3 DEF StakeInv
  <2>2. Changes(d) = {} /\ Credits(d) = {}
    BY <2>1 DEF Changes, Credits
  <2>3. Mirrors(l, r, 0) /\ WellFormed(l)
    BY <1>1, <2>0, <2>1, <2>2, AheadType DEF StakeKnown
  <2>4. /\ l \in Ledgers /\ r \in Stakes /\ l.active \in Nat /\ l.total = 0
        /\ Sound(r, era + UnlockDelay)
    BY <1>1, <2>0, DelegatorFacts DEF TypeOK, Bonded, StakeInv, RelaySound
  <2>5. /\ Unlocking(l.unlocking) = Unlocking(r.unlocking) /\ Unlocking(l.unlocking) \in Nat
    BY <2>3, <2>4, MirrorsUnlocking
  <2>6. l.active = 0 /\ Unlocking(r.unlocking) = 0 /\ r.active = 0
    <3>1. 0 = l.active + Unlocking(l.unlocking) /\ l.active + 0 = r.active
      BY <2>3, <2>4 DEF WellFormed, Mirrors
    <3> QED BY ONLY <2>4, <2>5, <3>1
  <2>7. r.unlocking = <<>>
    BY <2>4, <2>6, NothingStaked
  <2>8. ~r.bonded
    BY <2>4, <2>6, <2>7 DEF Sound
  <2>9. DelegatorLedgers'[d] = NoLedger /\ relay'[d] = r
    BY <1>1, <2>0 DEF TypeOK, LedgerTypes
  <2>10. PendingOf(d)' = {} /\ Changes(d)' = {} /\ Credits(d)' = {}
    BY <1>3, <2>1 DEF Changes, Credits
  <2>11. Ahead(d)' = 0
    <3>1. \E c \in Nat : Ahead(d) = c + unreported[d] /\ Ahead(d)' = c + unreported'[d]
      BY <1>1, AheadReported
    <3> QED BY <1>1, <2>1, <2>2, <3>1, AheadType
  <2>12. Mirrors(NoLedger, r, 0) /\ WellFormed(NoLedger)
    BY <2>6, <2>7, EmptyLedger
  <2>13. PendingKnown(d)'
    <3>1. \A i \in DOMAIN channel' : channel'[i].who = d /\ channel'[i].call \in StakeCalls =>
            channel'[i].query \in PendingOf(d)'
      BY <1>1, <1>3, <2>1 DEF StakeKnown, PendingKnown
    <3> QED BY <2>10, <3>1 DEF PendingKnown
  <2> QED BY <1>1, <2>0, <2>1, <2>8, <2>9, <2>10, <2>11, <2>12, <2>13 DEF StakeKnown
<1> QED BY <1>4, <1>5

(* The operator writes the ledger: it is known again only when the stake   *)
(* was copied with nothing under way.                                      *)
LEMMA StakeSet ==
  ASSUME StakeInv, TypeOK', NEW d \in Delegators, NEW copy \in BOOLEAN,
         set_delegator_ledger(d, copy)
  PROVE  \A b \in Unspoiled' : StakeKnown(b)'
<1>0. PICK r, sure : r = relay[d] /\ sure = (copy /\ PendingOf(d) = {} /\ ~InFlight(d))
  OBVIOUS
<1>1. /\ TypeOK
      /\ copy => DelegatorLedgers' = [DelegatorLedgers EXCEPT ![d] =
           [total |-> r.active + Unlocking(r.unlocking), active |-> r.active,
            unlocking |-> r.unlocking]]
      /\ ~copy => DelegatorLedgers' = [DelegatorLedgers EXCEPT ![d] = NoLedger]
      /\ copy => unreported' = [unreported EXCEPT ![d] = 0]
      /\ ~copy => unreported' = unreported
      /\ UNCHANGED <<LedgerQueue, outcome, channel, relay>>
  BY <1>0 DEF set_delegator_ledger, queries, StakeInv
<1>2. /\ sure => spoiled' = [spoiled EXCEPT !["stake"] = @ \ {d}, !["chill"] = @ \ {d}]
      /\ ~sure => spoiled' = SpoilIf(TRUE, "stake", d)
  BY <1>0 DEF set_delegator_ledger
<1>3. /\ \A b \in Unspoiled' : b \in Delegators /\ (b # d => b \in Unspoiled)
      /\ d \in Unspoiled' => sure
  <2>1. CASE sure
    BY <1>1, <1>2, <2>1 DEF Unspoiled, TypeOK, LedgerTypes, Kinds
  <2>2. CASE ~sure
    <3>1. spoiled' = SpoilIf(TRUE, "stake", d)
      BY <1>2, <2>2
    <3>2. d \in spoiled'["stake"] /\ \A j \in Kinds : spoiled[j] \subseteq spoiled'[j]
      BY <1>1, <3>1, SpoilFacts DEF Kinds
    <3> QED BY <3>2 DEF Unspoiled, Kinds
  <2> QED BY <2>1, <2>2
<1>4. ASSUME NEW b PROVE PendingOf(b)' = PendingOf(b) /\ (Succeeded(b)' <=> Succeeded(b))
  BY <1>1 DEF PendingOf, Succeeded
<1>5. ASSUME NEW b \in Unspoiled', b # d PROVE StakeKnown(b)'
  <2>1. StakeKnown(b) /\ b \in Delegators
    BY <1>3, <1>5 DEF StakeInv
  <2>2. DelegatorLedgers'[b] = DelegatorLedgers[b] /\ unreported'[b] = unreported[b]
    BY <1>1, <1>5, <2>1 DEF TypeOK, LedgerTypes
  <2> QED BY <1>1, <1>4, <2>1, <2>2, StakeFrame
<1>6. ASSUME d \in Unspoiled' PROVE StakeKnown(d)'
  <2>0. PICK l : l = [total |-> r.active + Unlocking(r.unlocking), active |-> r.active,
                      unlocking |-> r.unlocking]
    OBVIOUS
  <2>1. copy /\ PendingOf(d) = {} /\ ~InFlight(d)
    BY <1>0, <1>3, <1>6
  <2>2. DelegatorLedgers'[d] = l /\ unreported'[d] = 0 /\ relay'[d] = r
    BY <1>0, <1>1, <2>0, <2>1 DEF TypeOK, LedgerTypes
  <2>3. PendingOf(d)' = {} /\ Changes(d)' = {} /\ Credits(d)' = {}
    BY <1>4, <2>1 DEF Changes, Credits
  <2>4. Ahead(d)' = 0
    BY <2>2, <2>3, SetSumEmpty DEF Ahead
  <2>5. r \in Stakes /\ Ordered(r.unlocking) /\ r.active \in Nat /\ Unlocking(r.unlocking) \in Nat
    BY <1>0, <1>1, DelegatorFacts, SoundOrdered, StakeFacts, UnlockingType
    DEF TypeOK, StakeInv, RelaySound
  <2>6. /\ l.active = r.active /\ l.unlocking = r.unlocking
        /\ l.total = l.active + Unlocking(l.unlocking)
    BY <2>0
  <2>7. l \in Ledgers
    BY <2>0, <2>5, StakeFacts DEF Ledgers
  <2>8. Mirrors(l, r, 0) /\ WellFormed(l) /\ l # NoLedger
    BY <2>5, <2>6, <2>7, LedgerFacts DEF Mirrors, WellFormed
  <2>9. PendingKnown(d)'
    BY <1>1, <2>1, <2>3 DEF PendingKnown, InFlight
  <2> QED BY <2>2, <2>3, <2>4, <2>8, <2>9 DEF StakeKnown
<1> QED BY <1>5, <1>6

(* Rewards are booked, no more than the other chain has paid.              *)
LEMMA StakeTune ==
  ASSUME StakeInv, TypeOK', NEW d \in Delegators, NEW v, NEW w \in Nat,
         tune_vtoken_exchange_rate(d, v, w)
  PROVE  \A b \in Unspoiled' : StakeKnown(b)'
<1>0. PICK l, k, over : /\ l = DelegatorLedgers[d] /\ over = (w > unreported[d])
                        /\ k = [l EXCEPT !.active = l.active + w, !.total = l.total + w]
  OBVIOUS
<1>1. /\ TypeOK /\ l # NoLedger /\ spoiled' = SpoilIf(over, "stake", d)
      /\ DelegatorLedgers' = [DelegatorLedgers EXCEPT ![d].active = @ + w, ![d].total = @ + w]
      /\ unreported' = [unreported EXCEPT ![d] = Max({@ - w, 0})]
      /\ UNCHANGED <<LedgerQueue, outcome, channel, relay>>
  BY <1>0 DEF tune_vtoken_exchange_rate, queries, StakeInv, Bonded
<1>2. Unspoiled' \subseteq Unspoiled /\ (over => d \notin Unspoiled')
  BY <1>1, SpoilFacts DEF Unspoiled, Kinds
<1>3. ASSUME NEW b PROVE PendingOf(b)' = PendingOf(b) /\ (Succeeded(b)' <=> Succeeded(b))
  BY <1>1 DEF PendingOf, Succeeded
<1>4. ASSUME NEW b \in Unspoiled', b # d PROVE StakeKnown(b)'
  <2>1. StakeKnown(b) /\ b \in Delegators
    BY <1>2, <1>4 DEF StakeInv, Unspoiled
  <2>2. DelegatorLedgers'[b] = DelegatorLedgers[b] /\ unreported'[b] = unreported[b]
    BY <1>1, <1>4, <2>1 DEF TypeOK, LedgerTypes
  <2> QED BY <1>1, <1>3, <2>1, <2>2, StakeFrame
<1>5. ASSUME d \in Unspoiled' PROVE StakeKnown(d)'
  <2>0. PICK x, y : x = Ahead(d)' /\ y = Ahead(d)
    OBVIOUS
  <2>1. /\ l \in Ledgers /\ relay[d] \in Stakes /\ unreported[d] \in Nat /\ relay'[d] = relay[d]
        /\ l.active \in Nat /\ l.total \in Nat
    BY <1>0, <1>1, DelegatorFacts DEF TypeOK, Bonded
  <2>2. /\ k \in Ledgers /\ k.active = l.active + w /\ k.total = l.total + w
        /\ k.unlocking = l.unlocking
    <3>1. k = [l EXCEPT !.active = l.active + w, !.total = l.total + w]
      BY <1>0
    <3>2. k.active = l.active + w /\ k.total = l.total + w /\ k.unlocking = l.unlocking
      BY ONLY <2>1, <3>1 DEF Ledgers
    <3>3. l.active + w \in Nat /\ l.total + w \in Nat
      BY <2>1
    <3>4. k \in Ledgers
      BY ONLY <2>1, <3>1, <3>3 DEF Ledgers
    <3> QED BY <3>2, <3>4
  <2>3. DelegatorLedgers'[d] = k
    BY <1>0, <1>1, <2>1 DEF TypeOK, LedgerTypes, Ledgers
  <2>4. StakeKnown(d) /\ PendingKnown(d) /\ w <= unreported[d]
    <3>1. ~over /\ d \in Unspoiled
      BY <1>2, <1>5
    <3>2. ~(w > unreported[d])
      BY <1>0, <3>1, Zenon
    <3> QED BY <2>1, <3>1, <3>2 DEF StakeInv, StakeKnown
  <2>5. unreported'[d] = unreported[d] - w
    <3>1. unreported'[d] = Max({unreported[d] - w, 0})
      BY <1>1 DEF TypeOK, LedgerTypes
    <3> QED BY <2>1, <2>4, <3>1 DEF Max
  <2>6. x \in Nat /\ y \in Nat /\ y = x + w
    <3>1. PICK c \in Nat : Ahead(d) = c + unreported[d] /\ Ahead(d)' = c + unreported'[d]
      BY <1>1, AheadReported
    <3> QED BY <2>0, <2>1, <2>4, <2>5, <3>1
  <2>7. /\ Mirrors(l, relay[d], y) => Mirrors(k, relay[d], x)
        /\ WellFormed(l) => WellFormed(k)
        /\ \A f \in Entries :
             /\ Fits(l, f) => Fits(k, f)
             /\ f.op # "Bond" /\ Ripe(l, f) => Ripe(k, f)
             /\ f.op # "Bond" /\ Ripe(l, f) /\ Mirrors(Applied(l, f), relay[d], y)
                  => Mirrors(Applied(k, f), relay[d], x)
    BY <2>1, <2>2, <2>6, MirrorsBooked
  <2>8. Changes(d)' = Changes(d) /\ \A p \in PendingOf(d) : LedgerQueue[p] \in Entries
    BY <1>1, <1>3, PendingFacts DEF Changes
  <2>9. PendingKnown(d)'
    <3>1. \A p \in PendingOf(d)' : Fits(DelegatorLedgers'[d], LedgerQueue'[p])
      BY <1>0, <1>1, <1>3, <2>3, <2>4, <2>7, <2>8 DEF PendingKnown
    <3> QED BY <1>1, <1>3, <2>4, <2>8, <3>1 DEF PendingKnown
  <2>10. \A p \in Changes(d)' : Succeeded(p)' =>
           /\ Ripe(DelegatorLedgers'[d], LedgerQueue'[p])
           /\ Mirrors(Applied(DelegatorLedgers'[d], LedgerQueue'[p]), relay'[d], Ahead(d)')
    <3> SUFFICES ASSUME NEW p \in Changes(d), Succeeded(p)
                 PROVE  Ripe(k, LedgerQueue[p]) /\ Mirrors(Applied(k, LedgerQueue[p]), relay[d], x)
      BY <1>1, <1>3, <2>0, <2>3, <2>8
    <3>1. /\ Ripe(l, LedgerQueue[p]) /\ Mirrors(Applied(l, LedgerQueue[p]), relay[d], y)
          /\ LedgerQueue[p] \in Entries /\ LedgerQueue[p].op # "Bond"
      BY <1>0, <2>0, <2>4, <2>8 DEF StakeKnown, Changes
    <3> QED BY <2>7, <3>1
  <2>11. (\A p \in Changes(d)' : ~Succeeded(p)')
           => Mirrors(DelegatorLedgers'[d], relay'[d], Ahead(d)')
    BY <1>0, <1>3, <2>0, <2>1, <2>3, <2>4, <2>7, <2>8 DEF StakeKnown
  <2>12. k # NoLedger /\ WellFormed(k)
    BY <1>0, <2>2, <2>4, <2>7, LedgerFacts DEF StakeKnown
  <2> QED BY <2>3, <2>9, <2>10, <2>11, <2>12 DEF StakeKnown
<1> QED BY <1>4, <1>5

(* Rewards are paid.                                                       *)
LEMMA StakePay ==
  ASSUME StakeInv, TypeOK', NEW v \in Rewards, relay_pays(v)
  PROVE  \A b \in Unspoiled' : StakeKnown(b)'
<1>0. PICK d : d = Head(channel).who
  OBVIOUS
<1>1. /\ TypeOK /\ channel # <<>> /\ channel' = Tail(channel) /\ v \in Nat
      /\ v > 0 => relay[d].bonded
      /\ UNCHANGED <<LedgerQueue, outcome, DelegatorLedgers, spoiled>>
  BY <1>0, ConstantFacts DEF relay_pays, queries, StakeInv
<1>2. /\ d \in Delegators
      /\ relay' = [relay EXCEPT ![d] = [relay[d] EXCEPT !.active = relay[d].active + v]]
      /\ unreported' = [unreported EXCEPT ![d] = unreported[d] + v]
  BY <1>0, <1>1, RelayPaysType
<1>3. ASSUME NEW b PROVE PendingOf(b)' = PendingOf(b) /\ (Succeeded(b)' <=> Succeeded(b))
  BY <1>1 DEF PendingOf, Succeeded
<1>4. \A i \in DOMAIN channel' : \E j \in DOMAIN channel : channel[j] = channel'[i]
  BY <1>1, QueryFacts, Running
<1>5. \A b \in Unspoiled' : StakeKnown(b) /\ b \in Delegators
  BY <1>1 DEF Unspoiled, StakeInv
<1>6. ASSUME NEW b \in Unspoiled', b # d PROVE StakeKnown(b)'
  <2>1. relay'[b] = relay[b] /\ unreported'[b] = unreported[b]
    BY <1>1, <1>2, <1>5, <1>6 DEF TypeOK, LedgerTypes
  <2> QED BY <1>1, <1>3, <1>4, <1>5, <2>1, StakeFrame
<1>7. ASSUME d \in Unspoiled' PROVE StakeKnown(d)'
  <2>0. PICK l, r, q, x, y : /\ l = DelegatorLedgers[d] /\ r = relay[d] /\ q = relay'[d]
                             /\ x = Ahead(d) /\ y = Ahead(d)'
    OBVIOUS
  <2>1. /\ l \in Ledgers \cup {NoLedger} /\ l.active \in Nat /\ r \in Stakes /\ r.active \in Nat
        /\ unreported[d] \in Nat
    BY <1>1, <1>2, <2>0, DelegatorFacts, StakeFacts DEF TypeOK
  <2>2. /\ q = [r EXCEPT !.active = r.active + v] /\ unreported'[d] = unreported[d] + v
    BY <1>1, <1>2, <2>0 DEF TypeOK, LedgerTypes
  <2>3. /\ q \in Stakes /\ q.active = r.active + v /\ q.unlocking = r.unlocking
        /\ q.bonded = r.bonded
    BY <1>1, <2>1, <2>2, SMTT(30) DEF Stakes
  <2>4. x \in Nat /\ y = x + v
    <3>1. PICK c \in Nat : Ahead(d) = c + unreported[d] /\ Ahead(d)' = c + unreported'[d]
      BY <1>1, <1>2, AheadReported
    <3> QED BY <1>1, <2>0, <2>1, <2>2, <3>1
  <2>5. StakeKnown(d) /\ PendingKnown(d)
    BY <1>5, <1>7 DEF StakeKnown
  <2>6. \A k : k.active \in Nat /\ Mirrors(k, r, x) => Mirrors(k, q, y)
    BY <1>1, <2>1, <2>3, <2>4, MirrorsGain
  <2>7. Changes(d)' = Changes(d) /\ \A p \in PendingOf(d) : LedgerQueue[p] \in Entries
    BY <1>1, <1>3, PendingFacts DEF Changes
  <2>8. PendingKnown(d)'
    BY <1>1, <1>3, <1>4, <2>5, <2>7 DEF PendingKnown
  <2>9. \A p \in Changes(d)' : Succeeded(p)' =>
          /\ Ripe(DelegatorLedgers'[d], LedgerQueue'[p])
          /\ Mirrors(Applied(DelegatorLedgers'[d], LedgerQueue'[p]), relay'[d], Ahead(d)')
    <3> SUFFICES ASSUME NEW p \in Changes(d), Succeeded(p)
                 PROVE  Ripe(l, LedgerQueue[p]) /\ Mirrors(Applied(l, LedgerQueue[p]), q, y)
      BY <1>1, <1>3, <2>0, <2>7
    <3>1. /\ Ripe(l, LedgerQueue[p]) /\ Mirrors(Applied(l, LedgerQueue[p]), r, x)
          /\ LedgerQueue[p] \in Entries
      BY <2>0, <2>5, <2>7 DEF StakeKnown, Changes
    <3>2. Applied(l, LedgerQueue[p]).active \in Nat
      <4>1. CanApply(l, LedgerQueue[p]) /\ l \in Ledgers
        BY <2>1, <3>1 DEF Ripe, CanApply
      <4>2. Applied(l, LedgerQueue[p]) \in Ledgers
        BY <3>1, <4>1, AppliedEffect
      <4> QED BY <4>2, LedgerFacts
    <3> QED BY <2>6, <3>1, <3>2
  <2>10. (\A p \in Changes(d)' : ~Succeeded(p)')
           => Mirrors(DelegatorLedgers'[d], relay'[d], Ahead(d)')
    BY <1>1, <1>3, <2>0, <2>1, <2>5, <2>6, <2>7 DEF StakeKnown
  <2>11. DelegatorLedgers'[d] = NoLedger =>
           ~relay'[d].bonded /\ unreported'[d] = 0 /\ \A p \in PendingOf(d)' : ~Succeeded(p)'
    <3> SUFFICES ASSUME l = NoLedger
                 PROVE  ~q.bonded /\ unreported'[d] = 0 /\ \A p \in PendingOf(d) : ~Succeeded(p)
      BY <1>1, <1>3, <2>0
    <3>1. ~r.bonded /\ unreported[d] = 0 /\ \A p \in PendingOf(d) : ~Succeeded(p)
      BY <2>0, <2>5 DEF StakeKnown
    <3>2. v = 0
      BY <1>1, <2>0, <3>1
    <3> QED BY <2>2, <2>3, <3>1, <3>2
  <2> QED BY <1>1, <2>5, <2>8, <2>9, <2>10, <2>11 DEF StakeKnown
<1> QED BY <1>6, <1>7

(* A change that the ledger can make and that runs as its entry says has   *)
(* the same effect on the stake as its answer will have on the ledger.     *)
LEMMA ChangeRuns ==
  ASSUME TypeOK, NEW l \in Ledgers, NEW r \in Stakes, NEW x \in Nat, NEW e \in Entries,
         NEW m \in Messages, Succeeds(m, r), ~Differs(m, r),
         m.call \in OpCalls(e.op), e.op # "Bond", m.amount = e.amount, m.time = e.time,
         m.call = "chill" => m.amount = 0, Sound(r, era + UnlockDelay),
         Within(l.unlocking, era + UnlockDelay), WellFormed(l), Fits(l, e), Mirrors(l, r, x)
  PROVE  Ripe(l, e) /\ Mirrors(Applied(l, e), After(m, r), x)
<1>0. PICK q, h : q = After(m, r) /\ h = era + UnlockDelay
  OBVIOUS
<1>1. /\ era \in 0..MaxEra /\ era \in Int /\ e.op \in Operations /\ e.amount \in Nat
      /\ l.active \in Nat /\ r.active \in Nat /\ Ordered(r.unlocking) /\ Ordered(l.unlocking)
      /\ l # NoLedger
  BY EntryFacts, LedgerFacts, StakeFacts, SoundOrdered DEF TypeOK, ClockTypes, WellFormed
<1>2. CASE e.op = "Unlock"
  <2>1. m.call \in {"unbond", "chill"} /\ e.amount <= l.active
    BY <1>2 DEF OpCalls, Fits
  <2>2. e.amount <= r.active
    BY <1>1, <2>1 DEF Mirrors
  <2>3. CASE m.call = "unbond"
    <3>1. e.time = h
      BY <1>0, <2>3 DEF Differs
    <3>2. q = [r EXCEPT !.active = r.active - e.amount,
                        !.unlocking = IF e.amount = 0 THEN r.unlocking
                                      ELSE Append(r.unlocking, Chunk(e.amount, h))]
          /\ q \in Stakes
      <4> DEFINE cut == IF m.amount <= r.active THEN m.amount ELSE r.active
      <4>1. /\ After(m, r) \in Stakes
            /\ After(m, r) = [r EXCEPT !.active = r.active - cut,
                                       !.unlocking = IF cut = 0 THEN r.unlocking
                                         ELSE Append(r.unlocking, Chunk(cut, era + UnlockDelay))]
        BY <1>1, <2>3, AfterEffect
      <4>2. cut = e.amount
        BY <2>2
      <4> HIDE DEF cut
      <4> QED BY <1>0, <4>1, <4>2
    <3>3. /\ q.active = r.active - e.amount
          /\ q.unlocking = IF e.amount = 0 THEN r.unlocking
                           ELSE Append(r.unlocking, Chunk(e.amount, e.time))
      BY <3>1, <3>2 DEF Stakes
    <3>4. CanApply(l, e) /\ Mirrors(Applied(l, e), q, x)
      BY <1>2, <2>1, <3>2, <3>3, MirrorsUnlock
    <3> QED BY <1>0, <3>1, <3>4 DEF Ripe
  <2>4. CASE m.call = "chill"
    <3>1. e.amount = 0
      BY <2>4
    <3>2. q \in Stakes /\ q.active = r.active /\ q.unlocking = r.unlocking
      <4>1. After(m, r) \in Stakes /\ After(m, r) = [r EXCEPT !.noms = {}]
        BY <1>1, <2>4, AfterEffect
      <4> QED BY ONLY <1>0, <4>1, r \in Stakes DEF Stakes
    <3>3. q.active = r.active - e.amount
      BY <1>1, <3>1, <3>2
    <3>4. CanApply(l, e) /\ Mirrors(Applied(l, e), q, x)
      BY <1>2, <2>1, <3>1, <3>2, <3>3, MirrorsUnlock
    <3> QED BY <1>0, <3>1, <3>4 DEF Ripe
  <2> QED BY <2>1, <2>3, <2>4
<1>3. CASE e.op = "Rebond"
  <2>1. m.call = "rebond" /\ e.amount <= Unlocking(l.unlocking)
    BY <1>3 DEF OpCalls, Fits
  <2>2. e.amount <= Unlocking(r.unlocking)
    BY <2>1, MirrorsUnlocking
  <2>3. q \in Stakes /\ q.active = r.active + e.amount
        /\ q.unlocking = Rebonded(r.unlocking, e.amount)
    <3> DEFINE back == IF m.amount <= Unlocking(r.unlocking) THEN m.amount
                       ELSE Unlocking(r.unlocking)
    <3>1. /\ After(m, r) \in Stakes
          /\ After(m, r) = [r EXCEPT !.active = r.active + back,
                                     !.unlocking = Rebonded(r.unlocking, m.amount)]
      BY <1>1, <2>1, AfterEffect
    <3>2. back = e.amount
      BY <2>2
    <3> HIDE DEF back
    <3> QED BY ONLY <1>0, <3>1, <3>2, m.amount = e.amount, r \in Stakes DEF Stakes
  <2>4. CanApply(l, e) /\ Mirrors(Applied(l, e), q, x)
    BY <1>1, <1>3, <2>3, MirrorsRebond
  <2> QED BY <1>0, <1>3, <2>4 DEF Ripe
<1>4. CASE e.op = "Liquidize"
  <2>1. m.call = "withdraw_unbonded"
    BY <1>4 DEF OpCalls
  <2>2. NotDue(r.unlocking, era) = NotDue(r.unlocking, e.time)
    BY <2>1 DEF Differs, NotDue
  <2>3. q \in Stakes /\ q.active = r.active /\ q.unlocking = NotDue(r.unlocking, e.time)
    <3>1. After(m, r) \in Stakes /\ After(m, r) = Withdrawn(r)
      BY <1>1, <2>1, AfterEffect
    <3>2. Withdrawn(r).active = r.active /\ Withdrawn(r).unlocking = NotDue(r.unlocking, era)
      BY DEF Withdrawn, Stakes
    <3> QED BY ONLY <1>0, <2>2, <3>1, <3>2
  <2>4. CanApply(l, e) /\ Mirrors(Applied(l, e), q, x)
    BY <1>1, <1>4, <2>3, MirrorsWithdraw
  <2> QED BY <1>0, <1>4, <2>4 DEF Ripe
<1> QED BY <1>1, <1>2, <1>3, <1>4 DEF Operations

(* Calls that do not touch what is staked.                                 *)
LEMMA OtherRuns ==
  ASSUME TypeOK, NEW m \in Messages, NEW r \in Stakes, Succeeds(m, r),
         m.call # "payout_stakers", m.call \notin StakeCalls
  PROVE  /\ After(m, r).active = r.active /\ After(m, r).bonded = r.bonded
         /\ After(m, r).unlocking = r.unlocking
<1>1. era \in 0..MaxEra /\ m.call \in {"nominate", "transfer_back", "deposit"}
  BY MessageFacts DEF TypeOK, ClockTypes, RelayCalls, StakeCalls
<1>2. \/ After(m, r) = [r EXCEPT !.noms = m.targets]
      \/ After(m, r) = [r EXCEPT !.free = r.free - m.amount]
      \/ After(m, r) = [r EXCEPT !.free = r.free + m.amount]
  BY <1>1, AfterEffect
<1> QED BY <1>2 DEF Stakes

(* A bond that is covered.                                                 *)
LEMMA BondRuns ==
  ASSUME TypeOK, NEW m \in Messages, NEW r \in Stakes, Succeeds(m, r), ~Differs(m, r),
         m.call \in {"bond", "bond_extra"}
  PROVE  /\ After(m, r) \in Stakes /\ After(m, r).active = r.active + m.amount
         /\ After(m, r).unlocking = r.unlocking
<1> DEFINE most == IF m.amount <= r.free THEN m.amount ELSE r.free
<1>1. era \in 0..MaxEra /\ m.amount \in Nat /\ r.free \in Nat
  BY MessageFacts, StakeFacts DEF TypeOK, ClockTypes
<1>2. /\ After(m, r) \in Stakes
      /\ After(m, r) = [r EXCEPT !.bonded = TRUE, !.active = r.active + most,
                                 !.free = r.free - most]
  BY <1>1, AfterEffect
<1>3. most = m.amount
  BY <1>1 DEF Differs
<1> HIDE DEF most
<1> QED BY <1>2, <1>3 DEF Stakes

(* The other chain runs the oldest message.                                *)
LEMMA StakeRun ==
  ASSUME StakeInv, TypeOK', relay_runs
  PROVE  \A b \in Unspoiled' : StakeKnown(b)'
<1>0. PICK m, r : m = Head(channel) /\ r = relay[m.who]
  OBVIOUS
<1>1. /\ TypeOK /\ QueriesOK /\ channel # <<>> /\ m.call # "payout_stakers"
      /\ channel' = Tail(channel)
      /\ Succeeds(m, r) => relay' = [relay EXCEPT ![m.who] = After(m, r)]
      /\ ~Succeeds(m, r) => relay' = relay
      /\ m.query \in DOMAIN LedgerQueue /\ Succeeds(m, r) => outcome' = Put(outcome, m.query, "ok")
      /\ m.query \in DOMAIN LedgerQueue /\ ~Succeeds(m, r)
           => outcome' = Put(outcome, m.query, "failed")
      /\ outcome' = outcome \/ \E o : outcome' = Put(outcome, m.query, o)
      /\ UNCHANGED <<LedgerQueue, DelegatorLedgers, unreported>>
  BY <1>0 DEF relay_runs, StakeInv
<1>2. /\ Unspoiled' \subseteq Unspoiled
      /\ m.who \in Unspoiled' /\ Succeeds(m, r) =>
           ~Differs(m, r) /\ (m.call = "chill" => ~(m.amount > 0))
  BY <1>0, <1>1 DEF relay_runs, TypeOK, LedgerTypes, Kinds, Unspoiled
<1>3. m \in Messages /\ m.who \in Delegators /\ r \in Stakes /\ m.amount \in Nat
  BY <1>0, <1>1, RelayRunsType, DelegatorFacts, MessageFacts DEF TypeOK
<1>4. /\ m = channel[1] /\ 1 \in DOMAIN channel
      /\ \A i \in DOMAIN channel' : \E j \in DOMAIN channel : channel[j] = channel'[i]
  BY <1>0, <1>1, QueryFacts, Running
<1>5. Matches(m)
  BY <1>1, <1>4 DEF QueriesOK
<1>6. \A p : p # m.query => (Succeeded(p)' <=> Succeeded(p))
  BY <1>1 DEF Put, Succeeded
<1>7. /\ ~Succeeded(m.query)
      /\ m.query \in DOMAIN LedgerQueue => (Succeeded(m.query)' <=> Succeeds(m, r))
  <2>1. ~Succeeded(m.query)
    BY <1>5 DEF Matches, Succeeded
  <2>2. m.query \in DOMAIN LedgerQueue /\ Succeeds(m, r) => Succeeded(m.query)'
    BY <1>1 DEF Put, Succeeded
  <2>3. m.query \in DOMAIN LedgerQueue /\ ~Succeeds(m, r) => ~Succeeded(m.query)'
    BY <1>1 DEF Put, Succeeded
  <2> QED BY <2>1, <2>2, <2>3
<1>8. ASSUME NEW b
      PROVE  PendingOf(b)' = PendingOf(b) /\ Changes(b)' = Changes(b)
             /\ (m.query \in PendingOf(b) => m.query \in DOMAIN LedgerQueue /\ b = m.who)
  BY <1>1, <1>5 DEF PendingOf, Changes, Matches
<1>9. \A b \in Unspoiled' : StakeKnown(b) /\ PendingKnown(b) /\ b \in Delegators
  BY <1>2 DEF StakeInv, Unspoiled, StakeKnown
<1>10. ASSUME NEW b \in Unspoiled',
              b = m.who /\ Succeeds(m, r) => m.call \notin StakeCalls
       PROVE  StakeKnown(b)'
  <2>1. /\ relay'[b].active = relay[b].active /\ relay'[b].bonded = relay[b].bonded
        /\ relay'[b].unlocking = relay[b].unlocking
    <3>1. CASE b = m.who /\ Succeeds(m, r)
      <4>1. relay'[b] = After(m, r) /\ relay[b] = r
        BY <1>0, <1>1, <1>3, <3>1 DEF TypeOK, LedgerTypes
      <4> QED BY <1>1, <1>3, <1>10, <3>1, <4>1, OtherRuns
    <3>2. CASE ~(b = m.who /\ Succeeds(m, r))
      <4>1. relay'[b] = relay[b]
        BY <1>1, <1>9, <3>2 DEF TypeOK, LedgerTypes
      <4> QED BY <4>1
    <3> QED BY <3>1, <3>2
  <2>2. \A q \in PendingOf(b) : Succeeded(q)' <=> Succeeded(q)
    <3>1. m.query \in PendingOf(b) => ~Succeeds(m, r)
      <4>1. SUFFICES ASSUME m.query \in PendingOf(b), Succeeds(m, r) PROVE FALSE
        OBVIOUS
      <4>2. /\ m.query \in DOMAIN LedgerQueue /\ b = m.who
            /\ m.call \in OpCalls(LedgerQueue[m.query].op)
            /\ LedgerQueue[m.query].op \in Operations
        BY <1>1, <1>5, <1>8, <4>1, QueryFacts, EntryFacts DEF Matches
      <4>3. m.call \in StakeCalls
        BY <4>2 DEF OpCalls, Operations, StakeCalls
      <4> QED BY <1>10, <4>1, <4>2, <4>3
    <3> QED BY <1>6, <1>7, <1>8, <3>1
  <2> QED BY <1>1, <1>4, <1>8, <1>9, <2>1, <2>2, StakeFrame
<1>11. ASSUME NEW d \in Unspoiled', d = m.who, Succeeds(m, r), m.call \in StakeCalls
       PROVE  StakeKnown(d)'
  <2>0. PICK q, e, l, s, x, y : /\ q = m.query /\ e = LedgerQueue[q] /\ l = DelegatorLedgers[d]
                                /\ s = After(m, r) /\ x = Ahead(d) /\ y = Ahead(d)'
    OBVIOUS
  <2>1. /\ StakeKnown(d) /\ PendingKnown(d) /\ d \in Delegators /\ ~Differs(m, r)
        /\ m.call = "chill" => m.amount = 0
    BY <1>2, <1>3, <1>9, <1>11
  <2>2. q \in PendingOf(d) /\ q \in DOMAIN LedgerQueue /\ ~Succeeded(q) /\ Succeeded(q)'
    <3>1. m.query \in PendingOf(d)
      BY <1>4, <1>11, <2>1 DEF PendingKnown
    <3> QED BY <1>7, <1>8, <1>11, <2>0, <3>1
  <2>3. /\ e \in Entries /\ e.op \in Operations /\ m.call \in OpCalls(e.op)
        /\ m.amount = e.amount /\ m.time = e.time
    BY <1>1, <1>5, <2>0, <2>2, QueryFacts, EntryFacts DEF Matches
  <2>4. relay'[d] = s /\ relay[d] = r /\ l \in Ledgers \cup {NoLedger} /\ l.active \in Nat
    BY <1>0, <1>1, <1>3, <1>11, <2>0, DelegatorFacts DEF TypeOK, LedgerTypes
  <2>5. Fits(l, e) /\ WellFormed(l)
    BY <2>0, <2>1, <2>2 DEF PendingKnown, StakeKnown
  <2>6. x \in Nat /\ unreported[d] \in Nat
    BY <1>1, <2>0, <2>1, AheadType, DelegatorFacts DEF TypeOK
  <2>7. PendingKnown(d)'
    BY <1>1, <1>4, <1>8, <2>1 DEF PendingKnown
  <2>8. \A p \in Changes(d) : p \in PendingOf(d) /\ LedgerQueue[p] \in Entries
                              /\ LedgerQueue[p].op # "Bond"
    BY <1>1, PendingFacts DEF Changes
  <2>9. CASE e.op = "Bond"
    <3>1. m.call \in {"bond", "bond_extra"} /\ l # NoLedger /\ q \notin Changes(d)
      BY <2>0, <2>3, <2>5, <2>9 DEF OpCalls, Fits, Changes
    <3>2. s \in Stakes /\ s.active = r.active + e.amount /\ s.unlocking = r.unlocking
      BY <1>1, <1>3, <1>11, <2>0, <2>1, <2>3, <3>1, BondRuns
    <3>3. Credits(d)' = Credits(d) \cup {q} /\ q \notin Credits(d)
      BY <1>1, <1>6, <1>8, <2>0, <2>2, <2>9 DEF Credits
    <3>4. y = x + e.amount
      BY <1>1, <2>0, <2>2, <2>6, <3>3, AheadMore
    <3>5. \A k : k.active \in Nat /\ Mirrors(k, r, x) => Mirrors(k, s, y)
      BY <1>3, <2>3, <2>6, <3>2, <3>4, MirrorsGain
    <3>6. \A p \in Changes(d) : Succeeded(p)' <=> Succeeded(p)
      BY <1>6, <2>0, <3>1
    <3>7. \A p \in Changes(d)' : Succeeded(p)' =>
            /\ Ripe(DelegatorLedgers'[d], LedgerQueue'[p])
            /\ Mirrors(Applied(DelegatorLedgers'[d], LedgerQueue'[p]), relay'[d], Ahead(d)')
      <4> SUFFICES ASSUME NEW p \in Changes(d), Succeeded(p)
                   PROVE  Ripe(l, LedgerQueue[p]) /\ Mirrors(Applied(l, LedgerQueue[p]), s, y)
        BY <1>1, <1>8, <2>0, <2>4, <3>6
      <4>1. /\ Ripe(l, LedgerQueue[p]) /\ Mirrors(Applied(l, LedgerQueue[p]), r, x)
            /\ LedgerQueue[p] \in Entries
        BY <2>0, <2>1, <2>4, <2>8 DEF StakeKnown
      <4>2. Applied(l, LedgerQueue[p]).active \in Nat
        <5>1. CanApply(l, LedgerQueue[p]) /\ l \in Ledgers
          BY <2>4, <3>1, <4>1 DEF Ripe
        <5>2. Applied(l, LedgerQueue[p]) \in Ledgers
          BY <4>1, <5>1, AppliedEffect
        <5> QED BY <5>2, LedgerFacts
      <4> QED BY <3>5, <4>1, <4>2
    <3>8. (\A p \in Changes(d)' : ~Succeeded(p)')
            => Mirrors(DelegatorLedgers'[d], relay'[d], Ahead(d)')
      BY <1>1, <1>8, <2>0, <2>1, <2>4, <3>5, <3>6 DEF StakeKnown
    <3> QED BY <1>1, <2>0, <2>5, <2>7, <3>1, <3>7, <3>8 DEF StakeKnown
  <2>10. CASE e.op # "Bond"
    <3>1. q \in Changes(d) /\ \A p \in Changes(d) : p = q
      BY <2>0, <2>1, <2>2, <2>10 DEF Changes, PendingKnown
    <3>2. Mirrors(l, r, x)
      BY <2>0, <2>1, <2>2, <2>4, <3>1 DEF StakeKnown
    <3>3. l # NoLedger
      <4>1. CASE e.op = "Liquidize"
        <5>1. m.call = "withdraw_unbonded"
          BY <2>3, <4>1 DEF OpCalls
        <5>2. r.bonded
          BY <1>11, <5>1 DEF Succeeds
        <5> QED BY <2>0, <2>1, <2>4, <5>2 DEF StakeKnown
      <4>2. CASE e.op # "Liquidize"
        BY <2>5, <4>2 DEF Fits
      <4> QED BY <4>1, <4>2
    <3>4. Credits(d)' = Credits(d)
      BY <1>1, <1>6, <1>8, <2>0, <2>10 DEF Credits
    <3>5. y = x
      BY <1>1, <2>0, <3>4, AheadSame
    <3>6. Sound(r, era + UnlockDelay) /\ Within(l.unlocking, era + UnlockDelay)
      BY <1>0, <1>3, <2>0, <2>1 DEF StakeInv, RelaySound, TimesSound
    <3>7. Ripe(l, e) /\ Mirrors(Applied(l, e), s, x)
      BY <1>1, <1>3, <1>11, <2>0, <2>1, <2>3, <2>4, <2>5, <2>6, <2>10, <3>2, <3>3, <3>6,
         ChangeRuns
    <3>8. \A p \in Changes(d)' : p = q
      BY <1>8, <3>1
    <3>9. ~(\A p \in Changes(d)' : ~Succeeded(p)')
      BY <1>8, <2>2, <3>1
    <3> QED BY <1>1, <2>0, <2>4, <2>5, <2>7, <3>3, <3>5, <3>7, <3>8, <3>9 DEF StakeKnown
  <2> QED BY <2>9, <2>10
<1> QED BY <1>10, <1>11

LEMMA StakeStep == StakeInv /\ [Next]_vars => StakeInv'
<1> SUFFICES ASSUME StakeInv, [Next]_vars PROVE StakeInv'
  OBVIOUS
<1> DEFINE Goal == \A b \in Unspoiled' : StakeKnown(b)'
<1>0. TypeOK /\ TypeOK' /\ QueriesOK' /\ RelaySound' /\ TimesSound'
  BY TypeOKStep, QueriesStep, RelaySoundStep, TimesSoundStep DEF StakeInv
<1>1. ASSUME NEW call, NEW op, NEW d \in Delegators, NEW amount, request(call, op, d, amount),
             UNCHANGED DelegatorLedgers,
             \A e : e.op = op /\ e.amount = amount => Fits(DelegatorLedgers[d], e)
      PROVE  Goal
  BY <1>0, <1>1, StakeRequest
<1>2. ASSUME NEW d \in Delegators, NEW amount, bond(d, amount) PROVE Goal
  <2>0. PICK l : l = [total |-> 0, active |-> 0, unlocking |-> <<>>]
    OBVIOUS
  <2>1. /\ DelegatorLedgers[d] = NoLedger /\ request("bond", "Bond", d, amount)
        /\ DelegatorLedgers' = [DelegatorLedgers EXCEPT ![d] = l]
    BY <1>2, <2>0 DEF bond, Bonded
  <2>2. l # NoLedger /\ l.total = 0 /\ l.active = 0 /\ l.unlocking = <<>>
    <3>1. l \in Ledgers
      BY <2>0 DEF Ledgers
    <3> QED BY <2>0, <3>1, NoLedgerFacts
  <2>3. /\ DelegatorLedgers'[d] = l
        /\ \A b \in Delegators : b # d => DelegatorLedgers'[b] = DelegatorLedgers[b]
    BY <1>0, <2>1 DEF TypeOK, LedgerTypes
  <2>4. \A e : e.op = "Bond" /\ e.amount = amount => Fits(l, e)
    BY <2>2 DEF Fits
  <2> QED BY <1>0, <2>1, <2>2, <2>3, <2>4, NoLedgerFacts, StakeRequest
<1>3. ASSUME NEW d \in Delegators, NEW amount \in Amounts,
             bond_extra(d, amount) \/ unbond(d, amount) \/ rebond(d, amount)
      PROVE  Goal
  <2>1. amount \in Nat /\ DelegatorLedgers[d].active \in Nat
        /\ Unlocking(DelegatorLedgers[d].unlocking) \in Nat
    BY <1>0, ConstantFacts, DelegatorFacts, UnlockingType DEF TypeOK
  <2>2. CASE bond_extra(d, amount)
    <3>1. /\ request("bond_extra", "Bond", d, amount) /\ UNCHANGED DelegatorLedgers
          /\ \A e : e.op = "Bond" /\ e.amount = amount => Fits(DelegatorLedgers[d], e)
      BY <2>2 DEF bond_extra, Bonded, Fits
    <3> QED BY <1>1, <3>1
  <2>3. CASE unbond(d, amount)
    <3>1. /\ request("unbond", "Unlock", d, amount) /\ UNCHANGED DelegatorLedgers
          /\ \A e : e.op = "Unlock" /\ e.amount = amount => Fits(DelegatorLedgers[d], e)
      BY <2>1, <2>3 DEF unbond, CanUnbond, Bonded, Fits
    <3> QED BY <1>1, <3>1
  <2>4. CASE rebond(d, amount)
    <3>1. /\ request("rebond", "Rebond", d, amount) /\ UNCHANGED DelegatorLedgers
          /\ \A e : e.op = "Rebond" /\ e.amount = amount => Fits(DelegatorLedgers[d], e)
      BY <2>1, <2>4 DEF rebond, Bonded, Fits
    <3> QED BY <1>1, <3>1
  <2> QED BY <1>3, <2>2, <2>3, <2>4
<1>4. ASSUME NEW d \in Delegators, unbond_all(d) \/ liquidize(d) \/ chill(d) PROVE Goal
  <2>0. PICK a : a = DelegatorLedgers[d].active
    OBVIOUS
  <2>1. a \in Nat
    BY <1>0, <2>0, DelegatorFacts DEF TypeOK
  <2>2. CASE unbond_all(d) \/ chill(d)
    <3>1. /\ request("unbond", "Unlock", d, a) \/ request("chill", "Unlock", d, a)
          /\ UNCHANGED DelegatorLedgers
          /\ \A e : e.op = "Unlock" /\ e.amount = a => Fits(DelegatorLedgers[d], e)
      BY <2>0, <2>1, <2>2 DEF unbond_all, chill, Bonded, Fits
    <3> QED BY <1>1, <3>1
  <2>3. CASE liquidize(d)
    <3>1. /\ request("withdraw_unbonded", "Liquidize", d, 0) /\ UNCHANGED DelegatorLedgers
          /\ \A e : e.op = "Liquidize" /\ e.amount = 0 => Fits(DelegatorLedgers[d], e)
      BY <2>3 DEF liquidize, Fits
    <3> QED BY <1>1, <3>1
  <2> QED BY <1>4, <2>2, <2>3
<1>5. ASSUME NEW call, NEW d, NEW amount, call \notin StakeCalls, send(call, d, amount) PROVE Goal
  <2>0. PICK m : m = Message(0, call, d, amount, {}, 0)
    OBVIOUS
  <2>1. /\ channel' = Append(channel, m) /\ m.call \notin StakeCalls
        /\ UNCHANGED <<DelegatorLedgers, LedgerQueue, relay, unreported, outcome, spoiled>>
    BY <1>5, <2>0 DEF send, queries, Message
  <2> QED BY <1>0, <2>1, StakeSend
<1>6. ASSUME NEW d \in Delegators, NEW amount, transfer_back(d, amount) \/ transfer_to(d, amount)
      PROVE  Goal
  BY <1>5, <1>6 DEF transfer_back, transfer_to, StakeCalls
<1>7. ASSUME NEW d \in Delegators, payout(d) PROVE Goal
  BY <1>5, <1>7 DEF payout, StakeCalls
<1>8. ASSUME NEW d \in Delegators, NEW targets, delegate(d, targets) \/ undelegate(d, targets)
      PROVE  Goal
  <2>1. PICK new : nominate(d, new)
    BY <1>8 DEF delegate, undelegate
  <2>2. PICK m, over : /\ m = Message(nextQuery, "nominate", d, 0, new, 0)
                       /\ over = (NominationsOf(d) # {})
    OBVIOUS
  <2>3. /\ channel' = Append(channel, m) /\ m.call \notin StakeCalls
        /\ UNCHANGED <<DelegatorLedgers, LedgerQueue, relay, unreported, outcome>>
        /\ spoiled' = SpoilIf(over, "noms", d)
    BY <2>1, <2>2 DEF nominate, send_with_query, Message, StakeCalls
  <2>4. \A k \in Kinds : spoiled[k] \subseteq spoiled'[k]
    BY <1>0, <2>3, SpoilFacts DEF Kinds
  <2> QED BY <1>0, <2>3, <2>4, StakeSend
<1>9. ASSUME UNCHANGED <<DelegatorLedgers, LedgerQueue, relay, unreported, outcome, channel>>,
             \A k \in {"stake", "chill"} : spoiled'[k] = spoiled[k]
      PROVE  Goal
  <2>1. \A q : Succeeded(q)' <=> Succeeded(q)
    BY <1>9 DEF Succeeded
  <2> SUFFICES ASSUME NEW b \in Unspoiled' PROVE StakeKnown(b)'
    OBVIOUS
  <2>2. StakeKnown(b) /\ b \in Delegators /\ PendingOf(b)' = PendingOf(b)
    BY <1>9 DEF StakeInv, Unspoiled, PendingOf
  <2> QED BY <1>0, <1>9, <2>1, <2>2, StakeFrame
<1>10. ASSUME NEW d, NEW t,
              \/ add_delegator(d) \/ initialize_delegator
              \/ tick \/ new_era \/ update_ongoing_time_unit(t)
       PROVE  Goal
  <2>1. UNCHANGED <<DelegatorLedgers, LedgerQueue, relay, unreported, outcome, channel, spoiled>>
    BY <1>10 DEF add_delegator, initialize_delegator, inner_add_delegator, tick, new_era,
                 update_ongoing_time_unit, queries
  <2> QED BY <1>9, <2>1
<1>11. ASSUME NEW d \in Delegators, NEW targets, set_validators_by_delegator(d, targets)
       PROVE  Goal
  <2>1. UNCHANGED <<DelegatorLedgers, LedgerQueue, relay, unreported, outcome, channel>>
    BY <1>11 DEF set_validators_by_delegator, queries
  <2>2. \/ spoiled' = [spoiled EXCEPT !["noms"] = @ \ {d}]
        \/ spoiled' = SpoilIf(TRUE, "noms", d)
    BY <1>11 DEF set_validators_by_delegator
  <2>3. \A k \in {"stake", "chill"} : spoiled'[k] = spoiled[k]
    BY <1>0, <2>2 DEF SpoilIf, TypeOK, LedgerTypes, Kinds
  <2> QED BY <1>9, <2>1, <2>3
<1>12. ASSUME NEW d \in Delegators, remove_delegator(d) PROVE Goal
  BY <1>0, <1>12, StakeRemove
<1>13. ASSUME NEW d \in Delegators, NEW copy \in BOOLEAN, set_delegator_ledger(d, copy) PROVE Goal
  BY <1>0, <1>13, StakeSet
<1>14. ASSUME NEW d \in Delegators, NEW v, NEW w \in Rewards, tune_vtoken_exchange_rate(d, v, w)
       PROVE  Goal
  BY <1>0, <1>14, StakeTune, ConstantFacts
<1>15. ASSUME NEW q \in DOMAIN LedgerQueue, NEW success \in BOOLEAN,
              confirm_delegator_ledger(q, success)
       PROVE  Goal
  BY <1>0, <1>15, StakeConfirm
<1>16. ASSUME NEW q \in DOMAIN ValidatorsQueue, NEW success \in BOOLEAN,
              confirm_validators_by_delegator(q, success)
       PROVE  Goal
  BY <1>0, <1>16, StakeNominations
<1>17. ASSUME relay_runs PROVE Goal
  BY <1>0, <1>17, StakeRun
<1>18. ASSUME NEW v \in Rewards, relay_pays(v) PROVE Goal
  BY <1>0, <1>18, StakePay
<1>19. ASSUME UNCHANGED vars PROVE Goal
  BY <1>9, <1>19 DEF vars, queries
<1> HIDE DEF Goal
<1>20. Goal
  BY <1>2, <1>3, <1>4, <1>6, <1>7, <1>8, <1>10, <1>11, <1>12, <1>13, <1>14, <1>15, <1>16, <1>17,
     <1>18, <1>19
  DEF Next
<1> QED BY <1>0, <1>20 DEF StakeInv, Goal

LEMMA InitStakeInv == Init => StakeInv
<1> SUFFICES ASSUME Init PROVE StakeInv
  OBVIOUS
<1>1. TypeOK /\ era = 0
  BY InitTypeOK DEF Init
<1>2. DOMAIN channel = {} /\ DOMAIN LedgerQueue = {} /\ DOMAIN <<>> = {}
  BY DEF Init
<1>3. QueriesOK
  BY <1>2 DEF QueriesOK
<1>4. ASSUME NEW d \in Delegators
      PROVE  /\ relay[d].unlocking = <<>> /\ relay[d].bonded = (d = 0)
             /\ relay[d].active = IF d = 0 THEN InitialBond ELSE 0
             /\ unreported[d] = 0
             /\ d = 0 => /\ DelegatorLedgers[d].total = InitialBond
                         /\ DelegatorLedgers[d].active = InitialBond
                         /\ DelegatorLedgers[d].unlocking = <<>>
             /\ d # 0 => DelegatorLedgers[d] = NoLedger
  BY DEF Init
<1>5. RelaySound
  <2> SUFFICES ASSUME NEW d \in Delegators PROVE Sound(relay[d], era + UnlockDelay)
    BY DEF RelaySound
  <2>1. relay[d].bonded <=> relay[d].active > 0
    <3>1. CASE d = 0
      BY <1>4, <3>1, ConstantFacts
    <3>2. CASE d # 0
      <4>1. relay[d].bonded = (d = 0)
        BY <1>4
      <4>2. ~relay[d].bonded
        BY <3>2, <4>1, Zenon
      <4>3. relay[d].active = 0
        BY <1>4, <3>2
      <4> QED BY <4>2, <4>3
    <3> QED BY <3>1, <3>2
  <2>2. relay[d].unlocking = <<>>
    BY <1>4
  <2> QED BY <1>2, <2>1, <2>2 DEF Sound, Within
<1>6. TimesSound
  BY <1>2, <1>4, NoLedgerFacts DEF TimesSound, Within
<1>7. ASSUME NEW d \in Delegators PROVE StakeKnown(d)
  <2>1. PendingOf(d) = {} /\ Changes(d) = {} /\ Credits(d) = {}
    BY <1>2 DEF PendingOf, Changes, Credits
  <2>2. Ahead(d) = 0
    BY <1>1, <1>4, <2>1, AheadType
  <2>3. PendingKnown(d)
    BY <1>2, <2>1 DEF PendingKnown
  <2>4. Unlocking(<<>>) = 0 /\ Ordered(<<>>)
    BY <1>2, SetSumEmpty DEF Unlocking, Ordered
  <2>5. CASE d = 0
    <3>1. DelegatorLedgers[d] # NoLedger
      BY <1>4, <2>5, ConstantFacts, NoLedgerFacts
    <3>2. WellFormed(DelegatorLedgers[d])
      BY <1>4, <2>4, <2>5, ConstantFacts DEF WellFormed
    <3>3. Mirrors(DelegatorLedgers[d], relay[d], 0)
      BY <1>4, <2>5, ConstantFacts DEF Mirrors
    <3> QED BY <2>1, <2>2, <2>3, <3>1, <3>2, <3>3 DEF StakeKnown
  <2>6. CASE d # 0
    <3>1. WellFormed(DelegatorLedgers[d]) /\ Mirrors(DelegatorLedgers[d], relay[d], 0)
      BY <1>4, <2>6, EmptyLedger
    <3> QED BY <1>4, <2>1, <2>2, <2>3, <2>6, <3>1 DEF StakeKnown
  <2> QED BY <2>5, <2>6
<1> QED BY <1>1, <1>3, <1>5, <1>6, <1>7 DEF StakeInv, Unspoiled

(* LedgerMirrors: when nothing is pending, a delegator's ledger (what      *)
(* update_ledger_query_response_storage booked) is its stake on the other  *)
(* chain, chunk by chunk, but for rewards not yet reported.                *)
THEOREM LedgersAgreeWithStakes == Spec => []LedgerMirrors
<1>1. StakeInv => LedgerMirrors
  <2> SUFFICES ASSUME StakeInv, NEW d \in Unspoiled, PendingOf(d) = {} PROVE Agrees(d)
    BY DEF LedgerMirrors, Unspoiled
  <2>0. PICK l, r, x : l = DelegatorLedgers[d] /\ r = relay[d] /\ x = unreported[d]
    OBVIOUS
  <2>1. StakeKnown(d) /\ d \in Delegators /\ TypeOK
    BY DEF StakeInv, Unspoiled
  <2>2. Changes(d) = {} /\ Credits(d) = {}
    BY DEF Changes, Credits
  <2>3. Mirrors(l, r, x) /\ WellFormed(l)
    BY <2>0, <2>1, <2>2, AheadType DEF StakeKnown
  <2>4. /\ l \in Ledgers \cup {NoLedger} /\ r \in Stakes /\ x \in Nat /\ l.active \in Nat
        /\ r.active \in Nat
    BY <2>0, <2>1, DelegatorFacts, StakeFacts DEF TypeOK
  <2>5. /\ Unlocking(l.unlocking) = Unlocking(r.unlocking) /\ Unlocking(l.unlocking) \in Nat
        /\ \A t \in TimeUnits : UnlockingAt(l.unlocking, t) = UnlockingAt(r.unlocking, t)
    BY <2>3, <2>4, MirrorsUnlocking
  <2>6. l.active + x = r.active /\ l.total + x = r.active + Unlocking(r.unlocking)
    BY <2>3, <2>4, <2>5 DEF Mirrors, WellFormed
  <2> QED BY <2>0, <2>5, <2>6 DEF Agrees
<1> QED BY <1>1, InitStakeInv, StakeStep, PTL DEF Spec

(* ConfirmApplies: confirm_delegator_ledger never finds the ledger missing *)
(* or too small for an operation that succeeded on the other chain.        *)
THEOREM ConfirmedAreBooked == Spec => []ConfirmApplies
<1>1. StakeInv => ConfirmApplies
  <2> SUFFICES ASSUME StakeInv, NEW q \in DOMAIN LedgerQueue,
                      LedgerQueue[q].who \notin spoiled["stake"] \cup spoiled["chill"],
                      q \in DOMAIN outcome, outcome[q] = "ok"
               PROVE  CanApply(DelegatorLedgers[LedgerQueue[q].who], LedgerQueue[q])
    BY DEF ConfirmApplies
  <2>0. PICK d, e, l : d = LedgerQueue[q].who /\ e = LedgerQueue[q] /\ l = DelegatorLedgers[d]
    OBVIOUS
  <2>1. d \in Unspoiled /\ StakeKnown(d) /\ q \in PendingOf(d) /\ Succeeded(q)
    BY <2>0, QueryFacts, EntryFacts DEF StakeInv, Unspoiled, PendingOf, Succeeded
  <2>2. CASE e.op = "Bond"
    BY <2>0, <2>1, <2>2 DEF StakeKnown, CanApply
  <2>3. CASE e.op # "Bond"
    BY <2>0, <2>1, <2>3 DEF StakeKnown, Changes, Ripe
  <2> QED BY <2>0, <2>2, <2>3
<1> QED BY <1>1, InitStakeInv, StakeStep, PTL DEF Spec
====
