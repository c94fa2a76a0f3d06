------------------------- MODULE VtokenMintingProofs -------------------------
(* Theorems about VtokenMinting, for every value of its constants.         *)
EXTENDS VtokenMinting, NatSumsProofs, MultiCurrencyProofs

(* The accounts of the pallet are different ones.                          *)
LEMMA EntranceNotTreasury ==
  /\ EntranceAccount # TreasuryAccount /\ EntranceAccount # FeeAccount
  /\ FeeAccount # TreasuryAccount
<1> DEFINE three == {EntranceAccount, FeeAccount, TreasuryAccount}
<1>0. Cardinality(three) = 3
  BY MintingAccountsAssumption
<1>1. ASSUME NEW x, NEW y, three = {x, y} PROVE FALSE
  <2>1. IsFiniteSet({x}) /\ Cardinality({x}) = 1
    BY FS_Singleton
  <2>2. {x, y} = {x} \cup {y}
    OBVIOUS
  <2>3. Cardinality({x, y}) = IF y \in {x} THEN 1 ELSE 1 + 1
    BY <2>1, <2>2, FS_AddElement
  <2> QED BY <1>0, <1>1, <2>3
<1>2. EntranceAccount = TreasuryAccount => three = {EntranceAccount, FeeAccount}
  OBVIOUS
<1>3. EntranceAccount = FeeAccount => three = {EntranceAccount, TreasuryAccount}
  OBVIOUS
<1>4. FeeAccount = TreasuryAccount => three = {EntranceAccount, FeeAccount}
  OBVIOUS
<1> HIDE DEF three
<1> QED BY <1>1, <1>2, <1>3, <1>4

-----------------------------------------------------------------------------
(* The three unlock ledgers of a token.                                    *)

(* The amounts of the redeems with ids in K, as a function to sum.         *)
AmountsOf(l, K) == [id \in Nat |-> IF id \in K THEN l.token[id].amount ELSE 0]

(* EntryAgrees with the ids K of its redeems named.                        *)
EntryOK(l, e, K) ==
  /\ e.total = SumTo(AmountsOf(l, K), MaxUnlockId)
  /\ e.ids \subseteq K
  /\ {id \in K : l.token[id].amount > 0} \subseteq e.ids

UserIds(l, u) == {id \in DOMAIN l.token : l.token[id].who = u}
TimeIds(l, t) == {id \in DOMAIN l.token : l.token[id].time = t}

(* What LedgersAgree says of the ledgers of one token.                     *)
LedgerOK(l) ==
  /\ \A u \in Users : EntryOK(l, l.user[u], UserIds(l, u))
  /\ \A t \in TimeUnits : EntryOK(l, l.time_unit[t], TimeIds(l, t))
  /\ l.total = SumTo(AmountsOf(l, DOMAIN l.token), MaxUnlockId)

LEMMA LedgerAgreesIs ==
  ASSUME NEW l
  PROVE  LedgerAgrees(l) <=> LedgerOK(l)
<1>1. ASSUME NEW u
      PROVE  AmountsOf(l, UserIds(l, u)) =
               [id \in Nat |-> IF id \in DOMAIN l.token /\ l.token[id].who = u
                               THEN l.token[id].amount ELSE 0]
  BY DEF AmountsOf, UserIds
<1>2. ASSUME NEW t
      PROVE  AmountsOf(l, TimeIds(l, t)) =
               [id \in Nat |-> IF id \in DOMAIN l.token /\ l.token[id].time = t
                               THEN l.token[id].amount ELSE 0]
  BY DEF AmountsOf, TimeIds
<1>3. AmountsOf(l, DOMAIN l.token) =
        [id \in Nat |-> IF id \in DOMAIN l.token /\ TRUE THEN l.token[id].amount ELSE 0]
  BY DEF AmountsOf
<1>4. \A u \in Users : EntryOK(l, l.user[u], UserIds(l, u)) <=>
                         EntryAgrees(l, l.user[u], LAMBDA r : r.who = u)
  BY <1>1 DEF EntryOK, EntryAgrees, QueuedWhere, UserIds
<1>5. \A t \in TimeUnits : EntryOK(l, l.time_unit[t], TimeIds(l, t)) <=>
                             EntryAgrees(l, l.time_unit[t], LAMBDA r : r.time = t)
  BY <1>2 DEF EntryOK, EntryAgrees, QueuedWhere, TimeIds
<1> QED BY <1>3, <1>4, <1>5 DEF LedgerOK, LedgerAgrees, QueuedWhere

(* Amounts are naturals, and so is their sum.                              *)
LEMMA AmountsType ==
  ASSUME NEW l, IsLedger(l), NEW K \in SUBSET DOMAIN l.token
  PROVE  /\ AmountsOf(l, K) \in [Nat -> Nat]
         /\ SumTo(AmountsOf(l, K), MaxUnlockId) \in Nat
         /\ K \subseteq Nat
<1>1. K \subseteq Nat /\ DOMAIN l.token \subseteq Nat
  BY MintingConfigAssumption DEF IsLedger, UnlockIds
<1>2. \A id \in DOMAIN l.token : l.token[id].amount \in Nat
  BY DEF IsLedger, Redeems
<1>3. AmountsOf(l, K) \in [Nat -> Nat]
  BY <1>1, <1>2 DEF AmountsOf
<1> QED BY <1>1, <1>3, SumType, MintingConfigAssumption

(* A ledger entry after m replaced l: id has come in or has been cut, all  *)
(* other redeems are what they were.                                       *)
LEMMA EntryAdded ==
  ASSUME NEW l, IsLedger(l), NEW m, IsLedger(m), NEW e \in Entries,
         NEW id \in UnlockIds, id \notin DOMAIN l.token, id \in DOMAIN m.token,
         \A i \in DOMAIN l.token : i \in DOMAIN m.token /\ m.token[i] = l.token[i],
         NEW K \in SUBSET DOMAIN l.token, EntryOK(l, e, K)
  PROVE  EntryOK(m, AddToEntry(e, id, m.token[id].amount), K \cup {id}) /\ EntryOK(m, e, K)
<1> DEFINE f == AmountsOf(l, K)
           g == AmountsOf(m, K)
           h == AmountsOf(m, K \cup {id})
           a == m.token[id].amount
<1>1. K \cup {id} \in SUBSET DOMAIN m.token /\ K \in SUBSET DOMAIN m.token
  OBVIOUS
<1>2. f \in [Nat -> Nat] /\ g \in [Nat -> Nat] /\ h \in [Nat -> Nat]
  BY <1>1, AmountsType
<1>3. id \in Nat /\ id < MaxUnlockId /\ MaxUnlockId \in Nat /\ id \notin K
  BY MintingConfigAssumption DEF UnlockIds
<1>4. f = g
  BY DEF AmountsOf
<1>5. g[id] = 0 /\ h[id] = a
  BY <1>3 DEF AmountsOf
<1>6. \A i \in Nat : i # id => g[i] = h[i]
  BY DEF AmountsOf
<1>7. a \in Nat
  BY DEF IsLedger, Redeems
<1> HIDE DEF f, g, h, a
<1>8. SumTo(h, MaxUnlockId) + g[id] = SumTo(g, MaxUnlockId) + h[id]
  <2>1. \A i \in Nat : i < MaxUnlockId /\ i # id => g[i] = h[i]
    BY <1>6
  <2> QED BY ONLY <1>2, <1>3, <2>1, SumUpdate
<1>9. SumTo(h, MaxUnlockId) \in Nat /\ SumTo(g, MaxUnlockId) \in Nat
  BY <1>2, <1>3, SumType
<1>10. EntryOK(m, e, K)
  BY <1>4 DEF EntryOK, f, g
<1>11. e.total = SumTo(g, MaxUnlockId)
  BY <1>4 DEF EntryOK, f
<1>12. AddToEntry(e, id, a).total = SumTo(h, MaxUnlockId)
  BY <1>5, <1>7, <1>8, <1>9, <1>11 DEF AddToEntry
<1>13. EntryOK(m, AddToEntry(e, id, a), K \cup {id})
  BY <1>12, <1>10 DEF EntryOK, AddToEntry, h
<1> QED BY <1>10, <1>13 DEF a

(* The redeems m holds of those of l, cut at id by amount.                 *)
CutAt(l, m, id, amount) ==
  /\ id \in DOMAIN l.token /\ amount <= l.token[id].amount
  /\ DOMAIN m.token = IF amount = l.token[id].amount THEN DOMAIN l.token \ {id}
                      ELSE DOMAIN l.token
  /\ \A i \in DOMAIN m.token :
       m.token[i] = [l.token[i] EXCEPT !.amount = IF i = id THEN @ - amount ELSE @]

(* An entry after a redeem was cut: with the cut made in it if it lists    *)
(* the redeem, as it was if not.                                           *)
LEMMA EntryCut ==
  ASSUME NEW l, IsLedger(l), NEW m, IsLedger(m), NEW e \in Entries, NEW id, NEW amount \in Nat,
         CutAt(l, m, id, amount), NEW K \in SUBSET DOMAIN l.token, EntryOK(l, e, K)
  PROVE  /\ id \in K => /\ EntryOK(m, SubFromEntry(e, id, amount, Removes(l, id, amount)),
                                    K \cap DOMAIN m.token)
                        /\ amount <= e.total
                        /\ SumTo(AmountsOf(m, K \cap DOMAIN m.token), MaxUnlockId)
                             = e.total - amount
         /\ id \notin K => EntryOK(m, e, K \cap DOMAIN m.token) /\ K \subseteq DOMAIN m.token
<1> DEFINE J == K \cap DOMAIN m.token
           f == AmountsOf(l, K)
           g == AmountsOf(m, J)
           a == l.token[id].amount
<1>1. J \in SUBSET DOMAIN m.token
  OBVIOUS
<1>2. f \in [Nat -> Nat] /\ g \in [Nat -> Nat]
  BY <1>1, AmountsType
<1>3. id \in Nat /\ id < MaxUnlockId /\ MaxUnlockId \in Nat /\ id \in DOMAIN l.token
  BY MintingConfigAssumption DEF UnlockIds, IsLedger, CutAt
<1>4. a \in Nat /\ amount <= a /\ (Removes(l, id, amount) <=> amount = a)
  <2>1. l.token[id] \in Redeems
    BY <1>3 DEF IsLedger
  <2>2. a \in Nat
    BY <2>1 DEF Redeems
  <2>3. amount <= a
    BY DEF CutAt
  <2> QED BY <2>2, <2>3 DEF Removes
<1>5. \A i \in DOMAIN m.token : i \in DOMAIN l.token /\ l.token[i].amount \in Nat
           /\ m.token[i].amount = IF i = id THEN l.token[i].amount - amount
                                  ELSE l.token[i].amount
  BY ZenonT(60) DEF IsLedger, Redeems, CutAt
<1>6. \A i \in Nat : i # id => g[i] = f[i]
  <2> SUFFICES ASSUME NEW i \in Nat, i # id PROVE g[i] = f[i]
    OBVIOUS
  <2>1. i \in K <=> i \in J
    BY DEF CutAt
  <2> QED BY <2>1, <1>5 DEF AmountsOf
<1>7. SumTo(f, MaxUnlockId) \in Nat /\ SumTo(g, MaxUnlockId) \in Nat
  BY <1>2, <1>3, SumType
<1>8. e.total = SumTo(f, MaxUnlockId) /\ e.ids \subseteq K
      /\ {i \in K : l.token[i].amount > 0} \subseteq e.ids
  BY DEF EntryOK
<1>9. ASSUME id \in K
      PROVE  /\ EntryOK(m, SubFromEntry(e, id, amount, Removes(l, id, amount)), J)
             /\ amount <= e.total
             /\ SumTo(g, MaxUnlockId) = e.total - amount
  <2>1. f[id] = a /\ g[id] = a - amount
    BY <1>3, <1>4, <1>5, <1>9 DEF AmountsOf, CutAt
  <2> HIDE DEF f, g
  <2>2. SumTo(g, MaxUnlockId) + f[id] = SumTo(f, MaxUnlockId) + g[id]
    BY <1>2, <1>3, <1>6, SumUpdate
  <2>3. f[id] <= SumTo(f, MaxUnlockId)
    BY <1>2, <1>3, SumTerm
  <2>4. amount <= e.total /\ SumTo(g, MaxUnlockId) = e.total - amount
    BY <1>4, <1>7, <1>8, <2>1, <2>2, <2>3
  <2>5. CASE amount >= e.total
    <3>1. SumTo(g, MaxUnlockId) = 0
      BY <1>7, <1>8, <2>4, <2>5
    <3>2. \A i \in J : ~ (m.token[i].amount > 0)
      <4> SUFFICES ASSUME NEW i \in J PROVE ~ (m.token[i].amount > 0)
        OBVIOUS
      <4>1. i \in Nat /\ i < MaxUnlockId
        BY MintingConfigAssumption DEF UnlockIds, IsLedger
      <4>2. g[i] <= 0 /\ g[i] \in Nat
        BY <1>2, <1>3, <3>1, <4>1, SumTerm
      <4>3. g[i] = m.token[i].amount
        BY <4>1 DEF AmountsOf, g
      <4> QED BY <4>2, <4>3
    <3>3. SubFromEntry(e, id, amount, Removes(l, id, amount)) = NoEntry
      BY <2>5 DEF SubFromEntry
    <3> QED BY <2>4, <3>1, <3>2, <3>3 DEF EntryOK, NoEntry, g
  <2>6. CASE ~ (amount >= e.total)
    <3> DEFINE s == SubFromEntry(e, id, amount, Removes(l, id, amount))
    <3>1. s = [total |-> e.total - amount,
               ids |-> IF Removes(l, id, amount) THEN e.ids \ {id} ELSE e.ids]
      BY <2>6 DEF SubFromEntry
    <3>2. s.total = SumTo(g, MaxUnlockId)
      BY <2>4, <3>1
    <3>3. s.ids \subseteq J
      BY <1>4, <1>8, <3>1 DEF CutAt
    <3>4. {i \in J : m.token[i].amount > 0} \subseteq s.ids
      <4> SUFFICES ASSUME NEW i \in J, m.token[i].amount > 0 PROVE i \in s.ids
        OBVIOUS
      <4>1. l.token[i].amount > 0
        BY <1>5
      <4>2. i \in e.ids
        BY <1>8, <4>1
      <4>3. Removes(l, id, amount) => i # id
        BY <1>4 DEF CutAt
      <4> QED BY <3>1, <4>2, <4>3
    <3> HIDE DEF s
    <3>5. EntryOK(m, s, J)
      BY <3>2, <3>3, <3>4 DEF EntryOK, g
    <3> QED BY <2>4, <3>5 DEF s
  <2> QED BY <2>5, <2>6
<1>10. ASSUME id \notin K PROVE EntryOK(m, e, J) /\ K \subseteq DOMAIN m.token
  <2>1. K \subseteq DOMAIN m.token /\ J = K
    BY <1>10 DEF CutAt
  <2>2. \A i \in Nat : g[i] = f[i]
    <3>1. f[id] = 0 /\ g[id] = 0
      BY <1>3, <1>10 DEF AmountsOf
    <3> QED BY <3>1, <1>6
  <2>3. g = f
    BY <2>2 DEF AmountsOf
  <2>4. \A i \in J : m.token[i].amount = l.token[i].amount
    BY <1>5, <1>10
  <2> QED BY <1>8, <2>1, <2>3, <2>4 DEF EntryOK, g
<1> QED BY <1>9, <1>10 DEF g

(* Adding a redeem with a new id keeps the ledgers in agreement.           *)
LEMMA AddedOK ==
  ASSUME NEW l, IsLedger(l), LedgerOK(l), NEW who \in Users, NEW id \in UnlockIds,
         id \notin DOMAIN l.token, NEW amount \in Nat, NEW t \in TimeUnits,
         NEW type \in RedeemTypes
  PROVE  /\ IsLedger(Added(l, who, id, amount, t, type))
         /\ LedgerOK(Added(l, who, id, amount, t, type))
         /\ Added(l, who, id, amount, t, type).total = l.total + amount
<1> DEFINE m == Added(l, who, id, amount, t, type)
           new == [who |-> who, amount |-> amount, time |-> t, type |-> type]
<1>1. /\ DOMAIN m.token = DOMAIN l.token \cup {id}
      /\ \A i \in DOMAIN l.token : i \in DOMAIN m.token /\ m.token[i] = l.token[i]
      /\ m.token[id] = new /\ id \in DOMAIN m.token
  BY DEF Added
<1>2. /\ m.user = [l.user EXCEPT ![who] = AddToEntry(@, id, amount)]
      /\ m.time_unit = [l.time_unit EXCEPT ![t] = AddToEntry(@, id, amount)]
      /\ m.total = l.total + amount
  BY DEF Added
<1>3. /\ l.user \in [Users -> Entries] /\ l.time_unit \in [TimeUnits -> Entries]
      /\ l.total \in Nat /\ DOMAIN l.token \subseteq UnlockIds
      /\ \A i \in DOMAIN l.token : l.token[i] \in Redeems
  BY DEF IsLedger
<1>4. IsLedger(m)
  <2>1. \A e \in Entries : AddToEntry(e, id, amount) \in Entries
    BY DEF AddToEntry, Entries
  <2>2. m.user \in [Users -> Entries] /\ m.time_unit \in [TimeUnits -> Entries]
    BY <1>2, <1>3, <2>1
  <2>3. m.token \in [DOMAIN m.token -> Redeems]
    <3>1. new \in Redeems
      BY MintingInputAssumption DEF Redeems
    <3>2. m.token = [i \in DOMAIN m.token |-> m.token[i]]
      BY DEF Added
    <3>3. \A i \in DOMAIN m.token : m.token[i] \in Redeems
      BY <1>1, <1>3, <3>1
    <3> HIDE DEF m
    <3> QED BY <3>2, <3>3
  <2>4. m = [token |-> m.token, user |-> m.user, time_unit |-> m.time_unit, total |-> m.total]
    BY DEF Added
  <2>5. m.total \in Nat /\ DOMAIN m.token \subseteq UnlockIds
    BY <1>1, <1>2, <1>3
  <2> HIDE DEF m
  <2> QED BY <2>2, <2>3, <2>4, <2>5 DEF IsLedger
<1> HIDE DEF m
<1>5. m.token[id].amount = amount /\ m.token[id].who = who /\ m.token[id].time = t
  BY <1>1
<1>6. ASSUME NEW u \in Users PROVE EntryOK(m, m.user[u], UserIds(m, u))
  <2>1. EntryOK(l, l.user[u], UserIds(l, u)) /\ l.user[u] \in Entries
        /\ UserIds(l, u) \in SUBSET DOMAIN l.token
    BY <1>3 DEF LedgerOK, UserIds
  <2>2. /\ EntryOK(m, AddToEntry(l.user[u], id, amount), UserIds(l, u) \cup {id})
        /\ EntryOK(m, l.user[u], UserIds(l, u))
    BY <1>1, <1>4, <1>5, <2>1, EntryAdded
  <2>3. UserIds(m, u) = IF u = who THEN UserIds(l, u) \cup {id} ELSE UserIds(l, u)
    BY <1>1, <1>5 DEF UserIds
  <2>4. m.user[u] = IF u = who THEN AddToEntry(l.user[u], id, amount) ELSE l.user[u]
    BY <1>2, <1>3
  <2> QED BY <2>2, <2>3, <2>4
<1>7. ASSUME NEW x \in TimeUnits PROVE EntryOK(m, m.time_unit[x], TimeIds(m, x))
  <2>1. EntryOK(l, l.time_unit[x], TimeIds(l, x)) /\ l.time_unit[x] \in Entries
        /\ TimeIds(l, x) \in SUBSET DOMAIN l.token
    BY <1>3 DEF LedgerOK, TimeIds
  <2>2. /\ EntryOK(m, AddToEntry(l.time_unit[x], id, amount), TimeIds(l, x) \cup {id})
        /\ EntryOK(m, l.time_unit[x], TimeIds(l, x))
    BY <1>1, <1>4, <1>5, <2>1, EntryAdded
  <2>3. TimeIds(m, x) = IF x = t THEN TimeIds(l, x) \cup {id} ELSE TimeIds(l, x)
    BY <1>1, <1>5 DEF TimeIds
  <2>4. m.time_unit[x] = IF x = t THEN AddToEntry(l.time_unit[x], id, amount)
                         ELSE l.time_unit[x]
    BY <1>2, <1>3
  <2> QED BY <2>2, <2>3, <2>4
<1>8. m.total = SumTo(AmountsOf(m, DOMAIN m.token), MaxUnlockId)
  <2> DEFINE e == [total |-> l.total, ids |-> DOMAIN l.token]
  <2>1. e \in Entries /\ EntryOK(l, e, DOMAIN l.token)
    BY <1>3 DEF Entries, EntryOK, LedgerOK
  <2>2. EntryOK(m, AddToEntry(e, id, amount), DOMAIN l.token \cup {id})
    BY <1>1, <1>4, <1>5, <2>1, EntryAdded
  <2>3. AddToEntry(e, id, amount).total = l.total + amount
    BY DEF AddToEntry
  <2> QED BY <1>1, <1>2, <2>2, <2>3 DEF EntryOK
<1> QED BY <1>1, <1>2, <1>4, <1>6, <1>7, <1>8 DEF LedgerOK, m

(* m has no redeem that l had not, none has grown, and those outside K are *)
(* what they were.                                                         *)
Shrinks(l, m, K) ==
  /\ DOMAIN m.token \subseteq DOMAIN l.token /\ DOMAIN l.token \ K \subseteq DOMAIN m.token
  /\ \A i \in DOMAIN m.token :
       /\ m.token[i].who = l.token[i].who /\ m.token[i].time = l.token[i].time
       /\ m.token[i].type = l.token[i].type /\ m.token[i].amount <= l.token[i].amount
       /\ i \notin K => m.token[i].amount = l.token[i].amount

(* Cutting a redeem by at most its amount keeps the ledgers in agreement.  *)
LEMMA SubtractedOK ==
  ASSUME NEW l, IsLedger(l), LedgerOK(l), NEW id \in DOMAIN l.token,
         NEW amount \in Nat, amount <= l.token[id].amount
  PROVE  LET m == Subtracted(l, l.token[id].who, id, amount, l.token[id].time)
         IN /\ IsLedger(m) /\ LedgerOK(m) /\ m.total = l.total - amount
            /\ CutAt(l, m, id, amount)
            /\ m.user[l.token[id].who].total = l.user[l.token[id].who].total - amount
<1> DEFINE who == l.token[id].who
           t == l.token[id].time
           m == Subtracted(l, who, id, amount, t)
           removed == Removes(l, id, amount)
<1>1. /\ l.user \in [Users -> Entries] /\ l.time_unit \in [TimeUnits -> Entries]
      /\ l.total \in Nat /\ DOMAIN l.token \subseteq UnlockIds
      /\ l.token \in [DOMAIN l.token -> Redeems]
  BY DEF IsLedger
<1>2. l.token[id].amount \in Nat /\ who \in Users /\ t \in TimeUnits
  BY <1>1 DEF Redeems
<1>3. /\ m.user = [l.user EXCEPT ![who] = SubFromEntry(@, id, amount, removed)]
      /\ m.time_unit = [l.time_unit EXCEPT ![t] = SubFromEntry(@, id, amount, removed)]
      /\ m.total = l.total - amount
      /\ m.token = IF removed THEN [i \in DOMAIN l.token \ {id} |-> l.token[i]]
                   ELSE [l.token EXCEPT ![id].amount = @ - amount]
      /\ m = [token |-> m.token, user |-> m.user, time_unit |-> m.time_unit, total |-> m.total]
  BY DEF Subtracted
<1> HIDE DEF m
<1>4. removed <=> amount = l.token[id].amount
  BY <1>2 DEF Removes
<1>5. CutAt(l, m, id, amount)
  <2>1. CASE removed
    BY <1>1, <1>3, <1>4, <2>1 DEF CutAt, Redeems
  <2>2. CASE ~removed
    BY <1>1, <1>3, <1>4, <2>2 DEF CutAt, Redeems
  <2> QED BY <2>1, <2>2
<1>6. amount <= l.total
  <2>1. DOMAIN l.token \in SUBSET DOMAIN l.token
    OBVIOUS
  <2>2. AmountsOf(l, DOMAIN l.token) \in [Nat -> Nat]
    BY <2>1, AmountsType
  <2>3. id \in Nat /\ id < MaxUnlockId /\ MaxUnlockId \in Nat
    BY <1>1, MintingConfigAssumption DEF UnlockIds
  <2>4. AmountsOf(l, DOMAIN l.token)[id] <= SumTo(AmountsOf(l, DOMAIN l.token), MaxUnlockId)
    BY <2>2, <2>3, SumTerm
  <2>5. AmountsOf(l, DOMAIN l.token)[id] = l.token[id].amount
    BY <2>3 DEF AmountsOf
  <2> QED BY <1>1, <1>2, <2>4, <2>5 DEF LedgerOK
<1>7. IsLedger(m)
  <2>1. \A e \in Entries : SubFromEntry(e, id, amount, removed) \in Entries
    BY DEF SubFromEntry, Entries, NoEntry
  <2>2. m.user \in [Users -> Entries] /\ m.time_unit \in [TimeUnits -> Entries]
    <3>1. SubFromEntry(l.user[who], id, amount, removed) \in Entries
      BY <1>1, <1>2, <2>1
    <3>2. SubFromEntry(l.time_unit[t], id, amount, removed) \in Entries
      BY <1>1, <1>2, <2>1
    <3>3. /\ m.user = [l.user EXCEPT ![who] = SubFromEntry(l.user[who], id, amount, removed)]
          /\ m.time_unit = [l.time_unit EXCEPT
               ![t] = SubFromEntry(l.time_unit[t], id, amount, removed)]
      BY <1>3
    <3>4. m.user \in [Users -> Entries]
      BY ONLY <1>1, <3>1, <3>3
    <3>5. m.time_unit \in [TimeUnits -> Entries]
      BY ONLY <1>1, <3>2, <3>3
    <3> QED BY <3>4, <3>5
  <2>3. m.token \in [DOMAIN m.token -> Redeems]
    <3>1. CASE removed
      BY <1>1, <1>3, <3>1
    <3>2. CASE ~removed
      BY <1>1, <1>2, <1>3, <3>2 DEF Redeems
    <3> QED BY <3>1, <3>2
  <2>4. DOMAIN m.token \subseteq UnlockIds
    BY <1>1, <1>5 DEF CutAt
  <2>5. m.total \in Nat
    BY <1>1, <1>3, <1>6
  <2> QED BY <1>3, <2>2, <2>3, <2>4, <2>5 DEF IsLedger
<1>8. \A i \in DOMAIN m.token : /\ i \in DOMAIN l.token
                                /\ m.token[i].who = l.token[i].who
                                /\ m.token[i].time = l.token[i].time
  <2> SUFFICES ASSUME NEW i \in DOMAIN m.token
               PROVE  /\ i \in DOMAIN l.token
                      /\ m.token[i].who = l.token[i].who
                      /\ m.token[i].time = l.token[i].time
    OBVIOUS
  <2>1. i \in DOMAIN l.token
    BY <1>5 DEF CutAt
  <2>2. l.token[i] \in Redeems
    BY <1>1, <2>1
  <2>3. m.token[i] = [l.token[i] EXCEPT !.amount = IF i = id THEN @ - amount ELSE @]
    BY <1>5 DEF CutAt
  <2> QED BY <2>1, <2>2, <2>3 DEF Redeems
<1>9. ASSUME NEW u \in Users PROVE EntryOK(m, m.user[u], UserIds(m, u))
  <2>1. EntryOK(l, l.user[u], UserIds(l, u)) /\ l.user[u] \in Entries
        /\ UserIds(l, u) \in SUBSET DOMAIN l.token
    BY <1>1 DEF LedgerOK, UserIds
  <2>2. UserIds(m, u) = UserIds(l, u) \cap DOMAIN m.token
    BY <1>8 DEF UserIds
  <2>3. id \in UserIds(l, u) <=> u = who
    BY DEF UserIds
  <2>4. m.user[u] = IF u = who THEN SubFromEntry(l.user[u], id, amount, removed) ELSE l.user[u]
    BY <1>1, <1>3
  <2>5. /\ u = who => EntryOK(m, SubFromEntry(l.user[u], id, amount, removed),
                               UserIds(l, u) \cap DOMAIN m.token)
        /\ u # who => EntryOK(m, l.user[u], UserIds(l, u) \cap DOMAIN m.token)
    BY <1>5, <1>7, <2>1, <2>3, EntryCut
  <2> QED BY <2>2, <2>4, <2>5
<1>10. ASSUME NEW x \in TimeUnits PROVE EntryOK(m, m.time_unit[x], TimeIds(m, x))
  <2>1. EntryOK(l, l.time_unit[x], TimeIds(l, x)) /\ l.time_unit[x] \in Entries
        /\ TimeIds(l, x) \in SUBSET DOMAIN l.token
    BY <1>1 DEF LedgerOK, TimeIds
  <2>2. TimeIds(m, x) = TimeIds(l, x) \cap DOMAIN m.token
    BY <1>8 DEF TimeIds
  <2>3. id \in TimeIds(l, x) <=> x = t
    BY DEF TimeIds
  <2>4. m.time_unit[x] = IF x = t THEN SubFromEntry(l.time_unit[x], id, amount, removed)
                         ELSE l.time_unit[x]
    BY <1>1, <1>3
  <2>5. /\ x = t => EntryOK(m, SubFromEntry(l.time_unit[x], id, amount, removed),
                               TimeIds(l, x) \cap DOMAIN m.token)
        /\ x # t => EntryOK(m, l.time_unit[x], TimeIds(l, x) \cap DOMAIN m.token)
    BY <1>5, <1>7, <2>1, <2>3, EntryCut
  <2> QED BY <2>2, <2>4, <2>5
<1>11. m.total = SumTo(AmountsOf(m, DOMAIN m.token), MaxUnlockId)
  <2> DEFINE e == [total |-> l.total, ids |-> DOMAIN l.token]
  <2>1. e \in Entries /\ EntryOK(l, e, DOMAIN l.token)
    BY <1>1 DEF Entries, EntryOK, LedgerOK
  <2>2. DOMAIN l.token \cap DOMAIN m.token = DOMAIN m.token
    BY <1>8
  <2>3. SumTo(AmountsOf(m, DOMAIN l.token \cap DOMAIN m.token), MaxUnlockId) = e.total - amount
    BY <1>5, <1>7, <2>1, EntryCut
  <2> QED BY <1>3, <2>2, <2>3
<1>12. m.user[who].total = l.user[who].total - amount
  <2>1. EntryOK(l, l.user[who], UserIds(l, who)) /\ l.user[who] \in Entries
        /\ UserIds(l, who) \in SUBSET DOMAIN l.token /\ id \in UserIds(l, who)
    BY <1>1, <1>2 DEF LedgerOK, UserIds
  <2>2. SumTo(AmountsOf(m, UserIds(l, who) \cap DOMAIN m.token), MaxUnlockId)
          = l.user[who].total - amount
    BY <1>5, <1>7, <2>1, EntryCut
  <2>3. UserIds(m, who) = UserIds(l, who) \cap DOMAIN m.token
    BY <1>8 DEF UserIds
  <2>4. EntryOK(m, m.user[who], UserIds(m, who))
    BY <1>2, <1>9
  <2> QED BY <2>2, <2>3, <2>4 DEF EntryOK
<1> QED BY <1>3, <1>5, <1>7, <1>9, <1>10, <1>11, <1>12 DEF LedgerOK, m

(* What shrinks in two steps shrinks.                                      *)
LEMMA ShrinksTrans ==
  ASSUME NEW l, IsLedger(l), NEW m, IsLedger(m), NEW n, IsLedger(n), NEW K,
         Shrinks(l, m, K), Shrinks(m, n, K)
  PROVE  Shrinks(l, n, K)
<1>1. /\ \A i \in DOMAIN l.token : l.token[i].amount \in Nat
      /\ \A i \in DOMAIN m.token : m.token[i].amount \in Nat
      /\ \A i \in DOMAIN n.token : n.token[i].amount \in Nat
  BY DEF IsLedger, Redeems
<1>2. DOMAIN n.token \subseteq DOMAIN l.token /\ DOMAIN l.token \ K \subseteq DOMAIN n.token
  BY DEF Shrinks
<1> QED BY <1>1, <1>2 DEF Shrinks

(* Nothing shrinks, or only one redeem.                                    *)
LEMMA CutShrinks ==
  ASSUME NEW l, IsLedger(l), NEW m, IsLedger(m), NEW id, NEW amount \in Nat,
         CutAt(l, m, id, amount), NEW K, id \in K
  PROVE  Shrinks(l, m, K)
<1>1. DOMAIN m.token \subseteq DOMAIN l.token /\ DOMAIN l.token \ K \subseteq DOMAIN m.token
  BY DEF CutAt
<1>2. ASSUME NEW i \in DOMAIN m.token
      PROVE  /\ m.token[i].who = l.token[i].who /\ m.token[i].time = l.token[i].time
             /\ m.token[i].type = l.token[i].type /\ m.token[i].amount <= l.token[i].amount
             /\ i \notin K => m.token[i].amount = l.token[i].amount
  <2>1. l.token[i] \in Redeems
    BY <1>1 DEF IsLedger
  <2>2. m.token[i] = [l.token[i] EXCEPT !.amount = IF i = id THEN @ - amount ELSE @]
    BY DEF CutAt
  <2> QED BY <2>1, <2>2 DEF Redeems
<1> QED BY <1>1, <1>2 DEF Shrinks

LEMMA SameShrinks ==
  ASSUME NEW l, IsLedger(l), NEW K
  PROVE  Shrinks(l, l, K)
<1>1. \A i \in DOMAIN l.token : l.token[i].amount \in Nat
  BY DEF IsLedger, Redeems
<1> QED BY <1>1 DEF Shrinks

-----------------------------------------------------------------------------
(* Walking through a list of ids.                                          *)

(* A finite set of naturals that is not empty has a largest member.        *)
LEMMA NatMaximum ==
  ASSUME NEW S, IsFiniteSet(S), S \subseteq Nat, S # {}
  PROVE  \E x \in S : \A y \in S : y <= x
<1> DEFINE T == {n \in Nat : \A s \in SUBSET S : Cardinality(s) = n /\ s # {}
                               => \E x \in s : \A y \in s : y <= x}
<1>0. \A s \in SUBSET S : IsFiniteSet(s) /\ Cardinality(s) \in Nat
  BY FS_Subset, FS_CardinalityType
<1>1. 0 \in T
  BY <1>0, FS_EmptySet
<1>2. \A n \in T : n + 1 \in T
  <2> SUFFICES ASSUME NEW n \in T, NEW s \in SUBSET S, Cardinality(s) = n + 1, s # {}
               PROVE  \E x \in s : \A y \in s : y <= x
    OBVIOUS
  <2>1. PICK z \in s : TRUE
    OBVIOUS
  <2>2. Cardinality(s \ {z}) = (n + 1) - 1
    <3>1. IsFiniteSet(s)
      BY <1>0
    <3> QED BY <3>1, FS_RemoveElement
  <2>3. CASE s \ {z} = {}
    BY <2>3
  <2>4. CASE s \ {z} # {}
    <3>1. PICK x \in s \ {z} : \A y \in s \ {z} : y <= x
      BY <2>2, <2>4
    <3>2. x \in Nat /\ z \in Nat /\ \A y \in s : y \in Nat
      OBVIOUS
    <3>3. CASE z <= x
      BY <3>1, <3>3
    <3>4. CASE ~(z <= x)
      BY <3>1, <3>2, <3>4
    <3> QED BY <3>3, <3>4
  <2> QED BY <2>3, <2>4
<1> HIDE DEF T
<1>3. T = Nat
  BY <1>1, <1>2, SetInduction DEF T
<1> QED BY <1>0, <1>3 DEF T

Above(ids, i) == {j \in ids : j > i}
Below(ids, i) == {j \in ids : j < i}

(* Ids are told apart by how many are above them, or below them.           *)
LEMMA RanksDiffer ==
  ASSUME NEW ids, IsFiniteSet(ids), ids \subseteq Nat, NEW i \in ids, NEW j \in ids, i < j
  PROVE  /\ Cardinality(Above(ids, j)) < Cardinality(Above(ids, i))
         /\ Cardinality(Below(ids, i)) < Cardinality(Below(ids, j))
<1>1. IsFiniteSet(Above(ids, i)) /\ IsFiniteSet(Below(ids, j))
  BY FS_Subset DEF Above, Below
<1>0. /\ \A x \in ids : x > j => x > i /\ x # j
      /\ \A x \in ids : x < i => x < j /\ x # i
      /\ j > i
  <2>1. i \in Int /\ j \in Int /\ \A x \in ids : x \in Int
    OBVIOUS
  <2> QED BY <2>1
<1>2. Above(ids, j) \subseteq Above(ids, i) \ {j} /\ j \in Above(ids, i)
  BY <1>0, Zenon DEF Above
<1>3. Below(ids, i) \subseteq Below(ids, j) \ {i} /\ i \in Below(ids, j)
  BY <1>0, Zenon DEF Below
<1>4. /\ IsFiniteSet(Above(ids, i) \ {j}) /\ IsFiniteSet(Below(ids, j) \ {i})
      /\ Cardinality(Above(ids, i) \ {j}) = Cardinality(Above(ids, i)) - 1
      /\ Cardinality(Below(ids, j) \ {i}) = Cardinality(Below(ids, j)) - 1
  BY <1>1, <1>2, <1>3, FS_RemoveElement
<1>5. /\ Cardinality(Above(ids, j)) <= Cardinality(Above(ids, i) \ {j})
      /\ Cardinality(Below(ids, i)) <= Cardinality(Below(ids, j) \ {i})
  BY <1>2, <1>3, <1>4, FS_Subset
<1>6. /\ Cardinality(Above(ids, i)) \in Nat /\ Cardinality(Below(ids, j)) \in Nat
      /\ Cardinality(Above(ids, j)) \in Nat /\ Cardinality(Below(ids, i)) \in Nat
  BY <1>1, <1>2, <1>3, <1>4, FS_Subset, FS_CardinalityType
<1> QED BY <1>4, <1>5, <1>6

(* NthLast finds the k-th id from the end, and only that one has its rank. *)
LEMMA NthLastIs ==
  ASSUME NEW ids, IsFiniteSet(ids), ids \subseteq Nat, NEW k \in 1..Cardinality(ids)
  PROVE  /\ NthLast(ids, k) \in ids
         /\ \A j \in ids : Cardinality(Above(ids, j)) = k - 1 => j = NthLast(ids, k)
<1>0. Cardinality(ids) \in Nat /\ \A x \in ids : x \in Int
  BY FS_CardinalityType
<1> DEFINE T == {n \in Nat : n < Cardinality(ids) =>
                                \E i \in ids : Cardinality(Above(ids, i)) = n}
<1>1. 0 \in T
  <2> SUFFICES ASSUME 0 < Cardinality(ids)
               PROVE  \E i \in ids : Cardinality(Above(ids, i)) = 0
    OBVIOUS
  <2>1. ids # {}
    BY FS_EmptySet
  <2>2. PICK x \in ids : \A y \in ids : y <= x
    BY <2>1, NatMaximum
  <2>3. Above(ids, x) = {}
    <3>1. \A y \in ids : ~ (y > x)
      BY <1>0, <2>2
    <3> QED BY <3>1, Zenon DEF Above
  <2> QED BY <2>3, FS_EmptySet
<1>2. \A n \in T : n + 1 \in T
  <2> SUFFICES ASSUME NEW n \in T, n + 1 < Cardinality(ids)
               PROVE  \E i \in ids : Cardinality(Above(ids, i)) = n + 1
    OBVIOUS
  <2>1. PICK i \in ids : Cardinality(Above(ids, i)) = n
    BY <1>0
  <2>2. IsFiniteSet(Above(ids, i)) /\ IsFiniteSet(Below(ids, i)) /\ i \notin Above(ids, i)
    BY FS_Subset DEF Above, Below
  <2>3. /\ IsFiniteSet(Above(ids, i) \cup {i})
        /\ Cardinality(Above(ids, i) \cup {i}) = n + 1
    BY <2>1, <2>2, FS_AddElement
  <2>4. Below(ids, i) # {}
    <3>1. Below(ids, i) = {} => ids = Above(ids, i) \cup {i}
      <4>1. \A y \in ids : y > i \/ y = i \/ y < i
        BY <1>0
      <4> QED BY <4>1, Zenon DEF Above, Below
    <3> QED BY <1>0, <2>3, <3>1
  <2>5. PICK x \in Below(ids, i) : \A y \in Below(ids, i) : y <= x
    <3>1. Below(ids, i) \subseteq Nat
      BY DEF Below
    <3> QED BY <2>2, <2>4, <3>1, NatMaximum
  <2>6. Above(ids, x) = Above(ids, i) \cup {i}
    <3>1. \A y \in ids : y > x <=> y > i \/ y = i
      BY <1>0, <2>5 DEF Below
    <3> QED BY <3>1 DEF Above
  <2>7. x \in ids
    BY DEF Below
  <2> QED BY <2>3, <2>6, <2>7
<1> HIDE DEF T
<1>3. T = Nat
  BY <1>1, <1>2, SetInduction DEF T
<1>4. \E i \in ids : Cardinality({j \in ids : j > i}) = k - 1
  <2>1. k - 1 \in Nat /\ k - 1 < Cardinality(ids)
    BY <1>0
  <2>2. \E i \in ids : Cardinality(Above(ids, i)) = k - 1
    BY <1>3, <2>1 DEF T
  <2> QED BY <2>2 DEF Above
<1>5. /\ NthLast(ids, k) \in ids
      /\ Cardinality(Above(ids, NthLast(ids, k))) = k - 1
  BY <1>4 DEF NthLast, Above
<1>6. ASSUME NEW j \in ids, Cardinality(Above(ids, j)) = k - 1 PROVE j = NthLast(ids, k)
  <2>1. j \in Nat /\ NthLast(ids, k) \in Nat
    BY <1>5
  <2> DEFINE n == NthLast(ids, k)
  <2> HIDE DEF n
  <2>2. n \in ids /\ Cardinality(Above(ids, n)) = k - 1 /\ k - 1 \in Nat
    BY <1>0, <1>5 DEF n
  <2>3. j < n => Cardinality(Above(ids, n)) < Cardinality(Above(ids, j))
    BY <2>2, RanksDiffer, Zenon
  <2>4. n < j => Cardinality(Above(ids, j)) < Cardinality(Above(ids, n))
    BY <2>2, RanksDiffer, Zenon
  <2>5. ~ (j < n) /\ ~ (n < j)
    BY <1>6, <2>2, <2>3, <2>4
  <2> QED BY <2>1, <2>5 DEF n
<1> QED BY <1>5, <1>6

(* w is the walk of rebond through its first n ids.                        *)
IsRebondWalk(w, n, who, ids, start) ==
  w = [k \in 0..n |->
        IF k = 0 THEN start
        ELSE IF w[k-1].flow = "next" THEN RebondStep(w[k-1], who, NthLast(ids, k)) ELSE w[k-1]]

(* The recursion of RebondWalk has a solution, which CHOOSE finds.         *)
LEMMA RebondWalkIs ==
  ASSUME NEW who, NEW c, NEW amount, Cardinality(ledgers[c].user[who].ids) \in Nat
  PROVE  LET ids == ledgers[c].user[who].ids
             start == [ledger |-> ledgers[c], left |-> amount, flow |-> "next"]
         IN \E w : /\ IsRebondWalk(w, Cardinality(ids), who, ids, start)
                   /\ RebondWalk(who, c, amount) = w[Cardinality(ids)]
<1> DEFINE ids == ledgers[c].user[who].ids
           start == [ledger |-> ledgers[c], left |-> amount, flow |-> "next"]
           T == {n \in Nat : \E w : IsRebondWalk(w, n, who, ids, start)}
<1> HIDE DEF start
<1>1. 0 \in T
  <2> DEFINE w == [k \in 0..0 |-> start]
  <2>1. w = [k \in 0..0 |-> IF k = 0 THEN start
               ELSE IF w[k-1].flow = "next" THEN RebondStep(w[k-1], who, NthLast(ids, k))
               ELSE w[k-1]]
    OBVIOUS
  <2> QED BY <2>1 DEF IsRebondWalk
<1>2. \A n \in T : n + 1 \in T
  <2> SUFFICES ASSUME NEW n \in T PROVE n + 1 \in T
    OBVIOUS
  <2>1. PICK w : IsRebondWalk(w, n, who, ids, start)
    OBVIOUS
  <2> DEFINE after == IF w[n].flow = "next" THEN RebondStep(w[n], who, NthLast(ids, n+1))
                      ELSE w[n]
             v == [k \in 0..(n+1) |-> IF k = n + 1 THEN after ELSE w[k]]
  <2>2. ASSUME NEW k \in 0..(n+1)
        PROVE  v[k] = IF k = 0 THEN start
                      ELSE IF v[k-1].flow = "next" THEN RebondStep(v[k-1], who, NthLast(ids, k))
                      ELSE v[k-1]
    <3>1. CASE k = n + 1
      <4>1. v[k-1] = w[n] /\ v[k] = after /\ k # 0 /\ NthLast(ids, k) = NthLast(ids, n+1)
        BY <3>1
      <4> HIDE DEF v
      <4> QED BY <4>1
    <3>2. CASE k # n + 1
      <4>1. k \in 0..n
        BY <3>2
      <4>2. v[k] = w[k] /\ (k # 0 => v[k-1] = w[k-1])
        BY <3>2, <4>1
      <4>3. w[k] = IF k = 0 THEN start
                   ELSE IF w[k-1].flow = "next" THEN RebondStep(w[k-1], who, NthLast(ids, k))
                   ELSE w[k-1]
        BY <2>1, <4>1 DEF IsRebondWalk
      <4> HIDE DEF v
      <4> QED BY <4>2, <4>3
    <3> QED BY <3>1, <3>2
  <2>3. v = [k \in 0..(n+1) |-> IF k = 0 THEN start
               ELSE IF v[k-1].flow = "next" THEN RebondStep(v[k-1], who, NthLast(ids, k))
               ELSE v[k-1]]
    BY <2>2
  <2> HIDE DEF v
  <2>4. IsRebondWalk(v, n+1, who, ids, start)
    BY <2>3 DEF IsRebondWalk
  <2> QED BY <2>4
<1> HIDE DEF T
<1>3. T = Nat
  BY <1>1, <1>2, SetInduction DEF T
<1>4. \E w : IsRebondWalk(w, Cardinality(ids), who, ids, start)
  BY <1>3 DEF T
<1> DEFINE w == CHOOSE w : w = [k \in 0..Cardinality(ids) |->
                  IF k = 0 THEN start
                  ELSE IF w[k-1].flow = "next" THEN RebondStep(w[k-1], who, NthLast(ids, k))
                  ELSE w[k-1]]
<1>5. IsRebondWalk(w, Cardinality(ids), who, ids, start)
  BY <1>4 DEF IsRebondWalk
<1>6. RebondWalk(who, c, amount) = w[Cardinality(ids)]
  BY DEF RebondWalk, start
<1> HIDE DEF w
<1> QED BY <1>5, <1>6 DEF start

IsRebondState(s) == s = [ledger |-> s.ledger, left |-> s.left, flow |-> s.flow]

(* One step of the walk cuts a redeem of the user, by all that is left to  *)
(* be rebonded or by its whole amount.                                     *)
LEMMA RebondStepOK ==
  ASSUME NEW s, IsRebondState(s), IsLedger(s.ledger), LedgerOK(s.ledger), s.left \in Nat,
         NEW who \in Users, NEW K, NEW id \in K,
         id \in DOMAIN s.ledger.token => s.ledger.token[id].who = who
  PROVE  LET r == RebondStep(s, who, id)
             drop == s.ledger.total - r.ledger.total
         IN /\ IsRebondState(r) /\ r.flow \in {"next", "stop", "error"}
            /\ r.flow # "error" =>
                 /\ IsLedger(r.ledger) /\ LedgerOK(r.ledger) /\ r.left \in Nat
                 /\ Shrinks(s.ledger, r.ledger, K)
                 /\ drop \in Nat /\ drop = s.ledger.user[who].total - r.ledger.user[who].total
                 /\ drop >= s.left \/ (r.flow = "next" /\ drop = s.left - r.left)
                 /\ s.left = 0 => drop = 0 /\ r.left = 0
                 /\ r.flow = "next" => id \notin DOMAIN r.ledger.token
<1> DEFINE r == RebondStep(s, who, id)
           l == s.ledger
           redeem == l.token[id]
           cut == IF s.left <= redeem.amount THEN s.left ELSE redeem.amount
           m == Subtracted(l, who, id, cut, redeem.time)
<1>1. CASE id \notin DOMAIN l.token
  <2>1. r = [s EXCEPT !.flow = "error"]
    BY <1>1 DEF RebondStep
  <2>2. r = [ledger |-> s.ledger, left |-> s.left, flow |-> "error"]
    BY <2>1 DEF IsRebondState
  <2> HIDE DEF r
  <2> QED BY <2>2 DEF IsRebondState, r
<1>2. CASE id \in DOMAIN l.token /\ ~CanSubtract(l, who, id, cut, redeem.time)
  <2>1. r = [s EXCEPT !.flow = "error"]
    BY <1>2 DEF RebondStep
  <2>2. r = [ledger |-> s.ledger, left |-> s.left, flow |-> "error"]
    BY <2>1 DEF IsRebondState
  <2> HIDE DEF r
  <2> QED BY <2>2 DEF IsRebondState, r
<1>3. CASE id \in DOMAIN l.token /\ CanSubtract(l, who, id, cut, redeem.time)
  <2>1. redeem \in Redeems
    BY <1>3 DEF IsLedger
  <2>2. redeem.amount \in Nat /\ redeem.who = who
    BY <1>3, <2>1 DEF Redeems
  <2>3. cut \in Nat /\ cut <= redeem.amount
    BY <2>2
  <2>4. r = [ledger |-> m,
             left |-> IF s.left <= redeem.amount THEN s.left ELSE s.left - redeem.amount,
             flow |-> IF Removes(l, id, cut) THEN "next" ELSE "stop"]
    BY <1>3 DEF RebondStep
  <2>5. /\ r.ledger = m /\ IsRebondState(r)
        /\ r.left = IF s.left <= redeem.amount THEN s.left ELSE s.left - redeem.amount
        /\ r.flow = IF Removes(l, id, cut) THEN "next" ELSE "stop"
    <3> HIDE DEF r, m, cut, redeem
    <3> QED BY <2>4 DEF IsRebondState
  <2>6. Removes(l, id, cut) <=> cut = redeem.amount
    BY <2>2, <2>3 DEF Removes
  <2> HIDE DEF cut
  <2>7. /\ IsLedger(m) /\ LedgerOK(m) /\ m.total = l.total - cut /\ CutAt(l, m, id, cut)
        /\ m.user[who].total = l.user[who].total - cut
    BY <1>3, <2>2, <2>3, SubtractedOK
  <2> HIDE DEF r, m, redeem
  <2>8. Shrinks(l, m, K)
    BY <2>3, <2>7, CutShrinks
  <2>9. l.total \in Nat /\ m.total \in Nat
    BY <2>7 DEF IsLedger
  <2>10. l.user[who].total \in Nat
    BY DEF IsLedger, Entries
  <2>11. l.total - m.total = cut /\ l.user[who].total - m.user[who].total = cut
    BY <2>3, <2>7, <2>9, <2>10
  <2>13. r.left \in Nat
    BY <2>2, <2>5
  <2>14. cut >= s.left \/ (r.flow = "next" /\ cut = s.left - r.left)
    <3>1. CASE s.left <= redeem.amount
      BY <2>3, <3>1 DEF cut
    <3>2. CASE ~(s.left <= redeem.amount)
      BY <2>2, <2>5, <2>6, <3>2 DEF cut
    <3> QED BY <3>1, <3>2
  <2>15. r.flow = "next" => id \notin DOMAIN m.token
    BY <2>5, <2>6, <2>7 DEF CutAt, redeem
  <2>16. s.left = 0 => cut = 0 /\ r.left = 0
    BY <2>2, <2>5 DEF cut
  <2> QED BY <2>3, <2>5, <2>7, <2>8, <2>11, <2>13, <2>14, <2>15, <2>16 DEF r
<1> QED BY <1>1, <1>2, <1>3

(* What holds after k steps of the walk through the redeems that ledger l  *)
(* lists for the user, unless it failed: at least amount was cut, or what  *)
(* was cut and what is left make up amount; in that case the k newest      *)
(* redeems are gone.                                                       *)
RebondSoFar(l, who, amount, s, k) ==
  LET drop == l.total - s.ledger.total
      ids == l.user[who].ids
  IN /\ IsRebondState(s) /\ s.flow \in {"next", "stop", "error"}
     /\ s.flow # "error" =>
          /\ IsLedger(s.ledger) /\ LedgerOK(s.ledger) /\ s.left \in Nat
          /\ Shrinks(l, s.ledger, UserIds(l, who))
          /\ drop \in Nat /\ drop = l.user[who].total - s.ledger.user[who].total
          /\ drop >= amount \/ (s.flow = "next" /\ drop = amount - s.left)
          /\ amount = 0 => drop = 0 /\ s.left = 0
          /\ s.flow = "next" => \A j \in ids : Cardinality(Above(ids, j)) < k
                                                 => j \notin DOMAIN s.ledger.token

(* A successful rebond cuts redeems of the user only, by at least amount,  *)
(* and by nothing if amount is zero.                                       *)
LEMMA RebondWalkOK ==
  ASSUME NEW who \in Users, NEW c \in Tokens, NEW amount \in Nat,
         IsLedger(ledgers[c]), LedgerOK(ledgers[c]), ledgers[c].user[who].total >= amount,
         RebondWalk(who, c, amount).flow # "error"
  PROVE  LET l == ledgers[c]
             m == RebondWalk(who, c, amount).ledger
         IN /\ IsLedger(m) /\ LedgerOK(m) /\ Shrinks(l, m, UserIds(l, who))
            /\ l.total - m.total >= amount
            /\ amount = 0 => l.total = m.total
<1> DEFINE l == ledgers[c]
           ids == l.user[who].ids
           start == [ledger |-> l, left |-> amount, flow |-> "next"]
           n == Cardinality(ids)
<1>1. l.user[who] \in Entries /\ l.total \in Nat
  BY DEF IsLedger
<1>2. /\ l.user[who].total \in Nat /\ ids \subseteq UnlockIds
      /\ ids \subseteq UserIds(l, who)
      /\ \A i \in UserIds(l, who) : l.token[i].amount > 0 => i \in ids
  BY <1>1 DEF Entries, LedgerOK, EntryOK
<1>3. IsFiniteSet(ids) /\ ids \subseteq Nat /\ n \in Nat
  <2>1. 0 \in Int /\ MaxUnlockId - 1 \in Int
    BY MintingConfigAssumption
  <2>2. IsFiniteSet(UnlockIds)
    BY <2>1, FS_Interval DEF UnlockIds
  <2>3. UnlockIds \subseteq Nat
    BY <2>1 DEF UnlockIds
  <2> QED BY <1>2, <2>2, <2>3, FS_Subset, FS_CardinalityType
<1>4. PICK w : /\ IsRebondWalk(w, n, who, ids, start)
               /\ RebondWalk(who, c, amount) = w[n]
  BY <1>3, RebondWalkIs
<1>5. w[0] = start
  <2>1. 0 \in 0..n
    BY <1>3
  <2> HIDE DEF start, ids, n
  <2> QED BY <1>4, <2>1 DEF IsRebondWalk
<1>6. ASSUME NEW k \in Nat, k < n
      PROVE  w[k+1] = IF w[k].flow = "next" THEN RebondStep(w[k], who, NthLast(ids, k+1))
                      ELSE w[k]
  <2>1. k + 1 \in 0..n /\ k + 1 # 0 /\ (k + 1) - 1 = k
    BY <1>3, <1>6
  <2> HIDE DEF start, ids, n
  <2> QED BY <1>4, <2>1 DEF IsRebondWalk
<1> DEFINE T == {k \in Nat : k <= n => RebondSoFar(l, who, amount, w[k], k)}
<1> HIDE DEF n
<1>7. 0 \in T
  <2>1. w[0].ledger = l /\ w[0].left = amount /\ w[0].flow = "next" /\ IsRebondState(w[0])
    BY <1>5 DEF IsRebondState
  <2>2. Shrinks(l, l, UserIds(l, who))
    BY SameShrinks
  <2>3. l.total - l.total = 0 /\ l.user[who].total - l.user[who].total = 0
    BY <1>1, <1>2
  <2>4. \A j \in ids : ~ (Cardinality(Above(ids, j)) < 0)
    <3>1. \A j \in ids : IsFiniteSet(Above(ids, j))
      BY <1>3, FS_Subset DEF Above
    <3>2. \A j \in ids : Cardinality(Above(ids, j)) \in Nat
      BY <3>1, FS_CardinalityType
    <3> QED BY <3>2
  <2>5. RebondSoFar(l, who, amount, w[0], 0)
    BY <2>1, <2>2, <2>3, <2>4 DEF RebondSoFar
  <2> QED BY <2>5
<1>8. \A k \in T : k + 1 \in T
  <2> SUFFICES ASSUME NEW k \in T, k + 1 <= n
               PROVE  RebondSoFar(l, who, amount, w[k+1], k+1)
    OBVIOUS
  <2> DEFINE s == w[k]
             r == w[k+1]
             id == NthLast(ids, k+1)
             K == UserIds(l, who)
  <2>1. k < n /\ k + 1 \in 1..n /\ RebondSoFar(l, who, amount, s, k)
    BY <1>3
  <2>2. r = IF s.flow = "next" THEN RebondStep(s, who, id) ELSE s
    BY <1>6, <2>1
  <2>3. id \in ids /\ id \in K /\ \A j \in ids : Cardinality(Above(ids, j)) = k => j = id
    <3>1. (k + 1) - 1 = k
      OBVIOUS
    <3> QED BY <1>2, <1>3, <2>1, <3>1, NthLastIs DEF n
  <2>4. \A j \in ids : Cardinality(Above(ids, j)) \in Nat
    <3>1. \A j \in ids : IsFiniteSet(Above(ids, j))
      BY <1>3, FS_Subset DEF Above
    <3> QED BY <3>1, FS_CardinalityType
  <2> HIDE DEF s, r, id
  <2>5. CASE s.flow # "next"
    <3>1. r = s
      BY <2>2, <2>5
    <3> QED BY <2>1, <2>5, <3>1 DEF RebondSoFar, r
  <2>6. CASE s.flow = "next"
    <3> DEFINE before == l.total - s.ledger.total
               now == s.ledger.total - r.ledger.total
    <3>1. /\ IsRebondState(s) /\ IsLedger(s.ledger) /\ LedgerOK(s.ledger) /\ s.left \in Nat
          /\ Shrinks(l, s.ledger, K)
          /\ before \in Nat /\ before = l.user[who].total - s.ledger.user[who].total
          /\ before >= amount \/ before = amount - s.left
          /\ amount = 0 => before = 0 /\ s.left = 0
          /\ \A j \in ids : Cardinality(Above(ids, j)) < k => j \notin DOMAIN s.ledger.token
      BY <2>1, <2>6 DEF RebondSoFar
    <3>2. id \in DOMAIN s.ledger.token => s.ledger.token[id].who = who
      BY <2>3, <3>1 DEF Shrinks, UserIds
    <3>3. r = RebondStep(s, who, id)
      BY <2>2, <2>6
    <3>4. /\ IsRebondState(r) /\ r.flow \in {"next", "stop", "error"}
          /\ r.flow # "error" =>
               /\ IsLedger(r.ledger) /\ LedgerOK(r.ledger) /\ r.left \in Nat
               /\ Shrinks(s.ledger, r.ledger, K)
               /\ now \in Nat /\ now = s.ledger.user[who].total - r.ledger.user[who].total
               /\ now >= s.left \/ (r.flow = "next" /\ now = s.left - r.left)
               /\ s.left = 0 => now = 0 /\ r.left = 0
               /\ r.flow = "next" => id \notin DOMAIN r.ledger.token
      BY <2>3, <3>1, <3>2, <3>3, RebondStepOK
    <3>5. CASE r.flow = "error"
      BY <3>4, <3>5 DEF RebondSoFar, r
    <3>6. CASE r.flow # "error"
      <4>1. Shrinks(l, r.ledger, K)
        BY <3>1, <3>4, <3>6, ShrinksTrans
      <4>2. /\ s.ledger.total \in Nat /\ r.ledger.total \in Nat
            /\ s.ledger.user[who].total \in Nat /\ r.ledger.user[who].total \in Nat
        BY <3>1, <3>4, <3>6 DEF IsLedger, Entries
      <4>3. /\ l.total - r.ledger.total = before + now
            /\ l.user[who].total - r.ledger.user[who].total = before + now
        BY <1>1, <1>2, <3>1, <3>4, <3>6, <4>2
      <4>4. before + now >= amount \/ (r.flow = "next" /\ before + now = amount - r.left)
        <5> HIDE DEF before, now
        <5> QED BY <3>1, <3>4, <3>6
      <4>5. ASSUME r.flow = "next", NEW j \in ids, Cardinality(Above(ids, j)) < k + 1
            PROVE  j \notin DOMAIN r.ledger.token
        <5>1. CASE Cardinality(Above(ids, j)) < k
          BY <3>1, <3>4, <3>6, <5>1 DEF Shrinks
        <5>2. CASE ~ (Cardinality(Above(ids, j)) < k)
          <6>1. Cardinality(Above(ids, j)) = k
            BY <2>4, <4>5, <5>2
          <6> QED BY <2>3, <3>4, <3>6, <4>5, <6>1
        <5> QED BY <5>1, <5>2
      <4>6. before + now \in Nat
        BY <3>1, <3>4, <3>6
      <4>7. amount = 0 => before + now = 0 /\ r.left = 0
        BY <3>1, <3>4, <3>6
      <4> HIDE DEF before, now
      <4>8. RebondSoFar(l, who, amount, r, k + 1)
        BY <3>4, <3>6, <4>1, <4>3, <4>4, <4>5, <4>6, <4>7 DEF RebondSoFar
      <4> QED BY <4>8 DEF r
    <3> QED BY <3>5, <3>6
  <2> QED BY <2>5, <2>6
<1> HIDE DEF T
<1>9. T = Nat
  BY <1>7, <1>8, SetInduction DEF T
<1> DEFINE s == w[n]
<1>10. RebondSoFar(l, who, amount, s, n)
  BY <1>3, <1>9 DEF T
<1> HIDE DEF s
<1>11. s = RebondWalk(who, c, amount) /\ s.flow # "error"
  BY <1>4 DEF s
<1>12. CASE l.total - s.ledger.total >= amount
  <2>1. /\ IsLedger(s.ledger) /\ LedgerOK(s.ledger) /\ Shrinks(l, s.ledger, UserIds(l, who))
        /\ amount = 0 => l.total - s.ledger.total = 0
    BY <1>10, <1>11 DEF RebondSoFar
  <2>2. s.ledger.total \in Nat
    BY <2>1 DEF IsLedger
  <2> QED BY <1>1, <1>11, <1>12, <2>1, <2>2
<1>13. CASE ~ (l.total - s.ledger.total >= amount)
  <2>1. /\ IsLedger(s.ledger) /\ LedgerOK(s.ledger) /\ s.left \in Nat
        /\ Shrinks(l, s.ledger, UserIds(l, who))
        /\ l.total - s.ledger.total = l.user[who].total - s.ledger.user[who].total
        /\ amount = 0 => l.total - s.ledger.total = 0
        /\ \A j \in ids : Cardinality(Above(ids, j)) < n => j \notin DOMAIN s.ledger.token
    BY <1>10, <1>11, <1>13 DEF RebondSoFar
  <2>2. \A j \in ids : j \notin DOMAIN s.ledger.token
    <3> SUFFICES ASSUME NEW j \in ids PROVE Cardinality(Above(ids, j)) < n
      BY <2>1
    <3>1. Above(ids, j) \subseteq ids \ {j}
      <4>1. ~ (j > j)
        BY <1>3
      <4> QED BY <4>1, Zenon DEF Above
    <3>2. IsFiniteSet(ids \ {j}) /\ Cardinality(ids \ {j}) = n - 1
      BY <1>3, FS_RemoveElement DEF n
    <3>3. Cardinality(Above(ids, j)) <= n - 1 /\ Cardinality(Above(ids, j)) \in Nat
      BY <3>1, <3>2, FS_Subset, FS_CardinalityType
    <3> QED BY <1>3, <3>3
  <2>3. \A i \in UserIds(s.ledger, who) : s.ledger.token[i].amount <= 0
    <3> SUFFICES ASSUME NEW i \in UserIds(s.ledger, who) PROVE s.ledger.token[i].amount <= 0
      OBVIOUS
    <3>1. i \in UserIds(l, who) /\ s.ledger.token[i].amount <= l.token[i].amount
          /\ i \in DOMAIN s.ledger.token /\ i \in DOMAIN l.token
      BY <2>1 DEF Shrinks, UserIds
    <3>2. l.token[i].amount \in Nat /\ s.ledger.token[i].amount \in Nat
      BY <2>1, <3>1 DEF IsLedger, Redeems
    <3>3. ~ (l.token[i].amount > 0)
      BY <1>2, <2>2, <3>1
    <3> QED BY <3>1, <3>2, <3>3
  <2>4. s.ledger.user[who].total = 0
    <3> DEFINE K == UserIds(s.ledger, who)
               f == AmountsOf(s.ledger, K)
               z == [i \in Nat |-> 0]
    <3>1. K \in SUBSET DOMAIN s.ledger.token
      BY DEF UserIds
    <3>2. f \in [Nat -> Nat] /\ SumTo(f, MaxUnlockId) \in Nat
      BY <2>1, <3>1, AmountsType
    <3>3. \A i \in Nat : f[i] <= z[i]
      BY <2>3 DEF AmountsOf
    <3>4. z \in [Nat -> Nat] /\ MaxUnlockId \in Nat
      BY MintingConfigAssumption
    <3>5. SumTo(z, MaxUnlockId) = 0
      BY <3>4, SumZeros
    <3> HIDE DEF f, z, K
    <3>6. SumTo(f, MaxUnlockId) <= SumTo(z, MaxUnlockId)
      BY <3>2, <3>3, <3>4, SumMonotone
    <3>7. SumTo(f, MaxUnlockId) = 0
      BY <3>2, <3>5, <3>6
    <3> QED BY <2>1, <3>7 DEF LedgerOK, EntryOK, f, K
  <2>5. l.total - s.ledger.total = l.user[who].total
    BY <1>2, <2>1, <2>4
  <2> QED BY <1>2, <1>13, <2>5
<1> QED BY <1>12, <1>13

-----------------------------------------------------------------------------
(* A batch of on_idle.                                                     *)

(* NthFirst finds the k-th id from the start.                              *)
LEMMA NthFirstIs ==
  ASSUME NEW ids, IsFiniteSet(ids), ids \subseteq Nat, NEW k \in 1..Cardinality(ids)
  PROVE  /\ NthFirst(ids, k) \in ids
         /\ Cardinality(Below(ids, NthFirst(ids, k))) = k - 1
<1>0. Cardinality(ids) \in Nat /\ \A x \in ids : x \in Int
  BY FS_CardinalityType
<1> DEFINE T == {n \in Nat : n < Cardinality(ids) =>
                                \E i \in ids : Cardinality(Below(ids, i)) = n}
<1>1. 0 \in T
  <2> SUFFICES ASSUME 0 < Cardinality(ids)
               PROVE  \E i \in ids : Cardinality(Below(ids, i)) = 0
    OBVIOUS
  <2>1. ids # {}
    BY FS_EmptySet
  <2>2. PICK x \in ids : \A y \in ids : x <= y
    BY <2>1, NatMinimum
  <2>3. Below(ids, x) = {}
    <3>1. \A y \in ids : ~ (y < x)
      BY <1>0, <2>2
    <3> QED BY <3>1, Zenon DEF Below
  <2> QED BY <2>3, FS_EmptySet
<1>2. \A n \in T : n + 1 \in T
  <2> SUFFICES ASSUME NEW n \in T, n + 1 < Cardinality(ids)
               PROVE  \E i \in ids : Cardinality(Below(ids, i)) = n + 1
    OBVIOUS
  <2>1. PICK i \in ids : Cardinality(Below(ids, i)) = n
    BY <1>0
  <2>2. IsFiniteSet(Below(ids, i)) /\ i \notin Below(ids, i)
    BY <1>0, FS_Subset DEF Below
  <2>3. /\ IsFiniteSet(Below(ids, i) \cup {i})
        /\ Cardinality(Below(ids, i) \cup {i}) = n + 1
    BY <2>1, <2>2, FS_AddElement
  <2>4. Above(ids, i) # {}
    <3>1. Above(ids, i) = {} => ids = Below(ids, i) \cup {i}
      <4>1. \A y \in ids : y > i \/ y = i \/ y < i
        BY <1>0
      <4> QED BY <4>1, Zenon DEF Above, Below
    <3> QED BY <1>0, <2>3, <3>1
  <2>5. PICK x \in Above(ids, i) : \A y \in Above(ids, i) : x <= y
    <3>1. Above(ids, i) \subseteq Nat
      BY DEF Above
    <3> QED BY <2>4, <3>1, NatMinimum
  <2>6. Below(ids, x) = Below(ids, i) \cup {i}
    <3>1. \A y \in ids : y < x <=> y < i \/ y = i
      BY <1>0, <2>5 DEF Above
    <3> QED BY <3>1 DEF Below
  <2>7. x \in ids
    BY DEF Above
  <2> QED BY <2>3, <2>6, <2>7
<1> HIDE DEF T
<1>3. T = Nat
  BY <1>1, <1>2, SetInduction DEF T
<1>4. k - 1 \in Nat /\ k - 1 < Cardinality(ids)
  BY <1>0
<1>5. \E i \in ids : Cardinality(Below(ids, i)) = k - 1
  BY <1>3, <1>4 DEF T
<1> QED BY <1>5 DEF NthFirst, Below

(* w is the walk of on_idle through the first n ids.                       *)
IsBatchWalk(w, n, c, ids, sent, start) ==
  w = [k \in 0..n |->
        IF k = 0 THEN start
        ELSE IF w[k-1].flow = "next" THEN ProcessStep(w[k-1], c, NthFirst(ids, k), sent)
        ELSE w[k-1]]

(* The recursion of HandleBatch has a solution, which CHOOSE finds.        *)
LEMMA BatchWalkIs ==
  ASSUME NEW c, NEW sent, Cardinality(ledgers[c].time_unit[MinTimeUnit[c]].ids) \in Nat
  PROVE  LET ids == ledgers[c].time_unit[MinTimeUnit[c]].ids
             start == [balances |-> balances, ledger |-> ledgers[c], flow |-> "next"]
         IN \E w : \E n \in 0..Cardinality(ids) :
              /\ IsBatchWalk(w, n, c, ids, sent, start)
              /\ HandleBatch(c, sent) = IF w[n].flow = "error" THEN start ELSE w[n]
<1> DEFINE ids == ledgers[c].time_unit[MinTimeUnit[c]].ids
           start == [balances |-> balances, ledger |-> ledgers[c], flow |-> "next"]
           last == IF Cardinality(ids) < HookIterationLimit THEN Cardinality(ids)
                   ELSE HookIterationLimit
           T == {n \in Nat : \E w : IsBatchWalk(w, n, c, ids, sent, start)}
<1>0. last \in 0..Cardinality(ids) /\ last \in Nat
  BY MintingConfigAssumption
<1> HIDE DEF start
<1>1. 0 \in T
  <2> DEFINE w == [k \in 0..0 |-> start]
  <2>1. w = [k \in 0..0 |-> IF k = 0 THEN start
               ELSE IF w[k-1].flow = "next" THEN ProcessStep(w[k-1], c, NthFirst(ids, k), sent)
               ELSE w[k-1]]
    OBVIOUS
  <2> QED BY <2>1 DEF IsBatchWalk
<1>2. \A n \in T : n + 1 \in T
  <2> SUFFICES ASSUME NEW n \in T PROVE n + 1 \in T
    OBVIOUS
  <2>1. PICK w : IsBatchWalk(w, n, c, ids, sent, start)
    OBVIOUS
  <2> DEFINE after == IF w[n].flow = "next" THEN ProcessStep(w[n], c, NthFirst(ids, n+1), sent)
                      ELSE w[n]
             v == [k \in 0..(n+1) |-> IF k = n + 1 THEN after ELSE w[k]]
  <2>2. ASSUME NEW k \in 0..(n+1)
        PROVE  v[k] = IF k = 0 THEN start
                      ELSE IF v[k-1].flow = "next"
                           THEN ProcessStep(v[k-1], c, NthFirst(ids, k), sent)
                      ELSE v[k-1]
    <3>1. CASE k = n + 1
      <4>1. v[k-1] = w[n] /\ v[k] = after /\ k # 0 /\ NthFirst(ids, k) = NthFirst(ids, n+1)
        BY <3>1
      <4> HIDE DEF v
      <4> QED BY <4>1
    <3>2. CASE k # n + 1
      <4>1. k \in 0..n
        BY <3>2
      <4>2. v[k] = w[k] /\ (k # 0 => v[k-1] = w[k-1])
        BY <3>2, <4>1
      <4>3. w[k] = IF k = 0 THEN start
                   ELSE IF w[k-1].flow = "next"
                        THEN ProcessStep(w[k-1], c, NthFirst(ids, k), sent)
                   ELSE w[k-1]
        BY <2>1, <4>1 DEF IsBatchWalk
      <4> HIDE DEF v
      <4> QED BY <4>2, <4>3
    <3> QED BY <3>1, <3>2
  <2>3. v = [k \in 0..(n+1) |-> IF k = 0 THEN start
               ELSE IF v[k-1].flow = "next" THEN ProcessStep(v[k-1], c, NthFirst(ids, k), sent)
               ELSE v[k-1]]
    BY <2>2
  <2> HIDE DEF v
  <2>4. IsBatchWalk(v, n+1, c, ids, sent, start)
    BY <2>3 DEF IsBatchWalk
  <2> QED BY <2>4
<1> HIDE DEF T
<1>3. T = Nat
  BY <1>1, <1>2, SetInduction DEF T
<1>4. \E w : IsBatchWalk(w, last, c, ids, sent, start)
  BY <1>0, <1>3 DEF T
<1> DEFINE w == CHOOSE w : w = [k \in 0..last |->
                  IF k = 0 THEN start
                  ELSE IF w[k-1].flow = "next" THEN ProcessStep(w[k-1], c, NthFirst(ids, k), sent)
                  ELSE w[k-1]]
<1>5. IsBatchWalk(w, last, c, ids, sent, start)
  BY <1>4 DEF IsBatchWalk
<1>6. HandleBatch(c, sent) = IF w[last].flow = "error" THEN start ELSE w[last]
  BY DEF HandleBatch, start
<1> HIDE DEF w, last
<1> QED BY <1>0, <1>5, <1>6 DEF start

IsBatchState(s) == s = [balances |-> s.balances, ledger |-> s.ledger, flow |-> s.flow]

(* One redeem is settled: what is paid leaves the entrance account, and    *)
(* only an amount below the existential deposit is settled without.        *)
SettlesOne(c, id, b, l, d, m, settled, paid) ==
  /\ settled \in Nat /\ paid \in Nat /\ paid <= settled
  /\ settled >= ED[c] => paid = settled
  /\ b[c][EntranceAccount] - d[c][EntranceAccount] = paid
  /\ l.total - m.total = settled
  /\ CutAt(l, m, id, settled) \/ (m = l /\ settled = 0)

(* What process_redeem settles and pays of a redeem.                       *)
LEMMA SettledType ==
  ASSUME NEW c \in Tokens, NEW redeem \in Redeems, NEW available \in Nat
  PROVE  LET settled == Settled(c, redeem, available)
             paid == Paid(c, redeem, available)
         IN /\ settled \in Nat /\ paid \in Nat /\ paid <= settled
            /\ settled <= redeem.amount /\ settled <= available
            /\ settled >= ED[c] => paid = settled
<1>1. ED[c] \in Nat
  BY MintingCurrencyAssumption DEF Currencies
<1>2. redeem.amount \in Nat
  BY DEF Redeems
<1>3. LET settled == Settled(c, redeem, available)
      IN settled \in Nat /\ settled <= redeem.amount /\ settled <= available
  BY <1>2 DEF Settled
<1> QED BY <1>1, <1>3 DEF Paid

LEMMA ProcessStepOK ==
  ASSUME NEW c \in Tokens, NEW s, IsBatchState(s), s.flow = "next",
         s.balances \in [Currencies -> [Accounts -> Nat]],
         IsLedger(s.ledger), LedgerOK(s.ledger), NEW id, NEW sent \in BOOLEAN
  PROVE  LET r == ProcessStep(s, c, id, sent)
         IN /\ IsBatchState(r) /\ r.flow \in {"next", "stop", "error"}
            /\ r.flow # "error" =>
                 /\ r.balances \in [Currencies -> [Accounts -> Nat]]
                 /\ IsLedger(r.ledger) /\ LedgerOK(r.ledger)
                 /\ \E settled, paid : SettlesOne(c, id, s.balances, s.ledger, r.balances,
                                                  r.ledger, settled, paid)
<1> DEFINE r == ProcessStep(s, c, id, sent)
           l == s.ledger
           b == s.balances
           available == b[c][EntranceAccount]
           redeem == l.token[id]
           settled == Settled(c, redeem, available)
           paid == Paid(c, redeem, available)
<1>0. /\ c \in Currencies /\ EntranceAccount \in Accounts /\ TreasuryAccount \in Accounts
      /\ available \in Nat /\ l.total \in Nat /\ ED[c] \in Nat
  BY MintingCurrencyAssumption DEF Currencies, Accounts, IsLedger
<1>1. ASSUME r.ledger = l, r.balances = b, IsBatchState(r), r.flow \in {"next", "stop"}
      PROVE  /\ IsBatchState(r) /\ r.flow \in {"next", "stop", "error"}
             /\ r.balances \in [Currencies -> [Accounts -> Nat]]
             /\ IsLedger(r.ledger) /\ LedgerOK(r.ledger)
             /\ \E x, y : SettlesOne(c, id, b, l, r.balances, r.ledger, x, y)
  <2>1. SettlesOne(c, id, b, l, r.balances, r.ledger, 0, 0)
    BY <1>0, <1>1 DEF SettlesOne
  <2> QED BY <1>1, <2>1
<1>2. CASE id \notin DOMAIN l.token
  <2>1. r = s
    BY <1>2 DEF ProcessStep
  <2> QED BY <1>1, <2>1
<1>3. CASE id \in DOMAIN l.token /\ available = 0
  <2>1. r = [s EXCEPT !.flow = "stop"]
    BY <1>3 DEF ProcessStep
  <2>2. r = [balances |-> b, ledger |-> l, flow |-> "stop"]
    BY <2>1 DEF IsBatchState
  <2>3. r.ledger = l /\ r.balances = b /\ IsBatchState(r) /\ r.flow = "stop"
    <3> HIDE DEF r
    <3> QED BY <2>2 DEF IsBatchState
  <2> QED BY <1>1, <2>3
<1>4. CASE /\ id \in DOMAIN l.token /\ available # 0
           /\ \/ ~CanPay(b, c, redeem, paid, sent)
              \/ /\ settled # 0
                 /\ ~CanSubtract(l, redeem.who, id, settled, redeem.time)
  <2>1. r = [s EXCEPT !.flow = "error"]
    BY <1>4 DEF ProcessStep
  <2>2. r = [balances |-> b, ledger |-> l, flow |-> "error"]
    BY <2>1 DEF IsBatchState
  <2> HIDE DEF r
  <2> QED BY <2>2 DEF IsBatchState, r
<1>5. CASE /\ id \in DOMAIN l.token /\ available # 0
           /\ CanPay(b, c, redeem, paid, sent) /\ settled = 0
  <2>1. r = s
    BY <1>5 DEF ProcessStep
  <2> QED BY <1>1, <2>1
<1>6. CASE /\ id \in DOMAIN l.token /\ available # 0
           /\ CanPay(b, c, redeem, paid, sent) /\ settled # 0
           /\ CanSubtract(l, redeem.who, id, settled, redeem.time)
  <2> DEFINE d == Pay(b, c, redeem, paid)
             m == Subtracted(l, redeem.who, id, settled, redeem.time)
  <2>1. r = [balances |-> d, ledger |-> m, flow |-> "next"]
    BY <1>6 DEF ProcessStep
  <2>2. r.balances = d /\ r.ledger = m /\ r.flow = "next" /\ IsBatchState(r)
    <3> HIDE DEF r, d, m
    <3> QED BY <2>1 DEF IsBatchState
  <2> HIDE DEF r
  <2>3. redeem \in Redeems
    BY <1>6 DEF IsLedger
  <2>4. /\ settled \in Nat /\ paid \in Nat /\ paid <= settled
        /\ settled <= redeem.amount /\ settled <= available
        /\ settled >= ED[c] => paid = settled
    BY <1>0, <2>3, SettledType
  <2>5. redeem.who \in Users /\ redeem.who \in Accounts
    BY <2>3 DEF Redeems, Accounts
  <2> HIDE DEF settled, paid, redeem
  <2>6. /\ IsLedger(m) /\ LedgerOK(m) /\ m.total = l.total - settled /\ CutAt(l, m, id, settled)
    BY <1>6, <2>4, SubtractedOK DEF redeem
  <2>7. /\ d \in [Currencies -> [Accounts -> Nat]]
        /\ d[c][EntranceAccount] = available - paid
    <3>1. EntranceAccount \notin {redeem.who, TreasuryAccount}
          /\ EntranceAccount \in DustWhitelist
      <4>1. EntranceAccount # TreasuryAccount
        BY MintingAccountsAssumption, EntranceNotTreasury
      <4> QED BY <2>5, <4>1, MintingAccountsAssumption
    <3>2. CASE redeem.type = "Native"
      <4>1. CanTransfer(b, c, EntranceAccount, redeem.who, paid)
            /\ d = Transfer(b, c, EntranceAccount, redeem.who, paid)
        BY <1>6, <3>2 DEF CanPay, Pay
      <4>2. redeem.who \in Accounts /\ paid \in Nat
        BY <2>4, <2>5
      <4> HIDE DEF d
      <4>3. LET e == Transfer(b, c, EntranceAccount, redeem.who, paid)
            IN /\ e \in [Currencies -> [Accounts -> Nat]]
               /\ EntranceAccount \notin {redeem.who, TreasuryAccount}
                    /\ EntranceAccount \in DustWhitelist
                    => e[c][EntranceAccount] = b[c][EntranceAccount] - paid
        BY <1>0, <4>1, <4>2, TransferEffect, SMTT(60)
      <4> QED BY <3>1, <4>1, <4>3
    <3>3. CASE redeem.type # "Native"
      <4>1. CanWithdraw(b, c, EntranceAccount, paid)
            /\ d = Withdraw(b, c, EntranceAccount, paid)
        BY <1>0, <2>4, <3>3 DEF CanWithdraw, Pay
      <4> QED BY <1>0, <2>4, <3>1, <4>1, WithdrawEffect
    <3> QED BY <3>2, <3>3
  <2> HIDE DEF d, m
  <2>8. b[c][EntranceAccount] - d[c][EntranceAccount] = paid /\ l.total - m.total = settled
    <3>1. l.total \in Nat /\ m.total = l.total - settled
      BY <1>0, <2>6 DEF IsLedger
    <3>2. available \in Nat /\ d[c][EntranceAccount] = available - paid
          /\ b[c][EntranceAccount] = available
      BY <1>0, <2>7
    <3> HIDE DEF available
    <3> QED BY ONLY <2>4, <3>1, <3>2
  <2>9. SettlesOne(c, id, b, l, d, m, settled, paid)
    BY <2>4, <2>6, <2>8 DEF SettlesOne
  <2> QED BY <2>2, <2>6, <2>7, <2>9 DEF r
<1> QED BY <1>2, <1>3, <1>4, <1>5, <1>6

(* How much of each redeem in K is gone, and of those that lost at least   *)
(* least.                                                                  *)
CutAmount(l, m, i) == l.token[i].amount - (IF i \in DOMAIN m.token THEN m.token[i].amount ELSE 0)
Cuts(l, m, K) == [i \in K |-> CutAmount(l, m, i)]
LargeCuts(l, m, K, least) ==
  [i \in K |-> IF CutAmount(l, m, i) >= least THEN CutAmount(l, m, i) ELSE 0]

LEMMA CutAmountType ==
  ASSUME NEW l, IsLedger(l), NEW m, IsLedger(m), NEW V, Shrinks(l, m, V)
  PROVE  /\ \A i \in DOMAIN l.token : CutAmount(l, m, i) \in Nat
         /\ \A i \in DOMAIN l.token \ V : CutAmount(l, m, i) = 0
<1>1. /\ \A i \in DOMAIN l.token : l.token[i].amount \in Nat
      /\ \A i \in DOMAIN m.token : m.token[i].amount \in Nat
  BY DEF IsLedger, Redeems
<1>2. \A i \in DOMAIN m.token : m.token[i].amount <= l.token[i].amount
                                /\ (i \notin V => m.token[i].amount = l.token[i].amount)
  BY DEF Shrinks
<1>3. DOMAIN l.token \ V \subseteq DOMAIN m.token
  BY DEF Shrinks
<1> QED BY <1>1, <1>2, <1>3 DEF CutAmount

(* A redeem not cut before is cut.                                         *)
LEMMA OneMoreCut ==
  ASSUME NEW l, IsLedger(l), NEW m, IsLedger(m), NEW n, IsLedger(n), NEW V, Shrinks(l, m, V),
         NEW K \in SUBSET DOMAIN l.token, IsFiniteSet(K), NEW id \in K, id \notin V,
         NEW amount \in Nat, CutAt(m, n, id, amount), NEW least \in Nat
  PROVE  /\ SumFunctionOnSet(Cuts(l, n, K), K) = SumFunctionOnSet(Cuts(l, m, K), K) + amount
         /\ SumFunctionOnSet(LargeCuts(l, n, K, least), K)
              = SumFunctionOnSet(LargeCuts(l, m, K, least), K)
                + (IF amount >= least THEN amount ELSE 0)
<1>1. /\ \A i \in DOMAIN l.token : l.token[i].amount \in Nat
      /\ \A i \in DOMAIN m.token : m.token[i].amount \in Nat
      /\ \A i \in DOMAIN n.token : n.token[i].amount \in Nat
  BY DEF IsLedger, Redeems
<1>2. Shrinks(m, n, V \cup {id}) /\ Shrinks(l, m, V \cup {id})
  <2>1. Shrinks(m, n, V \cup {id})
    BY CutShrinks
  <2> QED BY <2>1 DEF Shrinks
<1>3. Shrinks(l, n, V \cup {id})
  BY <1>2, ShrinksTrans
<1>4. \A i \in K : CutAmount(l, m, i) \in Nat /\ CutAmount(l, n, i) \in Nat
  BY <1>3, CutAmountType
<1>5. CutAmount(l, m, id) = 0
  BY CutAmountType
<1>6. id \in DOMAIN m.token /\ m.token[id].amount = l.token[id].amount
  BY DEF Shrinks
<1>7. CutAmount(l, n, id) = amount
  <2>1. CASE amount = m.token[id].amount
    <3>1. id \notin DOMAIN n.token
      BY <2>1 DEF CutAt
    <3> QED BY <1>1, <1>6, <2>1, <3>1 DEF CutAmount
  <2>2. CASE amount # m.token[id].amount
    <3>1. id \in DOMAIN n.token
      BY <1>6, <2>2 DEF CutAt
    <3>2. n.token[id] = [m.token[id] EXCEPT !.amount = @ - amount] /\ m.token[id] \in Redeems
      BY <1>6, <3>1 DEF CutAt, IsLedger
    <3>3. n.token[id].amount = m.token[id].amount - amount
      BY <3>2 DEF Redeems
    <3> QED BY <1>1, <1>6, <3>1, <3>3 DEF CutAmount
  <2> QED BY <2>1, <2>2
<1>8. \A i \in K : i # id => CutAmount(l, m, i) = CutAmount(l, n, i)
  <2> SUFFICES ASSUME NEW i \in K, i # id PROVE CutAmount(l, m, i) = CutAmount(l, n, i)
    OBVIOUS
  <2>1. i \in DOMAIN m.token <=> i \in DOMAIN n.token
    BY DEF CutAt
  <2>2. i \in DOMAIN n.token => n.token[i].amount = m.token[i].amount
    <3> SUFFICES ASSUME i \in DOMAIN n.token PROVE n.token[i].amount = m.token[i].amount
      OBVIOUS
    <3>1. n.token[i] = [m.token[i] EXCEPT !.amount = @] /\ m.token[i] \in Redeems
      BY <2>1 DEF CutAt, IsLedger
    <3> QED BY <3>1 DEF Redeems
  <2> QED BY <2>1, <2>2 DEF CutAmount
<1>9. SumFunctionOnSet(Cuts(l, n, K), K) = SumFunctionOnSet(Cuts(l, m, K), K) + amount
  <2> DEFINE f == Cuts(l, m, K)
             g == Cuts(l, n, K)
  <2>1. /\ \A i \in K : f[i] \in Int /\ g[i] \in Int
        /\ \A i \in K : i # id => f[i] = g[i]
        /\ f[id] = 0 /\ g[id] = amount
    BY <1>4, <1>5, <1>7, <1>8 DEF Cuts
  <2>2. SumFunctionOnSet(f, K) \in Int
    BY <2>1, SetSumInt
  <2> HIDE DEF f, g
  <2>3. SumFunctionOnSet(g, K) = SumFunctionOnSet(f, K) + (g[id] - f[id])
    BY <2>1, SetSumUpdate
  <2> QED BY <2>1, <2>2, <2>3 DEF f, g
<1>10. SumFunctionOnSet(LargeCuts(l, n, K, least), K)
         = SumFunctionOnSet(LargeCuts(l, m, K, least), K)
           + (IF amount >= least THEN amount ELSE 0)
  <2> DEFINE f == LargeCuts(l, m, K, least)
             g == LargeCuts(l, n, K, least)
             a == IF amount >= least THEN amount ELSE 0
  <2>1. /\ \A i \in K : f[i] \in Int /\ g[i] \in Int
        /\ \A i \in K : i # id => f[i] = g[i]
        /\ f[id] = 0 /\ g[id] = a
    BY <1>4, <1>5, <1>7, <1>8 DEF LargeCuts
  <2>2. SumFunctionOnSet(f, K) \in Int /\ a \in Int
    BY <2>1, SetSumInt
  <2> HIDE DEF f, g, a
  <2>3. SumFunctionOnSet(g, K) = SumFunctionOnSet(f, K) + (g[id] - f[id])
    BY <2>1, SetSumUpdate
  <2>4. SumFunctionOnSet(g, K) = SumFunctionOnSet(f, K) + a
    BY <2>1, <2>2, <2>3
  <2> QED BY <2>4 DEF f, g, a
<1> QED BY <1>9, <1>10

(* The first k ids of a list.                                              *)
Visited(ids, k) == {j \in ids : Cardinality(Below(ids, j)) < k}

(* What holds after k steps of a batch through the redeems due at a time:  *)
(* what has left the entrance account is no more than what was settled,    *)
(* and no less than what was settled of existential deposits and more.     *)
BatchSoFar(c, l, K, ids, s, k) ==
  LET spent == balances[c][EntranceAccount] - s.balances[c][EntranceAccount]
  IN /\ IsBatchState(s) /\ s.flow \in {"next", "stop", "error"}
     /\ s.flow # "error" =>
          /\ s.balances \in [Currencies -> [Accounts -> Nat]]
          /\ IsLedger(s.ledger) /\ LedgerOK(s.ledger) /\ Shrinks(l, s.ledger, Visited(ids, k))
          /\ spent <= l.total - s.ledger.total
          /\ spent <= SumFunctionOnSet(Cuts(l, s.ledger, K), K)
          /\ spent >= SumFunctionOnSet(LargeCuts(l, s.ledger, K, ED[c]), K)

LEMMA UnlockIdsFinite == IsFiniteSet(UnlockIds) /\ UnlockIds \subseteq Nat
<1>1. 0 \in Int /\ MaxUnlockId - 1 \in Int
  BY MintingConfigAssumption
<1>2. IsFiniteSet(UnlockIds)
  BY <1>1, FS_Interval DEF UnlockIds
<1> QED BY <1>1, <1>2 DEF UnlockIds

LEMMA ShrinksMore ==
  ASSUME NEW l, NEW m, NEW V, NEW W, Shrinks(l, m, V), V \subseteq W
  PROVE  Shrinks(l, m, W)
BY DEF Shrinks

(* Before the batch nothing has been settled.                              *)
LEMMA NothingCut ==
  ASSUME NEW l, IsLedger(l), NEW K \in SUBSET DOMAIN l.token, IsFiniteSet(K), NEW least \in Nat
  PROVE  /\ SumFunctionOnSet(Cuts(l, l, K), K) = 0
         /\ SumFunctionOnSet(LargeCuts(l, l, K, least), K) = 0
<1>1. \A i \in K : CutAmount(l, l, i) = 0
  BY SameShrinks, CutAmountType
<1>2. /\ \A i \in K : Cuts(l, l, K)[i] = 0
      /\ \A i \in K : LargeCuts(l, l, K, least)[i] = 0
  BY <1>1 DEF Cuts, LargeCuts
<1> QED BY <1>2, SetSumZero

(* A batch of on_idle keeps the ledgers in agreement and settles redeems   *)
(* due at MinTimeUnit only.                                                *)
LEMMA BatchOK ==
  ASSUME NEW c \in Tokens, NEW sent \in BOOLEAN, MinTimeUnit[c] \in TimeUnits,
         balances \in [Currencies -> [Accounts -> Nat]],
         IsLedger(ledgers[c]), LedgerOK(ledgers[c])
  PROVE  LET l == ledgers[c]
             K == TimeIds(l, MinTimeUnit[c])
             h == HandleBatch(c, sent)
             spent == balances[c][EntranceAccount] - h.balances[c][EntranceAccount]
         IN /\ h.balances \in [Currencies -> [Accounts -> Nat]]
            /\ IsLedger(h.ledger) /\ LedgerOK(h.ledger) /\ Shrinks(l, h.ledger, K)
            /\ spent <= l.total - h.ledger.total
            /\ spent <= SumFunctionOnSet(Cuts(l, h.ledger, K), K)
            /\ spent >= SumFunctionOnSet(LargeCuts(l, h.ledger, K, ED[c]), K)
<1> DEFINE l == ledgers[c]
           t == MinTimeUnit[c]
           K == TimeIds(l, t)
           ids == l.time_unit[t].ids
           start == [balances |-> balances, ledger |-> l, flow |-> "next"]
           h == HandleBatch(c, sent)
<1>1. l.time_unit[t] \in Entries /\ l.total \in Nat /\ K \in SUBSET DOMAIN l.token
      /\ K \subseteq UnlockIds
  BY DEF IsLedger, TimeIds
<1>2. ids \subseteq K
  BY DEF LedgerOK, EntryOK
<1>3. /\ IsFiniteSet(K) /\ IsFiniteSet(ids) /\ ids \subseteq Nat /\ Cardinality(ids) \in Nat
  BY <1>1, <1>2, UnlockIdsFinite, FS_Subset, FS_CardinalityType
<1>4. /\ c \in Currencies /\ EntranceAccount \in Accounts /\ ED[c] \in Nat
      /\ balances[c][EntranceAccount] \in Nat
  BY MintingCurrencyAssumption DEF Currencies, Accounts
<1>5. ASSUME NEW j \in ids PROVE Cardinality(Below(ids, j)) \in Nat
  <2>1. IsFiniteSet(Below(ids, j))
    BY <1>3, FS_Subset DEF Below
  <2> QED BY <2>1, FS_CardinalityType
<1>6. ASSUME NEW k \in Nat
      PROVE  BatchSoFar(c, l, K, ids, start, k)
  <2>1. /\ start.balances = balances /\ start.ledger = l /\ start.flow = "next"
        /\ IsBatchState(start)
    BY DEF IsBatchState
  <2> HIDE DEF start
  <2>2. balances[c][EntranceAccount] - balances[c][EntranceAccount] = 0 /\ l.total - l.total = 0
    BY <1>1, <1>4
  <2>3. /\ SumFunctionOnSet(Cuts(l, l, K), K) = 0
        /\ SumFunctionOnSet(LargeCuts(l, l, K, ED[c]), K) = 0
    BY <1>1, <1>3, <1>4, NothingCut
  <2>4. Shrinks(l, l, Visited(ids, k))
    BY SameShrinks
  <2> QED BY <2>1, <2>2, <2>3, <2>4 DEF BatchSoFar
<1>7. PICK w : \E n \in 0..Cardinality(ids) :
                 /\ IsBatchWalk(w, n, c, ids, sent, start)
                 /\ h = IF w[n].flow = "error" THEN start ELSE w[n]
  BY <1>3, BatchWalkIs
<1>8. PICK n \in 0..Cardinality(ids) :
                 /\ IsBatchWalk(w, n, c, ids, sent, start)
                 /\ h = IF w[n].flow = "error" THEN start ELSE w[n]
  BY <1>7
<1>9. n \in Nat /\ n <= Cardinality(ids)
  BY <1>3
<1>10. BatchSoFar(c, l, K, ids, start, 0) /\ BatchSoFar(c, l, K, ids, start, n)
  BY <1>6, <1>9
<1> HIDE DEF start, h
<1>11. w[0] = start
  <2>1. 0 \in 0..n
    BY <1>9
  <2> HIDE DEF ids
  <2> QED BY <1>8, <2>1 DEF IsBatchWalk
<1>12. ASSUME NEW k \in Nat, k < n
       PROVE  w[k+1] = IF w[k].flow = "next" THEN ProcessStep(w[k], c, NthFirst(ids, k+1), sent)
                       ELSE w[k]
  <2>1. k + 1 \in 0..n /\ k + 1 # 0 /\ (k + 1) - 1 = k
    BY <1>9, <1>12
  <2> HIDE DEF ids
  <2> QED BY <1>8, <2>1 DEF IsBatchWalk
<1> DEFINE T == {k \in Nat : k <= n => BatchSoFar(c, l, K, ids, w[k], k)}
<1>13. 0 \in T
  BY <1>10, <1>11
<1>14. \A k \in T : k + 1 \in T
  <2> SUFFICES ASSUME NEW k \in T, k + 1 <= n
               PROVE  BatchSoFar(c, l, K, ids, w[k+1], k+1)
    OBVIOUS
  <2> DEFINE s == w[k]
             r == w[k+1]
             id == NthFirst(ids, k+1)
             V == Visited(ids, k)
             W == Visited(ids, k+1)
  <2>1. k < n /\ k + 1 \in 1..Cardinality(ids) /\ BatchSoFar(c, l, K, ids, s, k)
    BY <1>3, <1>9
  <2>2. r = IF s.flow = "next" THEN ProcessStep(s, c, id, sent) ELSE s
    BY <1>12, <2>1
  <2>3. id \in ids /\ id \in K /\ Cardinality(Below(ids, id)) = k
    <3>1. (k + 1) - 1 = k
      OBVIOUS
    <3> QED BY <1>2, <1>3, <2>1, <3>1, NthFirstIs
  <2>4. V \subseteq W /\ id \notin V /\ id \in W
    <3>1. \A j \in ids : Cardinality(Below(ids, j)) < k => Cardinality(Below(ids, j)) < k + 1
      BY <1>5
    <3>2. ~ (k < k) /\ k < k + 1
      OBVIOUS
    <3> HIDE DEF ids, id
    <3> QED BY ONLY <2>3, <3>1, <3>2 DEF Visited
  <2> HIDE DEF s, r, id, V, W
  <2>5. CASE s.flow # "next"
    <3>1. r = s
      BY <2>2, <2>5
    <3>2. s.flow # "error" => Shrinks(l, s.ledger, W)
      BY <2>1, <2>4, ShrinksMore DEF BatchSoFar, V
    <3> QED BY <2>1, <3>1, <3>2 DEF BatchSoFar, r, W
  <2>6. CASE s.flow = "next"
    <3> DEFINE before == balances[c][EntranceAccount] - s.balances[c][EntranceAccount]
               cuts == SumFunctionOnSet(Cuts(l, s.ledger, K), K)
               large == SumFunctionOnSet(LargeCuts(l, s.ledger, K, ED[c]), K)
    <3>1. /\ IsBatchState(s) /\ s.balances \in [Currencies -> [Accounts -> Nat]]
          /\ IsLedger(s.ledger) /\ LedgerOK(s.ledger) /\ Shrinks(l, s.ledger, V)
          /\ before <= l.total - s.ledger.total /\ before <= cuts /\ before >= large
      BY <2>1, <2>6 DEF BatchSoFar, V
    <3>2. r = ProcessStep(s, c, id, sent)
      BY <2>2, <2>6
    <3>3. /\ IsBatchState(r) /\ r.flow \in {"next", "stop", "error"}
          /\ r.flow # "error" =>
               /\ r.balances \in [Currencies -> [Accounts -> Nat]]
               /\ IsLedger(r.ledger) /\ LedgerOK(r.ledger)
               /\ \E settled, paid : SettlesOne(c, id, s.balances, s.ledger, r.balances,
                                                r.ledger, settled, paid)
      BY <2>6, <3>1, <3>2, ProcessStepOK
    <3>4. CASE r.flow = "error"
      BY <3>3, <3>4 DEF BatchSoFar, r
    <3>5. CASE r.flow # "error"
      <4>1. PICK settled, paid : SettlesOne(c, id, s.balances, s.ledger, r.balances,
                                            r.ledger, settled, paid)
        BY <3>3, <3>5
      <4> DEFINE cuts2 == SumFunctionOnSet(Cuts(l, r.ledger, K), K)
                 large2 == SumFunctionOnSet(LargeCuts(l, r.ledger, K, ED[c]), K)
                 after == balances[c][EntranceAccount] - r.balances[c][EntranceAccount]
                 big == IF settled >= ED[c] THEN settled ELSE 0
      <4>2. /\ settled \in Nat /\ paid \in Nat /\ paid <= settled
            /\ settled >= ED[c] => paid = settled
            /\ s.balances[c][EntranceAccount] - r.balances[c][EntranceAccount] = paid
            /\ s.ledger.total - r.ledger.total = settled
        BY <4>1 DEF SettlesOne
      <4>3. Shrinks(l, s.ledger, W)
        BY <2>4, <3>1, ShrinksMore
      <4>4. Shrinks(l, r.ledger, W)
        <5>1. CASE CutAt(s.ledger, r.ledger, id, settled)
          <6>1. Shrinks(s.ledger, r.ledger, W)
            BY <2>4, <3>1, <3>3, <3>5, <4>2, <5>1, CutShrinks
          <6> QED BY <3>1, <3>3, <3>5, <4>3, <6>1, ShrinksTrans
        <5>2. CASE r.ledger = s.ledger
          BY <4>3, <5>2
        <5> QED BY <4>1, <5>1, <5>2 DEF SettlesOne
      <4>5. cuts2 = cuts + settled /\ large2 = large + big
        <5>1. CASE CutAt(s.ledger, r.ledger, id, settled)
          BY <1>1, <1>3, <1>4, <2>3, <2>4, <3>1, <3>3, <3>5, <4>2, <5>1, OneMoreCut
        <5>2. CASE r.ledger = s.ledger /\ settled = 0
          <6>1. \A i \in K : CutAmount(l, s.ledger, i) \in Nat
            BY <1>1, <3>1, CutAmountType
          <6>2. /\ \A i \in K : Cuts(l, s.ledger, K)[i] \in Int
                /\ \A i \in K : LargeCuts(l, s.ledger, K, ED[c])[i] \in Int
            BY <6>1 DEF Cuts, LargeCuts
          <6>3. cuts \in Int /\ large \in Int
            BY <1>3, <6>2, SetSumInt
          <6>4. cuts2 = cuts /\ large2 = large /\ big = 0
            BY <5>2
          <6> HIDE DEF cuts, large, cuts2, large2, big
          <6> QED BY <5>2, <6>3, <6>4
        <5> QED BY <4>1, <5>1, <5>2 DEF SettlesOne
      <4>6. cuts \in Int /\ large \in Int
        <5>1. \A i \in K : CutAmount(l, s.ledger, i) \in Nat
          BY <1>1, <3>1, CutAmountType
        <5>2. /\ \A i \in K : Cuts(l, s.ledger, K)[i] \in Int
              /\ \A i \in K : LargeCuts(l, s.ledger, K, ED[c])[i] \in Int
          BY <5>1 DEF Cuts, LargeCuts
        <5> QED BY <1>3, <5>2, SetSumInt
      <4>7. /\ s.balances[c][EntranceAccount] \in Nat /\ r.balances[c][EntranceAccount] \in Nat
            /\ s.ledger.total \in Nat /\ r.ledger.total \in Nat
        BY <1>4, <3>1, <3>3, <3>5 DEF IsLedger
      <4>8. after = before + paid /\ before \in Int
            /\ l.total - r.ledger.total = (l.total - s.ledger.total) + settled
        BY <1>1, <1>4, <4>2, <4>7
      <4>9. big \in Nat /\ big <= paid
        BY <1>4, <4>2
      <4> HIDE DEF after, before, cuts, large, cuts2, large2, big
      <4>10. after <= l.total - r.ledger.total
        BY <1>1, <3>1, <4>2, <4>7, <4>8
      <4>11. after <= cuts2 /\ after >= large2
        BY <3>1, <4>2, <4>5, <4>6, <4>8, <4>9
      <4>12. BatchSoFar(c, l, K, ids, r, k+1)
        BY <3>3, <3>5, <4>4, <4>10, <4>11 DEF BatchSoFar, after, cuts2, large2, W
      <4> QED BY <4>12 DEF r
    <3> QED BY <3>4, <3>5
  <2> QED BY <2>5, <2>6
<1> HIDE DEF T
<1>15. T = Nat
  BY <1>13, <1>14, SetInduction DEF T
<1>16. BatchSoFar(c, l, K, ids, w[n], n)
  BY <1>9, <1>15 DEF T
<1>17. BatchSoFar(c, l, K, ids, h, n) /\ h.flow # "error"
  BY <1>8, <1>10, <1>16 DEF start
<1>18. Visited(ids, n) \subseteq K
  BY <1>2 DEF Visited
<1>19. Shrinks(l, h.ledger, K)
  BY <1>17, <1>18, ShrinksMore DEF BatchSoFar
<1> QED BY <1>17, <1>19 DEF BatchSoFar, h

-----------------------------------------------------------------------------
(* Minting.                                                                *)

Balances == [Currencies -> [Accounts -> Nat]]

LEMMA TransferHere ==
  ASSUME NEW b \in Balances, NEW c \in Currencies, NEW from \in Accounts, NEW to \in Accounts,
         NEW amount \in Nat, CanTransfer(b, c, from, to, amount)
  PROVE  LET d == Transfer(b, c, from, to, amount)
         IN /\ d \in Balances
            /\ \A e \in Currencies : e # c => d[e] = b[e]
            /\ \A a \in Accounts : a \notin {from, to, TreasuryAccount} => d[c][a] = b[c][a]
            /\ to \notin {from, TreasuryAccount} => d[c][to] = b[c][to] + amount
<1>1. TreasuryAccount \in Accounts
  BY DEF Accounts
<1> QED BY <1>1, TransferEffect, SMTT(60) DEF Balances

LEMMA DepositHere ==
  ASSUME NEW b \in Balances, NEW c \in Currencies, NEW to \in Accounts, NEW amount \in Nat
  PROVE  LET d == Deposit(b, c, to, amount)
         IN /\ d \in Balances
            /\ \A e \in Currencies : e # c => d[e] = b[e]
            /\ d[c][to] = b[c][to] + amount
BY DEF Deposit, Credit, Balances

LEMMA WithdrawHere ==
  ASSUME NEW b \in Balances, NEW c \in Currencies, NEW from \in Accounts, NEW amount \in Nat,
         CanWithdraw(b, c, from, amount)
  PROVE  LET d == Withdraw(b, c, from, amount)
         IN /\ d \in Balances
            /\ \A e \in Currencies : e # c => d[e] = b[e]
            /\ from # TreasuryAccount /\ from \in DustWhitelist
                 => d[c][from] = b[c][from] - amount
<1>1. TreasuryAccount \in Accounts
  BY DEF Accounts
<1> QED BY <1>1, WithdrawEffect DEF Balances

LEMMA MintNetType ==
  ASSUME NEW amount \in Nat
  PROVE  /\ MintFee(amount) \in Nat /\ MintNet(amount) \in Nat /\ MintNet(amount) <= amount
         /\ MintRate < Permill /\ amount > 0 => MintNet(amount) > 0
<1>1. /\ MintRate \in Nat /\ Permill \in Nat \ {0} /\ MintRate <= Permill
  BY MintingConfigAssumption
<1>2. /\ MintFee(amount) \in Nat /\ MintFee(amount) <= amount
      /\ MintRate < Permill /\ amount > 0 => MintFee(amount) < amount
  BY <1>1, ShareBound DEF MintFee, mul_floor
<1> QED BY <1>2 DEF MintNet

LEMMA MintedVType ==
  ASSUME NEW c \in Tokens, NEW amount \in Nat,
         TokenPool \in [VTokens -> Nat], VtokenIssuance \in [VTokens -> Nat]
  PROVE  LET v == TokenToVToken[c]
         IN /\ v \in VTokens /\ MintedV(c, amount) \in Nat
            /\ TokenPool[v] # 0
                 => MintedV(c, amount) * TokenPool[v] <= MintNet(amount) * VtokenIssuance[v]
<1> DEFINE v == TokenToVToken[c]
           x == MintNet(amount) * VtokenIssuance[v]
<1>1. v \in VTokens
  BY MintingCurrencyAssumption
<1>2. TokenPool[v] \in Nat /\ VtokenIssuance[v] \in Nat /\ MintNet(amount) \in Nat
  BY <1>1, MintNetType
<1>3. x \in Nat
  BY <1>2
<1>4. CASE TokenPool[v] = 0
  <2>1. MintedV(c, amount) = MintNet(amount)
    BY <1>4 DEF MintedV, get_v_currency_amount_by_currency_amount
  <2> QED BY <1>1, <1>2, <1>4, <2>1
<1>5. CASE TokenPool[v] # 0
  <2>1. MintedV(c, amount) = x \div TokenPool[v]
    BY <1>5 DEF MintedV, get_v_currency_amount_by_currency_amount
  <2>2. x \div TokenPool[v] \in Nat /\ (x \div TokenPool[v]) * TokenPool[v] <= x
    BY <1>2, <1>3, <1>5, DivBound
  <2> QED BY <1>1, <2>1, <2>2
<1> QED BY <1>4, <1>5

(* Minting without transfer leaves the entrance account's tokens alone.    *)
LEMMA MintedEffect ==
  ASSUME NEW who \in Users, NEW c \in Tokens, NEW amount \in Nat, balances \in Balances,
         TokenPool \in [VTokens -> Nat], VtokenIssuance \in [VTokens -> Nat],
         CanMint(who, c, amount)
  PROVE  /\ Minted(who, c, amount) \in Balances
         /\ \A e \in Tokens : Minted(who, c, amount)[e][EntranceAccount]
                                = balances[e][EntranceAccount]
<1> DEFINE v == TokenToVToken[c]
           d == Transfer(balances, c, who, FeeAccount, MintFee(amount))
           m == Deposit(d, v, who, MintedV(c, amount))
<1>1. /\ c \in Currencies /\ v \in Currencies /\ v \notin Tokens
      /\ who \in Accounts /\ EntranceAccount \in Accounts
      /\ FeeAccount \in Accounts /\ TreasuryAccount \in Accounts
      /\ EntranceAccount \notin {who, FeeAccount, TreasuryAccount}
  BY MintingCurrencyAssumption, MintingAccountsAssumption, EntranceNotTreasury
     DEF Currencies, Accounts
<1>2. MintFee(amount) \in Nat /\ MintedV(c, amount) \in Nat
  BY MintNetType, MintedVType
<1>3. CanTransfer(balances, c, who, FeeAccount, MintFee(amount))
  BY DEF CanMint
<1>4. /\ d \in Balances
      /\ \A e \in Currencies : e # c => d[e] = balances[e]
      /\ \A a \in Accounts : a \notin {who, FeeAccount, TreasuryAccount}
                              => d[c][a] = balances[c][a]
  BY <1>1, <1>2, <1>3, TransferHere
<1> HIDE DEF d
<1>5. m \in Balances /\ \A e \in Currencies : e # v => m[e] = d[e]
  <2> DEFINE x == MintedV(c, amount)
  <2>1. d \in Balances /\ v \in Currencies /\ who \in Accounts /\ x \in Nat
    BY <1>1, <1>2, <1>4
  <2> HIDE DEF v, x
  <2>2. LET e == Deposit(d, v, who, x)
        IN e \in Balances /\ \A y \in Currencies : y # v => e[y] = d[y]
    BY ONLY <2>1, DepositHere
  <2> QED BY <2>2 DEF x
<1> HIDE DEF m
<1>6. \A e \in Tokens : e \in Currencies /\ e # v
  BY <1>1 DEF Currencies
<1>7. \A e \in Tokens : d[e][EntranceAccount] = balances[e][EntranceAccount]
  BY <1>1, <1>4, <1>6
<1>8. m = Minted(who, c, amount)
  BY DEF Minted, m, d
<1> QED BY <1>5, <1>6, <1>7, <1>8

-----------------------------------------------------------------------------
(* Backing.                                                                *)

(* What the entrance account and the stake of each token hold beyond what  *)
(* is being unlocked.                                                      *)
Surplus(b, k, L) == [c \in Tokens |-> (b[c][EntranceAccount] + k[c]) - L[c].total]

LEMMA TokensOfFinite == \A v : IsFiniteSet(TokensOf(v)) /\ TokensOf(v) \subseteq Tokens
BY MintingCurrencyAssumption, FS_Subset DEF TokensOf

(* Backed, as a bound of the surplus.                                      *)
LEMMA BackedIs ==
  ASSUME NEW b, NEW k, NEW L,
         \A c \in Tokens : b[c][EntranceAccount] \in Nat /\ k[c] \in Nat /\ L[c].total \in Nat,
         NEW v, NEW pool \in Nat
  PROVE  (SumFunctionOnSet([c \in Tokens |-> b[c][EntranceAccount] + k[c]], TokensOf(v))
            >= pool + SumFunctionOnSet([c \in Tokens |-> L[c].total], TokensOf(v)))
         <=> SumFunctionOnSet(Surplus(b, k, L), TokensOf(v)) >= pool
<1> DEFINE f == Surplus(b, k, L)
           g == [c \in Tokens |-> L[c].total]
           h == [c \in Tokens |-> b[c][EntranceAccount] + k[c]]
           S == TokensOf(v)
<1>1. IsFiniteSet(S) /\ S \subseteq Tokens
  BY TokensOfFinite
<1>2. \A c \in S : f[c] \in Int /\ g[c] \in Int /\ h[c] = f[c] + g[c]
  BY <1>1 DEF Surplus
<1> HIDE DEF f, g, h, S
<1>3. SumFunctionOnSet(f, S) \in Int /\ SumFunctionOnSet(g, S) \in Int
  BY <1>1, <1>2, SetSumInt
<1>4. SumFunctionOnSet(h, S) = SumFunctionOnSet(f, S) + SumFunctionOnSet(g, S)
  BY <1>1, <1>2, SetSumPlus
<1>5. SumFunctionOnSet(h, S) >= pool + SumFunctionOnSet(g, S)
        <=> SumFunctionOnSet(f, S) >= pool
  BY <1>3, <1>4
<1> QED BY <1>5 DEF f, g, h, S

(* A step at one token that moves the surplus by no less than the pool     *)
(* keeps the pools covered.                                                *)
LEMMA StillCovered ==
  ASSUME NEW f, NEW g, \A x \in Tokens : f[x] \in Int /\ g[x] \in Int,
         NEW c \in Tokens, \A x \in Tokens : x # c => f[x] = g[x],
         NEW p \in [VTokens -> Nat], NEW q \in [VTokens -> Nat],
         \A u \in VTokens : u # TokenToVToken[c] => q[u] = p[u],
         g[c] - f[c] >= q[TokenToVToken[c]] - p[TokenToVToken[c]],
         \A u \in VTokens : SumFunctionOnSet(f, TokensOf(u)) >= p[u]
  PROVE  \A u \in VTokens : SumFunctionOnSet(g, TokensOf(u)) >= q[u]
<1> SUFFICES ASSUME NEW u \in VTokens PROVE SumFunctionOnSet(g, TokensOf(u)) >= q[u]
  OBVIOUS
<1>1. IsFiniteSet(TokensOf(u)) /\ TokensOf(u) \subseteq Tokens
  BY TokensOfFinite
<1>2. SumFunctionOnSet(f, TokensOf(u)) \in Int
  BY <1>1, SetSumInt
<1>3. SumFunctionOnSet(f, TokensOf(u)) >= p[u] /\ p[u] \in Nat /\ q[u] \in Nat
  OBVIOUS
<1>4. CASE u = TokenToVToken[c]
  <2>1. c \in TokensOf(u)
    BY <1>4 DEF TokensOf
  <2>2. SumFunctionOnSet(g, TokensOf(u)) = SumFunctionOnSet(f, TokensOf(u)) + (g[c] - f[c])
    BY <1>1, <2>1, SetSumUpdate
  <2>3. f[c] \in Int /\ g[c] \in Int /\ g[c] - f[c] >= q[u] - p[u]
    BY <1>4
  <2> QED BY <1>2, <1>3, <2>2, <2>3
<1>5. CASE u # TokenToVToken[c]
  <2>1. \A x \in TokensOf(u) : f[x] = g[x]
    BY <1>1, <1>5 DEF TokensOf
  <2>2. SumFunctionOnSet(f, TokensOf(u)) = SumFunctionOnSet(g, TokensOf(u))
    BY <1>1, <2>1, SetSumSame
  <2> QED BY <1>3, <1>5, <2>2
<1> QED BY <1>4, <1>5

-----------------------------------------------------------------------------
(* The inductive invariant: what the runs check, and that new redeems are  *)
(* never locked to a time unit on_idle has passed.                         *)
LockOK == \A c \in Tokens : MinTimeUnit[c] <= LockToTimeUnit(c)
MintingInv == TypeOK /\ LedgersAgree /\ NoRedeemLeftBehind /\ LockOK /\ Backed

(* Backed, as a bound of the surplus of each vToken's tokens.              *)
Covered(b, k, L, p) == \A v \in VTokens : SumFunctionOnSet(Surplus(b, k, L), TokensOf(v)) >= p[v]

LEMMA BackedCovered ==
  ASSUME NEW b \in Balances, NEW k \in [Tokens -> Nat], NEW L, \A c \in Tokens : IsLedger(L[c]),
         NEW p \in [VTokens -> Nat]
  PROVE  /\ \A c \in Tokens : /\ b[c][EntranceAccount] \in Nat /\ k[c] \in Nat
                              /\ L[c].total \in Nat /\ Surplus(b, k, L)[c] \in Int
         /\ (\A v \in VTokens :
               SumFunctionOnSet([c \in Tokens |-> b[c][EntranceAccount] + k[c]], TokensOf(v))
                 >= p[v] + SumFunctionOnSet([c \in Tokens |-> L[c].total], TokensOf(v)))
            <=> Covered(b, k, L, p)
<1>1. \A c \in Tokens : b[c][EntranceAccount] \in Nat /\ k[c] \in Nat /\ L[c].total \in Nat
  <2>1. Tokens \subseteq Currencies /\ EntranceAccount \in Accounts
    BY DEF Currencies, Accounts
  <2>2. \A c \in Tokens : b[c][EntranceAccount] \in Nat
    BY <2>1 DEF Balances
  <2>3. \A c \in Tokens : L[c].total \in Nat
    BY DEF IsLedger
  <2> QED BY <2>2, <2>3
<1>2. \A c \in Tokens : Surplus(b, k, L)[c] \in Int
  BY <1>1 DEF Surplus
<1>3. \A v \in VTokens : p[v] \in Nat
  OBVIOUS
<1>4. ASSUME NEW v \in VTokens
      PROVE  (SumFunctionOnSet([c \in Tokens |-> b[c][EntranceAccount] + k[c]], TokensOf(v))
                >= p[v] + SumFunctionOnSet([c \in Tokens |-> L[c].total], TokensOf(v)))
             <=> SumFunctionOnSet(Surplus(b, k, L), TokensOf(v)) >= p[v]
  BY <1>1, <1>3, BackedIs
<1> QED BY <1>1, <1>2, <1>4 DEF Covered

(* What MintingInv says, with the ledgers as LedgerOK.                     *)
LEMMA InvFacts ==
  ASSUME MintingInv
  PROVE  /\ balances \in Balances /\ TokenPool \in [VTokens -> Nat]
         /\ VtokenIssuance \in [VTokens -> Nat] /\ TokenUnlockNextId \in [VTokens -> 0..MaxUnlockId]
         /\ TokenToRebond \in [RebondTokens -> Nat] /\ staked \in [Tokens -> Nat]
         /\ MinTimeUnit \in [Tokens -> TimeUnits] /\ OngoingTimeUnit \in [Tokens -> TimeUnits]
         /\ ledgers = [c \in Tokens |-> ledgers[c]]
         /\ \A c \in Tokens : IsLedger(ledgers[c]) /\ LedgerOK(ledgers[c])
         /\ Covered(balances, staked, ledgers, TokenPool)
<1>1. \A c \in Tokens : LedgerOK(ledgers[c])
  BY LedgerAgreesIs DEF MintingInv, LedgersAgree
<1>2. TypeOK
  BY DEF MintingInv
<1>3. /\ balances \in Balances /\ TokenPool \in [VTokens -> Nat]
      /\ VtokenIssuance \in [VTokens -> Nat] /\ TokenUnlockNextId \in [VTokens -> 0..MaxUnlockId]
      /\ TokenToRebond \in [RebondTokens -> Nat] /\ staked \in [Tokens -> Nat]
      /\ MinTimeUnit \in [Tokens -> TimeUnits] /\ OngoingTimeUnit \in [Tokens -> TimeUnits]
      /\ ledgers = [c \in Tokens |-> ledgers[c]]
      /\ \A c \in Tokens : IsLedger(ledgers[c])
  BY <1>2 DEF TypeOK, Balances
<1>4. Covered(balances, staked, ledgers, TokenPool)
  BY <1>3, BackedCovered DEF MintingInv, Backed
<1> QED BY <1>1, <1>3, <1>4

(* A step that changes the ledgers of one token only keeps the invariant   *)
(* when its surplus moves by no less than its pool.                        *)
LEMMA OneTokenStep ==
  ASSUME MintingInv, NEW c \in Tokens, NEW m, IsLedger(m), LedgerOK(m),
         ledgers' = [ledgers EXCEPT ![c] = m],
         DOMAIN m.token \subseteq 0..(TokenUnlockNextId'[TokenToVToken[c]] - 1),
         \A i \in DOMAIN m.token : m.token[i].amount > 0 => m.token[i].time >= MinTimeUnit[c],
         balances' \in Balances, TokenPool' \in [VTokens -> Nat],
         VtokenIssuance' \in [VTokens -> Nat], TokenUnlockNextId' \in [VTokens -> 0..MaxUnlockId],
         TokenToRebond' \in [RebondTokens -> Nat], staked' \in [Tokens -> Nat],
         MinTimeUnit' = MinTimeUnit, OngoingTimeUnit' = OngoingTimeUnit,
         \A v \in VTokens : TokenUnlockNextId'[v] >= TokenUnlockNextId[v],
         \A e \in Tokens : e # c => /\ balances'[e][EntranceAccount] = balances[e][EntranceAccount]
                                    /\ staked'[e] = staked[e],
         \A v \in VTokens : v # TokenToVToken[c] => TokenPool'[v] = TokenPool[v],
         ((balances'[c][EntranceAccount] + staked'[c]) - m.total)
           - ((balances[c][EntranceAccount] + staked[c]) - ledgers[c].total)
           >= TokenPool'[TokenToVToken[c]] - TokenPool[TokenToVToken[c]]
  PROVE  MintingInv'
<1>1. /\ balances \in Balances /\ TokenPool \in [VTokens -> Nat] /\ staked \in [Tokens -> Nat]
      /\ TokenUnlockNextId \in [VTokens -> 0..MaxUnlockId]
      /\ MinTimeUnit \in [Tokens -> TimeUnits] /\ OngoingTimeUnit \in [Tokens -> TimeUnits]
      /\ ledgers = [e \in Tokens |-> ledgers[e]]
      /\ \A e \in Tokens : IsLedger(ledgers[e]) /\ LedgerOK(ledgers[e])
      /\ Covered(balances, staked, ledgers, TokenPool)
  BY InvFacts
<1>2. /\ ledgers'[c] = m /\ \A e \in Tokens : e # c => ledgers'[e] = ledgers[e]
      /\ ledgers' = [e \in Tokens |-> ledgers'[e]]
  <2>1. DOMAIN ledgers = Tokens
    BY <1>1
  <2> QED BY <2>1
<1>3. \A e \in Tokens : IsLedger(ledgers'[e]) /\ LedgerOK(ledgers'[e])
  BY <1>1, <1>2
<1>4. TypeOK'
  <2>1. \A e \in Tokens : DOMAIN ledgers'[e].token
                            \subseteq 0..(TokenUnlockNextId'[TokenToVToken[e]] - 1)
    <3> SUFFICES ASSUME NEW e \in Tokens, e # c
                 PROVE  DOMAIN ledgers'[e].token
                          \subseteq 0..(TokenUnlockNextId'[TokenToVToken[e]] - 1)
      BY <1>2
    <3>1. DOMAIN ledgers[e].token \subseteq 0..(TokenUnlockNextId[TokenToVToken[e]] - 1)
      BY DEF MintingInv, TypeOK
    <3>2. TokenToVToken[e] \in VTokens
      BY MintingCurrencyAssumption
    <3>3. /\ TokenUnlockNextId[TokenToVToken[e]] \in Nat
          /\ TokenUnlockNextId'[TokenToVToken[e]] \in Nat
          /\ TokenUnlockNextId'[TokenToVToken[e]] >= TokenUnlockNextId[TokenToVToken[e]]
      BY <1>1, <3>2
    <3> QED BY <1>2, <3>1, <3>3
  <2> QED BY <1>1, <1>2, <1>3, <2>1 DEF TypeOK, Balances
<1>5. LedgersAgree'
  <2>1. \A e \in Tokens : LedgerAgrees(ledgers'[e])
    BY <1>3, LedgerAgreesIs
  <2> QED BY <2>1 DEF LedgersAgree
<1>6. NoRedeemLeftBehind'
  <2>1. \A e \in Tokens : \A i \in DOMAIN ledgers[e].token :
          ledgers[e].token[i].amount > 0 => ledgers[e].token[i].time >= MinTimeUnit[e]
    BY DEF MintingInv, NoRedeemLeftBehind
  <2>2. \A e \in Tokens : \A i \in DOMAIN ledgers'[e].token :
          ledgers'[e].token[i].amount > 0 => ledgers'[e].token[i].time >= MinTimeUnit[e]
    BY <1>2, <2>1
  <2> QED BY <2>2 DEF NoRedeemLeftBehind
<1>7. LockOK'
  <2>1. LockOK
    BY DEF MintingInv
  <2> QED BY <2>1 DEF LockOK, LockToTimeUnit
<1>8. Backed'
  <2> DEFINE f == Surplus(balances, staked, ledgers)
             g == Surplus(balances', staked', ledgers')
             v == TokenToVToken[c]
  <2>1. \A e \in Tokens : f[e] \in Int /\ g[e] \in Int
    BY <1>1, <1>3, BackedCovered
  <2>2. \A e \in Tokens : e # c => f[e] = g[e]
    BY <1>2 DEF Surplus
  <2>3. /\ f[c] = (balances[c][EntranceAccount] + staked[c]) - ledgers[c].total
        /\ g[c] = (balances'[c][EntranceAccount] + staked'[c]) - m.total
    BY <1>2 DEF Surplus
  <2>4. g[c] - f[c] >= TokenPool'[v] - TokenPool[v]
    BY <2>3
  <2>5. \A u \in VTokens : SumFunctionOnSet(f, TokensOf(u)) >= TokenPool[u]
    BY <1>1 DEF Covered
  <2> HIDE DEF f, g
  <2>6. \A u \in VTokens : SumFunctionOnSet(g, TokensOf(u)) >= TokenPool'[u]
    BY <1>1, <2>1, <2>2, <2>4, <2>5, StillCovered
  <2>7. Covered(balances', staked', ledgers', TokenPool')
    BY <2>6 DEF Covered, g
  <2>8. \A u \in VTokens :
          SumFunctionOnSet([e \in Tokens |-> balances'[e][EntranceAccount] + staked'[e]], TokensOf(u))
            >= TokenPool'[u] + SumFunctionOnSet([e \in Tokens |-> ledgers'[e].total], TokensOf(u))
    <3>1. \A e \in Tokens : IsLedger(ledgers'[e])
      BY <1>3
    <3> QED BY ONLY balances' \in Balances, staked' \in [Tokens -> Nat],
                    TokenPool' \in [VTokens -> Nat], <2>7, <3>1, BackedCovered, Zenon
  <2> QED BY <2>8 DEF Backed, TokensOf
<1> QED BY <1>4, <1>5, <1>6, <1>7, <1>8 DEF MintingInv

(* What a step that leaves the ledgers alone has to show.                  *)
LEMMA SameLedger ==
  ASSUME MintingInv, NEW c \in Tokens
  PROVE  /\ IsLedger(ledgers[c]) /\ LedgerOK(ledgers[c])
         /\ ledgers = [ledgers EXCEPT ![c] = ledgers[c]]
         /\ DOMAIN ledgers[c].token \subseteq 0..(TokenUnlockNextId[TokenToVToken[c]] - 1)
         /\ \A i \in DOMAIN ledgers[c].token :
              ledgers[c].token[i].amount > 0 => ledgers[c].token[i].time >= MinTimeUnit[c]
<1>1. IsLedger(ledgers[c]) /\ LedgerOK(ledgers[c]) /\ ledgers = [e \in Tokens |-> ledgers[e]]
  BY InvFacts
<1>2. ledgers = [ledgers EXCEPT ![c] = ledgers[c]]
  BY <1>1
<1> QED BY <1>1, <1>2 DEF MintingInv, TypeOK, NoRedeemLeftBehind

(* The numbers a step works with.                                          *)
LEMMA InvNumbers ==
  ASSUME MintingInv, NEW c \in Tokens
  PROVE  /\ c \in Currencies /\ TokenToVToken[c] \in VTokens
         /\ TokenToVToken[c] \in Currencies /\ TokenToVToken[c] \notin Tokens
         /\ balances[c][EntranceAccount] \in Nat /\ staked[c] \in Nat /\ ledgers[c].total \in Nat
         /\ TokenPool[TokenToVToken[c]] \in Nat /\ VtokenIssuance[TokenToVToken[c]] \in Nat
         /\ TokenUnlockNextId[TokenToVToken[c]] \in 0..MaxUnlockId
<1>1. /\ balances \in Balances /\ TokenPool \in [VTokens -> Nat]
      /\ VtokenIssuance \in [VTokens -> Nat] /\ TokenUnlockNextId \in [VTokens -> 0..MaxUnlockId]
      /\ staked \in [Tokens -> Nat] /\ IsLedger(ledgers[c])
  BY InvFacts
<1>2. /\ TokenToVToken[c] \in VTokens /\ c \in Currencies /\ TokenToVToken[c] \in Currencies
      /\ TokenToVToken[c] \notin Tokens
  BY MintingCurrencyAssumption DEF Currencies
<1>3. balances[c][EntranceAccount] \in Nat
  BY <1>1, <1>2 DEF Balances, Accounts
<1>4. ledgers[c].total \in Nat
  BY <1>1 DEF IsLedger
<1> QED BY <1>1, <1>2, <1>3, <1>4

LEMMA MintKeeps ==
  ASSUME MintingInv, NEW who \in Users, NEW c \in Tokens, NEW amount \in Nat, mint(who, c, amount)
  PROVE  MintingInv'
<1> DEFINE v == TokenToVToken[c]
           b == Minted(who, c, amount)
           d == Transfer(b, c, who, EntranceAccount, MintNet(amount))
<1>1. /\ balances \in Balances /\ TokenPool \in [VTokens -> Nat]
      /\ VtokenIssuance \in [VTokens -> Nat] /\ TokenUnlockNextId \in [VTokens -> 0..MaxUnlockId]
      /\ staked \in [Tokens -> Nat] /\ TokenToRebond \in [RebondTokens -> Nat]
  BY InvFacts
<1>2. /\ c \in Currencies /\ v \in VTokens /\ balances[c][EntranceAccount] \in Nat
      /\ staked[c] \in Nat /\ ledgers[c].total \in Nat /\ TokenPool[v] \in Nat
  BY InvNumbers
<1>3. MintNet(amount) \in Nat /\ MintedV(c, amount) \in Nat
  BY <1>1, MintNetType, MintedVType
<1>4. /\ CanMint(who, c, amount)
      /\ TokenPool' = [TokenPool EXCEPT ![v] = @ + MintNet(amount)]
      /\ VtokenIssuance' = [VtokenIssuance EXCEPT ![v] = @ + MintedV(c, amount)]
      /\ CanTransfer(b, c, who, EntranceAccount, MintNet(amount)) /\ balances' = d
      /\ UNCHANGED <<TokenUnlockNextId, ledgers, TokenToRebond, MinTimeUnit, OngoingTimeUnit, staked>>
  BY DEF mint, mint_without_transfer
<1>5. /\ b \in Balances
      /\ \A e \in Tokens : b[e][EntranceAccount] = balances[e][EntranceAccount]
  BY <1>1, <1>4, MintedEffect
<1>6. who \in Accounts /\ EntranceAccount \in Accounts
      /\ EntranceAccount \notin {who, TreasuryAccount}
  BY MintingAccountsAssumption, EntranceNotTreasury DEF Accounts
<1> HIDE DEF b
<1>7. /\ d \in Balances /\ \A e \in Currencies : e # c => d[e] = b[e]
      /\ d[c][EntranceAccount] = b[c][EntranceAccount] + MintNet(amount)
  <2> DEFINE x == MintNet(amount)
  <2>1. x \in Nat /\ CanTransfer(b, c, who, EntranceAccount, x)
    BY <1>3, <1>4
  <2> HIDE DEF x
  <2>2. LET e == Transfer(b, c, who, EntranceAccount, x)
        IN /\ e \in Balances /\ \A y \in Currencies : y # c => e[y] = b[y]
           /\ EntranceAccount \notin {who, TreasuryAccount}
                => e[c][EntranceAccount] = b[c][EntranceAccount] + x
    BY ONLY <1>2, <1>5, <1>6, <2>1, TransferHere
  <2> QED BY <1>6, <2>2 DEF x
<1> HIDE DEF d
<1>8. /\ TokenPool' \in [VTokens -> Nat] /\ VtokenIssuance' \in [VTokens -> Nat]
      /\ TokenPool'[v] = TokenPool[v] + MintNet(amount)
      /\ \A u \in VTokens : u # v => TokenPool'[u] = TokenPool[u]
  <2> HIDE DEF v
  <2> QED BY <1>1, <1>2, <1>3, <1>4
<1>9. \A e \in Tokens : e # c =>
        balances'[e][EntranceAccount] = balances[e][EntranceAccount] /\ staked'[e] = staked[e]
  BY <1>4, <1>5, <1>7 DEF Currencies
<1>10. ((balances'[c][EntranceAccount] + staked'[c]) - ledgers[c].total)
         - ((balances[c][EntranceAccount] + staked[c]) - ledgers[c].total)
         >= TokenPool'[v] - TokenPool[v]
  BY <1>2, <1>3, <1>4, <1>5, <1>7, <1>8
<1>11. \A u \in VTokens : TokenUnlockNextId'[u] >= TokenUnlockNextId[u]
  BY <1>1, <1>4
<1>12. /\ IsLedger(ledgers[c]) /\ LedgerOK(ledgers[c])
       /\ ledgers' = [ledgers EXCEPT ![c] = ledgers[c]]
       /\ DOMAIN ledgers[c].token \subseteq 0..(TokenUnlockNextId'[v] - 1)
       /\ \A i \in DOMAIN ledgers[c].token :
            ledgers[c].token[i].amount > 0 => ledgers[c].token[i].time >= MinTimeUnit[c]
  BY <1>4, SameLedger
<1>13. /\ balances' \in Balances /\ TokenUnlockNextId' \in [VTokens -> 0..MaxUnlockId]
       /\ TokenToRebond' \in [RebondTokens -> Nat] /\ staked' \in [Tokens -> Nat]
       /\ MinTimeUnit' = MinTimeUnit /\ OngoingTimeUnit' = OngoingTimeUnit
  BY <1>1, <1>4, <1>7
<1> QED BY <1>8, <1>9, <1>10, <1>11, <1>12, <1>13, OneTokenStep

(* What do_redeem computes.                                                *)
RedeemFee(v_amount) == mul_floor(RedeemRate, v_amount)

LEMMA RedeemNumbers ==
  ASSUME MintingInv, NEW c \in Tokens, NEW v_amount \in Nat
  PROVE  LET v == TokenToVToken[c]
             net == v_amount - RedeemFee(v_amount)
             amount == get_currency_amount_by_v_currency_amount(c, net)
         IN /\ RedeemFee(v_amount) \in Nat /\ net \in Nat /\ amount \in Nat
            /\ VtokenIssuance[v] # 0 => amount * VtokenIssuance[v] <= net * TokenPool[v]
            /\ LockToTimeUnit(c) \in TimeUnits /\ MinTimeUnit[c] <= LockToTimeUnit(c)
<1> DEFINE v == TokenToVToken[c]
           net == v_amount - RedeemFee(v_amount)
           amount == get_currency_amount_by_v_currency_amount(c, net)
           x == net * TokenPool[v]
<1>1. /\ RedeemRate \in Nat /\ Permill \in Nat \ {0} /\ RedeemRate <= Permill
      /\ MaxTimeUnit \in Nat /\ UnlockDuration[c] \in Nat
  BY MintingConfigAssumption
<1>2. RedeemFee(v_amount) \in Nat /\ RedeemFee(v_amount) <= v_amount
  BY <1>1, ShareBound DEF RedeemFee, mul_floor
<1>3. net \in Nat
  BY <1>2
<1> HIDE DEF net
<1>4. TokenPool[v] \in Nat /\ VtokenIssuance[v] \in Nat
  BY InvNumbers
<1>5. x \in Nat
  BY <1>3, <1>4
<1>6. amount \in Nat /\ (VtokenIssuance[v] # 0 => amount * VtokenIssuance[v] <= x)
  <2>1. CASE VtokenIssuance[v] = 0
    BY <1>3, <2>1 DEF get_currency_amount_by_v_currency_amount
  <2>2. CASE VtokenIssuance[v] # 0
    <3>1. amount = x \div VtokenIssuance[v]
      BY <2>2 DEF get_currency_amount_by_v_currency_amount
    <3>2. x \div VtokenIssuance[v] \in Nat /\ (x \div VtokenIssuance[v]) * VtokenIssuance[v] <= x
      BY <1>4, <1>5, <2>2, DivBound
    <3> QED BY <3>1, <3>2
  <2> QED BY <2>1, <2>2
<1>7. LockToTimeUnit(c) \in TimeUnits
  <2>1. OngoingTimeUnit[c] \in 0..MaxTimeUnit
    BY InvFacts DEF TimeUnits
  <2> QED BY <1>1, <2>1 DEF LockToTimeUnit, saturating_add, TimeUnits
<1>8. MinTimeUnit[c] <= LockToTimeUnit(c)
  BY DEF MintingInv, LockOK
<1> QED BY <1>2, <1>3, <1>6, <1>7, <1>8 DEF net

(* A redeem moves vTokens only, and its unlock id is new.                  *)
LEMMA RedeemEffect ==
  ASSUME MintingInv, NEW who \in Users, NEW c \in Tokens, NEW v_amount \in Nat,
         NEW type \in RedeemTypes, do_redeem(who, c, v_amount, type)
  PROVE  LET id == TokenUnlockNextId[TokenToVToken[c]]
         IN /\ balances' \in Balances
            /\ \A e \in Tokens : balances'[e][EntranceAccount] = balances[e][EntranceAccount]
            /\ id \in UnlockIds /\ id \notin DOMAIN ledgers[c].token
<1> DEFINE v == TokenToVToken[c]
           fee == RedeemFee(v_amount)
           net == v_amount - fee
           charged == Transfer(balances, v, who, FeeAccount, fee)
           id == TokenUnlockNextId[v]
           d == Withdraw(charged, v, who, net)
<1>1. balances \in Balances
  BY InvFacts
<1>2. v \in Currencies /\ v \notin Tokens /\ id \in 0..MaxUnlockId
  BY InvNumbers
<1>3. fee \in Nat /\ net \in Nat
  BY RedeemNumbers
<1>4. /\ CanTransfer(balances, v, who, FeeAccount, fee) /\ CanWithdraw(charged, v, who, net)
      /\ id + 1 <= MaxUnlockId /\ balances' = d
  BY DEF do_redeem, RedeemFee
<1> HIDE DEF fee, net
<1>5. who \in Accounts /\ FeeAccount \in Accounts
  BY DEF Accounts
<1>6. charged \in Balances /\ \A e \in Currencies : e # v => charged[e] = balances[e]
  <2> HIDE DEF v
  <2> QED BY <1>1, <1>2, <1>3, <1>4, <1>5, TransferHere
<1> HIDE DEF charged
<1>7. d \in Balances /\ \A e \in Currencies : e # v => d[e] = charged[e]
  <2> HIDE DEF v
  <2> QED BY <1>2, <1>3, <1>4, <1>5, <1>6, WithdrawHere
<1> HIDE DEF d
<1>8. \A e \in Tokens : balances'[e][EntranceAccount] = balances[e][EntranceAccount]
  BY <1>2, <1>4, <1>6, <1>7 DEF Currencies
<1>9. DOMAIN ledgers[c].token \subseteq 0..(id - 1)
  BY SameLedger
<1>10. id \in UnlockIds /\ id \notin DOMAIN ledgers[c].token
  BY <1>2, <1>4, <1>9, MintingConfigAssumption DEF UnlockIds
<1> QED BY <1>4, <1>7, <1>8, <1>10

LEMMA RedeemKeeps ==
  ASSUME MintingInv, NEW who \in Users, NEW c \in Tokens, NEW v_amount \in Nat,
         NEW type \in RedeemTypes, do_redeem(who, c, v_amount, type)
  PROVE  MintingInv'
<1> DEFINE v == TokenToVToken[c]
           fee == RedeemFee(v_amount)
           net == v_amount - fee
           amount == get_currency_amount_by_v_currency_amount(c, net)
           id == TokenUnlockNextId[v]
           t == LockToTimeUnit(c)
           l == ledgers[c]
           m == Added(l, who, id, amount, t, type)
<1>1. /\ balances \in Balances /\ TokenPool \in [VTokens -> Nat]
      /\ VtokenIssuance \in [VTokens -> Nat] /\ TokenUnlockNextId \in [VTokens -> 0..MaxUnlockId]
      /\ staked \in [Tokens -> Nat] /\ TokenToRebond \in [RebondTokens -> Nat]
      /\ MinTimeUnit \in [Tokens -> TimeUnits]
  BY InvFacts
<1>2. /\ c \in Currencies /\ v \in VTokens /\ v \in Currencies /\ v \notin Tokens
      /\ balances[c][EntranceAccount] \in Nat
      /\ staked[c] \in Nat /\ l.total \in Nat /\ TokenPool[v] \in Nat /\ VtokenIssuance[v] \in Nat
      /\ id \in 0..MaxUnlockId
  BY InvNumbers
<1>3. /\ fee \in Nat /\ net \in Nat /\ amount \in Nat
      /\ t \in TimeUnits /\ MinTimeUnit[c] <= t
  BY RedeemNumbers
<1>4. /\ net <= VtokenIssuance[v] /\ amount <= TokenPool[v] /\ id + 1 <= MaxUnlockId
      /\ VtokenIssuance' = [VtokenIssuance EXCEPT ![v] = @ - net]
      /\ TokenPool' = [TokenPool EXCEPT ![v] = @ - amount]
      /\ ledgers' = [ledgers EXCEPT ![c] = m]
      /\ TokenUnlockNextId' = [TokenUnlockNextId EXCEPT ![v] = id + 1]
      /\ UNCHANGED <<TokenToRebond, MinTimeUnit, OngoingTimeUnit, staked>>
  BY DEF do_redeem, RedeemFee
<1> HIDE DEF fee, amount, t, net
<1>5. /\ balances' \in Balances
      /\ \A e \in Tokens : balances'[e][EntranceAccount] = balances[e][EntranceAccount]
      /\ id \in UnlockIds /\ id \notin DOMAIN l.token
  BY RedeemEffect
<1>6. /\ IsLedger(l) /\ LedgerOK(l) /\ DOMAIN l.token \subseteq 0..(id - 1)
      /\ \A i \in DOMAIN l.token : l.token[i].amount > 0 => l.token[i].time >= MinTimeUnit[c]
  BY SameLedger
<1> HIDE DEF id, l
<1>7. /\ IsLedger(m) /\ LedgerOK(m) /\ m.total = l.total + amount
      /\ DOMAIN m.token = DOMAIN l.token \cup {id}
      /\ \A i \in DOMAIN l.token : m.token[i] = l.token[i]
      /\ m.token[id].time = t
  <2>1. IsLedger(m) /\ LedgerOK(m) /\ m.total = l.total + amount
    <3>1. /\ IsLedger(l) /\ LedgerOK(l) /\ id \in UnlockIds /\ id \notin DOMAIN l.token
          /\ amount \in Nat /\ t \in TimeUnits
      BY <1>3, <1>5, <1>6
    <3> QED BY <3>1, AddedOK
  <2>2. /\ DOMAIN m.token = DOMAIN l.token \cup {id}
        /\ \A i \in DOMAIN l.token : m.token[i] = l.token[i]
    BY <1>5 DEF Added
  <2>3. m.token[id].time = t
    BY DEF Added
  <2> QED BY <2>1, <2>2, <2>3
<1> HIDE DEF m
<1>8. \A i \in DOMAIN m.token : m.token[i].amount > 0 => m.token[i].time >= MinTimeUnit[c]
  <2>1. t >= MinTimeUnit[c]
    BY <1>1, <1>3, MintingConfigAssumption DEF TimeUnits
  <2> QED BY <1>6, <1>7, <2>1
<1>9. /\ TokenPool' \in [VTokens -> Nat] /\ VtokenIssuance' \in [VTokens -> Nat]
      /\ TokenPool'[v] = TokenPool[v] - amount
      /\ \A u \in VTokens : u # v => TokenPool'[u] = TokenPool[u]
  <2> HIDE DEF v
  <2> QED BY <1>1, <1>2, <1>3, <1>4
<1>10. /\ TokenUnlockNextId' \in [VTokens -> 0..MaxUnlockId]
       /\ TokenUnlockNextId'[v] = id + 1
       /\ \A u \in VTokens : TokenUnlockNextId'[u] >= TokenUnlockNextId[u]
  <2>1. MaxUnlockId \in Nat
    BY MintingConfigAssumption
  <2> HIDE DEF v
  <2>2. id \in 0..MaxUnlockId /\ id + 1 \in 0..MaxUnlockId
    BY <1>2, <1>4, <2>1
  <2>3. TokenUnlockNextId' \in [VTokens -> 0..MaxUnlockId] /\ TokenUnlockNextId'[v] = id + 1
    BY <1>1, <1>2, <1>4, <2>2
  <2>4. \A u \in VTokens : TokenUnlockNextId'[u] >= TokenUnlockNextId[u]
    BY <1>1, <1>2, <1>4, <2>1, <2>2 DEF id
  <2> QED BY <2>3, <2>4
<1>11. DOMAIN m.token \subseteq 0..(TokenUnlockNextId'[v] - 1)
  <2>1. id \in Nat /\ (id + 1) - 1 = id
    BY <1>2
  <2>2. DOMAIN m.token \subseteq 0..id
    BY <1>6, <1>7, <2>1
  <2> QED BY <1>10, <2>1, <2>2
<1>12. ((balances'[c][EntranceAccount] + staked'[c]) - m.total)
         - ((balances[c][EntranceAccount] + staked[c]) - l.total)
         >= TokenPool'[v] - TokenPool[v]
  BY <1>2, <1>3, <1>4, <1>5, <1>7, <1>9
<1>13. /\ balances' \in Balances
       /\ TokenToRebond' \in [RebondTokens -> Nat] /\ staked' \in [Tokens -> Nat]
       /\ MinTimeUnit' = MinTimeUnit /\ OngoingTimeUnit' = OngoingTimeUnit
       /\ \A e \in Tokens : e # c => staked'[e] = staked[e]
  BY <1>1, <1>4, <1>5
<1> QED BY <1>4, <1>5, <1>7, <1>8, <1>9, <1>10, <1>11, <1>12, <1>13, OneTokenStep, ZenonT(60) DEF l

(* What the two ways to rebond have in common: redeems of token c shrink   *)
(* by at least amount and amount is minted.                                *)
LEMMA RebondedKeeps ==
  ASSUME MintingInv, NEW who \in Users, NEW c \in Tokens, NEW amount \in Nat, NEW m, NEW K,
         IsLedger(m), LedgerOK(m), Shrinks(ledgers[c], m, K), ledgers[c].total - m.total >= amount,
         mint_without_transfer(who, c, amount), balances' = Minted(who, c, amount),
         ledgers' = [ledgers EXCEPT ![c] = m], TokenToRebond' \in [RebondTokens -> Nat],
         UNCHANGED <<TokenUnlockNextId, MinTimeUnit, OngoingTimeUnit, staked>>
  PROVE  MintingInv'
<1> DEFINE v == TokenToVToken[c]
           l == ledgers[c]
<1>1. /\ balances \in Balances /\ TokenPool \in [VTokens -> Nat]
      /\ VtokenIssuance \in [VTokens -> Nat] /\ TokenUnlockNextId \in [VTokens -> 0..MaxUnlockId]
      /\ staked \in [Tokens -> Nat] /\ MinTimeUnit \in [Tokens -> TimeUnits]
  BY InvFacts
<1>2. /\ v \in VTokens /\ balances[c][EntranceAccount] \in Nat
      /\ staked[c] \in Nat /\ l.total \in Nat /\ TokenPool[v] \in Nat
  BY InvNumbers
<1>3. MintNet(amount) \in Nat /\ MintNet(amount) <= amount /\ MintedV(c, amount) \in Nat
  BY <1>1, MintNetType, MintedVType
<1>4. /\ CanMint(who, c, amount)
      /\ TokenPool' = [TokenPool EXCEPT ![v] = @ + MintNet(amount)]
      /\ VtokenIssuance' = [VtokenIssuance EXCEPT ![v] = @ + MintedV(c, amount)]
  BY DEF mint_without_transfer
<1>5. /\ balances' \in Balances
      /\ \A e \in Tokens : balances'[e][EntranceAccount] = balances[e][EntranceAccount]
  BY <1>1, <1>4, MintedEffect
<1>6. /\ TokenPool' \in [VTokens -> Nat] /\ VtokenIssuance' \in [VTokens -> Nat]
      /\ TokenPool'[v] = TokenPool[v] + MintNet(amount)
      /\ \A u \in VTokens : u # v => TokenPool'[u] = TokenPool[u]
  <2> HIDE DEF v
  <2> QED BY <1>1, <1>2, <1>3, <1>4
<1>7. /\ IsLedger(l) /\ DOMAIN l.token \subseteq 0..(TokenUnlockNextId[v] - 1)
      /\ \A i \in DOMAIN l.token : l.token[i].amount > 0 => l.token[i].time >= MinTimeUnit[c]
  BY SameLedger
<1>8. DOMAIN m.token \subseteq 0..(TokenUnlockNextId'[v] - 1)
  BY <1>7 DEF Shrinks
<1>9. \A i \in DOMAIN m.token : m.token[i].amount > 0 => m.token[i].time >= MinTimeUnit[c]
  <2> SUFFICES ASSUME NEW i \in DOMAIN m.token, m.token[i].amount > 0
               PROVE  m.token[i].time >= MinTimeUnit[c]
    OBVIOUS
  <2>1. i \in DOMAIN l.token /\ m.token[i].time = l.token[i].time
        /\ m.token[i].amount <= l.token[i].amount
    BY DEF Shrinks
  <2>2. m.token[i].amount \in Nat /\ l.token[i].amount \in Nat
    BY <1>7, <2>1 DEF IsLedger, Redeems
  <2>3. l.token[i].amount > 0
    BY <2>1, <2>2
  <2> QED BY <1>7, <2>1, <2>3
<1>10. m.total \in Nat
  BY DEF IsLedger
<1>11. ((balances'[c][EntranceAccount] + staked'[c]) - m.total)
         - ((balances[c][EntranceAccount] + staked[c]) - l.total)
         >= TokenPool'[v] - TokenPool[v]
  BY <1>2, <1>3, <1>5, <1>6, <1>10
<1>12. /\ TokenUnlockNextId' \in [VTokens -> 0..MaxUnlockId] /\ staked' \in [Tokens -> Nat]
       /\ MinTimeUnit' = MinTimeUnit /\ OngoingTimeUnit' = OngoingTimeUnit
       /\ \A e \in Tokens : e # c => staked'[e] = staked[e]
       /\ \A u \in VTokens : TokenUnlockNextId'[u] >= TokenUnlockNextId[u]
  BY <1>1
<1> QED BY <1>5, <1>6, <1>8, <1>9, <1>11, <1>12, OneTokenStep

LEMMA RebondKeeps ==
  ASSUME MintingInv, NEW who \in Users, NEW c \in Tokens, NEW amount \in Nat,
         rebond(who, c, amount)
  PROVE  MintingInv'
<1> DEFINE m == RebondWalk(who, c, amount).ledger
<1>1. IsLedger(ledgers[c]) /\ LedgerOK(ledgers[c]) /\ TokenToRebond \in [RebondTokens -> Nat]
  BY InvFacts
<1>2. /\ ledgers[c].user[who].total >= amount /\ RebondWalk(who, c, amount).flow # "error"
      /\ mint_without_transfer(who, c, amount) /\ c \in RebondTokens
      /\ balances' = Minted(who, c, amount)
      /\ ledgers' = [ledgers EXCEPT ![c] = m]
      /\ TokenToRebond' = [TokenToRebond EXCEPT ![c] = @ + amount]
      /\ UNCHANGED <<TokenUnlockNextId, MinTimeUnit, OngoingTimeUnit, staked>>
  BY DEF rebond
<1>3. /\ IsLedger(m) /\ LedgerOK(m) /\ Shrinks(ledgers[c], m, UserIds(ledgers[c], who))
      /\ ledgers[c].total - m.total >= amount
  BY <1>1, <1>2, RebondWalkOK
<1>4. TokenToRebond' \in [RebondTokens -> Nat]
  BY <1>1, <1>2
<1> HIDE DEF m
<1> QED BY <1>2, <1>3, <1>4, RebondedKeeps

LEMMA RebondByIdKeeps ==
  ASSUME MintingInv, NEW who \in Users, NEW c \in Tokens, NEW id \in DOMAIN ledgers[c].token,
         rebond_by_unlock_id(who, c, id)
  PROVE  MintingInv'
<1> DEFINE redeem == ledgers[c].token[id]
           m == Subtracted(ledgers[c], redeem.who, id, redeem.amount, redeem.time)
<1>1. IsLedger(ledgers[c]) /\ LedgerOK(ledgers[c]) /\ TokenToRebond \in [RebondTokens -> Nat]
  BY InvFacts
<1>2. /\ redeem.who = who
      /\ mint_without_transfer(who, c, redeem.amount) /\ c \in RebondTokens
      /\ balances' = Minted(who, c, redeem.amount)
      /\ ledgers' = [ledgers EXCEPT ![c] = m]
      /\ TokenToRebond' = [TokenToRebond EXCEPT ![c] = @ + MintNet(redeem.amount)]
      /\ UNCHANGED <<TokenUnlockNextId, MinTimeUnit, OngoingTimeUnit, staked>>
  BY DEF rebond_by_unlock_id
<1>3. redeem.amount \in Nat
  BY <1>1 DEF IsLedger, Redeems
<1>4. /\ IsLedger(m) /\ LedgerOK(m) /\ m.total = ledgers[c].total - redeem.amount
      /\ CutAt(ledgers[c], m, id, redeem.amount)
  BY <1>1, <1>3, SubtractedOK
<1> HIDE DEF m
<1>5. ledgers[c].total \in Nat /\ m.total \in Nat
  BY <1>1, <1>4 DEF IsLedger
<1>6. ledgers[c].total - m.total >= redeem.amount
  BY <1>3, <1>4, <1>5
<1>7. Shrinks(ledgers[c], m, {id})
  BY <1>1, <1>3, <1>4, CutShrinks
<1>8. TokenToRebond' \in [RebondTokens -> Nat]
  BY <1>1, <1>2, <1>3, MintNetType
<1> HIDE DEF redeem
<1> QED BY <1>2, <1>3, <1>4, <1>6, <1>7, <1>8, RebondedKeeps

(* The staking side leaves the ledgers of a token alone and moves its      *)
(* funds and its pool together.                                            *)
LEMMA FundsStep ==
  ASSUME MintingInv, NEW c \in Tokens,
         UNCHANGED <<VtokenIssuance, TokenUnlockNextId, ledgers, TokenToRebond, MinTimeUnit,
                     OngoingTimeUnit>>,
         balances' \in Balances, TokenPool' \in [VTokens -> Nat], staked' \in [Tokens -> Nat],
         \A e \in Tokens : e # c => /\ balances'[e][EntranceAccount] = balances[e][EntranceAccount]
                                    /\ staked'[e] = staked[e],
         \A v \in VTokens : v # TokenToVToken[c] => TokenPool'[v] = TokenPool[v],
         (balances'[c][EntranceAccount] + staked'[c]) - (balances[c][EntranceAccount] + staked[c])
           >= TokenPool'[TokenToVToken[c]] - TokenPool[TokenToVToken[c]]
  PROVE  MintingInv'
<1> DEFINE l == ledgers[c]
           v == TokenToVToken[c]
<1>1. /\ IsLedger(l) /\ LedgerOK(l) /\ ledgers' = [ledgers EXCEPT ![c] = l]
      /\ DOMAIN l.token \subseteq 0..(TokenUnlockNextId'[v] - 1)
      /\ \A i \in DOMAIN l.token : l.token[i].amount > 0 => l.token[i].time >= MinTimeUnit[c]
  BY SameLedger
<1>2. /\ VtokenIssuance' \in [VTokens -> Nat] /\ TokenUnlockNextId' \in [VTokens -> 0..MaxUnlockId]
      /\ TokenToRebond' \in [RebondTokens -> Nat]
      /\ MinTimeUnit' = MinTimeUnit /\ OngoingTimeUnit' = OngoingTimeUnit
  BY InvFacts
<1>3. \A u \in VTokens : TokenUnlockNextId'[u] >= TokenUnlockNextId[u]
  BY <1>2, MintingConfigAssumption
<1>4. ((balances'[c][EntranceAccount] + staked'[c]) - l.total)
         - ((balances[c][EntranceAccount] + staked[c]) - l.total)
         >= TokenPool'[v] - TokenPool[v]
  <2>1. /\ balances[c][EntranceAccount] \in Nat /\ staked[c] \in Nat /\ l.total \in Nat
        /\ c \in Currencies /\ v \in VTokens /\ TokenPool[v] \in Nat
    BY InvNumbers
  <2>2. balances'[c][EntranceAccount] \in Nat /\ staked'[c] \in Nat /\ TokenPool'[v] \in Nat
    BY <2>1 DEF Balances, Accounts
  <2> HIDE DEF l, v
  <2> QED BY <2>1, <2>2 DEF v
<1> HIDE DEF l
<1> QED BY <1>1, <1>2, <1>3, <1>4, OneTokenStep DEF l

LEMMA StakeKeeps ==
  ASSUME MintingInv, NEW c \in Tokens, NEW amount \in Nat,
         slp_stake(c, amount) \/ slp_return(c, amount)
  PROVE  MintingInv'
<1>1. /\ balances \in Balances /\ staked \in [Tokens -> Nat] /\ TokenPool \in [VTokens -> Nat]
      /\ c \in Currencies /\ balances[c][EntranceAccount] \in Nat /\ staked[c] \in Nat
      /\ TokenToVToken[c] \in VTokens /\ TokenPool[TokenToVToken[c]] \in Nat
  BY InvFacts, InvNumbers
<1>2. /\ EntranceAccount \in Accounts /\ EntranceAccount # TreasuryAccount
      /\ EntranceAccount \in DustWhitelist
  BY EntranceNotTreasury, MintingAccountsAssumption DEF Accounts
<1>3. /\ UNCHANGED <<VtokenIssuance, TokenUnlockNextId, ledgers, TokenToRebond, MinTimeUnit,
                     OngoingTimeUnit>>
      /\ TokenPool' = TokenPool
  BY DEF slp_stake, slp_return
<1>4. CASE slp_stake(c, amount)
  <2>1. /\ balances' \in Balances
        /\ \A e \in Currencies : e # c => balances'[e] = balances[e]
        /\ balances'[c][EntranceAccount] = balances[c][EntranceAccount] - amount
    BY <1>1, <1>2, <1>4, WithdrawHere DEF slp_stake
  <2>2. /\ staked' \in [Tokens -> Nat] /\ staked'[c] = staked[c] + amount
        /\ \A e \in Tokens : e # c => staked'[e] = staked[e]
    BY <1>1, <1>4 DEF slp_stake
  <2>3. (balances'[c][EntranceAccount] + staked'[c]) - (balances[c][EntranceAccount] + staked[c])
          >= TokenPool'[TokenToVToken[c]] - TokenPool[TokenToVToken[c]]
    BY <1>1, <1>3, <2>1, <2>2
  <2> QED BY <1>1, <1>3, <2>1, <2>2, <2>3, FundsStep DEF Currencies
<1>5. CASE slp_return(c, amount)
  <2>1. /\ balances' \in Balances
        /\ \A e \in Currencies : e # c => balances'[e] = balances[e]
        /\ balances'[c][EntranceAccount] = balances[c][EntranceAccount] + amount
    <3> DEFINE d == Deposit(balances, c, EntranceAccount, amount)
    <3>1. balances' = d
      BY <1>5 DEF slp_return
    <3>2. /\ d \in Balances /\ \A e \in Currencies : e # c => d[e] = balances[e]
          /\ d[c][EntranceAccount] = balances[c][EntranceAccount] + amount
      BY <1>1, <1>2, DepositHere
    <3> QED BY <3>1, <3>2
  <2>2. /\ staked' \in [Tokens -> Nat] /\ staked'[c] = staked[c] - amount
        /\ \A e \in Tokens : e # c => staked'[e] = staked[e]
    BY <1>1, <1>5 DEF slp_return
  <2>3. (balances'[c][EntranceAccount] + staked'[c]) - (balances[c][EntranceAccount] + staked[c])
          >= TokenPool'[TokenToVToken[c]] - TokenPool[TokenToVToken[c]]
    BY <1>1, <1>3, <2>1, <2>2
  <2> QED BY <1>1, <1>3, <2>1, <2>2, <2>3, FundsStep DEF Currencies
<1> QED BY <1>4, <1>5

LEMMA PoolKeeps ==
  ASSUME MintingInv, NEW c \in Tokens, NEW amount \in Nat,
         increase_token_pool(c, amount) \/ decrease_token_pool(c, amount)
  PROVE  MintingInv'
<1> DEFINE v == TokenToVToken[c]
<1>1. /\ balances \in Balances /\ staked \in [Tokens -> Nat] /\ TokenPool \in [VTokens -> Nat]
      /\ balances[c][EntranceAccount] \in Nat /\ staked[c] \in Nat
      /\ v \in VTokens /\ TokenPool[v] \in Nat
  BY InvFacts, InvNumbers
<1>2. /\ UNCHANGED <<VtokenIssuance, TokenUnlockNextId, ledgers, TokenToRebond, MinTimeUnit,
                     OngoingTimeUnit>>
      /\ balances' = balances
  BY DEF increase_token_pool, decrease_token_pool
<1>3. \/ /\ TokenPool' = [TokenPool EXCEPT ![v] = @ + amount]
         /\ staked' = [staked EXCEPT ![c] = @ + amount]
      \/ /\ amount <= staked[c] /\ amount <= TokenPool[v]
         /\ TokenPool' = [TokenPool EXCEPT ![v] = @ - amount]
         /\ staked' = [staked EXCEPT ![c] = @ - amount]
  BY DEF increase_token_pool, decrease_token_pool
<1> HIDE DEF v
<1>4. /\ TokenPool' \in [VTokens -> Nat] /\ staked' \in [Tokens -> Nat]
      /\ \A u \in VTokens : u # v => TokenPool'[u] = TokenPool[u]
      /\ \A e \in Tokens : e # c => staked'[e] = staked[e]
      /\ staked'[c] - staked[c] = TokenPool'[v] - TokenPool[v]
  BY <1>1, <1>3
<1>5. (balances'[c][EntranceAccount] + staked'[c]) - (balances[c][EntranceAccount] + staked[c])
        >= TokenPool'[v] - TokenPool[v]
  BY <1>1, <1>2, <1>4
<1> QED BY <1>1, <1>2, <1>4, <1>5, FundsStep DEF v

LEMMA TimeKeeps ==
  ASSUME MintingInv, NEW c \in Tokens, NEW t \in TimeUnits, update_ongoing_time_unit(c, t)
  PROVE  MintingInv'
<1>1. /\ OngoingTimeUnit \in [Tokens -> TimeUnits] /\ MinTimeUnit \in [Tokens -> TimeUnits]
  BY InvFacts
<1>2. /\ OngoingTimeUnit[c] < t
      /\ OngoingTimeUnit' = [OngoingTimeUnit EXCEPT ![c] = t]
      /\ UNCHANGED <<balances, TokenPool, VtokenIssuance, TokenUnlockNextId, ledgers,
                     TokenToRebond, MinTimeUnit, staked>>
  BY DEF update_ongoing_time_unit
<1>3. OngoingTimeUnit' \in [Tokens -> TimeUnits]
  BY <1>1, <1>2
<1>4. TypeOK'
  BY <1>2, <1>3 DEF MintingInv, TypeOK
<1>5. LedgersAgree' /\ NoRedeemLeftBehind' /\ Backed'
  BY <1>2 DEF MintingInv, LedgersAgree, NoRedeemLeftBehind, Backed
<1>6. LockOK'
  <2> SUFFICES ASSUME NEW e \in Tokens PROVE MinTimeUnit[e] <= LockToTimeUnit(e)'
    BY <1>2 DEF LockOK
  <2>1. /\ MinTimeUnit[e] \in 0..MaxTimeUnit /\ OngoingTimeUnit[e] \in 0..MaxTimeUnit
        /\ OngoingTimeUnit'[e] \in 0..MaxTimeUnit /\ UnlockDuration[e] \in 0..MaxTimeUnit
        /\ MaxTimeUnit \in Nat
    BY <1>1, <1>3, MintingConfigAssumption DEF TimeUnits
  <2>2. OngoingTimeUnit[e] <= OngoingTimeUnit'[e]
    BY <1>1, <1>2, <2>1
  <2>3. MinTimeUnit[e] <= LockToTimeUnit(e)
    BY DEF MintingInv, LockOK
  <2> QED BY <2>1, <2>2, <2>3 DEF LockToTimeUnit, saturating_add
<1> QED BY <1>4, <1>5, <1>6 DEF MintingInv

(* The hook for one token: its balance and its ledgers afterwards, and the *)
(* time unit it goes on with.                                              *)
LEMMA HookOfToken ==
  ASSUME MintingInv, NEW sent \in BOOLEAN, on_idle(sent), NEW c \in Tokens
  PROVE  /\ IsLedger(ledgers'[c]) /\ LedgerOK(ledgers'[c])
         /\ Shrinks(ledgers[c], ledgers'[c], TimeIds(ledgers[c], MinTimeUnit[c]))
         /\ balances'[c] \in [Accounts -> Nat]
         /\ balances[c][EntranceAccount] - balances'[c][EntranceAccount]
              <= ledgers[c].total - ledgers'[c].total
         /\ MinTimeUnit'[c] = NextMinTimeUnit(c)
<1> DEFINE h == HandleBatch(c, sent)
<1>1. balances \in [Currencies -> [Accounts -> Nat]] /\ MinTimeUnit[c] \in TimeUnits
      /\ IsLedger(ledgers[c]) /\ LedgerOK(ledgers[c]) /\ c \in Currencies
  BY InvFacts DEF Balances, Currencies
<1>2. /\ h.balances \in [Currencies -> [Accounts -> Nat]]
      /\ IsLedger(h.ledger) /\ LedgerOK(h.ledger)
      /\ Shrinks(ledgers[c], h.ledger, TimeIds(ledgers[c], MinTimeUnit[c]))
      /\ balances[c][EntranceAccount] - h.balances[c][EntranceAccount]
           <= ledgers[c].total - h.ledger.total
  BY <1>1, BatchOK
<1>3. ledgers'[c] = h.ledger /\ balances'[c] = h.balances[c] /\ MinTimeUnit'[c] = NextMinTimeUnit(c)
  BY <1>1 DEF on_idle
<1> HIDE DEF h
<1> QED BY <1>1, <1>2, <1>3

(* MinTimeUnit moves on only past a time unit with nothing left to pay,    *)
(* and never beyond the time unit new redeems are locked to.               *)
LEMMA NextMinTimeUnitOK ==
  ASSUME MintingInv, NEW c \in Tokens
  PROVE  /\ NextMinTimeUnit(c) \in TimeUnits /\ NextMinTimeUnit(c) <= LockToTimeUnit(c)
         /\ \A i \in DOMAIN ledgers[c].token :
              ledgers[c].token[i].amount > 0 => ledgers[c].token[i].time >= NextMinTimeUnit(c)
         /\ \/ NextMinTimeUnit(c) = MinTimeUnit[c]
            \/ /\ NextMinTimeUnit(c) = MinTimeUnit[c] + 1
               /\ \A i \in TimeIds(ledgers[c], MinTimeUnit[c]) : ledgers[c].token[i].amount = 0
<1> DEFINE l == ledgers[c]
           t == MinTimeUnit[c]
<1>1. /\ t \in TimeUnits /\ OngoingTimeUnit[c] \in TimeUnits /\ UnlockDuration[c] \in TimeUnits
      /\ MaxTimeUnit \in Nat
  BY InvFacts, MintingConfigAssumption DEF TimeUnits
<1>2. /\ LockToTimeUnit(c) \in TimeUnits /\ t <= LockToTimeUnit(c)
  <2>1. t <= LockToTimeUnit(c)
    BY DEF MintingInv, LockOK
  <2> QED BY <1>1, <2>1 DEF LockToTimeUnit, saturating_add, TimeUnits
<1>3. /\ NextMinTimeUnit(c) \in TimeUnits /\ NextMinTimeUnit(c) <= LockToTimeUnit(c)
  BY <1>1, <1>2 DEF NextMinTimeUnit, TimeUnits
<1>4. /\ IsLedger(l) /\ LedgerOK(l)
      /\ \A i \in DOMAIN l.token : l.token[i].amount > 0 => l.token[i].time >= t
  BY SameLedger
<1>5. \A i \in DOMAIN l.token : l.token[i].amount \in Nat /\ l.token[i].time \in TimeUnits
  BY <1>4 DEF IsLedger, Redeems
<1>6. CASE NextMinTimeUnit(c) = t
  BY <1>3, <1>4, <1>6
<1>7. CASE NextMinTimeUnit(c) # t
  <2>1. NextMinTimeUnit(c) = t + 1 /\ l.time_unit[t].ids = {}
    BY <1>7 DEF NextMinTimeUnit, HasEntry
  <2>2. {i \in TimeIds(l, t) : l.token[i].amount > 0} \subseteq l.time_unit[t].ids
    BY <1>1, <1>4 DEF LedgerOK, EntryOK
  <2>3. TimeIds(l, t) \subseteq DOMAIN l.token
    BY DEF TimeIds
  <2>4. \A i \in TimeIds(l, t) : ~(l.token[i].amount > 0)
    BY <2>1, <2>2
  <2>5. \A i \in TimeIds(l, t) : l.token[i].amount = 0
    BY <1>5, <2>3, <2>4
  <2>6. ASSUME NEW i \in DOMAIN l.token, l.token[i].amount > 0
        PROVE  l.token[i].time >= t + 1
    <3>1. l.token[i].time # t
      BY <2>4, <2>6 DEF TimeIds
    <3>2. l.token[i].time >= t
      BY <1>4, <2>6
    <3> QED BY <1>1, <1>5, <3>1, <3>2 DEF TimeUnits
  <2> QED BY <1>3, <2>1, <2>5, <2>6
<1> QED BY <1>6, <1>7

LEMMA HookKeeps ==
  ASSUME MintingInv, NEW sent \in BOOLEAN, on_idle(sent)
  PROVE  MintingInv'
<1>1. UNCHANGED <<TokenPool, VtokenIssuance, TokenUnlockNextId, TokenToRebond,
                  OngoingTimeUnit, staked>>
  BY DEF on_idle
<1>2. /\ TokenPool \in [VTokens -> Nat] /\ staked \in [Tokens -> Nat]
      /\ balances \in Balances /\ MinTimeUnit \in [Tokens -> TimeUnits]
      /\ Covered(balances, staked, ledgers, TokenPool)
      /\ \A c \in Tokens : IsLedger(ledgers[c])
  BY InvFacts
<1>3. balances' \in Balances
  <2>1. balances' = [c \in Currencies |-> balances'[c]]
    BY DEF on_idle
  <2>2. \A c \in Currencies : balances'[c] \in [Accounts -> Nat]
    <3>1. ASSUME NEW c \in Currencies, c \notin Tokens PROVE balances'[c] = balances[c]
      BY <3>1 DEF on_idle
    <3> QED BY <1>2, <3>1, HookOfToken DEF Balances
  <2> QED BY <2>1, <2>2 DEF Balances
<1>4. MinTimeUnit' \in [Tokens -> TimeUnits]
  <2>1. \A c \in Tokens : NextMinTimeUnit(c) \in TimeUnits
    BY NextMinTimeUnitOK
  <2> QED BY <2>1 DEF on_idle
<1>5. ledgers' = [c \in Tokens |-> ledgers'[c]]
  BY DEF on_idle
<1>6. ASSUME NEW c \in Tokens
      PROVE  /\ IsLedger(ledgers'[c]) /\ LedgerOK(ledgers'[c])
             /\ DOMAIN ledgers'[c].token \subseteq 0..(TokenUnlockNextId'[TokenToVToken[c]] - 1)
             /\ \A i \in DOMAIN ledgers'[c].token :
                  ledgers'[c].token[i].amount > 0 => ledgers'[c].token[i].time >= MinTimeUnit'[c]
             /\ MinTimeUnit'[c] <= LockToTimeUnit(c)
  <2> DEFINE l == ledgers[c]
             m == ledgers'[c]
  <2>1. IsLedger(l) /\ DOMAIN l.token \subseteq 0..(TokenUnlockNextId'[TokenToVToken[c]] - 1)
    BY <1>1, SameLedger
  <2>2. /\ IsLedger(m) /\ LedgerOK(m) /\ Shrinks(l, m, TimeIds(l, MinTimeUnit[c]))
        /\ MinTimeUnit'[c] = NextMinTimeUnit(c)
    BY HookOfToken
  <2>3. /\ NextMinTimeUnit(c) <= LockToTimeUnit(c)
        /\ \A i \in DOMAIN l.token : l.token[i].amount > 0 => l.token[i].time >= NextMinTimeUnit(c)
    BY NextMinTimeUnitOK
  <2> HIDE DEF l, m
  <2>4. DOMAIN m.token \subseteq DOMAIN l.token
    BY <2>2 DEF Shrinks
  <2>5. ASSUME NEW i \in DOMAIN m.token, m.token[i].amount > 0
        PROVE  m.token[i].time >= NextMinTimeUnit(c)
    <3>1. i \in DOMAIN l.token /\ m.token[i].time = l.token[i].time
          /\ m.token[i].amount <= l.token[i].amount
      BY <2>2 DEF Shrinks
    <3>2. m.token[i].amount \in Nat /\ l.token[i].amount \in Nat
      BY <2>1, <2>2, <3>1 DEF IsLedger, Redeems
    <3>3. l.token[i].amount > 0
      BY <2>5, <3>1, <3>2
    <3> QED BY <2>3, <3>1, <3>3
  <2> QED BY <2>1, <2>2, <2>3, <2>4, <2>5 DEF l, m
<1>7. TypeOK'
  <2>1. /\ VtokenIssuance \in [VTokens -> Nat] /\ TokenUnlockNextId \in [VTokens -> 0..MaxUnlockId]
        /\ TokenToRebond \in [RebondTokens -> Nat] /\ OngoingTimeUnit \in [Tokens -> TimeUnits]
    BY InvFacts
  <2> QED BY <1>1, <1>2, <1>3, <1>4, <1>5, <1>6, <2>1 DEF TypeOK, Balances
<1>8. LedgersAgree'
  BY <1>6, LedgerAgreesIs DEF LedgersAgree
<1>9. NoRedeemLeftBehind'
  BY <1>6 DEF NoRedeemLeftBehind
<1>10. LockOK'
  <2>1. \A c \in Tokens : LockToTimeUnit(c)' = LockToTimeUnit(c)
    BY <1>1 DEF LockToTimeUnit
  <2> QED BY <1>6, <2>1 DEF LockOK
<1>11. Covered(balances', staked', ledgers', TokenPool')
  <2> DEFINE f == Surplus(balances, staked, ledgers)
             g == Surplus(balances', staked', ledgers')
  <2>1. \A c \in Tokens : f[c] \in Int /\ g[c] \in Int /\ f[c] <= g[c]
    <3> SUFFICES ASSUME NEW c \in Tokens PROVE f[c] \in Int /\ g[c] \in Int /\ f[c] <= g[c]
      OBVIOUS
    <3>1. /\ balances[c][EntranceAccount] \in Nat /\ staked[c] \in Nat /\ ledgers[c].total \in Nat
      BY InvNumbers
    <3>2. /\ balances'[c][EntranceAccount] \in Nat /\ staked'[c] = staked[c]
          /\ ledgers'[c].total \in Nat
      <4>1. EntranceAccount \in Accounts
        BY DEF Accounts
      <4> QED BY <1>1, <1>6, <4>1, HookOfToken DEF IsLedger
    <3>3. balances[c][EntranceAccount] - balances'[c][EntranceAccount]
            <= ledgers[c].total - ledgers'[c].total
      BY HookOfToken
    <3>4. /\ f[c] = (balances[c][EntranceAccount] + staked[c]) - ledgers[c].total
          /\ g[c] = (balances'[c][EntranceAccount] + staked'[c]) - ledgers'[c].total
      BY DEF Surplus
    <3> QED BY ONLY <3>1, <3>2, <3>3, <3>4
  <2> HIDE DEF f, g
  <2>2. ASSUME NEW v \in VTokens PROVE SumFunctionOnSet(g, TokensOf(v)) >= TokenPool'[v]
    <3>1. SumFunctionOnSet(f, TokensOf(v)) <= SumFunctionOnSet(g, TokensOf(v))
      BY <2>1, TokensOfFinite, SetSumMonotone
    <3>2. SumFunctionOnSet(f, TokensOf(v)) >= TokenPool[v]
      BY <1>2 DEF Covered, f
    <3>3. SumFunctionOnSet(f, TokensOf(v)) \in Int /\ SumFunctionOnSet(g, TokensOf(v)) \in Int
      BY <2>1, TokensOfFinite, SetSumInt
    <3> QED BY <1>1, <1>2, <3>1, <3>2, <3>3
  <2> QED BY <2>2 DEF Covered, g
<1>12. Backed'
  <2>1. /\ balances' \in Balances /\ staked' \in [Tokens -> Nat] /\ TokenPool' \in [VTokens -> Nat]
        /\ \A c \in Tokens : IsLedger(ledgers'[c])
    BY <1>1, <1>2, <1>3, <1>6
  <2> QED BY <1>11, <2>1, BackedCovered DEF Backed
<1> QED BY <1>7, <1>8, <1>9, <1>10, <1>12 DEF MintingInv

-----------------------------------------------------------------------------
(* The invariant holds at the start: nothing is queued and no pool has     *)
(* anything in it.                                                         *)
LEMMA InitInv == Init => MintingInv
<1> SUFFICES ASSUME Init PROVE MintingInv
  OBVIOUS
<1> DEFINE empty == [token |-> [i \in {} |-> 0],
                     user |-> [u \in Users |-> NoEntry],
                     time_unit |-> [t \in TimeUnits |-> NoEntry],
                     total |-> 0]
<1>1. /\ MaxTimeUnit \in Nat /\ MaxUnlockId \in Nat
      /\ InitialBalances \in Balances
  BY MintingConfigAssumption, MintingCurrencyAssumption DEF Balances
<1>2. /\ balances \in Balances
      /\ TokenPool = [v \in VTokens |-> 0] /\ VtokenIssuance = [v \in VTokens |-> 0]
      /\ TokenUnlockNextId = [v \in VTokens |-> 0]
      /\ ledgers = [c \in Tokens |-> empty]
      /\ TokenToRebond = [c \in RebondTokens |-> 0]
      /\ MinTimeUnit = [c \in Tokens |-> 0] /\ OngoingTimeUnit = [c \in Tokens |-> 0]
      /\ staked = [c \in Tokens |-> 0]
  BY <1>1 DEF Init
<1>3. IsLedger(empty) /\ DOMAIN empty.token = {} /\ empty.total = 0
  <2>1. NoEntry \in Entries
    BY DEF NoEntry, Entries
  <2>2. empty.user \in [Users -> Entries] /\ empty.time_unit \in [TimeUnits -> Entries]
    BY <2>1
  <2>3. empty.token \in [{} -> Redeems] /\ DOMAIN empty.token = {} /\ empty.total = 0
    OBVIOUS
  <2>4. empty = [token |-> empty.token, user |-> empty.user, time_unit |-> empty.time_unit,
                 total |-> empty.total]
    OBVIOUS
  <2> HIDE DEF empty
  <2> QED BY <2>2, <2>3, <2>4 DEF IsLedger
<1>4. LedgerOK(empty)
  <2>1. AmountsOf(empty, {}) = [i \in Nat |-> 0]
    BY DEF AmountsOf
  <2>2. SumTo(AmountsOf(empty, {}), MaxUnlockId) = 0
    BY <1>1, <2>1, SumZeros
  <2>3. EntryOK(empty, NoEntry, {})
    BY <2>2 DEF EntryOK, NoEntry
  <2>4. (\A u \in Users : empty.user[u] = NoEntry) /\ (\A t \in TimeUnits : empty.time_unit[t] = NoEntry)
    OBVIOUS
  <2> HIDE DEF empty
  <2>5. (\A u : UserIds(empty, u) = {}) /\ (\A t : TimeIds(empty, t) = {})
    BY <1>3 DEF UserIds, TimeIds
  <2> QED BY <1>3, <2>2, <2>3, <2>4, <2>5 DEF LedgerOK
<1> HIDE DEF empty
<1>5. TypeOK
  <2>1. /\ TokenPool \in [VTokens -> Nat] /\ VtokenIssuance \in [VTokens -> Nat]
        /\ TokenUnlockNextId \in [VTokens -> 0..MaxUnlockId]
        /\ TokenToRebond \in [RebondTokens -> Nat] /\ staked \in [Tokens -> Nat]
        /\ MinTimeUnit \in [Tokens -> TimeUnits] /\ OngoingTimeUnit \in [Tokens -> TimeUnits]
    BY <1>1, <1>2 DEF TimeUnits
  <2>2. ledgers = [c \in Tokens |-> ledgers[c]] /\ \A c \in Tokens : ledgers[c] = empty
    BY <1>2
  <2> QED BY <1>2, <1>3, <2>1, <2>2 DEF TypeOK, Balances
<1>6. LedgersAgree
  BY <1>2, <1>4, LedgerAgreesIs DEF LedgersAgree
<1>7. NoRedeemLeftBehind
  BY <1>2, <1>3 DEF NoRedeemLeftBehind
<1>8. LockOK
  <2> SUFFICES ASSUME NEW c \in Tokens PROVE MinTimeUnit[c] <= LockToTimeUnit(c)
    BY DEF LockOK
  <2>1. UnlockDuration[c] \in 0..MaxTimeUnit
    BY MintingConfigAssumption
  <2>2. MinTimeUnit[c] = 0 /\ OngoingTimeUnit[c] = 0
    BY <1>2
  <2> QED BY <1>1, <2>1, <2>2 DEF LockToTimeUnit, saturating_add
<1>9. Backed
  <2> SUFFICES ASSUME NEW v \in VTokens
               PROVE  SumFunctionOnSet([c \in Tokens |-> balances[c][EntranceAccount] + staked[c]],
                                       TokensOf(v))
                        >= TokenPool[v]
                             + SumFunctionOnSet([c \in Tokens |-> ledgers[c].total], TokensOf(v))
    BY DEF Backed
  <2> DEFINE f == [c \in Tokens |-> balances[c][EntranceAccount] + staked[c]]
             g == [c \in Tokens |-> ledgers[c].total]
  <2>1. \A c \in Tokens : f[c] \in Nat /\ g[c] = 0
    <3>1. \A c \in Tokens : balances[c][EntranceAccount] \in Nat
      BY <1>2 DEF Balances, Currencies, Accounts
    <3>2. \A c \in Tokens : staked[c] = 0 /\ ledgers[c].total = 0
      BY <1>2, <1>3
    <3> QED BY <3>1, <3>2
  <2>2. TokenPool[v] = 0
    BY <1>2
  <2> HIDE DEF f, g
  <2>3. SumFunctionOnSet(f, TokensOf(v)) \in Nat
    BY <2>1, TokensOfFinite, SetSumNat
  <2>4. SumFunctionOnSet(g, TokensOf(v)) = 0
    BY <2>1, TokensOfFinite, SetSumZero
  <2>5. SumFunctionOnSet(f, TokensOf(v)) >= TokenPool[v] + SumFunctionOnSet(g, TokensOf(v))
    BY <2>2, <2>3, <2>4
  <2> QED BY <2>5 DEF f, g
<1> QED BY <1>5, <1>6, <1>7, <1>8, <1>9 DEF MintingInv

(* Every step keeps it: one case per call.                                 *)
LEMMA InvStep == MintingInv /\ [Next]_vars => MintingInv'
<1> SUFFICES ASSUME MintingInv, [Next]_vars PROVE MintingInv'
  OBVIOUS
<1>1. MintAmounts \subseteq Nat /\ RedeemAmounts \subseteq Nat /\ RebondAmounts \subseteq Nat
      /\ SlpAmounts \subseteq Nat
  BY MintingInputAssumption
<1>2. ASSUME UserCalls PROVE MintingInv'
  <2>1. CASE \E u \in Users, c \in Tokens, a \in MintAmounts : mint(u, c, a)
    BY <1>1, <2>1, MintKeeps
  <2>2. CASE \E u \in Users, c \in Tokens, a \in RedeemAmounts, type \in RedeemTypes :
               do_redeem(u, c, a, type)
    BY <1>1, <2>2, RedeemKeeps
  <2>3. CASE \E u \in Users, c \in Tokens, a \in RebondAmounts : rebond(u, c, a)
    BY <1>1, <2>3, RebondKeeps
  <2>4. CASE \E u \in Users, c \in Tokens : \E id \in DOMAIN ledgers[c].token :
               rebond_by_unlock_id(u, c, id)
    BY <2>4, RebondByIdKeeps
  <2> QED BY <1>2, <2>1, <2>2, <2>3, <2>4 DEF UserCalls
<1>3. ASSUME Hook PROVE MintingInv'
  BY <1>3, HookKeeps DEF Hook
<1>4. ASSUME Staking PROVE MintingInv'
  <2>1. CASE \E c \in Tokens, a \in SlpAmounts : slp_stake(c, a) \/ slp_return(c, a)
    BY <1>1, <2>1, StakeKeeps
  <2>2. CASE \E c \in Tokens, a \in SlpAmounts : increase_token_pool(c, a) \/ decrease_token_pool(c, a)
    BY <1>1, <2>2, PoolKeeps
  <2>3. CASE \E c \in Tokens, t \in TimeUnits : update_ongoing_time_unit(c, t)
    BY <2>3, TimeKeeps
  <2> QED BY <1>4, <2>1, <2>2, <2>3 DEF Staking
<1>5. ASSUME UNCHANGED vars PROVE MintingInv'
  <2>1. UNCHANGED <<balances, TokenPool, VtokenIssuance, TokenUnlockNextId, ledgers,
                    TokenToRebond, MinTimeUnit, OngoingTimeUnit, staked>>
    BY <1>5 DEF vars
  <2>2. TypeOK'
    BY <2>1 DEF MintingInv, TypeOK
  <2>3. LedgersAgree' /\ NoRedeemLeftBehind' /\ Backed'
    BY <2>1 DEF MintingInv, LedgersAgree, NoRedeemLeftBehind, Backed
  <2>4. LockOK'
    BY <2>1 DEF MintingInv, LockOK, LockToTimeUnit
  <2> QED BY <2>2, <2>3, <2>4 DEF MintingInv
<1> QED BY <1>2, <1>3, <1>4, <1>5 DEF Next

LEMMA InvAlways == Spec => []MintingInv
BY InitInv, InvStep, PTL DEF Spec

(* Every storage item keeps its type: in particular no u128 subtraction of *)
(* the pallet goes below zero and no unlock id is handed out twice.        *)
THEOREM TypeCorrect == Spec => []TypeOK
<1>1. MintingInv => TypeOK
  BY DEF MintingInv
<1> QED BY <1>1, InvAlways, PTL

(* update_unlock_ledger keeps TokenUnlockLedger, UserUnlockLedger,         *)
(* TimeUnitUnlockLedger and UnlockingTotal in agreement, whatever the      *)
(* order of redeems, rebonds, partial payments and failed batches.         *)
THEOREM UnlockLedgersAgree == Spec => []LedgersAgree
<1>1. MintingInv => LedgersAgree
  BY DEF MintingInv
<1> QED BY <1>1, InvAlways, PTL

(* on_idle never moves MinTimeUnit past a redeem that is still to be paid, *)
(* and no redeem is locked to a time unit already left behind.             *)
THEOREM NothingLeftBehind == Spec => []NoRedeemLeftBehind
<1>1. MintingInv => NoRedeemLeftBehind
  BY DEF MintingInv
<1> QED BY <1>1, InvAlways, PTL

(* The entrance account and the stake always cover the pool and all that   *)
(* is being unlocked.                                                      *)
THEOREM AlwaysBacked == Spec => []Backed
<1>1. MintingInv => Backed
  BY DEF MintingInv
<1> QED BY <1>1, InvAlways, PTL

-----------------------------------------------------------------------------
(* The rate TokenPool : VtokenIssuance.                                    *)
RateKept(v) == VtokenIssuance'[v] # VtokenIssuance[v] =>
                 TokenPool'[v] * VtokenIssuance[v] >= TokenPool[v] * VtokenIssuance'[v]

LEMMA RateUp ==
  ASSUME NEW p \in Nat, NEW i \in Nat, NEW n \in Nat, NEW m \in Nat, m * p <= n * i
  PROVE  (p + n) * i >= p * (i + m)
<1>1. (p + n) * i = p * i + n * i /\ p * (i + m) = p * i + m * p
  OBVIOUS
<1>2. p * i \in Nat /\ n * i \in Nat /\ m * p \in Nat
  OBVIOUS
<1> QED BY <1>1, <1>2

LEMMA RateDown ==
  ASSUME NEW p \in Nat, NEW i \in Nat, NEW n \in Nat, NEW m \in Nat, m * i <= n * p
  PROVE  (p - m) * i >= p * (i - n)
<1>1. (p - m) * i = p * i - m * i /\ p * (i - n) = p * i - n * p
  OBVIOUS
<1>2. p * i \in Nat /\ m * i \in Nat /\ n * p \in Nat
  OBVIOUS
<1> QED BY <1>1, <1>2

(* vTokens minted are worth at most what joins the pool.                   *)
LEMMA MintKeepsRate ==
  ASSUME MintingInv, NEW who, NEW c \in Tokens, NEW amount \in Nat,
         mint_without_transfer(who, c, amount)
  PROVE  \A v \in VTokens : RateKept(v)
<1> DEFINE w == TokenToVToken[c]
           p == TokenPool[w]
           i == VtokenIssuance[w]
           n == MintNet(amount)
           m == MintedV(c, amount)
<1>1. TokenPool \in [VTokens -> Nat] /\ VtokenIssuance \in [VTokens -> Nat]
  BY InvFacts
<1>2. w \in VTokens /\ p \in Nat /\ i \in Nat
  BY InvNumbers
<1>3. n \in Nat /\ m \in Nat /\ (p # 0 => m * p <= n * i)
  BY <1>1, MintNetType, MintedVType
<1>4. m * p <= n * i
  <2>1. CASE p = 0
    <3>1. m * p = 0 /\ n * i \in Nat
      BY <1>2, <1>3, <2>1
    <3> QED BY <3>1
  <2> QED BY <1>3, <2>1
<1>5. TokenPool' = [TokenPool EXCEPT ![w] = p + n]
      /\ VtokenIssuance' = [VtokenIssuance EXCEPT ![w] = i + m]
  BY DEF mint_without_transfer
<1>6. (p + n) * i >= p * (i + m)
  <2> HIDE DEF p, i, n, m, w
  <2> QED BY <1>2, <1>3, <1>4, RateUp
<1>7. TokenPool'[w] = p + n /\ VtokenIssuance'[w] = i + m
  <2> HIDE DEF n, m, w
  <2> QED BY <1>1, <1>2, <1>5
<1>8. \A v \in VTokens : v # w => VtokenIssuance'[v] = VtokenIssuance[v]
  <2> HIDE DEF n, m, w
  <2> QED BY <1>1, <1>2, <1>5
<1>9. RateKept(w)
  <2>1. TokenPool'[w] * VtokenIssuance[w] >= TokenPool[w] * VtokenIssuance'[w]
    BY <1>6, <1>7
  <2> QED BY <2>1 DEF RateKept
<1> HIDE DEF w
<1> QED BY <1>8, <1>9 DEF RateKept

(* A redeem takes at most its share out of the pool.                       *)
LEMMA RedeemKeepsRate ==
  ASSUME MintingInv, NEW who, NEW c \in Tokens, NEW v_amount \in Nat, NEW type,
         do_redeem(who, c, v_amount, type)
  PROVE  \A v \in VTokens : RateKept(v)
<1> DEFINE w == TokenToVToken[c]
           p == TokenPool[w]
           i == VtokenIssuance[w]
           n == v_amount - RedeemFee(v_amount)
           m == get_currency_amount_by_v_currency_amount(c, n)
<1>1. TokenPool \in [VTokens -> Nat] /\ VtokenIssuance \in [VTokens -> Nat]
  BY InvFacts
<1>2. w \in VTokens /\ p \in Nat /\ i \in Nat
  BY InvNumbers
<1>3. n \in Nat /\ m \in Nat /\ (i # 0 => m * i <= n * p)
  BY RedeemNumbers
<1>4. n <= i /\ m <= p
      /\ TokenPool' = [TokenPool EXCEPT ![w] = p - m]
      /\ VtokenIssuance' = [VtokenIssuance EXCEPT ![w] = i - n]
  BY DEF do_redeem, RedeemFee
<1>5. m * i <= n * p
  <2>1. CASE i = 0
    <3>1. m * i = 0 /\ n * p \in Nat
      BY <1>2, <1>3, <2>1
    <3> QED BY <3>1
  <2> QED BY <1>3, <2>1
<1>6. (p - m) * i >= p * (i - n)
  <2> HIDE DEF p, i, n, m, w
  <2> QED BY <1>2, <1>3, <1>5, RateDown
<1>7. TokenPool'[w] = p - m /\ VtokenIssuance'[w] = i - n
  <2> HIDE DEF n, m, w
  <2> QED BY <1>1, <1>2, <1>4
<1>8. \A v \in VTokens : v # w => VtokenIssuance'[v] = VtokenIssuance[v]
  <2> HIDE DEF n, m, w
  <2> QED BY <1>1, <1>2, <1>4
<1>9. RateKept(w)
  <2>1. TokenPool'[w] * VtokenIssuance[w] >= TokenPool[w] * VtokenIssuance'[w]
    BY <1>6, <1>7
  <2> QED BY <2>1 DEF RateKept
<1> HIDE DEF w
<1> QED BY <1>8, <1>9 DEF RateKept

LEMMA StepKeepsRate ==
  ASSUME MintingInv, [Next]_vars
  PROVE  \A v \in VTokens : RateKept(v)
<1>1. MintAmounts \subseteq Nat /\ RedeemAmounts \subseteq Nat /\ RebondAmounts \subseteq Nat
  BY MintingInputAssumption
<1>2. CASE \E u \in Users, c \in Tokens, a \in MintAmounts : mint(u, c, a)
  BY <1>1, <1>2, MintKeepsRate DEF mint
<1>3. CASE \E u \in Users, c \in Tokens, a \in RedeemAmounts, type \in RedeemTypes :
             do_redeem(u, c, a, type)
  BY <1>1, <1>3, RedeemKeepsRate
<1>4. CASE \E u \in Users, c \in Tokens, a \in RebondAmounts : rebond(u, c, a)
  BY <1>1, <1>4, MintKeepsRate DEF rebond
<1>5. ASSUME NEW u \in Users, NEW c \in Tokens, NEW id \in DOMAIN ledgers[c].token,
             rebond_by_unlock_id(u, c, id)
      PROVE  \A v \in VTokens : RateKept(v)
  <2>1. ledgers[c].token[id].amount \in Nat
    BY SameLedger DEF IsLedger, Redeems
  <2>2. mint_without_transfer(u, c, ledgers[c].token[id].amount)
    BY <1>5 DEF rebond_by_unlock_id
  <2> QED BY <2>1, <2>2, MintKeepsRate
<1>6. CASE Hook \/ Staking \/ UNCHANGED vars
  <2>1. VtokenIssuance' = VtokenIssuance
    BY <1>6 DEF Hook, Staking, on_idle, slp_stake, slp_return, increase_token_pool,
                decrease_token_pool, update_ongoing_time_unit, vars
  <2> QED BY <2>1 DEF RateKept
<1> QED BY <1>2, <1>3, <1>4, <1>5, <1>6 DEF Next, UserCalls

(* Rounding and fees always favour those who stay: no mint, redeem or      *)
(* rebond lowers what a vToken of the others is worth.                     *)
THEOREM RateKeeps == Spec => RateNeverDrops
<1>1. MintingInv /\ [Next]_vars =>
        [\A v \in VTokens : VtokenIssuance'[v] # VtokenIssuance[v] =>
           TokenPool'[v] * VtokenIssuance[v] >= TokenPool[v] * VtokenIssuance'[v]]_vars
  BY StepKeepsRate DEF RateKept
<1> QED BY <1>1, InvAlways, PTL DEF Spec, RateNeverDrops

-----------------------------------------------------------------------------
(* The unlock ledgers implement the queue of claims.                       *)

(* Redeems that only shrink and keep their total are not cut at all.       *)
LEMMA NoDropNoCut ==
  ASSUME NEW l, NEW m, NEW K, IsLedger(l), LedgerOK(l), IsLedger(m), LedgerOK(m),
         Shrinks(l, m, K), l.total = m.total, NEW k \in DOMAIN l.token
  PROVE  CutAmount(l, m, k) = 0
<1> DEFINE f == AmountsOf(l, DOMAIN l.token)
           g == AmountsOf(m, DOMAIN m.token)
           h == [i \in Nat |-> f[i] - g[i]]
<1>1. /\ f \in [Nat -> Nat] /\ g \in [Nat -> Nat] /\ DOMAIN l.token \subseteq UnlockIds
      /\ SumTo(f, MaxUnlockId) = SumTo(g, MaxUnlockId) /\ SumTo(g, MaxUnlockId) \in Nat
  BY AmountsType DEF LedgerOK, IsLedger
<1>2. MaxUnlockId \in Nat /\ k \in Nat /\ k < MaxUnlockId
  BY <1>1, MintingConfigAssumption DEF UnlockIds
<1>3. DOMAIN m.token \subseteq DOMAIN l.token
      /\ \A i \in DOMAIN m.token : m.token[i].amount <= l.token[i].amount
  BY DEF Shrinks
<1>4. \A i \in Nat : g[i] <= f[i]
  <2> SUFFICES ASSUME NEW i \in Nat PROVE g[i] <= f[i]
    OBVIOUS
  <2>1. f[i] \in Nat
    BY <1>1
  <2>2. CASE i \in DOMAIN m.token
    BY <1>3, <2>2 DEF AmountsOf
  <2>3. CASE i \notin DOMAIN m.token
    <3>1. g[i] = 0
      BY <2>3 DEF AmountsOf
    <3> HIDE DEF f, g
    <3> QED BY <2>1, <3>1
  <2> QED BY <2>2, <2>3
<1>5. CutAmount(l, m, k) = f[k] - g[k]
  BY <1>2, <1>3 DEF CutAmount, AmountsOf
<1> HIDE DEF f, g
<1>6. h \in [Nat -> Nat] /\ \A i \in Nat : f[i] = g[i] + h[i]
  BY <1>1, <1>4
<1>7. h[k] = f[k] - g[k]
  BY <1>2
<1> HIDE DEF h
<1>8. SumTo(f, MaxUnlockId) = SumTo(g, MaxUnlockId) + SumTo(h, MaxUnlockId)
  BY <1>1, <1>2, <1>6, SumPlus, ZenonT(60)
<1>9. SumTo(h, MaxUnlockId) \in Nat /\ h[k] <= SumTo(h, MaxUnlockId) /\ h[k] \in Nat
  BY <1>2, <1>6, SumType, SumTerm
<1>10. h[k] = 0
  BY <1>1, <1>8, <1>9
<1> QED BY <1>5, <1>7, <1>10

(* The claims RedeemQueue sees of the ledgers of a token.                  *)
ClaimsOf(l) ==
  [id \in DOMAIN l.token |-> [who |-> l.token[id].who, amount |-> l.token[id].amount,
                              due |-> l.token[id].time]]

LEMMA ShrinksCuts ==
  ASSUME NEW l, NEW m, NEW K, Shrinks(l, m, K)
  PROVE  /\ Queue!Cut(ClaimsOf(l), ClaimsOf(m), K)
         /\ \A i \in DOMAIN l.token :
              Queue!CutOf(ClaimsOf(l), ClaimsOf(m), i) = CutAmount(l, m, i)
<1>1. DOMAIN ClaimsOf(l) = DOMAIN l.token /\ DOMAIN ClaimsOf(m) = DOMAIN m.token
  BY DEF ClaimsOf
<1>2. /\ \A i \in DOMAIN l.token : /\ ClaimsOf(l)[i].who = l.token[i].who
                                   /\ ClaimsOf(l)[i].amount = l.token[i].amount
                                   /\ ClaimsOf(l)[i].due = l.token[i].time
      /\ \A i \in DOMAIN m.token : /\ ClaimsOf(m)[i].who = m.token[i].who
                                   /\ ClaimsOf(m)[i].amount = m.token[i].amount
                                   /\ ClaimsOf(m)[i].due = m.token[i].time
  BY DEF ClaimsOf
<1>3. Queue!Cut(ClaimsOf(l), ClaimsOf(m), K)
  BY <1>1, <1>2 DEF Shrinks, Queue!Cut
<1>4. ASSUME NEW i \in DOMAIN l.token
      PROVE  Queue!CutOf(ClaimsOf(l), ClaimsOf(m), i) = CutAmount(l, m, i)
  BY <1>1, <1>2 DEF Queue!CutOf, CutAmount
<1> QED BY <1>3, <1>4

LEMMA QueueInit == Init => Queue!QInit
<1> SUFFICES ASSUME Init PROVE Queue!QInit
  OBVIOUS
<1>1. \A c \in Tokens : DOMAIN ledgers[c].token = {} /\ TokenUnlockNextId[TokenToVToken[c]] = 0
  BY MintingCurrencyAssumption DEF Init
<1>2. MinTimeUnit = [c \in Tokens |-> 0]
  BY DEF Init
<1>3. \A c \in RebondTokens : TokenToRebond[c] = 0
  BY DEF Init
<1> QED BY <1>1, <1>2, <1>3 DEF Queue!QInit

(* The refinement mapping, component by component, and the queue's actions *)
(* under it.                                                               *)
Claims == [c \in Tokens |-> ClaimsOf(ledgers[c])]
Issued == [c \in Tokens |-> TokenUnlockNextId[TokenToVToken[c]]]
Funds == [c \in Tokens |-> balances[c][EntranceAccount]]
Taken == [c \in Tokens |-> IF c \in RebondTokens THEN TokenToRebond[c] ELSE 0]

LEMMA ClaimIs ==
  \A c : Queue!Claim(c) <=>
    /\ Issued'[c] = Issued[c] + 1
    /\ Issued[c] \notin DOMAIN Claims[c]
    /\ DOMAIN Claims'[c] = DOMAIN Claims[c] \cup {Issued[c]}
    /\ \A i \in DOMAIN Claims[c] : Claims'[c][i] = Claims[c][i]
    /\ Claims'[c][Issued[c]].who \in Users
    /\ Claims'[c][Issued[c]].due >= MinTimeUnit[c]
    /\ \A d \in Tokens \ {c} : Claims'[d] = Claims[d]
    /\ MinTimeUnit' = MinTimeUnit /\ Funds' = Funds /\ Taken' = Taken
BY Zenon DEF Queue!Claim, Issued, Claims, ClaimsOf, Funds, Taken

LEMMA TakeBackIs ==
  \A u, c : Queue!TakeBack(u, c) <=>
    /\ (\E i \in DOMAIN Claims[c] : Queue!CutOf(Claims[c], Claims'[c], i) > 0)
         => Taken'[c] > Taken[c]
    /\ Queue!Cut(Claims[c], Claims'[c], {i \in DOMAIN Claims[c] : Claims[c][i].who = u})
    /\ \A d \in Tokens \ {c} : Claims'[d] = Claims[d] /\ Taken'[d] = Taken[d]
    /\ Issued' = Issued /\ MinTimeUnit' = MinTimeUnit /\ Funds' = Funds
BY Zenon DEF Queue!TakeBack, Issued, Claims, ClaimsOf, Funds, Taken

DueClaims(c) == {i \in DOMAIN Claims[c] : Claims[c][i].due = MinTimeUnit[c]}

LEMMA SameSum == \A f, S : Queue!SumFunctionOnSet(f, S) = SumFunctionOnSet(f, S)
BY Zenon DEF SumFunctionOnSet, FoldFunctionOnSet, MapThenFoldSet, Queue!SumFunctionOnSet,
             Queue!FoldFunctionOnSet, Queue!MapThenFoldSet

LEMMA ServeIs ==
  \A c : Queue!Serve(c) <=>
    /\ Queue!Cut(Claims[c], Claims'[c], DueClaims(c))
    /\ Funds[c] - Funds'[c] <=
         SumFunctionOnSet([i \in DueClaims(c) |-> Queue!CutOf(Claims[c], Claims'[c], i)],
                          DueClaims(c))
    /\ Funds[c] - Funds'[c] >=
         SumFunctionOnSet([i \in DueClaims(c) |->
                             IF Queue!CutOf(Claims[c], Claims'[c], i) >= ED[c]
                             THEN Queue!CutOf(Claims[c], Claims'[c], i) ELSE 0],
                          DueClaims(c))
    /\ \/ MinTimeUnit'[c] = MinTimeUnit[c]
       \/ /\ MinTimeUnit'[c] = MinTimeUnit[c] + 1
          /\ \A i \in DueClaims(c) : Claims[c][i].amount = 0
BY SameSum, Zenon DEF Queue!Serve, DueClaims, Issued, Claims, ClaimsOf, Funds, Taken

LEMMA FundIs ==
  Queue!Fund <=> /\ Claims' = Claims /\ Issued' = Issued
                 /\ MinTimeUnit' = MinTimeUnit /\ Taken' = Taken
BY Zenon DEF Queue!Fund, Issued, Claims, ClaimsOf, Funds, Taken

LEMMA RedeemClaims ==
  ASSUME MintingInv, NEW who \in Users, NEW c \in Tokens, NEW v_amount \in Nat,
         NEW type \in RedeemTypes, do_redeem(who, c, v_amount, type)
  PROVE  Queue!Claim(c)
<1> DEFINE v == TokenToVToken[c]
           net == v_amount - RedeemFee(v_amount)
           amount == get_currency_amount_by_v_currency_amount(c, net)
           id == TokenUnlockNextId[v]
           t == LockToTimeUnit(c)
           l == ledgers[c]
           m == Added(l, who, id, amount, t, type)
<1>1. /\ ledgers' = [ledgers EXCEPT ![c] = m]
      /\ TokenUnlockNextId' = [TokenUnlockNextId EXCEPT ![v] = id + 1]
      /\ UNCHANGED <<TokenToRebond, MinTimeUnit>>
  BY DEF do_redeem, RedeemFee
<1>2. /\ \A e \in Tokens : balances'[e][EntranceAccount] = balances[e][EntranceAccount]
      /\ id \notin DOMAIN l.token
  BY RedeemEffect
<1>3. t >= MinTimeUnit[c]
  <2>1. t \in TimeUnits /\ MinTimeUnit[c] <= t /\ MinTimeUnit[c] \in TimeUnits
    BY RedeemNumbers, InvFacts
  <2> QED BY <2>1, MintingConfigAssumption DEF TimeUnits
<1>4. /\ DOMAIN m.token = DOMAIN l.token \cup {id}
      /\ \A i \in DOMAIN l.token : m.token[i] = l.token[i]
      /\ m.token[id].who = who /\ m.token[id].time = t
  BY <1>2 DEF Added
<1>5. ledgers = [d \in Tokens |-> ledgers[d]] /\ TokenUnlockNextId \in [VTokens -> 0..MaxUnlockId]
      /\ v \in VTokens
  BY InvFacts, InvNumbers
<1> HIDE DEF amount, t, net, m
<1>6. ledgers'[c] = m /\ \A d \in Tokens : d # c => ledgers'[d] = ledgers[d]
  BY <1>1, <1>5
<1>7. TokenUnlockNextId'[v] = id + 1
  BY <1>1, <1>5
<1>8. /\ Claims[c] = ClaimsOf(l) /\ Claims'[c] = ClaimsOf(m)
      /\ \A d \in Tokens \ {c} : Claims'[d] = Claims[d]
      /\ Issued[c] = id /\ Issued'[c] = id + 1
  BY <1>6, <1>7 DEF Claims, Issued
<1> HIDE DEF id, l
<1>9. DOMAIN ClaimsOf(l) = DOMAIN l.token /\ DOMAIN ClaimsOf(m) = DOMAIN m.token
  BY DEF ClaimsOf
<1>10. \A i \in DOMAIN l.token : ClaimsOf(m)[i] = ClaimsOf(l)[i]
  BY <1>4 DEF ClaimsOf
<1>11. ClaimsOf(m)[id].who = who /\ ClaimsOf(m)[id].due = t
  BY <1>4 DEF ClaimsOf
<1>12. Funds' = Funds /\ Taken' = Taken /\ MinTimeUnit' = MinTimeUnit
  BY <1>1, <1>2 DEF Funds, Taken
<1> QED BY <1>2, <1>3, <1>4, <1>8, <1>9, <1>10, <1>11, <1>12, ClaimIs

(* The common part of the two ways to rebond.                              *)
LEMMA RebondedTakesBack ==
  ASSUME MintingInv, NEW who \in Users, NEW c \in RebondTokens, NEW amount \in Nat, NEW m,
         NEW counted \in Nat,
         Shrinks(ledgers[c], m, UserIds(ledgers[c], who)),
         \A i \in DOMAIN ledgers[c].token : CutAmount(ledgers[c], m, i) > 0 => counted > 0,
         mint_without_transfer(who, c, amount), balances' = Minted(who, c, amount),
         ledgers' = [ledgers EXCEPT ![c] = m],
         TokenToRebond' = [TokenToRebond EXCEPT ![c] = @ + counted],
         UNCHANGED <<TokenUnlockNextId, MinTimeUnit>>
  PROVE  Queue!TakeBack(who, c)
<1> DEFINE l == ledgers[c]
           K == UserIds(l, who)
<1>1. /\ ledgers = [d \in Tokens |-> ledgers[d]] /\ TokenToRebond \in [RebondTokens -> Nat]
      /\ balances \in Balances /\ c \in Tokens
      /\ TokenPool \in [VTokens -> Nat] /\ VtokenIssuance \in [VTokens -> Nat]
  BY InvFacts, MintingCurrencyAssumption
<1>2. \A e \in Tokens : balances'[e][EntranceAccount] = balances[e][EntranceAccount]
  BY <1>1, MintedEffect DEF mint_without_transfer
<1>3. ledgers'[c] = m /\ \A d \in Tokens : d # c => ledgers'[d] = ledgers[d]
  BY <1>1
<1>4. /\ TokenToRebond[c] \in Nat /\ TokenToRebond'[c] = TokenToRebond[c] + counted
      /\ \A d \in RebondTokens : d # c => TokenToRebond'[d] = TokenToRebond[d]
  BY <1>1
<1>5. /\ Claims[c] = ClaimsOf(l) /\ Claims'[c] = ClaimsOf(m)
      /\ \A d \in Tokens \ {c} : Claims'[d] = Claims[d] /\ Taken'[d] = Taken[d]
      /\ Taken[c] = TokenToRebond[c] /\ Taken'[c] = TokenToRebond[c] + counted
  BY <1>1, <1>3, <1>4 DEF Claims, Taken
<1>6. Issued' = Issued /\ MinTimeUnit' = MinTimeUnit /\ Funds' = Funds
  BY <1>2 DEF Issued, Funds
<1> HIDE DEF l
<1>7. DOMAIN ClaimsOf(l) = DOMAIN l.token
      /\ {i \in DOMAIN ClaimsOf(l) : ClaimsOf(l)[i].who = who} = K
  BY DEF ClaimsOf, UserIds
<1>8. /\ Queue!Cut(ClaimsOf(l), ClaimsOf(m), K)
      /\ \A i \in DOMAIN l.token :
           Queue!CutOf(ClaimsOf(l), ClaimsOf(m), i) = CutAmount(l, m, i)
  BY ShrinksCuts DEF l
<1>9. (\E i \in DOMAIN Claims[c] : Queue!CutOf(Claims[c], Claims'[c], i) > 0)
        => Taken'[c] > Taken[c]
  <2> SUFFICES ASSUME NEW i \in DOMAIN l.token, CutAmount(l, m, i) > 0
               PROVE  Taken'[c] > Taken[c]
    BY <1>5, <1>7, <1>8
  <2>1. counted > 0
    BY DEF l
  <2> QED BY <1>4, <1>5, <2>1
<1> HIDE DEF K
<1> QED BY <1>5, <1>6, <1>7, <1>8, <1>9, TakeBackIs

LEMMA RebondTakesBack ==
  ASSUME MintingInv, NEW who \in Users, NEW c \in Tokens, NEW amount \in Nat,
         rebond(who, c, amount)
  PROVE  Queue!TakeBack(who, c)
<1> DEFINE l == ledgers[c]
           m == RebondWalk(who, c, amount).ledger
<1>1. IsLedger(l) /\ LedgerOK(l)
  BY InvFacts
<1>2. /\ l.user[who].total >= amount /\ RebondWalk(who, c, amount).flow # "error"
      /\ mint_without_transfer(who, c, amount) /\ c \in RebondTokens
      /\ balances' = Minted(who, c, amount)
      /\ ledgers' = [ledgers EXCEPT ![c] = m]
      /\ TokenToRebond' = [TokenToRebond EXCEPT ![c] = @ + amount]
      /\ UNCHANGED <<TokenUnlockNextId, MinTimeUnit>>
  BY DEF rebond
<1>3. /\ IsLedger(m) /\ LedgerOK(m) /\ Shrinks(l, m, UserIds(l, who))
      /\ amount = 0 => l.total = m.total
  BY <1>1, <1>2, RebondWalkOK
<1> HIDE DEF m
<1>4. ASSUME NEW i \in DOMAIN l.token, CutAmount(l, m, i) > 0 PROVE amount > 0
  <2>1. CASE amount = 0
    <3>1. CutAmount(l, m, i) = 0
      BY <1>1, <1>3, <2>1, NoDropNoCut
    <3> QED BY <1>4, <3>1
  <2> QED BY <2>1
<1> QED BY <1>2, <1>3, <1>4, RebondedTakesBack

(* It needs a mint fee below one: with a fee of 100% the whole redeem would *)
(* leave the queue and nothing would be added to TokenToRebond.            *)
LEMMA RebondByIdTakesBack ==
  ASSUME MintRate < Permill, MintingInv, NEW who \in Users, NEW c \in Tokens,
         NEW id \in DOMAIN ledgers[c].token, rebond_by_unlock_id(who, c, id)
  PROVE  Queue!TakeBack(who, c)
<1> DEFINE l == ledgers[c]
           redeem == l.token[id]
           amount == redeem.amount
           m == Subtracted(l, redeem.who, id, amount, redeem.time)
<1>1. IsLedger(l) /\ LedgerOK(l)
  BY InvFacts
<1>2. /\ redeem.who = who
      /\ mint_without_transfer(who, c, amount) /\ c \in RebondTokens
      /\ balances' = Minted(who, c, amount)
      /\ ledgers' = [ledgers EXCEPT ![c] = m]
      /\ TokenToRebond' = [TokenToRebond EXCEPT ![c] = @ + MintNet(amount)]
      /\ UNCHANGED <<TokenUnlockNextId, MinTimeUnit>>
  BY DEF rebond_by_unlock_id
<1>3. amount \in Nat
  BY <1>1 DEF IsLedger, Redeems
<1>4. /\ IsLedger(m) /\ LedgerOK(m) /\ m.total = l.total - amount /\ CutAt(l, m, id, amount)
  BY <1>1, <1>3, SubtractedOK
<1>5. MintNet(amount) \in Nat /\ (amount > 0 => MintNet(amount) > 0)
  BY <1>3, MintNetType
<1> HIDE DEF m
<1>6. id \in UserIds(l, who)
  BY <1>2 DEF UserIds
<1>7. Shrinks(l, m, UserIds(l, who))
  BY <1>1, <1>3, <1>4, <1>6, CutShrinks
<1>8. ASSUME NEW i \in DOMAIN l.token, CutAmount(l, m, i) > 0 PROVE MintNet(amount) > 0
  <2>1. CASE amount = 0
    <3>1. l.total = m.total
      BY <1>1, <1>4, <2>1 DEF IsLedger
    <3>2. CutAmount(l, m, i) = 0
      BY <1>1, <1>4, <1>7, <3>1, NoDropNoCut
    <3> QED BY <1>8, <3>2
  <2> QED BY <1>3, <1>5, <2>1
<1> HIDE DEF redeem, amount
<1> QED BY <1>2, <1>3, <1>5, <1>7, <1>8, RebondedTakesBack

(* A batch pays claims that are due, out of the funds.                     *)
LEMMA HookServes ==
  ASSUME MintingInv, NEW sent \in BOOLEAN, on_idle(sent), NEW c \in Tokens
  PROVE  Queue!Serve(c)
<1> DEFINE l == ledgers[c]
           K == TimeIds(l, MinTimeUnit[c])
           h == HandleBatch(c, sent)
           m == h.ledger
<1>1. balances \in [Currencies -> [Accounts -> Nat]] /\ MinTimeUnit[c] \in TimeUnits
      /\ IsLedger(l) /\ LedgerOK(l) /\ c \in Currencies
  BY InvFacts DEF Balances, Currencies
<1>2. /\ Shrinks(l, m, K)
      /\ balances[c][EntranceAccount] - h.balances[c][EntranceAccount]
           <= SumFunctionOnSet(Cuts(l, m, K), K)
      /\ balances[c][EntranceAccount] - h.balances[c][EntranceAccount]
           >= SumFunctionOnSet(LargeCuts(l, m, K, ED[c]), K)
  BY <1>1, BatchOK
<1>3. ledgers'[c] = m /\ balances'[c] = h.balances[c] /\ MinTimeUnit'[c] = NextMinTimeUnit(c)
  BY <1>1 DEF on_idle
<1>4. /\ Claims[c] = ClaimsOf(l) /\ Claims'[c] = ClaimsOf(m)
      /\ Funds[c] = balances[c][EntranceAccount] /\ Funds'[c] = h.balances[c][EntranceAccount]
  BY <1>3 DEF Claims, Funds
<1> HIDE DEF m
<1>5. /\ DOMAIN ClaimsOf(l) = DOMAIN l.token
      /\ \A i \in DOMAIN l.token : /\ ClaimsOf(l)[i].due = l.token[i].time
                                   /\ ClaimsOf(l)[i].amount = l.token[i].amount
  BY DEF ClaimsOf
<1>6. DueClaims(c) = K /\ K \subseteq DOMAIN l.token
  BY <1>4, <1>5 DEF DueClaims, TimeIds
<1>7. /\ Queue!Cut(ClaimsOf(l), ClaimsOf(m), K)
      /\ \A i \in DOMAIN l.token :
           Queue!CutOf(ClaimsOf(l), ClaimsOf(m), i) = CutAmount(l, m, i)
  BY <1>2, ShrinksCuts
<1>8. \/ MinTimeUnit'[c] = MinTimeUnit[c]
      \/ /\ MinTimeUnit'[c] = MinTimeUnit[c] + 1
         /\ \A i \in K : l.token[i].amount = 0
  BY <1>3, NextMinTimeUnitOK
<1> HIDE DEF l, K
<1>9. [i \in K |-> Queue!CutOf(ClaimsOf(l), ClaimsOf(m), i)] = Cuts(l, m, K)
  BY <1>6, <1>7 DEF Cuts
<1>10. [i \in K |-> IF Queue!CutOf(ClaimsOf(l), ClaimsOf(m), i) >= ED[c]
                    THEN Queue!CutOf(ClaimsOf(l), ClaimsOf(m), i) ELSE 0]
         = LargeCuts(l, m, K, ED[c])
  BY <1>6, <1>7 DEF LargeCuts
<1>11. \A i \in K : ClaimsOf(l)[i].amount = l.token[i].amount
  BY <1>5, <1>6
<1>12. /\ Queue!Cut(Claims[c], Claims'[c], DueClaims(c))
       /\ \/ MinTimeUnit'[c] = MinTimeUnit[c]
          \/ /\ MinTimeUnit'[c] = MinTimeUnit[c] + 1
             /\ \A i \in DueClaims(c) : Claims[c][i].amount = 0
  BY <1>4, <1>6, <1>7, <1>8, <1>11
<1>13. /\ Funds[c] - Funds'[c] <=
            SumFunctionOnSet([i \in DueClaims(c) |-> Queue!CutOf(Claims[c], Claims'[c], i)],
                             DueClaims(c))
       /\ Funds[c] - Funds'[c] >=
            SumFunctionOnSet([i \in DueClaims(c) |->
                                IF Queue!CutOf(Claims[c], Claims'[c], i) >= ED[c]
                                THEN Queue!CutOf(Claims[c], Claims'[c], i) ELSE 0],
                             DueClaims(c))
  BY <1>2, <1>4, <1>6, <1>9, <1>10
<1> QED BY <1>12, <1>13, ServeIs

(* Every step of the pallet is a step of the queue or leaves it alone.     *)
LEMMA QueueStep ==
  ASSUME MintRate < Permill, MintingInv, [Next]_vars
  PROVE  [Queue!QNext]_(Queue!qvars)
<1>1. MintAmounts \subseteq Nat /\ RedeemAmounts \subseteq Nat /\ RebondAmounts \subseteq Nat
  BY MintingInputAssumption
<1>2. ASSUME UNCHANGED <<ledgers, TokenUnlockNextId, MinTimeUnit, TokenToRebond>>
      PROVE  Queue!QNext
  <2>1. Claims' = Claims /\ Issued' = Issued /\ MinTimeUnit' = MinTimeUnit /\ Taken' = Taken
    BY <1>2 DEF Claims, Issued, Taken
  <2>2. Queue!Fund
    BY <2>1, FundIs
  <2> QED BY <2>2 DEF Queue!QNext
<1>3. CASE \E u \in Users, c \in Tokens, a \in MintAmounts : mint(u, c, a)
  BY <1>2, <1>3 DEF mint
<1>4. CASE \E u \in Users, c \in Tokens, a \in RedeemAmounts, type \in RedeemTypes :
             do_redeem(u, c, a, type)
  <2>1. \E c \in Tokens : Queue!Claim(c)
    BY <1>1, <1>4, RedeemClaims
  <2> QED BY <2>1 DEF Queue!QNext
<1>5. CASE \E u \in Users, c \in Tokens, a \in RebondAmounts : rebond(u, c, a)
  <2>1. \E c \in Tokens, u \in Users : Queue!TakeBack(u, c)
    BY <1>1, <1>5, RebondTakesBack
  <2> QED BY <2>1 DEF Queue!QNext
<1>6. CASE \E u \in Users, c \in Tokens : \E id \in DOMAIN ledgers[c].token :
             rebond_by_unlock_id(u, c, id)
  <2>1. \E c \in Tokens, u \in Users : Queue!TakeBack(u, c)
    BY <1>6, RebondByIdTakesBack
  <2> QED BY <2>1 DEF Queue!QNext
<1>7. CASE Hook
  <2>1. PICK sent \in BOOLEAN : on_idle(sent)
    BY <1>7 DEF Hook
  <2>2. \A c \in Tokens : Queue!Serve(c)
    BY <2>1, HookServes
  <2>3. TokenUnlockNextId' = TokenUnlockNextId /\ TokenToRebond' = TokenToRebond
    BY <2>1 DEF on_idle
  <2> QED BY <2>2, <2>3 DEF Queue!QNext
<1>8. CASE Staking
  BY <1>2, <1>8 DEF Staking, slp_stake, slp_return, increase_token_pool, decrease_token_pool,
                    update_ongoing_time_unit
<1>9. CASE UNCHANGED vars
  BY <1>2, <1>9 DEF vars
<1> QED BY <1>3, <1>4, <1>5, <1>6, <1>7, <1>8, <1>9 DEF Next, UserCalls

(* Every behaviour of the pallet is one of RedeemQueue: a redeem is only   *)
(* ever cut by its owner's rebond or by a payment out of the entrance      *)
(* account, in the order of the time units.  The mint fee is below one, as *)
(* rebond_by_unlock_id counts only what is left of a redeem after it.      *)
THEOREM PalletImplementsQueue ==
  ASSUME MintRate < Permill
  PROVE  Spec => ImplementsQueue
<1>1. MintingInv /\ [Next]_vars => [Queue!QNext]_(Queue!qvars)
  BY QueueStep
<1> QED BY <1>1, QueueInit, InvAlways, PTL DEF Spec, ImplementsQueue, Queue!QSpec
=============================================================================
