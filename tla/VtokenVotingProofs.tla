-------------------------- MODULE VtokenVotingProofs --------------------------
(* Proofs about VtokenVoting.  A vote waits for an answer of the relay     *)
(* chain, and a failure puts the old vote and the old tally back.  The     *)
(* invariant therefore also says what every unanswered query would restore *)
(* (QueriesOK): the tally of the votes in place with the voter's old one   *)
(* for the new one, as long as nothing else on the poll changed.  A second *)
(* invariant (RelayInv) follows the messages to the relay chain.           *)
EXTENDS VtokenVoting, NatSumsProofs, TLAPS

Tallies == [ayes : Nat, nays : Nat, support : Nat]
Vote(u, p) == VotingFor[u].votes[p]

\* Who delegates has no votes, and does not delegate to itself.
DelegatorsIdle ==
  \A u \in Users : ~Casts(u) => VotingFor[u].target # u /\ \A p \in Polls : Vote(u, p) = NoVote

\* The tally of a poll that may be voted on; an unknown poll has no votes.
PollOK(p) ==
  p \notin history.skewed =>
    /\ ReferendumInfoFor[p].state \in {"None", "Ongoing"} => ReferendumInfoFor[p].tally = TallyOf(p)
    /\ ReferendumInfoFor[p].state = "None" => \A u \in Users : Vote(u, p) = NoVote
PollsOK == \A p \in Polls : PollOK(p)

\* What a vote query of who puts back on p is what p had before.
Restores(who, p, item) ==
  /\ item.info.state \in {"None", "Ongoing"}
  /\ item.info.tally =
       SumTally([Weights(p) EXCEPT ![who] = Weight(item.old, VotingFor[who].delegations)])
  /\ item.info.state = "None" =>
       item.old = NoVote /\ \A u \in Users \ {who} : Vote(u, p) = NoVote

QueryOK(q, p) ==
  p \notin history.delegated =>
    /\ PendingOn(p) = {q}
    /\ Vote(PendingQueries[q].who, p) # NoVote
    /\ p \notin history.skewed =>
         Restores(PendingQueries[q].who, p, PendingQueries[q].items[p])
QueriesOK == \A p \in Polls : \A q \in PendingOn(p) : QueryOK(q, p)

DelegatedPending == \A p \in history.delegated : PendingOn(p) # {}

\* The inductive invariant.
VotingInv ==
  /\ TypeOK /\ LocksCover /\ DelegationsAgree
  /\ DelegatorsIdle /\ PollsOK /\ QueriesOK /\ DelegatedPending

-----------------------------------------------------------------------------
(* Types of the operators.                                                 *)

LEMMA Constants ==
  /\ NoOne \notin Users /\ IsFiniteSet(Users) /\ IsFiniteSet(Polls)
  /\ TotalBalance \in [Users -> Nat] /\ Available \in [Derivatives -> Nat]
  /\ TokenSupply \in Nat /\ VtokenSupply \in Nat \ {0} /\ VoteCap \in Nat
  /\ UndecidingTimeout \in Nat /\ VoteLockingPeriod \in Nat /\ RelayAhead \in Nat
  /\ MaxQueries \in Nat /\ MaxBlock \in Nat
  /\ InitialDelegators \in Seq(Derivatives)
  /\ VoteInputs \subseteq AccountVotes /\ DelegateInputs \subseteq Convictions \X Nat
  /\ VoteStatuses \subseteq {"Approved", "Rejected", "None", "Ongoing"}
BY VotingAssumption

LEMMA VotesType ==
  ASSUME NEW c \in Convictions, NEW b \in Nat
  PROVE  Votes(c, b) \in Nat
<1>1. c \in Nat
  BY DEF Convictions
<1>2. b \div 10 \in Nat
  BY DivBound
<1>3. b * c \in Nat
  BY <1>1
<1> QED BY <1>2, <1>3 DEF Votes

LEMMA CapitalType ==
  ASSUME NEW c \in Convictions, NEW b \in Nat
  PROVE  vote_to_capital(c, b) \in Nat
<1>1. c \in Nat
  BY DEF Convictions
<1>2. c # 0 => b \div c \in Nat
  BY <1>1, DivBound
<1> QED BY <1>2 DEF vote_to_capital

LEMMA LockPeriodsType ==
  ASSUME NEW c \in Convictions
  PROVE  lock_periods(c) \in Nat
<1>1. c \in 0..6
  BY DEF Convictions
<1>2. c = 0 \/ c = 1 \/ c = 2 \/ c = 3 \/ c = 4 \/ c = 5 \/ c = 6
  BY <1>1
<1> QED BY <1>2 DEF lock_periods

LEMMA TokenBalanceType ==
  ASSUME NEW b \in Nat
  PROVE  compute_token_balance(b) \in Nat
<1>1. b * TokenSupply \in Nat /\ VtokenSupply \in Nat \ {0}
  BY Constants
<1> QED BY <1>1, DivBound DEF compute_token_balance

LEMMA NoVoteType == NoVote \in Entries
BY DEF NoVote, Entries, Convictions

LEMMA EntryType ==
  ASSUME NEW v \in AccountVotes
  PROVE  LET e == Entry(compute_token_vote(v), Balance(v))
         IN /\ e \in Entries /\ e # NoVote /\ e.vtoken = Balance(v)
            /\ Balance(v) \in Nat
<1>1. /\ v = [side |-> v.side, conviction |-> v.conviction, aye |-> v.aye, nay |-> v.nay,
              abstain |-> v.abstain]
      /\ v.side \in {"aye", "nay", "split"} /\ v.conviction \in Convictions
      /\ v.aye \in Nat /\ v.nay \in Nat /\ v.abstain \in Nat
  BY DEF AccountVotes
<1>2. Balance(v) \in Nat
  BY <1>1 DEF Balance
<1>3. PICK a, n, b \in Nat : /\ a = compute_token_balance(v.aye)
                             /\ n = compute_token_balance(v.nay)
                             /\ b = compute_token_balance(v.abstain)
  BY <1>1, TokenBalanceType
<1>4. compute_token_vote(v) = [v EXCEPT !.aye = a, !.nay = n, !.abstain = b]
  BY <1>1, <1>3 DEF compute_token_vote
<1>5. compute_token_vote(v) = [side |-> v.side, conviction |-> v.conviction, aye |-> a, nay |-> n,
                               abstain |-> b]
  BY <1>1, <1>4
<1>6. Entry(compute_token_vote(v), Balance(v)) =
        [side |-> v.side, conviction |-> v.conviction, aye |-> a, nay |-> n, abstain |-> b,
         vtoken |-> Balance(v)]
  BY <1>5 DEF Entry
<1> QED BY <1>1, <1>2, <1>3, <1>6 DEF Entries, NoVote

LEMMA OldVoteType ==
  ASSUME NEW v \in Entries
  PROVE  OldVote(v) \in Entries
<1>1. v.vtoken \in Nat
  BY DEF Entries
<1>2. PICK n \in Nat : n = compute_token_balance(v.vtoken)
  BY <1>1, TokenBalanceType
<1>3. v # NoVote => OldVote(v) = [v EXCEPT !.vtoken = n]
  BY <1>2 DEF OldVote
<1>4. [v EXCEPT !.vtoken = n] \in Entries
  BY DEF Entries
<1> QED BY <1>3, <1>4, NoVoteType DEF OldVote

LEMMA OwnType ==
  ASSUME NEW v \in Entries
  PROVE  Own(v) \in Tallies
<1>1. /\ v.conviction \in Convictions /\ v.aye \in Nat /\ v.nay \in Nat /\ v.abstain \in Nat
  BY DEF Entries
<1>2. Votes(v.conviction, v.aye) \in Nat /\ Votes(v.conviction, v.nay) \in Nat
  BY <1>1, VotesType
<1> QED BY <1>1, <1>2 DEF Own, Tallies

LEMMA DelegatedType ==
  ASSUME NEW side, NEW d \in Delegations
  PROVE  Delegated(side, d) \in Tallies
BY DEF Delegated, Delegations, Tallies

LEMMA PlusType ==
  ASSUME NEW t \in Tallies, NEW w \in Tallies
  PROVE  Plus(t, w) \in Tallies
BY DEF Plus, Tallies

LEMMA MinusType ==
  ASSUME NEW t \in Tallies, NEW w \in Tallies
  PROVE  Minus(t, w) \in Tallies
BY DEF Minus, SatSub, Tallies

LEMMA WeightType ==
  ASSUME NEW v \in Entries, NEW d \in Delegations
  PROVE  Weight(v, d) \in Tallies
BY OwnType, DelegatedType, PlusType DEF Weight

LEMMA AmountType ==
  ASSUME NEW c \in Convictions, NEW b \in Nat
  PROVE  Amount(c, b) \in Delegations
<1>1. PICK n \in Nat : n = compute_token_balance(b)
  BY TokenBalanceType
<1>2. Votes(c, n) \in Nat
  BY VotesType
<1> QED BY <1>1, <1>2 DEF Amount, Delegations
-----------------------------------------------------------------------------
(* The votes of the derivative accounts.                                   *)

\* w is the walk of Candidates through the first n derivative accounts.
IsCandidates(w, n, p) ==
  w = [k \in 0..n |-> IF k = 0 THEN Voted(p)
                      ELSE IF Delegators[k] \in Range(Voted(p)) THEN w[k-1]
                      ELSE Append(w[k-1], Delegators[k])]

LEMMA CandidatesIs ==
  ASSUME NEW p, Len(Delegators) \in Nat
  PROVE  \E w : IsCandidates(w, Len(Delegators), p) /\ Candidates(p) = w[Len(Delegators)]
<1> DEFINE step(l, k) == IF Delegators[k] \in Range(Voted(p)) THEN l ELSE Append(l, Delegators[k])
           Is(w, n) == w = [k \in 0..n |-> IF k = 0 THEN Voted(p) ELSE step(w[k-1], k)]
           T == {n \in Nat : \E w : Is(w, n)}
<1>1. 0 \in T
  <2> DEFINE w == [k \in 0..0 |-> Voted(p)]
  <2>1. w = [k \in 0..0 |-> IF k = 0 THEN Voted(p) ELSE step(w[k-1], k)]
    OBVIOUS
  <2> QED BY <2>1
<1>2. \A n \in T : n + 1 \in T
  <2> SUFFICES ASSUME NEW n \in T PROVE n + 1 \in T
    OBVIOUS
  <2>1. PICK w : Is(w, n)
    OBVIOUS
  <2> HIDE DEF step
  <2> DEFINE v == [k \in 0..(n+1) |-> IF k = n + 1 THEN step(w[n], n + 1) ELSE w[k]]
  <2>2. ASSUME NEW k \in 0..(n+1)
        PROVE  v[k] = IF k = 0 THEN Voted(p) ELSE step(v[k-1], k)
    <3>1. CASE k = n + 1
      <4>1. v[k] = step(w[n], n + 1) /\ k - 1 = n /\ v[k-1] = w[n] /\ k # 0
        BY <3>1
      <4> HIDE DEF v
      <4> QED BY <3>1, <4>1
    <3>2. CASE k # n + 1
      <4>1. k \in 0..n
        BY <3>2
      <4>2. v[k] = w[k] /\ (k # 0 => v[k-1] = w[k-1])
        BY <4>1
      <4>3. w[k] = IF k = 0 THEN Voted(p) ELSE step(w[k-1], k)
        BY <2>1, <4>1
      <4> HIDE DEF v
      <4> QED BY <4>2, <4>3
    <3> QED BY <3>1, <3>2
  <2>3. v = [k \in 0..(n+1) |-> IF k = 0 THEN Voted(p) ELSE step(v[k-1], k)]
    BY <2>2
  <2> HIDE DEF v
  <2>4. Is(v, n+1)
    BY <2>3
  <2>5. n + 1 \in Nat
    OBVIOUS
  <2> HIDE DEF Is
  <2> QED BY <2>4, <2>5
<1> HIDE DEF T
<1>3. T = Nat
  BY <1>1, <1>2, SetInduction DEF T
<1>4. \E w : IsCandidates(w, Len(Delegators), p)
  BY <1>3 DEF T, IsCandidates
<1> DEFINE w == CHOOSE w : w = [k \in 0..Len(Delegators) |->
                  IF k = 0 THEN Voted(p)
                  ELSE IF Delegators[k] \in Range(Voted(p)) THEN w[k-1]
                  ELSE Append(w[k-1], Delegators[k])]
<1>5. IsCandidates(w, Len(Delegators), p)
  BY <1>4 DEF IsCandidates
<1>6. Candidates(p) = w[Len(Delegators)]
  BY DEF Candidates
<1> HIDE DEF w
<1> QED BY <1>5, <1>6

LEMMA CandidatesType ==
  ASSUME NEW p \in Polls, TypeOK
  PROVE  Candidates(p) \in Seq(Derivatives)
<1>1. /\ Delegators \in Seq(Derivatives) /\ Len(Delegators) \in Nat
      /\ \A k \in 1..Len(Delegators) : Delegators[k] \in Derivatives
  BY DEF TypeOK
<1>2. Voted(p) \in Seq(Derivatives)
  <2>1. DelegatorVotes[p] \in Seq(DelegatorVoteItems)
    BY DEF TypeOK
  <2>2. PICK l \in Seq(DelegatorVoteItems) : l = DelegatorVotes[p]
    BY <2>1
  <2>3. \A i \in DelegatorVoteItems : i.deriv \in Derivatives
    BY DEF DelegatorVoteItems
  <2>4. \A k \in 1..Len(l) : l[k].deriv \in Derivatives
    BY <2>3
  <2>5. Voted(p) = [k \in 1..Len(l) |-> l[k].deriv]
    BY <2>2 DEF Voted
  <2> QED BY <2>4, <2>5
<1>3. PICK w : IsCandidates(w, Len(Delegators), p) /\ Candidates(p) = w[Len(Delegators)]
  BY <1>1, CandidatesIs
<1> DEFINE T == {k \in Nat : k <= Len(Delegators) => w[k] \in Seq(Derivatives)}
<1>4. 0 \in T
  BY <1>1, <1>2, <1>3 DEF IsCandidates
<1>5. \A k \in T : k + 1 \in T
  <2> SUFFICES ASSUME NEW k \in T, k + 1 <= Len(Delegators) PROVE w[k+1] \in Seq(Derivatives)
    OBVIOUS
  <2>1. /\ k + 1 \in 1..Len(Delegators) /\ k + 1 \in 0..Len(Delegators)
        /\ k + 1 - 1 = k /\ k + 1 # 0 /\ w[k] \in Seq(Derivatives)
    BY <1>1
  <2>2. w[k+1] = IF Delegators[k+1] \in Range(Voted(p)) THEN w[k] ELSE Append(w[k], Delegators[k+1])
    <3>1. PICK n \in 0..Len(Delegators) : n = k + 1 /\ n # 0 /\ n - 1 = k
      BY <2>1
    <3>2. w[n] = IF n = 0 THEN Voted(p)
                 ELSE IF Delegators[n] \in Range(Voted(p)) THEN w[n-1]
                 ELSE Append(w[n-1], Delegators[n])
      BY <1>3 DEF IsCandidates
    <3> QED BY <3>1, <3>2
  <2>3. Delegators[k+1] \in Derivatives
    BY <1>1, <2>1
  <2> QED BY <2>1, <2>2, <2>3
<1> HIDE DEF T
<1>6. T = Nat
  BY <1>4, <1>5, SetInduction DEF T
<1> QED BY <1>1, <1>3, <1>6 DEF T

Allocations == [list : Seq(DelegatorVoteItems), left : Nat, done : BOOLEAN]

\* w is the walk of Distribute through the first n accounts of data.
IsDistribute(w, n, votes, side, data) ==
  w = [k \in 0..n |-> IF k = 0 THEN [list |-> <<>>, left |-> TotalVotes(votes), done |-> FALSE]
                      ELSE DistributeStep(w[k-1], data[k], side)]

LEMMA DistributeIs ==
  ASSUME NEW votes, NEW side, NEW data, Len(data) \in Nat
  PROVE  \E w : /\ IsDistribute(w, Len(data), votes, side, data)
                /\ Distribute(votes, side, data) = w[Len(data)]
<1> DEFINE start == [list |-> <<>>, left |-> TotalVotes(votes), done |-> FALSE]
           step(s, k) == DistributeStep(s, data[k], side)
           Is(w, n) == w = [k \in 0..n |-> IF k = 0 THEN start ELSE step(w[k-1], k)]
           T == {n \in Nat : \E w : Is(w, n)}
<1> HIDE DEF start, step
<1>1. 0 \in T
  <2> DEFINE w == [k \in 0..0 |-> start]
  <2>1. w = [k \in 0..0 |-> IF k = 0 THEN start ELSE step(w[k-1], k)]
    OBVIOUS
  <2> QED BY <2>1
<1>2. \A n \in T : n + 1 \in T
  <2> SUFFICES ASSUME NEW n \in T PROVE n + 1 \in T
    OBVIOUS
  <2>1. PICK w : Is(w, n)
    OBVIOUS
  <2> DEFINE v == [k \in 0..(n+1) |-> IF k = n + 1 THEN step(w[n], n + 1) ELSE w[k]]
  <2>2. ASSUME NEW k \in 0..(n+1)
        PROVE  v[k] = IF k = 0 THEN start ELSE step(v[k-1], k)
    <3>1. CASE k = n + 1
      <4>1. v[k] = step(w[n], n + 1) /\ k - 1 = n /\ v[k-1] = w[n] /\ k # 0
        BY <3>1
      <4> HIDE DEF v
      <4> QED BY <3>1, <4>1
    <3>2. CASE k # n + 1
      <4>1. k \in 0..n
        BY <3>2
      <4>2. v[k] = w[k] /\ (k # 0 => v[k-1] = w[k-1])
        BY <4>1
      <4>3. w[k] = IF k = 0 THEN start ELSE step(w[k-1], k)
        BY <2>1, <4>1
      <4> HIDE DEF v
      <4> QED BY <4>2, <4>3
    <3> QED BY <3>1, <3>2
  <2>3. v = [k \in 0..(n+1) |-> IF k = 0 THEN start ELSE step(v[k-1], k)]
    BY <2>2
  <2> HIDE DEF v
  <2>4. Is(v, n+1)
    BY <2>3
  <2>5. n + 1 \in Nat
    OBVIOUS
  <2> HIDE DEF Is
  <2> QED BY <2>4, <2>5
<1> HIDE DEF T
<1>3. T = Nat
  BY <1>1, <1>2, SetInduction DEF T
<1>4. \E w : IsDistribute(w, Len(data), votes, side, data)
  BY <1>3 DEF T, IsDistribute, start, step
<1> DEFINE w == CHOOSE w : w = [k \in 0..Len(data) |->
                  IF k = 0 THEN [list |-> <<>>, left |-> TotalVotes(votes), done |-> FALSE]
                  ELSE DistributeStep(w[k-1], data[k], side)]
<1>5. IsDistribute(w, Len(data), votes, side, data)
  BY <1>4 DEF IsDistribute
<1>6. Distribute(votes, side, data) = w[Len(data)]
  BY DEF Distribute
<1> HIDE DEF w
<1> QED BY <1>5, <1>6

(* The account that covers the rest finds a conviction for it.             *)
LEMMA DistributeStepType ==
  ASSUME NEW s \in Allocations, NEW d \in Derivatives, NEW side \in {"aye", "nay"}
  PROVE  DistributeStep(s, d, side) \in Allocations
<1> DEFINE covering == {i \in Convictions : s.left <= Votes(i, Available[d])}
           i == Min(covering)
           capital == vote_to_capital(i, s.left)
           cast(c, b) == [deriv |-> d, side |-> side, conviction |-> c, balance |-> b]
<1>1. Available[d] \in Nat /\ s.left \in Nat /\ s.list \in Seq(DelegatorVoteItems)
  BY Constants DEF Allocations
<1>2. 6 \in Convictions /\ Convictions \subseteq Nat
  BY DEF Convictions
<1>3. Votes(6, Available[d]) \in Nat
  BY <1>1, <1>2, VotesType
<1>4. CASE s.done \/ s.left = 0 \/ Available[d] = 0
  BY <1>4 DEF DistributeStep
<1>5. CASE ~(s.done \/ s.left = 0 \/ Available[d] = 0) /\ Votes(6, Available[d]) >= s.left
  <2>1. covering \in SUBSET Nat /\ covering # {}
    BY <1>1, <1>2, <1>3, <1>5
  <2>2. i \in covering
    BY <2>1, MinOfSet
  <2>3. i \in Convictions
    BY <2>2
  <2> HIDE DEF i
  <2>4. capital \in Nat
    BY <1>1, <2>3, CapitalType
  <2> HIDE DEF capital
  <2>5. cast(i, capital) \in DelegatorVoteItems
    BY <2>3, <2>4 DEF DelegatorVoteItems
  <2>6. Append(s.list, cast(i, capital)) \in Seq(DelegatorVoteItems)
    BY <1>1, <2>5
  <2>7. DistributeStep(s, d, side) =
          [list |-> Append(s.list, cast(i, capital)), left |-> s.left, done |-> TRUE]
    BY <1>5 DEF DistributeStep, i, capital
  <2> QED BY <1>1, <2>6, <2>7 DEF Allocations
<1>6. CASE ~(s.done \/ s.left = 0 \/ Available[d] = 0) /\ ~(Votes(6, Available[d]) >= s.left)
  <2>1. cast(6, Available[d]) \in DelegatorVoteItems
    BY <1>1, <1>2 DEF DelegatorVoteItems
  <2>2. Append(s.list, cast(6, Available[d])) \in Seq(DelegatorVoteItems)
    BY <1>1, <2>1
  <2>3. s.left - Votes(6, Available[d]) \in Nat
    BY <1>1, <1>3, <1>6
  <2>4. DistributeStep(s, d, side) =
          [list |-> Append(s.list, cast(6, Available[d])),
           left |-> s.left - Votes(6, Available[d]), done |-> FALSE]
    BY <1>6 DEF DistributeStep
  <2> QED BY <2>2, <2>3, <2>4 DEF Allocations
<1> QED BY <1>4, <1>5, <1>6

LEMMA AllocationType ==
  ASSUME NEW p \in Polls, NEW t \in Tallies, TypeOK, CanAllocate(p, t)
  PROVE  Allocation(p, t).list \in Seq(DelegatorVoteItems)
<1> DEFINE votes == NetVotes(t)
           side == IF t.ayes >= t.nays THEN "aye" ELSE "nay"
           data == Candidates(p)
<1>1. votes \in Nat
  BY DEF NetVotes, Tallies
<1>2. data \in Seq(Derivatives) /\ side \in {"aye", "nay"}
  BY CandidatesType
<1>3. Len(data) \in Nat /\ \A k \in 1..Len(data) : data[k] \in Derivatives
  BY <1>2
<1>4. AllowedConvictions(votes) # {}
  BY DEF CanAllocate
<1>5. Allocation(p, t) = Distribute(votes, side, data)
  BY DEF Allocation
<1> HIDE DEF votes, side, data
<1>6. TotalVotes(votes) \in Nat
  <2> DEFINE i == Min(AllowedConvictions(votes))
  <2>1. AllowedConvictions(votes) \in SUBSET Nat
    BY DEF AllowedConvictions, Convictions
  <2>2. i \in AllowedConvictions(votes)
    BY <1>4, <2>1, MinOfSet
  <2>3. i \in Convictions
    BY <2>2 DEF AllowedConvictions
  <2>4. TotalVotes(votes) = Votes(i, vote_to_capital(i, votes))
    BY DEF TotalVotes, TotalCapital
  <2> HIDE DEF i
  <2> QED BY <1>1, <2>3, <2>4, CapitalType, VotesType
<1>7. PICK w : /\ IsDistribute(w, Len(data), votes, side, data)
               /\ Distribute(votes, side, data) = w[Len(data)]
  BY <1>3, DistributeIs
<1> DEFINE T == {k \in Nat : k <= Len(data) => w[k] \in Allocations}
<1>8. 0 \in T
  <2>1. w[0] = [list |-> <<>>, left |-> TotalVotes(votes), done |-> FALSE]
    BY <1>3, <1>7 DEF IsDistribute
  <2>2. <<>> \in Seq(DelegatorVoteItems)
    OBVIOUS
  <2>3. w[0] \in Allocations
    BY <1>6, <2>1, <2>2 DEF Allocations
  <2> QED BY <2>3
<1>9. \A k \in T : k + 1 \in T
  <2> SUFFICES ASSUME NEW k \in T, k + 1 <= Len(data) PROVE w[k+1] \in Allocations
    OBVIOUS
  <2>1. /\ k + 1 \in 1..Len(data) /\ k + 1 \in 0..Len(data)
        /\ k + 1 - 1 = k /\ k + 1 # 0 /\ w[k] \in Allocations
    BY <1>3
  <2>2. w[k+1] = DistributeStep(w[k], data[k+1], side)
    <3>1. PICK n \in 0..Len(data) : n = k + 1 /\ n # 0 /\ n - 1 = k
      BY <2>1
    <3>2. w[n] = IF n = 0 THEN [list |-> <<>>, left |-> TotalVotes(votes), done |-> FALSE]
                 ELSE DistributeStep(w[n-1], data[n], side)
      BY <1>7 DEF IsDistribute
    <3> QED BY <3>1, <3>2
  <2>3. data[k+1] \in Derivatives
    BY <1>3, <2>1
  <2> QED BY <1>2, <2>1, <2>2, <2>3, DistributeStepType
<1> HIDE DEF T
<1>10. T = Nat
  BY <1>8, <1>9, SetInduction DEF T
<1>11. w[Len(data)] \in Allocations
  BY <1>3, <1>10 DEF T
<1> QED BY <1>5, <1>7, <1>11 DEF Allocations
-----------------------------------------------------------------------------
(* Locks.                                                                  *)

LEMMA MaxOfImage ==
  ASSUME NEW S, IsFiniteSet(S), NEW f, \A x \in S : f[x] \in Nat, NEW R \in SUBSET S,
         NEW I, 0 \in I, \A x \in R : f[x] \in I, \A i \in I : i = 0 \/ \E x \in R : i = f[x]
  PROVE  Max(I) \in Nat /\ \A x \in R : f[x] <= Max(I)
<1> DEFINE b == SumFunctionOnSet(f, S)
<1>1. b \in Nat /\ \A x \in S : f[x] <= b
  BY SetSumNat
<1> HIDE DEF b
<1>2. I \in SUBSET Nat /\ I # {} /\ \A x \in I : x <= b
  BY <1>1
<1>3. Max(I) \in I /\ \A x \in I : x <= Max(I)
  BY <1>1, <1>2, MaxOfSet
<1> QED BY <1>2, <1>3

LEMMA VotingFields ==
  ASSUME NEW v \in Votings
  PROVE  /\ v = [votes |-> v.votes, target |-> v.target, balance |-> v.balance,
                 conviction |-> v.conviction, delegations |-> v.delegations, prior |-> v.prior]
         /\ v.votes \in [Polls -> Entries] /\ v.target \in Users \cup {NoOne}
         /\ v.balance \in Nat /\ v.conviction \in Convictions /\ v.delegations \in Delegations
         /\ v.prior \in [until : Nat, amount : Nat]
BY DEF Votings

LEMMA LockedVotes ==
  ASSUME NEW v \in Votings
  PROVE  /\ locked_vtoken_balance(v) \in Nat
         /\ \A p \in Polls : v.votes[p].vtoken <= locked_vtoken_balance(v)
<1> DEFINE f == [p \in Polls |-> v.votes[p].vtoken]
           I == {v.votes[p].vtoken : p \in Polls} \cup {0}
<1>1. \A p \in Polls : f[p] = v.votes[p].vtoken /\ f[p] \in Nat
  BY VotingFields DEF Entries
<1>2. locked_vtoken_balance(v) = Max(I)
  BY DEF locked_vtoken_balance
<1> HIDE DEF f
<1>3. 0 \in I /\ (\A p \in Polls : f[p] \in I) /\ \A i \in I : i = 0 \/ \E p \in Polls : i = f[p]
  BY <1>1
<1> HIDE DEF I
<1>4. IsFiniteSet(Polls) /\ Polls \in SUBSET Polls
  BY Constants
<1>5. Max(I) \in Nat /\ \A p \in Polls : f[p] <= Max(I)
  BY <1>1, <1>3, <1>4, MaxOfImage
<1> QED BY <1>1, <1>2, <1>5

LEMMA LockedBalance ==
  ASSUME NEW v \in Votings
  PROVE  /\ locked_balance(v) \in Nat
         /\ v.target = NoOne => \A p \in Polls : v.votes[p].vtoken <= locked_balance(v)
         /\ v.target # NoOne => v.balance <= locked_balance(v)
<1>1. v.balance \in Nat /\ v.prior.amount \in Nat
  BY VotingFields
<1>2. PICK n \in Nat : n = locked_vtoken_balance(v) /\ \A p \in Polls : v.votes[p].vtoken <= n
  BY LockedVotes
<1>3. \A p \in Polls : v.votes[p].vtoken \in Nat
  BY VotingFields DEF Entries
<1>4. \A a, b \in Nat : Max({a, b}) = IF a >= b THEN a ELSE b
  BY MaxOfTwo
<1>5. CASE v.target = NoOne
  <2>1. locked_balance(v) = IF n >= v.prior.amount THEN n ELSE v.prior.amount
    BY <1>1, <1>2, <1>4, <1>5 DEF locked_balance
  <2> QED BY <1>1, <1>2, <1>3, <1>5, <2>1
<1>6. CASE v.target # NoOne
  <2>1. locked_balance(v) = IF v.balance >= v.prior.amount THEN v.balance ELSE v.prior.amount
    BY <1>1, <1>4, <1>6 DEF locked_balance
  <2> QED BY <1>1, <1>6, <2>1
<1> QED BY <1>5, <1>6

LEMMA RejigIs ==
  ASSUME NEW v \in Votings
  PROVE  /\ rejig(v) \in Votings
         /\ rejig(v).votes = v.votes /\ rejig(v).target = v.target
         /\ rejig(v).balance = v.balance /\ rejig(v).conviction = v.conviction
         /\ rejig(v).delegations = v.delegations
<1> DEFINE w == [v EXCEPT !.prior = [until |-> 0, amount |-> 0]]
<1>1. w = [votes |-> v.votes, target |-> v.target, balance |-> v.balance,
           conviction |-> v.conviction, delegations |-> v.delegations,
           prior |-> [until |-> 0, amount |-> 0]]
  BY VotingFields
<1>2. rejig(v) = w \/ rejig(v) = v
  BY DEF rejig
<1> HIDE DEF w
<1>3. w \in Votings
  BY <1>1, VotingFields DEF Votings
<1> QED BY <1>1, <1>2, <1>3

\* What u's entry is after update_lock.
LEMMA UpdateLockIs ==
  ASSUME TypeOK, NEW u \in Users, NEW v \in Votings, update_lock(u, v)
  PROVE  /\ VotingFor' \in [Users -> Votings] /\ ClassLocksFor' \in [Users -> Nat]
         /\ \A x \in Users \ {u} : /\ VotingFor'[x] = VotingFor[x]
                                   /\ ClassLocksFor'[x] = ClassLocksFor[x]
         /\ VotingFor'[u].votes = v.votes /\ VotingFor'[u].target = v.target
         /\ VotingFor'[u].balance = v.balance /\ VotingFor'[u].conviction = v.conviction
         /\ VotingFor'[u].delegations = v.delegations
         /\ v.target = NoOne => \A p \in Polls : v.votes[p].vtoken <= ClassLocksFor'[u]
         /\ v.target # NoOne => v.balance <= ClassLocksFor'[u]
<1>1. PICK w \in Votings : w = rejig(v)
  BY RejigIs
<1>2. /\ w.votes = v.votes /\ w.target = v.target /\ w.balance = v.balance
      /\ w.conviction = v.conviction /\ w.delegations = v.delegations
  BY <1>1, RejigIs
<1>3. PICK n \in Nat : /\ n = locked_balance(w)
                       /\ v.target = NoOne => \A p \in Polls : v.votes[p].vtoken <= n
                       /\ v.target # NoOne => v.balance <= n
  BY <1>2, LockedBalance
<1>4. /\ VotingFor' = [VotingFor EXCEPT ![u] = w]
      /\ ClassLocksFor' = [ClassLocksFor EXCEPT ![u] = n]
  BY <1>1, <1>3 DEF update_lock
<1>5. VotingFor \in [Users -> Votings] /\ ClassLocksFor \in [Users -> Nat]
  BY DEF TypeOK
<1>6. /\ VotingFor'[u] = w /\ ClassLocksFor'[u] = n
      /\ VotingFor' \in [Users -> Votings] /\ ClassLocksFor' \in [Users -> Nat]
      /\ \A x \in Users \ {u} : /\ VotingFor'[x] = VotingFor[x]
                                /\ ClassLocksFor'[x] = ClassLocksFor[x]
  BY <1>4, <1>5
<1> QED BY <1>2, <1>3, <1>6

LEMMA UnlockAtType ==
  ASSUME TypeOK, NEW v \in Entries, NEW p \in Polls
  PROVE  unlock_at(v, p) \in Nat
<1>1. ReferendumInfoFor[p].at \in Nat
  BY DEF TypeOK, Infos
<1>2. PICK n \in Nat : n = lock_periods(v.conviction)
  BY LockPeriodsType DEF Entries
<1>3. VoteLockingPeriod * n \in Nat
  BY Constants
<1> QED BY <1>1, <1>2, <1>3 DEF unlock_at

LEMMA RolledBackIs ==
  ASSUME TypeOK, NEW who \in Users, NEW items, DOMAIN items \subseteq Polls,
         \A p \in DOMAIN items : items[p].old \in Entries
  PROVE  LET v == VotingFor[who]
             r == RolledBack(who, items)
         IN /\ r \in Votings
            /\ r.target = v.target /\ r.balance = v.balance
            /\ r.conviction = v.conviction /\ r.delegations = v.delegations
            /\ v.target # NoOne => r = v
            /\ v.target = NoOne =>
                 r.votes = [p \in Polls |-> IF p \in DOMAIN items THEN items[p].old ELSE v.votes[p]]
<1>1. PICK v \in Votings : v = VotingFor[who]
  BY DEF TypeOK
<1> DEFINE kept == {p \in DOMAIN items : StillLocked(v.votes[p], p)}
           f == [p \in Polls |-> unlock_at(v.votes[p], p)]
           g == [p \in Polls |-> v.votes[p].vtoken]
           F == {unlock_at(v.votes[p], p) : p \in kept} \cup {0}
           G == {v.votes[p].vtoken : p \in kept} \cup {0}
           until == Max(F)
           amount == Max(G)
           votes == [p \in Polls |-> IF p \in DOMAIN items THEN items[p].old ELSE v.votes[p]]
<1>2. \A p \in Polls : v.votes[p] \in Entries
  BY VotingFields
<1>3. kept \in SUBSET Polls
  OBVIOUS
<1>4. \A p \in Polls : f[p] \in Nat
  BY <1>2, UnlockAtType
<1>5. \A p \in Polls : g[p] \in Nat
  BY <1>2 DEF Entries
<1>6. /\ 0 \in F /\ (\A p \in kept : f[p] \in F) /\ \A i \in F : i = 0 \/ \E p \in kept : i = f[p]
      /\ 0 \in G /\ (\A p \in kept : g[p] \in G) /\ \A i \in G : i = 0 \/ \E p \in kept : i = g[p]
  <2>1. \A p \in kept : f[p] = unlock_at(v.votes[p], p) /\ g[p] = v.votes[p].vtoken
    BY <1>3
  <2> HIDE DEF f, g, kept
  <2> QED BY <2>1
<1>7. votes \in [Polls -> Entries]
  BY <1>2
<1>8. v.target = NoOne =>
        RolledBack(who, items) =
          [v EXCEPT !.votes = votes, !.prior = accumulate(v.prior, until, amount)]
  BY <1>1 DEF RolledBack, Casts
<1> HIDE DEF f, g, kept, votes, F, G
<1>9. until \in Nat /\ amount \in Nat
  <2>1. IsFiniteSet(Polls)
    BY Constants
  <2>2. Max(F) \in Nat
    <3>1. 0 \in F /\ (\A p \in kept : f[p] \in F) /\ \A i \in F : i = 0 \/ \E p \in kept : i = f[p]
      BY <1>6
    <3> QED BY ONLY <1>3, <1>4, <2>1, <3>1, MaxOfImage
  <2>3. Max(G) \in Nat
    <3>1. 0 \in G /\ (\A p \in kept : g[p] \in G) /\ \A i \in G : i = 0 \/ \E p \in kept : i = g[p]
      BY <1>6
    <3> QED BY ONLY <1>3, <1>5, <2>1, <3>1, MaxOfImage
  <2> QED BY <2>2, <2>3
<1> HIDE DEF until, amount
<1>10. v.prior.until \in Nat /\ v.prior.amount \in Nat
  BY VotingFields
<1>11. accumulate(v.prior, until, amount) \in [until : Nat, amount : Nat]
  <2>1. \A a, b \in Nat : Max({a, b}) \in Nat
    BY MaxOfTwo
  <2> QED BY <1>9, <1>10, <2>1 DEF accumulate
<1>12. v.target # NoOne => RolledBack(who, items) = v
  BY <1>1 DEF RolledBack, Casts
<1>13. PICK a \in [until : Nat, amount : Nat] : a = accumulate(v.prior, until, amount)
  BY <1>11
<1>14. v.target = NoOne => RolledBack(who, items) =
         [votes |-> votes, target |-> v.target, balance |-> v.balance,
          conviction |-> v.conviction, delegations |-> v.delegations, prior |-> a]
  BY <1>8, <1>13, VotingFields
<1>15. v.target = NoOne => /\ RolledBack(who, items) \in Votings
                           /\ RolledBack(who, items).votes = votes
                           /\ RolledBack(who, items).target = v.target
                           /\ RolledBack(who, items).balance = v.balance
                           /\ RolledBack(who, items).conviction = v.conviction
                           /\ RolledBack(who, items).delegations = v.delegations
  BY <1>7, <1>14, VotingFields DEF Votings
<1> QED BY <1>1, <1>12, <1>15 DEF votes
-----------------------------------------------------------------------------
(* Sending a vote: the query that do_vote adds.                            *)

NewQuery(who, ps, old) ==
  LET q == PendingQueries'[nextQuery]
  IN /\ nextQuery < MaxQueries /\ nextQuery' = nextQuery + 1
     /\ nextQuery \notin DOMAIN PendingQueries
     /\ DOMAIN PendingQueries' = DOMAIN PendingQueries \cup {nextQuery}
     /\ \A r \in DOMAIN PendingQueries : PendingQueries'[r] = PendingQueries[r]
     /\ q = [kind |-> "vote", who |-> who, outcome |-> "sent", items |-> q.items]
     /\ q.kind = "vote" /\ q.who = who /\ q.outcome = "sent" /\ DOMAIN q.items = ps
     /\ \A p \in ps : /\ q.items[p].old = old[p] /\ q.items[p].info = ReferendumInfoFor[p]
                      /\ q.items[p] \in [old : Entries, info : Infos, list : Seq(DelegatorVoteItems)]

LEMMA DoVoteIs ==
  ASSUME TypeOK, NEW who \in Users, NEW ps \in SUBSET Polls, NEW tallies \in [ps -> Tallies],
         NEW old \in [ps -> Entries], do_vote(who, tallies, old)
  PROVE  /\ NewQuery(who, ps, old)
         /\ PendingDelegatorVotes' \in [Polls -> Seq(DelegatorVoteItems)]
<1> DEFINE list == [p \in ps |-> Allocation(p, tallies[p]).list]
           items == [p \in ps |-> [old |-> old[p], info |-> ReferendumInfoFor[p], list |-> list[p]]]
           query == [kind |-> "vote", who |-> who, outcome |-> "sent", items |-> items]
<1>1. DOMAIN tallies = ps
  OBVIOUS
<1>2. /\ nextQuery < MaxQueries /\ nextQuery' = nextQuery + 1
      /\ \A p \in ps : CanAllocate(p, tallies[p])
      /\ PendingDelegatorVotes' = [p \in Polls |-> IF p \in ps THEN PendingDelegatorVotes[p] \o list[p]
                                                   ELSE PendingDelegatorVotes[p]]
      /\ PendingQueries' = [q \in DOMAIN PendingQueries \cup {nextQuery} |->
                              IF q = nextQuery THEN query ELSE PendingQueries[q]]
  BY <1>1 DEF do_vote
<1>3. \A p \in ps : list[p] \in Seq(DelegatorVoteItems)
  BY <1>2, AllocationType
<1>4. PendingDelegatorVotes' \in [Polls -> Seq(DelegatorVoteItems)]
  <2>1. PendingDelegatorVotes \in [Polls -> Seq(DelegatorVoteItems)]
    BY DEF TypeOK
  <2>2. \A l, k \in Seq(DelegatorVoteItems) : l \o k \in Seq(DelegatorVoteItems)
    OBVIOUS
  <2> HIDE DEF list
  <2>3. \A p \in Polls : (IF p \in ps THEN PendingDelegatorVotes[p] \o list[p]
                          ELSE PendingDelegatorVotes[p]) \in Seq(DelegatorVoteItems)
    BY <1>3, <2>1, <2>2
  <2> QED BY <1>2, <2>3
<1>5. nextQuery \in Nat /\ DOMAIN PendingQueries \subseteq 0..(nextQuery - 1)
  BY DEF TypeOK
<1>6. nextQuery \notin DOMAIN PendingQueries
  BY <1>5
<1> HIDE DEF list
<1>7. \A p \in ps : /\ items[p].old = old[p] /\ items[p].info = ReferendumInfoFor[p]
                    /\ items[p] \in [old : Entries, info : Infos, list : Seq(DelegatorVoteItems)]
  <2>1. \A p \in ps : ReferendumInfoFor[p] \in Infos /\ old[p] \in Entries
    BY DEF TypeOK
  <2> QED BY <1>3, <2>1
<1>8. DOMAIN items = ps
  OBVIOUS
<1> HIDE DEF items
<1>9. /\ query = [kind |-> "vote", who |-> who, outcome |-> "sent", items |-> query.items]
      /\ query.kind = "vote" /\ query.who = who /\ query.outcome = "sent" /\ query.items = items
  OBVIOUS
<1> HIDE DEF query
<1>10. /\ DOMAIN PendingQueries' = DOMAIN PendingQueries \cup {nextQuery}
       /\ PendingQueries'[nextQuery] = query
       /\ \A r \in DOMAIN PendingQueries : PendingQueries'[r] = PendingQueries[r]
  BY <1>2, <1>6
<1> QED BY <1>2, <1>4, <1>6, <1>7, <1>8, <1>9, <1>10 DEF NewQuery

\* The conjuncts of TypeOK that the queries share.
QueryTypes ==
  /\ nextQuery \in 0..MaxQueries
  /\ DOMAIN PendingQueries \subseteq 0..(nextQuery - 1)
  /\ \A q \in DOMAIN PendingQueries : IsQuery(PendingQueries[q])

LEMMA NewQueryTypes ==
  ASSUME TypeOK, NEW who \in Users, NEW ps \in SUBSET Polls, NEW old, NewQuery(who, ps, old)
  PROVE  QueryTypes'
<1>1. /\ nextQuery \in 0..MaxQueries /\ DOMAIN PendingQueries \subseteq 0..(nextQuery - 1)
      /\ \A q \in DOMAIN PendingQueries : IsQuery(PendingQueries[q])
  BY DEF TypeOK
<1>2. MaxQueries \in Nat
  BY Constants
<1>3. nextQuery' \in 0..MaxQueries
  BY <1>1, <1>2 DEF NewQuery
<1>4. DOMAIN PendingQueries' \subseteq 0..(nextQuery' - 1)
  <2>1. /\ DOMAIN PendingQueries' = DOMAIN PendingQueries \cup {nextQuery}
        /\ nextQuery' = nextQuery + 1
    BY DEF NewQuery
  <2> QED BY <1>1, <2>1
<1>5. IsQuery(PendingQueries'[nextQuery])
  BY DEF NewQuery, IsQuery
<1>6. \A q \in DOMAIN PendingQueries' : IsQuery(PendingQueries'[q])
  BY <1>1, <1>5 DEF NewQuery
<1> QED BY <1>3, <1>4, <1>6 DEF QueryTypes

\* Answering a query.
LEMMA ResolvedTypes ==
  ASSUME TypeOK, NEW q, PendingQueries' = Resolved(q), nextQuery' = nextQuery
  PROVE  /\ QueryTypes'
         /\ DOMAIN PendingQueries' = DOMAIN PendingQueries \ {q}
         /\ \A r \in DOMAIN PendingQueries' : PendingQueries'[r] = PendingQueries[r]
<1>1. /\ DOMAIN PendingQueries' = DOMAIN PendingQueries \ {q}
      /\ \A r \in DOMAIN PendingQueries' : PendingQueries'[r] = PendingQueries[r]
  BY DEF Resolved
<1> QED BY <1>1 DEF TypeOK, QueryTypes
-----------------------------------------------------------------------------
(* Type correctness.                                                       *)

LEMMA TypeFacts ==
  ASSUME TypeOK
  PROVE  /\ VotingFor \in [Users -> Votings] /\ ClassLocksFor \in [Users -> Nat]
         /\ ReferendumInfoFor \in [Polls -> Infos] /\ relay_block \in Nat /\ block \in Nat
         /\ \A p \in Polls : ReferendumInfoFor[p].tally \in Tallies
         /\ \A u \in Users : /\ VotingFor[u].votes \in [Polls -> Entries]
                             /\ VotingFor[u].delegations \in Delegations
         /\ history.delegated \in SUBSET Polls /\ history.skewed \in SUBSET Polls
<1>1. /\ VotingFor \in [Users -> Votings] /\ ClassLocksFor \in [Users -> Nat]
      /\ ReferendumInfoFor \in [Polls -> Infos] /\ block \in Nat
      /\ history.delegated \in SUBSET Polls /\ history.skewed \in SUBSET Polls
  BY DEF TypeOK
<1>2. relay_block \in Nat
  BY <1>1, Constants DEF relay_block
<1>3. \A i \in Infos : i.tally \in Tallies
  BY DEF Infos, Tallies
<1>4. \A v \in Votings : v.votes \in [Polls -> Entries] /\ v.delegations \in Delegations
  BY VotingFields
<1> QED BY <1>1, <1>2, <1>3, <1>4

LEMMA QueryTypeFacts == ASSUME TypeOK PROVE QueryTypes
BY DEF TypeOK, QueryTypes

\* common_vote, read off its definition.
CommonVoteIs(u, p, v, vote, tally, after) ==
  /\ vote = Entry(compute_token_vote(v), Balance(v))
  /\ tally = Plus(Plus(Minus(Minus(ReferendumInfoFor[p].tally, Own(Vote(u, p))),
                             Delegated(Vote(u, p).side, VotingFor[u].delegations)),
                       Own(vote)),
                  Delegated(vote.side, VotingFor[u].delegations))
  /\ after = [VotingFor[u] EXCEPT !.votes[p] = vote]
  /\ vote \in Entries /\ vote # NoVote /\ tally \in Tallies /\ after \in Votings
  /\ after.votes = [VotingFor[u].votes EXCEPT ![p] = vote]
  /\ after.target = VotingFor[u].target /\ after.balance = VotingFor[u].balance
  /\ after.conviction = VotingFor[u].conviction /\ after.delegations = VotingFor[u].delegations
  /\ PendingOn(p) = {} /\ ReferendumInfoFor[p].state \in {"None", "Ongoing"}
  /\ VotingFor[u].target = NoOne
  /\ NewQuery(u, {p}, [x \in {p} |-> OldVote(Vote(u, p))])
  /\ ReferendumInfoFor' = [ReferendumInfoFor EXCEPT ![p] =
       [state |-> "Ongoing", tally |-> tally, at |-> IF Ongoing(p) THEN @.at ELSE relay_block]]
  /\ VotingFor' = [VotingFor EXCEPT ![u] = after]
  /\ ClassLocksFor' = [ClassLocksFor EXCEPT ![u] = locked_vtoken_balance(after)]
  /\ PendingDelegatorVotes' \in [Polls -> Seq(DelegatorVoteItems)]
  /\ UNCHANGED <<block, Delegators, DelegatorVotes, ReferendumTimeout, VoteStatus, relay, history>>

LEMMA CommonVote ==
  ASSUME TypeOK, NEW u \in Users, NEW p \in Polls, NEW v \in VoteInputs, common_vote(u, p, v)
  PROVE  \E vote, tally, after : CommonVoteIs(u, p, v, vote, tally, after)
<1> DEFINE mine == VotingFor[u]
           old == mine.votes[p]
<1>1. PICK vote : vote = Entry(compute_token_vote(v), Balance(v))
  OBVIOUS
<1>2. vote \in Entries /\ vote # NoVote
  BY <1>1, EntryType, Constants
<1>3. /\ mine \in Votings /\ mine.votes \in [Polls -> Entries] /\ old \in Entries
      /\ mine.delegations \in Delegations /\ ReferendumInfoFor[p].tally \in Tallies
  BY TypeFacts
<1>4. PICK tally : tally = Plus(Plus(Minus(Minus(ReferendumInfoFor[p].tally, Own(old)),
                                           Delegated(old.side, mine.delegations)),
                                     Own(vote)),
                                Delegated(vote.side, mine.delegations))
  OBVIOUS
<1>5. tally \in Tallies
  <2>1. /\ Own(old) \in Tallies /\ Own(vote) \in Tallies
        /\ Delegated(old.side, mine.delegations) \in Tallies
        /\ Delegated(vote.side, mine.delegations) \in Tallies
    BY <1>2, <1>3, OwnType, DelegatedType
  <2>2. Minus(ReferendumInfoFor[p].tally, Own(old)) \in Tallies
    BY <1>3, <2>1, MinusType
  <2>3. Minus(Minus(ReferendumInfoFor[p].tally, Own(old)),
              Delegated(old.side, mine.delegations)) \in Tallies
    BY <2>1, <2>2, MinusType
  <2> QED BY <1>4, <2>1, <2>3, PlusType
<1>6. PICK after : after = [mine EXCEPT !.votes[p] = vote]
  OBVIOUS
<1>7. /\ after \in Votings /\ after.votes = [mine.votes EXCEPT ![p] = vote]
      /\ after.target = mine.target /\ after.balance = mine.balance
      /\ after.conviction = mine.conviction /\ after.delegations = mine.delegations
  <2>1. PICK vs \in [Polls -> Entries] : vs = [mine.votes EXCEPT ![p] = vote]
    BY <1>2, <1>3
  <2>2. after = [mine EXCEPT !.votes = vs]
    BY <1>6, <2>1
  <2> HIDE DEF mine
  <2>3. after = [votes |-> vs, target |-> mine.target, balance |-> mine.balance,
                 conviction |-> mine.conviction, delegations |-> mine.delegations,
                 prior |-> mine.prior]
    BY <1>3, <2>2, VotingFields
  <2> QED BY <1>3, <2>1, <2>3, VotingFields DEF Votings
<1> DEFINE ts == [x \in {p} |-> tally]
           os == [x \in {p} |-> OldVote(old)]
<1>8. /\ PendingOn(p) = {} /\ ReferendumInfoFor[p].state \in {"None", "Ongoing"}
      /\ mine.target = NoOne /\ do_vote(u, ts, os)
      /\ ReferendumInfoFor' = [ReferendumInfoFor EXCEPT ![p] =
           [state |-> "Ongoing", tally |-> tally, at |-> IF Ongoing(p) THEN @.at ELSE relay_block]]
      /\ VotingFor' = [VotingFor EXCEPT ![u] = after]
      /\ ClassLocksFor' = [ClassLocksFor EXCEPT ![u] = locked_vtoken_balance(after)]
      /\ UNCHANGED <<block, Delegators, DelegatorVotes, ReferendumTimeout, VoteStatus, relay,
                     history>>
  BY <1>1, <1>4, <1>6 DEF common_vote, CanVote, Casts, ensure_no_pending_vote
<1>9. ts \in [{p} -> Tallies] /\ os \in [{p} -> Entries] /\ {p} \in SUBSET Polls
  BY <1>3, <1>5, OldVoteType
<1>10. /\ NewQuery(u, {p}, os) /\ PendingDelegatorVotes' \in [Polls -> Seq(DelegatorVoteItems)]
  <2> HIDE DEF ts, os
  <2> QED BY <1>8, <1>9, DoVoteIs
<1> QED BY <1>1, <1>2, <1>4, <1>5, <1>6, <1>7, <1>8, <1>10 DEF CommonVoteIs, Vote
\* increase_upstream_delegation and reduce_upstream_delegation.
Changed(to) == {p \in StandardVotes(to) : Ongoing(p)}

UpstreamIs(to, amount, increase, tally, old) ==
  /\ tally = [p \in Changed(to) |->
                IF increase
                THEN Plus(ReferendumInfoFor[p].tally, Delegated(Vote(to, p).side, amount))
                ELSE Minus(ReferendumInfoFor[p].tally, Delegated(Vote(to, p).side, amount))]
  /\ tally \in [Changed(to) -> Tallies]
  /\ old = [p \in Changed(to) |-> OldVote(Vote(to, p))]
  /\ ReferendumInfoFor' = [p \in Polls |->
       IF p \in Changed(to) THEN [ReferendumInfoFor[p] EXCEPT !.tally = tally[p]]
       ELSE ReferendumInfoFor[p]]
  /\ PendingDelegatorVotes' \in [Polls -> Seq(DelegatorVoteItems)]
  /\ \/ Changed(to) = {} /\ UNCHANGED <<PendingQueries, nextQuery>>
     \/ NewQuery(to, Changed(to), old)

LEMMA Upstream ==
  ASSUME TypeOK, NEW to \in Users, NEW amount \in Delegations, NEW increase \in BOOLEAN,
         upstream_delegation(to, amount, increase)
  PROVE  \E tally, old : UpstreamIs(to, amount, increase, tally, old)
<1>1. Changed(to) \in SUBSET Polls
  BY DEF Changed, StandardVotes
<1>2. PICK changed \in SUBSET Polls : changed = Changed(to)
  BY <1>1
<1>3. PICK tally : tally =
        [p \in changed |->
           IF increase THEN Plus(ReferendumInfoFor[p].tally, Delegated(Vote(to, p).side, amount))
           ELSE Minus(ReferendumInfoFor[p].tally, Delegated(Vote(to, p).side, amount))]
  OBVIOUS
<1>4. PICK old : old = [p \in changed |-> OldVote(Vote(to, p))]
  OBVIOUS
<1>5. /\ \A p \in Polls : ReferendumInfoFor[p].tally \in Tallies
      /\ \A p \in Polls : Vote(to, p) \in Entries
  BY TypeFacts DEF Vote
<1>6. tally \in [changed -> Tallies]
  <2>1. ASSUME NEW p \in changed
        PROVE  /\ Plus(ReferendumInfoFor[p].tally, Delegated(Vote(to, p).side, amount)) \in Tallies
               /\ Minus(ReferendumInfoFor[p].tally, Delegated(Vote(to, p).side, amount)) \in Tallies
    BY <1>5, DelegatedType, PlusType, MinusType
  <2> QED BY <1>3, <2>1
<1>7. old \in [changed -> Entries]
  <2>1. \A p \in changed : OldVote(Vote(to, p)) \in Entries
    BY <1>5, OldVoteType
  <2> QED BY <1>4, <2>1
<1>8. /\ ReferendumInfoFor' = [p \in Polls |->
           IF p \in changed THEN [ReferendumInfoFor[p] EXCEPT !.tally = tally[p]]
           ELSE ReferendumInfoFor[p]]
      /\ IF changed = {} THEN UNCHANGED <<PendingDelegatorVotes, PendingQueries, nextQuery>>
         ELSE do_vote(to, tally, old)
  BY <1>2, <1>3, <1>4 DEF upstream_delegation, Changed, Vote
<1>9. CASE changed = {}
  BY <1>2, <1>3, <1>4, <1>6, <1>8, <1>9 DEF UpstreamIs, TypeOK
<1>10. CASE changed # {}
  <2>1. /\ NewQuery(to, changed, old)
        /\ PendingDelegatorVotes' \in [Polls -> Seq(DelegatorVoteItems)]
    BY <1>6, <1>7, <1>8, <1>10, DoVoteIs
  <2>2. UpstreamIs(to, amount, increase, tally, old)
    BY <1>2, <1>3, <1>4, <1>6, <1>8, <2>1 DEF UpstreamIs
  <2> QED BY <2>2
<1> QED BY <1>9, <1>10

\* Conjuncts of TypeOK that few actions change.
OtherTypes ==
  /\ Delegators \in Seq(Derivatives) /\ DelegatorVotes \in [Polls -> Seq(DelegatorVoteItems)]
  /\ ReferendumTimeout \subseteq Nat \X Polls
  /\ VoteStatus \in [Polls -> {"Approved", "Rejected", "None", "Ongoing"}]
  /\ relay \in [Polls -> [Derivatives -> Int]]
HistoryTypes == history \in [delegated : SUBSET Polls, skewed : SUBSET Polls]
PendingTypes == PendingDelegatorVotes \in [Polls -> Seq(DelegatorVoteItems)]

LEMMA UpstreamTypes ==
  ASSUME TypeOK, NEW to \in Users, NEW amount, NEW increase, NEW tally, NEW old,
         UpstreamIs(to, amount, increase, tally, old)
  PROVE  QueryTypes' /\ ReferendumInfoFor' \in [Polls -> Infos] /\ PendingTypes'
<1>1. Changed(to) \in SUBSET Polls
  BY DEF Changed, StandardVotes
<1>2. QueryTypes'
  <2>1. CASE UNCHANGED <<PendingQueries, nextQuery>>
    BY <2>1, QueryTypeFacts DEF QueryTypes
  <2>2. CASE NewQuery(to, Changed(to), old)
    BY <1>1, <2>2, NewQueryTypes
  <2> QED BY <2>1, <2>2 DEF UpstreamIs
<1>3. \A i \in Infos, t \in Tallies : [i EXCEPT !.tally = t] \in Infos
  BY DEF Infos, Tallies
<1>4. ReferendumInfoFor \in [Polls -> Infos] /\ tally \in [Changed(to) -> Tallies]
  BY TypeFacts DEF UpstreamIs
<1>5. \A p \in Polls : (IF p \in Changed(to) THEN [ReferendumInfoFor[p] EXCEPT !.tally = tally[p]]
                        ELSE ReferendumInfoFor[p]) \in Infos
  BY <1>3, <1>4
<1> QED BY <1>2, <1>5 DEF UpstreamIs, PendingTypes

\* Two users' entries change: u's and the one of the user it delegates to.
TwoVotings(u, to, mine, theirs) ==
  /\ u # to /\ mine \in Votings /\ theirs \in Votings
  /\ mine.votes = VotingFor[u].votes /\ mine.delegations = VotingFor[u].delegations
  /\ theirs.votes = VotingFor[to].votes /\ theirs.target = VotingFor[to].target
  /\ theirs.balance = VotingFor[to].balance /\ theirs.conviction = VotingFor[to].conviction
  /\ VotingFor' = [VotingFor EXCEPT ![u] = mine, ![to] = theirs]

AddTo(d, a) == [votes |-> d.votes + a.votes, capital |-> d.capital + a.capital]
SubFrom(d, a) == [votes |-> SatSub(d.votes, a.votes), capital |-> SatSub(d.capital, a.capital)]

Retarget(v, t, b, c) == [v EXCEPT !.target = t, !.balance = b, !.conviction = c]
RetargetPrior(v, t, b, c, p) ==
  [v EXCEPT !.target = t, !.balance = b, !.conviction = c, !.prior = p]

LEMMA RetargetIs ==
  ASSUME NEW v \in Votings, NEW t, NEW b, NEW c, NEW p
  PROVE  /\ Retarget(v, t, b, c) =
              [votes |-> v.votes, target |-> t, balance |-> b, conviction |-> c,
               delegations |-> v.delegations, prior |-> v.prior]
         /\ RetargetPrior(v, t, b, c, p) =
              [votes |-> v.votes, target |-> t, balance |-> b, conviction |-> c,
               delegations |-> v.delegations, prior |-> p]
<1>1. PICK w1 : w1 = [v EXCEPT !.target = t]
  OBVIOUS
<1>2. PICK w2 : w2 = [w1 EXCEPT !.balance = b]
  OBVIOUS
<1>3. PICK w3 : w3 = [w2 EXCEPT !.conviction = c]
  OBVIOUS
<1>4. w1 = [votes |-> v.votes, target |-> t, balance |-> v.balance, conviction |-> v.conviction,
            delegations |-> v.delegations, prior |-> v.prior]
  BY <1>1, VotingFields
<1>5. w2 = [votes |-> v.votes, target |-> t, balance |-> b, conviction |-> v.conviction,
            delegations |-> v.delegations, prior |-> v.prior]
  BY <1>2, <1>4
<1>6. w3 = [votes |-> v.votes, target |-> t, balance |-> b, conviction |-> c,
            delegations |-> v.delegations, prior |-> v.prior]
  BY <1>3, <1>5
<1>7. [w3 EXCEPT !.prior = p] =
        [votes |-> v.votes, target |-> t, balance |-> b, conviction |-> c,
         delegations |-> v.delegations, prior |-> p]
  BY <1>6
<1>8. Retarget(v, t, b, c) = w3 /\ RetargetPrior(v, t, b, c, p) = [w3 EXCEPT !.prior = p]
  BY ONLY <1>1, <1>2, <1>3, Zenon DEF Retarget, RetargetPrior
<1> QED BY <1>6, <1>7, <1>8

LEMMA AddToType ==
  ASSUME NEW d \in Delegations, NEW a \in Delegations
  PROVE  AddTo(d, a) \in Delegations /\ SubFrom(d, a) \in Delegations
BY DEF AddTo, SubFrom, SatSub, Delegations

DelegateIs(u, to, conviction, vtoken, mine, theirs) ==
  /\ VotingFor[u].target = NoOne /\ \A p \in Polls : Vote(u, p) = NoVote
  /\ TwoVotings(u, to, mine, theirs)
  /\ mine.target = to /\ mine.balance = vtoken /\ mine.conviction = conviction
  /\ theirs.delegations = AddTo(VotingFor[to].delegations, Amount(conviction, vtoken))
  /\ ClassLocksFor' = [ClassLocksFor EXCEPT ![u] = vtoken]
  /\ delegation_changed(to)
  /\ UNCHANGED <<block, Delegators, DelegatorVotes, ReferendumTimeout, VoteStatus, relay>>

LEMMA Delegate ==
  ASSUME TypeOK, NEW u \in Users, NEW to \in Users, NEW conviction \in Convictions,
         NEW vtoken \in Nat, delegate(u, to, conviction, vtoken)
  PROVE  /\ \E mine, theirs : DelegateIs(u, to, conviction, vtoken, mine, theirs)
         /\ \E tally, old : UpstreamIs(to, Amount(conviction, vtoken), TRUE, tally, old)
<1> DEFINE amount == Amount(conviction, vtoken)
<1>1. /\ u # to /\ VotingFor[u].target = NoOne /\ VotedOn(VotingFor[u]) = {}
      /\ upstream_delegation(to, amount, TRUE)
      /\ VotingFor' = [VotingFor EXCEPT
           ![u].target = to, ![u].balance = vtoken, ![u].conviction = conviction,
           ![to].delegations = AddTo(@, amount)]
      /\ ClassLocksFor' = [ClassLocksFor EXCEPT ![u] = vtoken]
      /\ delegation_changed(to)
      /\ UNCHANGED <<block, Delegators, DelegatorVotes, ReferendumTimeout, VoteStatus, relay>>
  BY DEF delegate, CanVote, Casts, AddTo
<1>2. amount \in Delegations
  BY AmountType
<1> HIDE DEF amount
<1>3. \E tally, old : UpstreamIs(to, amount, TRUE, tally, old)
  BY <1>1, <1>2, Upstream
<1>4. VotingFor \in [Users -> Votings] /\ VotingFor[u] \in Votings /\ VotingFor[to] \in Votings
  BY TypeFacts
<1>5. PICK d \in Delegations : d = AddTo(VotingFor[to].delegations, amount)
  BY <1>2, <1>4, VotingFields, AddToType
<1>6. PICK v \in Votings : v = VotingFor[u]
  BY <1>4
<1>7. PICK w \in Votings : w = VotingFor[to]
  BY <1>4
<1> DEFINE mine == Retarget(v, to, vtoken, conviction)
           theirs == [w EXCEPT !.delegations = d]
<1>8. VotingFor' = [VotingFor EXCEPT ![u] = mine, ![to] = theirs]
  BY <1>1, <1>4, <1>5, <1>6, <1>7 DEF Retarget
<1>9. mine = [votes |-> v.votes, target |-> to, balance |-> vtoken, conviction |-> conviction,
              delegations |-> v.delegations, prior |-> v.prior]
  BY RetargetIs
<1>10. theirs = [votes |-> w.votes, target |-> w.target, balance |-> w.balance,
                 conviction |-> w.conviction, delegations |-> d, prior |-> w.prior]
  BY VotingFields
<1> HIDE DEF mine, theirs
<1>11. mine \in Votings
  BY <1>9, VotingFields DEF Votings
<1>12. theirs \in Votings
  BY <1>10, VotingFields DEF Votings
<1>13. \A p \in Polls : Vote(u, p) = NoVote
  BY <1>1 DEF VotedOn, Vote
<1>14. TwoVotings(u, to, mine, theirs)
  BY <1>1, <1>6, <1>7, <1>8, <1>9, <1>10, <1>11, <1>12 DEF TwoVotings
<1>15. DelegateIs(u, to, conviction, vtoken, mine, theirs)
  BY <1>1, <1>5, <1>9, <1>10, <1>13, <1>14 DEF DelegateIs, amount
<1> QED BY <1>3, <1>15 DEF amount

UndelegateIs(u, to, mine, theirs) ==
  /\ to = VotingFor[u].target /\ to \in Users
  /\ TwoVotings(u, to, mine, theirs)
  /\ mine.target = NoOne
  /\ theirs.delegations =
       SubFrom(VotingFor[to].delegations, Amount(VotingFor[u].conviction, VotingFor[u].balance))
  /\ delegation_changed(to)
  /\ UNCHANGED <<block, ClassLocksFor, Delegators, DelegatorVotes, ReferendumTimeout, VoteStatus,
                 relay>>

LEMMA Undelegate ==
  ASSUME TypeOK, DelegatorsIdle, NEW u \in Users, undelegate(u)
  PROVE  \E to \in Users :
           /\ \E mine, theirs : UndelegateIs(u, to, mine, theirs)
           /\ Amount(VotingFor[u].conviction, VotingFor[u].balance) \in Delegations
           /\ \E tally, old :
                UpstreamIs(to, Amount(VotingFor[u].conviction, VotingFor[u].balance), FALSE,
                           tally, old)
<1>1. VotingFor \in [Users -> Votings] /\ VotingFor[u] \in Votings /\ block \in Nat
  BY TypeFacts
<1>2. PICK v \in Votings : v = VotingFor[u]
  BY <1>1
<1>3. v.target # NoOne
  BY <1>2 DEF undelegate, Casts
<1>4. PICK to \in Users : to = v.target
  BY <1>3, VotingFields
<1>5. u # to
  BY <1>2, <1>3, <1>4 DEF DelegatorsIdle, Casts
<1> DEFINE amount == Amount(v.conviction, v.balance)
           prior == accumulate(v.prior, block + VoteLockingPeriod * lock_periods(v.conviction),
                               v.balance)
<1>6. amount \in Delegations
  BY VotingFields, AmountType
<1>7. prior \in [until : Nat, amount : Nat]
  <2>1. PICK n \in Nat : n = lock_periods(v.conviction)
    BY VotingFields, LockPeriodsType
  <2>2. VoteLockingPeriod * n \in Nat
    BY Constants
  <2>3. block + VoteLockingPeriod * n \in Nat /\ v.balance \in Nat
        /\ v.prior.until \in Nat /\ v.prior.amount \in Nat
    BY <1>1, <2>2, VotingFields
  <2>4. \A a, b \in Nat : Max({a, b}) \in Nat
    BY MaxOfTwo
  <2> QED BY <2>1, <2>3, <2>4 DEF accumulate
<1>8. /\ upstream_delegation(to, amount, FALSE)
      /\ VotingFor' = [VotingFor EXCEPT
           ![u] = [v EXCEPT !.target = NoOne, !.balance = 0, !.conviction = 0, !.prior = prior],
           ![to].delegations = SubFrom(@, amount)]
      /\ delegation_changed(to)
      /\ UNCHANGED <<block, ClassLocksFor, Delegators, DelegatorVotes, ReferendumTimeout,
                     VoteStatus, relay>>
  BY <1>2, <1>4 DEF undelegate, SubFrom
<1> HIDE DEF amount
<1>9. \E tally, old : UpstreamIs(to, amount, FALSE, tally, old)
  BY <1>6, <1>8, Upstream
<1>10. PICK w \in Votings : w = VotingFor[to]
  BY <1>1
<1>11. PICK d \in Delegations : d = SubFrom(w.delegations, amount)
  BY <1>6, VotingFields, AddToType
<1> HIDE DEF prior
<1> DEFINE mine == RetargetPrior(v, NoOne, 0, 0, prior)
           theirs == [w EXCEPT !.delegations = d]
<1>12. VotingFor' = [VotingFor EXCEPT ![u] = mine, ![to] = theirs]
  <2>1. mine = [v EXCEPT !.target = NoOne, !.balance = 0, !.conviction = 0, !.prior = prior]
    BY DEF RetargetPrior
  <2> HIDE DEF mine
  <2> QED BY <1>1, <1>5, <1>8, <1>10, <1>11, <2>1
<1>13. mine = [votes |-> v.votes, target |-> NoOne, balance |-> 0, conviction |-> 0,
              delegations |-> v.delegations, prior |-> prior]
  BY RetargetIs
<1>14. theirs = [votes |-> w.votes, target |-> w.target, balance |-> w.balance,
                 conviction |-> w.conviction, delegations |-> d, prior |-> w.prior]
  BY VotingFields
<1> HIDE DEF mine, theirs
<1>15. mine \in Votings
  BY <1>7, <1>13, VotingFields DEF Votings, Convictions
<1>16. theirs \in Votings
  BY <1>14, VotingFields DEF Votings
<1>17. TwoVotings(u, to, mine, theirs)
  BY <1>2, <1>5, <1>10, <1>12, <1>13, <1>14, <1>15, <1>16 DEF TwoVotings
<1>18. UndelegateIs(u, to, mine, theirs)
  BY <1>2, <1>4, <1>8, <1>10, <1>11, <1>13, <1>14, <1>17 DEF UndelegateIs, amount
<1> QED BY <1>2, <1>6, <1>9, <1>18 DEF amount
LEMMA InfoType ==
  ASSUME TypeOK, NEW s \in {"Completed", "Killed"}
  PROVE  Info(s, relay_block) \in Infos
BY TypeFacts DEF Info, Infos, ZeroTally

(* The relay chain's votes are those of the last entry for an account.     *)
LEMMA RunVotesType ==
  ASSUME TypeOK, NEW items, DOMAIN items \subseteq Polls,
         \A p \in DOMAIN items : items[p].list \in Seq(DelegatorVoteItems)
  PROVE  RunVotes(items) \in [Polls -> [Derivatives -> Int]]
<1>1. ASSUME NEW p \in Polls, NEW d \in Derivatives
      PROVE  RunVotes(items)[p][d] \in Int
  <2> DEFINE votes == IF p \in DOMAIN items
                      THEN {k \in DOMAIN items[p].list : items[p].list[k].deriv = d} ELSE {}
  <2>1. RunVotes(items)[p][d] =
          IF votes = {} THEN relay[p][d] ELSE Cast(items[p].list[Max(votes)])
    BY DEF RunVotes
  <2>2. relay[p][d] \in Int
    BY DEF TypeOK
  <2>3. ASSUME votes # {} PROVE Cast(items[p].list[Max(votes)]) \in Int
    <3>1. p \in DOMAIN items
      BY <2>3
    <3>2. PICK l \in Seq(DelegatorVoteItems) : l = items[p].list
      BY <3>1
    <3>3. /\ Len(l) \in Nat /\ DOMAIN l = 1..Len(l)
          /\ \A k \in 1..Len(l) : l[k] \in DelegatorVoteItems
      OBVIOUS
    <3>4. votes \in SUBSET (1..Len(l))
      BY <3>2, <3>3
    <3> HIDE DEF votes
    <3>5. votes \in SUBSET Nat /\ \A k \in votes : k <= Len(l)
      BY <3>3, <3>4
    <3>6. Max(votes) \in votes
      BY <2>3, <3>3, <3>5, MaxOfSet
    <3>7. PICK e \in DelegatorVoteItems : e = l[Max(votes)]
      BY <3>3, <3>4, <3>6
    <3>8. Votes(e.conviction, e.balance) \in Nat
      BY VotesType DEF DelegatorVoteItems
    <3>9. Cast(e) \in Int
      <4>1. PICK n \in Nat : n = Votes(e.conviction, e.balance)
        BY <3>8
      <4>2. 1 * n \in Int /\ (-1) * n \in Int
        OBVIOUS
      <4> QED BY <4>1, <4>2 DEF Cast
    <3> QED BY <3>2, <3>7, <3>9
  <2> HIDE DEF votes
  <2> QED BY <2>1, <2>2, <2>3
<1>2. /\ RunVotes(items) = [p \in Polls |-> RunVotes(items)[p]]
      /\ \A p \in Polls : RunVotes(items)[p] = [d \in Derivatives |-> RunVotes(items)[p][d]]
  BY DEF RunVotes
<1>3. \A p \in Polls : RunVotes(items)[p] \in [Derivatives -> Int]
  BY <1>1, <1>2
<1> QED BY <1>2, <1>3

\* A query of either kind.
LEMMA QueryFields ==
  ASSUME TypeOK, NEW q \in DOMAIN PendingQueries
  PROVE  LET query == PendingQueries[q]
         IN /\ query.kind \in {"vote", "remove"}
            /\ query.outcome \in {"sent", "ok", "failed"}
            /\ query.kind = "vote" =>
                 /\ query = [kind |-> "vote", who |-> query.who, outcome |-> query.outcome,
                             items |-> query.items]
                 /\ query.who \in Users /\ DOMAIN query.items \subseteq Polls
                 /\ \A p \in DOMAIN query.items :
                      /\ query.items[p] \in [old : Entries, info : Infos,
                                             list : Seq(DelegatorVoteItems)]
                      /\ query.items[p].old \in Entries /\ query.items[p].info \in Infos
                      /\ query.items[p].list \in Seq(DelegatorVoteItems)
            /\ query.kind = "remove" =>
                 /\ query = [kind |-> "remove", poll |-> query.poll, deriv |-> query.deriv,
                             outcome |-> query.outcome]
                 /\ query.poll \in Polls /\ query.deriv \in Derivatives
<1>1. PICK query : query = PendingQueries[q]
  OBVIOUS
<1>2. IsQuery(query)
  BY <1>1 DEF TypeOK
<1>3. CASE query.kind = "vote"
  <2>1. /\ query = [kind |-> "vote", who |-> query.who, outcome |-> query.outcome,
                    items |-> query.items]
        /\ query.who \in Users /\ DOMAIN query.items \subseteq Polls
        /\ query.outcome \in {"sent", "ok", "failed"}
        /\ \A p \in DOMAIN query.items :
             query.items[p] \in [old : Entries, info : Infos, list : Seq(DelegatorVoteItems)]
    BY <1>2, <1>3 DEF IsQuery
  <2>2. \A i \in [old : Entries, info : Infos, list : Seq(DelegatorVoteItems)] :
          i.old \in Entries /\ i.info \in Infos /\ i.list \in Seq(DelegatorVoteItems)
    OBVIOUS
  <2> QED BY <1>1, <1>3, <2>1, <2>2
<1>4. CASE query.kind # "vote"
  <2>1. query \in [kind : {"remove"}, poll : Polls, deriv : Derivatives,
                   outcome : {"sent", "ok", "failed"}]
    BY <1>2, <1>4 DEF IsQuery
  <2> QED BY <1>1, <1>4, <2>1
<1> QED BY <1>3, <1>4
LEMMA TypeParts ==
  TypeOK <=> /\ block \in 0..MaxBlock /\ QueryTypes /\ OtherTypes /\ HistoryTypes /\ PendingTypes
             /\ ReferendumInfoFor \in [Polls -> Infos]
             /\ VotingFor \in [Users -> Votings] /\ ClassLocksFor \in [Users -> Nat]
BY DEF TypeOK, QueryTypes, OtherTypes, HistoryTypes, PendingTypes

LEMMA CommonVoteType ==
  ASSUME TypeOK, NEW u \in Users, NEW p \in Polls, NEW v \in VoteInputs, common_vote(u, p, v)
  PROVE  TypeOK'
<1>1. PICK vote, tally, after : CommonVoteIs(u, p, v, vote, tally, after)
  BY CommonVote
<1>2. /\ after \in Votings /\ tally \in Tallies
      /\ VotingFor' = [VotingFor EXCEPT ![u] = after]
      /\ ClassLocksFor' = [ClassLocksFor EXCEPT ![u] = locked_vtoken_balance(after)]
      /\ NewQuery(u, {p}, [x \in {p} |-> OldVote(Vote(u, p))]) /\ PendingTypes'
      /\ UNCHANGED <<block, Delegators, DelegatorVotes, ReferendumTimeout, VoteStatus, relay,
                     history>>
  BY <1>1 DEF CommonVoteIs, PendingTypes
<1>3. QueryTypes'
  BY <1>2, NewQueryTypes
<1>4. VotingFor' \in [Users -> Votings]
  BY <1>2, TypeFacts
<1>5. ClassLocksFor' \in [Users -> Nat]
  <2>1. PICK n \in Nat : n = locked_vtoken_balance(after)
    BY <1>2, LockedVotes
  <2> QED BY <1>2, <2>1, TypeFacts
<1>6. ReferendumInfoFor' \in [Polls -> Infos]
  <2>1. PICK at : at = IF Ongoing(p) THEN ReferendumInfoFor[p].at ELSE relay_block
    OBVIOUS
  <2>2. at \in Nat
    BY <2>1, TypeFacts DEF Infos
  <2>3. PICK i : i = [state |-> "Ongoing", tally |-> tally, at |-> at]
    OBVIOUS
  <2>4. i \in Infos
    BY <1>2, <2>2, <2>3 DEF Infos, Tallies
  <2>5. ReferendumInfoFor' = [ReferendumInfoFor EXCEPT ![p] = i]
    BY <1>1, <2>1, <2>3, TypeFacts DEF CommonVoteIs
  <2> QED BY <2>4, <2>5, TypeFacts
<1>7. OtherTypes' /\ HistoryTypes' /\ block' \in 0..MaxBlock
  BY <1>2, TypeParts DEF OtherTypes, HistoryTypes
<1> QED BY <1>2, <1>3, <1>4, <1>5, <1>6, <1>7
  DEF TypeOK, QueryTypes, OtherTypes, HistoryTypes, PendingTypes

LEMMA TwoVotingsType ==
  ASSUME TypeOK, NEW u \in Users, NEW to \in Users, NEW mine, NEW theirs,
         TwoVotings(u, to, mine, theirs)
  PROVE  /\ VotingFor' \in [Users -> Votings]
         /\ VotingFor'[u] = mine /\ VotingFor'[to] = theirs
         /\ \A x \in Users : x # u /\ x # to => VotingFor'[x] = VotingFor[x]
         /\ \A x \in Users : VotingFor'[x].votes = VotingFor[x].votes
         /\ \A x \in Users : x # to => VotingFor'[x].delegations = VotingFor[x].delegations
BY TypeFacts DEF TwoVotings

LEMMA DelegationChangedType ==
  ASSUME TypeOK, NEW to, delegation_changed(to)
  PROVE  HistoryTypes'
BY TypeFacts DEF delegation_changed, HistoryTypes, TypeOK

LEMMA DelegateType ==
  ASSUME TypeOK, NEW u \in Users, NEW to \in Users, NEW conviction \in Convictions,
         NEW vtoken \in Nat, delegate(u, to, conviction, vtoken)
  PROVE  TypeOK'
<1>1. PICK mine, theirs : DelegateIs(u, to, conviction, vtoken, mine, theirs)
  BY Delegate
<1>2. PICK tally, old : UpstreamIs(to, Amount(conviction, vtoken), TRUE, tally, old)
  BY Delegate
<1>3. /\ TwoVotings(u, to, mine, theirs) /\ delegation_changed(to)
      /\ ClassLocksFor' = [ClassLocksFor EXCEPT ![u] = vtoken]
      /\ UNCHANGED <<block, Delegators, DelegatorVotes, ReferendumTimeout, VoteStatus, relay>>
  BY <1>1 DEF DelegateIs
<1>4. QueryTypes' /\ ReferendumInfoFor' \in [Polls -> Infos] /\ PendingTypes'
  BY <1>2, UpstreamTypes
<1>5. VotingFor' \in [Users -> Votings] /\ HistoryTypes'
  BY <1>3, TwoVotingsType, DelegationChangedType
<1>6. ClassLocksFor' \in [Users -> Nat]
  BY <1>3, TypeFacts
<1>7. OtherTypes' /\ block' \in 0..MaxBlock
  BY <1>3, TypeParts DEF OtherTypes
<1> QED BY <1>4, <1>5, <1>6, <1>7
  DEF TypeOK, QueryTypes, OtherTypes, HistoryTypes, PendingTypes

LEMMA UndelegateType ==
  ASSUME TypeOK, DelegatorsIdle, NEW u \in Users, undelegate(u)
  PROVE  TypeOK'
<1> DEFINE amount == Amount(VotingFor[u].conviction, VotingFor[u].balance)
<1>1. PICK to \in Users : /\ \E mine, theirs : UndelegateIs(u, to, mine, theirs)
                          /\ \E tally, old : UpstreamIs(to, amount, FALSE, tally, old)
  BY Undelegate
<1>2. PICK mine, theirs : UndelegateIs(u, to, mine, theirs)
  BY <1>1
<1>3. /\ TwoVotings(u, to, mine, theirs) /\ delegation_changed(to)
      /\ UNCHANGED <<block, ClassLocksFor, Delegators, DelegatorVotes, ReferendumTimeout,
                     VoteStatus, relay>>
  BY <1>2 DEF UndelegateIs
<1>4. QueryTypes' /\ ReferendumInfoFor' \in [Polls -> Infos] /\ PendingTypes'
  <2>1. PICK tally, old : UpstreamIs(to, amount, FALSE, tally, old)
    BY <1>1
  <2> QED BY <2>1, UpstreamTypes
<1>5. VotingFor' \in [Users -> Votings] /\ HistoryTypes'
  BY <1>3, TwoVotingsType, DelegationChangedType
<1>6. OtherTypes' /\ block' \in 0..MaxBlock /\ ClassLocksFor' \in [Users -> Nat]
  BY <1>3, TypeParts DEF OtherTypes
<1> QED BY <1>4, <1>5, <1>6
  DEF TypeOK, QueryTypes, OtherTypes, HistoryTypes, PendingTypes

\* unlock, with and without a poll: the entry update_lock is called with.
LEMMA UnlockIs ==
  ASSUME TypeOK, NEW u \in Users, (\E p \in Polls : unlock_poll(u, p)) \/ unlock_delegation(u)
  PROVE  \E v \in Votings :
           /\ update_lock(u, v)
           /\ v.target = VotingFor[u].target /\ v.balance = VotingFor[u].balance
           /\ v.conviction = VotingFor[u].conviction /\ v.delegations = VotingFor[u].delegations
           /\ \/ v.votes = VotingFor[u].votes
              \/ \E p \in Polls : /\ v.votes = [VotingFor[u].votes EXCEPT ![p] = NoVote]
                                  /\ ReferendumInfoFor[p].state \in {"Completed", "Killed"}
                                  /\ PendingOn(p) = {} /\ VotingFor[u].target = NoOne
           /\ UNCHANGED <<block, ReferendumInfoFor, Delegators, DelegatorVotes,
                          PendingDelegatorVotes, PendingQueries, nextQuery, ReferendumTimeout,
                          VoteStatus, relay, history>>
<1>1. PICK w \in Votings : w = VotingFor[u]
  BY TypeFacts
<1>2. ASSUME unlock_delegation(u) PROVE update_lock(u, w)
  BY <1>1, <1>2 DEF unlock_delegation
<1>3. ASSUME NEW p \in Polls, unlock_poll(u, p), ~Casts(u) PROVE update_lock(u, w)
  BY <1>1, <1>3 DEF unlock_poll
<1>4. ASSUME NEW p \in Polls, unlock_poll(u, p), Casts(u)
      PROVE  \E v \in Votings :
               /\ update_lock(u, v)
               /\ v.target = w.target /\ v.balance = w.balance
               /\ v.conviction = w.conviction /\ v.delegations = w.delegations
               /\ v.votes = [w.votes EXCEPT ![p] = NoVote]
               /\ ReferendumInfoFor[p].state \in {"Completed", "Killed"}
               /\ PendingOn(p) = {} /\ w.target = NoOne
  <2>1. PICK vs \in [Polls -> Entries] : vs = [w.votes EXCEPT ![p] = NoVote]
    BY VotingFields, NoVoteType
  <2>2. PICK v : v = [w EXCEPT !.votes = vs]
    OBVIOUS
  <2>3. v = [w EXCEPT !.votes[p] = NoVote]
    BY <2>1, <2>2
  <2>4. /\ update_lock(u, v) /\ ReferendumInfoFor[p].state \in {"Completed", "Killed"}
        /\ PendingOn(p) = {} /\ w.target = NoOne
    BY <1>1, <1>4, <2>3 DEF unlock_poll, ensure_no_pending_vote, Casts
  <2>5. v = [votes |-> vs, target |-> w.target, balance |-> w.balance,
             conviction |-> w.conviction, delegations |-> w.delegations, prior |-> w.prior]
    BY <2>2, VotingFields
  <2>6. v \in Votings
    BY <2>5, VotingFields DEF Votings
  <2> QED BY <2>1, <2>4, <2>5, <2>6
<1>5. UNCHANGED <<block, ReferendumInfoFor, Delegators, DelegatorVotes, PendingDelegatorVotes,
                  PendingQueries, nextQuery, ReferendumTimeout, VoteStatus, relay, history>>
  BY DEF unlock_poll, unlock_delegation
<1> QED BY <1>1, <1>2, <1>3, <1>4, <1>5

LEMMA UnlockType ==
  ASSUME TypeOK, NEW u \in Users, (\E p \in Polls : unlock_poll(u, p)) \/ unlock_delegation(u)
  PROVE  TypeOK'
<1>1. PICK v \in Votings :
        /\ update_lock(u, v)
        /\ UNCHANGED <<block, ReferendumInfoFor, Delegators, DelegatorVotes,
                       PendingDelegatorVotes, PendingQueries, nextQuery, ReferendumTimeout,
                       VoteStatus, relay, history>>
  BY UnlockIs
<1>2. VotingFor' \in [Users -> Votings] /\ ClassLocksFor' \in [Users -> Nat]
  BY <1>1, UpdateLockIs
<1> QED BY <1>1, <1>2 DEF TypeOK
\* A failed vote, read off notify_vote_failed.
FailedIs(q, query) ==
  /\ q \in DOMAIN PendingQueries /\ query = PendingQueries[q] /\ query.kind = "vote"
  /\ query.who \in Users /\ DOMAIN query.items \subseteq Polls
  /\ \A p \in DOMAIN query.items : /\ query.items[p].old \in Entries
                                   /\ query.items[p].info \in Infos
  /\ \A p \in DOMAIN query.items : CanRollBack(query.who, p, query.items[p])
  /\ PendingDelegatorVotes' = [p \in Polls |-> <<>>]
  /\ ReferendumInfoFor' = [p \in Polls |-> RestoredInfo(p, query.items)]
  /\ RolledBack(query.who, query.items) \in Votings
  /\ update_lock(query.who, RolledBack(query.who, query.items))
  /\ PendingQueries' = Resolved(q)
  /\ history' = [delegated |-> history.delegated \cap {p \in Polls : PendingOn(p)' # {}},
                 skewed |-> history.skewed \cup
                   {p \in DOMAIN query.items : p \in history.delegated \/ ~Ongoing(p)}]
  /\ UNCHANGED <<block, Delegators, DelegatorVotes, nextQuery, ReferendumTimeout, VoteStatus,
                 relay>>

LEMMA Failed ==
  ASSUME TypeOK, NEW q \in DOMAIN PendingQueries, notify_vote_failed(q)
  PROVE  FailedIs(q, PendingQueries[q])
<1>1. PICK query : query = PendingQueries[q]
  OBVIOUS
<1>2. query.kind = "vote"
  BY <1>1 DEF notify_vote_failed
<1>3. /\ query.who \in Users /\ DOMAIN query.items \subseteq Polls
      /\ \A p \in DOMAIN query.items : /\ query.items[p].old \in Entries
                                       /\ query.items[p].info \in Infos
  BY <1>1, <1>2, QueryFields
<1>4. RolledBack(query.who, query.items) \in Votings
  BY <1>3, RolledBackIs
<1>5. /\ \A p \in DOMAIN query.items : CanRollBack(query.who, p, query.items[p])
      /\ PendingDelegatorVotes' = [p \in Polls |-> <<>>]
      /\ ReferendumInfoFor' = [p \in Polls |-> RestoredInfo(p, query.items)]
      /\ update_lock(query.who, RolledBack(query.who, query.items))
      /\ PendingQueries' = Resolved(q)
      /\ history' = [delegated |-> history.delegated \cap {p \in Polls : PendingOn(p)' # {}},
                     skewed |-> history.skewed \cup
                       {p \in DOMAIN query.items : p \in history.delegated \/ ~Ongoing(p)}]
      /\ UNCHANGED <<block, Delegators, DelegatorVotes, nextQuery, ReferendumTimeout, VoteStatus,
                     relay>>
  BY <1>1 DEF notify_vote_failed
<1>6. FailedIs(q, query)
  BY <1>1, <1>2, <1>3, <1>4, <1>5 DEF FailedIs
<1> QED BY <1>1, <1>6

LEMMA FailedType ==
  ASSUME TypeOK, NEW q \in DOMAIN PendingQueries, notify_vote_failed(q)
  PROVE  TypeOK'
<1>1. PICK query : FailedIs(q, query)
  BY Failed
<1>2. QueryTypes'
  BY <1>1, ResolvedTypes DEF FailedIs
<1>3. VotingFor' \in [Users -> Votings] /\ ClassLocksFor' \in [Users -> Nat]
  BY <1>1, UpdateLockIs DEF FailedIs
<1>4. ReferendumInfoFor' \in [Polls -> Infos]
  <2>1. \A p \in Polls : RestoredInfo(p, query.items) \in Infos
    BY <1>1, TypeFacts DEF FailedIs, RestoredInfo
  <2> QED BY <1>1, <2>1 DEF FailedIs
<1>5. HistoryTypes'
  BY <1>1, TypeFacts DEF FailedIs, HistoryTypes
<1>6. PendingTypes' /\ OtherTypes' /\ block' \in 0..MaxBlock
  <2>1. <<>> \in Seq(DelegatorVoteItems)
    OBVIOUS
  <2> QED BY <1>1, <2>1, TypeParts DEF FailedIs, PendingTypes, OtherTypes
<1> QED BY <1>2, <1>3, <1>4, <1>5, <1>6
  DEF TypeOK, QueryTypes, OtherTypes, HistoryTypes, PendingTypes

LEMMA SucceededType ==
  ASSUME TypeOK, NEW q \in DOMAIN PendingQueries, notify_vote_succeeded(q)
  PROVE  TypeOK'
<1>1. PICK query : query = PendingQueries[q]
  OBVIOUS
<1>2. PICK ps : ps = DOMAIN query.items
  OBVIOUS
<1>3. /\ query.kind = "vote"
      /\ DelegatorVotes' = [p \in Polls |-> IF p \in ps THEN PendingDelegatorVotes[p]
                                            ELSE DelegatorVotes[p]]
      /\ PendingDelegatorVotes' = [p \in Polls |-> IF p \in ps THEN <<>>
                                                   ELSE PendingDelegatorVotes[p]]
      /\ ReferendumInfoFor' = [p \in Polls |->
           IF p \in ps /\ Ongoing(p) THEN [ReferendumInfoFor[p] EXCEPT !.at = relay_block]
           ELSE ReferendumInfoFor[p]]
      /\ ReferendumTimeout' = ReferendumTimeout \cup
           {<<relay_block + UndecidingTimeout, p>> : p \in {x \in ps : Ongoing(x)}}
      /\ PendingQueries' = Resolved(q)
      /\ history' = [history EXCEPT !.delegated = @ \cap {p \in Polls : PendingOn(p)' # {}}]
      /\ UNCHANGED <<block, VotingFor, ClassLocksFor, Delegators, nextQuery, VoteStatus, relay>>
  BY <1>1, <1>2 DEF notify_vote_succeeded
<1>4. ps \subseteq Polls
  BY <1>1, <1>2, <1>3, QueryFields
<1>5. QueryTypes'
  BY <1>3, ResolvedTypes
<1>6. ReferendumInfoFor' \in [Polls -> Infos]
  <2>1. \A i \in Infos : [i EXCEPT !.at = relay_block] \in Infos
    BY TypeFacts DEF Infos
  <2>2. \A p \in Polls : ReferendumInfoFor[p] \in Infos
    BY TypeFacts
  <2>3. \A p \in Polls :
          (IF p \in ps /\ Ongoing(p) THEN [ReferendumInfoFor[p] EXCEPT !.at = relay_block]
           ELSE ReferendumInfoFor[p]) \in Infos
    BY <2>1, <2>2
  <2> QED BY <1>3, <2>3
<1>7. PendingTypes' /\ DelegatorVotes' \in [Polls -> Seq(DelegatorVoteItems)]
  <2>1. <<>> \in Seq(DelegatorVoteItems)
    OBVIOUS
  <2>2. /\ PendingDelegatorVotes \in [Polls -> Seq(DelegatorVoteItems)]
        /\ DelegatorVotes \in [Polls -> Seq(DelegatorVoteItems)]
    BY DEF TypeOK
  <2> QED BY <1>3, <2>1, <2>2 DEF PendingTypes
<1>8. ReferendumTimeout' \subseteq Nat \X Polls
  <2>1. relay_block + UndecidingTimeout \in Nat
    BY TypeFacts, Constants
  <2>2. PICK n \in Nat : n = relay_block + UndecidingTimeout
    BY <2>1
  <2>3. {<<n, p>> : p \in {x \in ps : Ongoing(x)}} \subseteq Nat \X Polls
    BY <1>4
  <2>4. ReferendumTimeout' = ReferendumTimeout \cup {<<n, p>> : p \in {x \in ps : Ongoing(x)}}
    BY <1>3, <2>2
  <2> QED BY <2>3, <2>4 DEF TypeOK
<1>9. OtherTypes'
  BY <1>3, <1>7, <1>8, TypeParts DEF OtherTypes
<1>10. HistoryTypes'
  BY <1>3 DEF HistoryTypes, TypeOK
<1>11. block' \in 0..MaxBlock /\ VotingFor' \in [Users -> Votings]
       /\ ClassLocksFor' \in [Users -> Nat]
  BY <1>3 DEF TypeOK
<1> QED BY <1>5, <1>6, <1>7, <1>9, <1>10, <1>11
  DEF TypeOK, QueryTypes, OtherTypes, HistoryTypes, PendingTypes

LEMMA RemoveType ==
  ASSUME TypeOK, NEW p \in Polls, NEW d \in Derivatives, remove_delegator_vote(p, d)
  PROVE  TypeOK'
<1>1. PICK query : query = [kind |-> "remove", poll |-> p, deriv |-> d, outcome |-> "sent"]
  OBVIOUS
<1>2. /\ nextQuery < MaxQueries /\ nextQuery' = nextQuery + 1
      /\ PendingQueries' = [q \in DOMAIN PendingQueries \cup {nextQuery} |->
                              IF q = nextQuery THEN query ELSE PendingQueries[q]]
      /\ UNCHANGED <<block, ReferendumInfoFor, VotingFor, ClassLocksFor, Delegators,
                     DelegatorVotes, PendingDelegatorVotes, ReferendumTimeout, VoteStatus, relay,
                     history>>
  BY <1>1 DEF remove_delegator_vote
<1>3. QueryTypes'
  <2>1. /\ nextQuery \in 0..MaxQueries /\ DOMAIN PendingQueries \subseteq 0..(nextQuery - 1)
        /\ \A q \in DOMAIN PendingQueries : IsQuery(PendingQueries[q])
    BY DEF TypeOK
  <2>2. DOMAIN PendingQueries' = DOMAIN PendingQueries \cup {nextQuery}
    BY <1>2
  <2>3. nextQuery' \in 0..MaxQueries /\ DOMAIN PendingQueries' \subseteq 0..(nextQuery' - 1)
    BY <1>2, <2>1, <2>2, Constants
  <2>4. IsQuery(query)
    BY <1>1 DEF IsQuery
  <2>5. \A q \in DOMAIN PendingQueries' : IsQuery(PendingQueries'[q])
    BY <1>2, <2>1, <2>4
  <2> QED BY <2>3, <2>5 DEF QueryTypes
<1> QED BY <1>2, <1>3 DEF TypeOK, QueryTypes

LEMMA NotifyRemoveType ==
  ASSUME TypeOK, NEW q \in DOMAIN PendingQueries, notify_remove_delegator_vote(q)
  PROVE  TypeOK'
<1>1. PICK query : query = PendingQueries[q]
  OBVIOUS
<1>2. /\ query.kind = "remove"
      /\ DelegatorVotes' = IF query.outcome = "ok" THEN [DelegatorVotes EXCEPT ![query.poll] = <<>>]
                           ELSE DelegatorVotes
      /\ PendingQueries' = Resolved(q)
      /\ UNCHANGED <<block, ReferendumInfoFor, VotingFor, ClassLocksFor, Delegators,
                     PendingDelegatorVotes, nextQuery, ReferendumTimeout, VoteStatus, relay,
                     history>>
  BY <1>1 DEF notify_remove_delegator_vote
<1>3. QueryTypes'
  BY <1>2, ResolvedTypes
<1>4. DelegatorVotes' \in [Polls -> Seq(DelegatorVoteItems)]
  <2>1. DelegatorVotes \in [Polls -> Seq(DelegatorVoteItems)] /\ <<>> \in Seq(DelegatorVoteItems)
    BY DEF TypeOK
  <2> QED BY <1>2, <2>1
<1> QED BY <1>2, <1>3, <1>4 DEF TypeOK, QueryTypes

\* The relay chain only decides the outcome of a query.
RunIs(q) ==
  /\ DOMAIN PendingQueries' = DOMAIN PendingQueries
  /\ \A r \in DOMAIN PendingQueries \ {q} : PendingQueries'[r] = PendingQueries[r]
  /\ PendingQueries'[q].kind = PendingQueries[q].kind
  /\ PendingQueries[q].kind = "vote" =>
       /\ PendingQueries'[q].who = PendingQueries[q].who
       /\ PendingQueries'[q].items = PendingQueries[q].items

LEMMA RunType ==
  ASSUME TypeOK, NEW q \in DOMAIN PendingQueries, NEW ok \in BOOLEAN, relay_runs(q, ok)
  PROVE  TypeOK' /\ RunIs(q)
<1>1. PICK query : query = PendingQueries[q]
  OBVIOUS
<1>2. PICK outcome \in {"ok", "failed"} : outcome = IF ok THEN "ok" ELSE "failed"
  OBVIOUS
<1>3. PICK answer : answer = [query EXCEPT !.outcome = outcome]
  OBVIOUS
<1>4. /\ PendingQueries' = [PendingQueries EXCEPT ![q].outcome = outcome]
      /\ relay' = IF ~ok THEN relay
                  ELSE IF query.kind = "vote" THEN RunVotes(query.items)
                  ELSE [relay EXCEPT ![query.poll][query.deriv] = 0]
      /\ UNCHANGED <<block, ReferendumInfoFor, VotingFor, ClassLocksFor, Delegators,
                     DelegatorVotes, PendingDelegatorVotes, nextQuery, ReferendumTimeout,
                     VoteStatus, history>>
  BY <1>1, <1>2 DEF relay_runs
<1>5. /\ DOMAIN PendingQueries' = DOMAIN PendingQueries /\ PendingQueries'[q] = answer
      /\ \A r \in DOMAIN PendingQueries \ {q} : PendingQueries'[r] = PendingQueries[r]
  BY <1>1, <1>3, <1>4
<1>6. IsQuery(answer) /\ answer.kind = query.kind
      /\ (query.kind = "vote" => answer.who = query.who /\ answer.items = query.items)
  <2>1. CASE query.kind = "vote"
    <3>1. /\ query = [kind |-> "vote", who |-> query.who, outcome |-> query.outcome,
                      items |-> query.items]
          /\ query.who \in Users /\ DOMAIN query.items \subseteq Polls
          /\ \A p \in DOMAIN query.items :
               query.items[p] \in [old : Entries, info : Infos, list : Seq(DelegatorVoteItems)]
      BY <1>1, <2>1, QueryFields
    <3>2. answer = [kind |-> "vote", who |-> query.who, outcome |-> outcome, items |-> query.items]
      BY <1>3, <3>1
    <3> QED BY <2>1, <3>1, <3>2 DEF IsQuery
  <2>2. CASE query.kind = "remove"
    <3>1. /\ query = [kind |-> "remove", poll |-> query.poll, deriv |-> query.deriv,
                      outcome |-> query.outcome]
          /\ query.poll \in Polls /\ query.deriv \in Derivatives
      BY <1>1, <2>2, QueryFields
    <3>2. answer = [kind |-> "remove", poll |-> query.poll, deriv |-> query.deriv,
                    outcome |-> outcome]
      BY <1>3, <3>1
    <3> QED BY <2>2, <3>1, <3>2 DEF IsQuery
  <2> QED BY <1>1, <2>1, <2>2, QueryFields
<1>7. QueryTypes'
  BY <1>4, <1>5, <1>6, QueryTypeFacts DEF QueryTypes
<1>8. relay' \in [Polls -> [Derivatives -> Int]]
  <2>1. CASE query.kind = "vote"
    <3>1. RunVotes(query.items) \in [Polls -> [Derivatives -> Int]]
      BY <1>1, <2>1, QueryFields, RunVotesType
    <3> QED BY <1>4, <2>1, <3>1 DEF TypeOK
  <2>2. CASE query.kind = "remove"
    <3>1. query.poll \in Polls /\ query.deriv \in Derivatives
      BY <1>1, <2>2, QueryFields
    <3> QED BY <1>4, <2>2, <3>1 DEF TypeOK
  <2> QED BY <1>1, <2>1, <2>2, QueryFields
<1>9. RunIs(q)
  BY <1>1, <1>5, <1>6 DEF RunIs
<1> QED BY <1>4, <1>7, <1>8, <1>9 DEF TypeOK, QueryTypes
-----------------------------------------------------------------------------
\* The actions of blocks and governance: a referendum is over, or as before.
GovernanceIs ==
  /\ block' \in 0..MaxBlock
  /\ \A p \in Polls : \/ ReferendumInfoFor'[p] = ReferendumInfoFor[p]
                      \/ ReferendumInfoFor'[p].state \in {"Completed", "Killed"}
  /\ UNCHANGED <<VotingFor, ClassLocksFor, DelegatorVotes, PendingDelegatorVotes, PendingQueries,
                 nextQuery, relay, history>>

LEMMA OverIs ==
  ASSUME TypeOK, NEW ps, over_referendum_info_for(ps)
  PROVE  /\ ReferendumInfoFor' \in [Polls -> Infos]
         /\ \A p \in Polls : \/ ReferendumInfoFor'[p] = ReferendumInfoFor[p]
                             \/ ReferendumInfoFor'[p].state \in {"Completed", "Killed"}
<1>1. PICK i \in Infos : i = Info("Completed", relay_block)
  BY InfoType
<1>2. i.state = "Completed"
  BY <1>1 DEF Info
<1>3. ReferendumInfoFor' = [p \in Polls |-> IF p \in ps /\ Ongoing(p) THEN i ELSE ReferendumInfoFor[p]]
  BY <1>1 DEF over_referendum_info_for
<1> QED BY <1>2, <1>3, TypeFacts

LEMMA SetInfoIs ==
  ASSUME TypeOK, NEW p \in Polls, NEW s \in {"Completed", "Killed"}, set_info(p, Info(s, relay_block))
  PROVE  TypeOK' /\ GovernanceIs
<1>1. PICK i \in Infos : i = Info(s, relay_block)
  BY InfoType
<1>2. i.state = s
  BY <1>1 DEF Info
<1>3. /\ ReferendumInfoFor' = [ReferendumInfoFor EXCEPT ![p] = i]
      /\ UNCHANGED <<block, VotingFor, ClassLocksFor, Delegators, DelegatorVotes,
                     PendingDelegatorVotes, PendingQueries, nextQuery, ReferendumTimeout,
                     VoteStatus, relay, history>>
  BY <1>1 DEF set_info
<1>4. /\ ReferendumInfoFor' \in [Polls -> Infos]
      /\ \A x \in Polls : \/ ReferendumInfoFor'[x] = ReferendumInfoFor[x]
                          \/ ReferendumInfoFor'[x].state \in {"Completed", "Killed"}
  BY <1>2, <1>3, TypeFacts
<1> QED BY <1>3, <1>4 DEF TypeOK, GovernanceIs

LEMMA GovernanceStep ==
  ASSUME TypeOK, Governance \/ \E served \in SUBSET ReferendumTimeout : on_idle(served)
  PROVE  TypeOK' /\ GovernanceIs
<1>1. ASSUME NEW d \in Derivatives, add_delegator(d) PROVE TypeOK' /\ GovernanceIs
  <2>1. Delegators' \in Seq(Derivatives)
    BY <1>1 DEF add_delegator, TypeOK
  <2>2. UNCHANGED <<block, ReferendumInfoFor, VotingFor, ClassLocksFor, DelegatorVotes,
                    PendingDelegatorVotes, PendingQueries, nextQuery, ReferendumTimeout,
                    VoteStatus, relay, history>>
    BY <1>1 DEF add_delegator
  <2> QED BY <2>1, <2>2 DEF TypeOK, GovernanceIs
<1>2. ASSUME NEW p \in Polls, NEW s \in VoteStatuses, update_referendum_vote_status(p, s)
      PROVE  TypeOK' /\ GovernanceIs
  <2>1. /\ VoteStatus' = [VoteStatus EXCEPT ![p] = s]
        /\ over_referendum_info_for({p}) \/ UNCHANGED ReferendumInfoFor
        /\ UNCHANGED <<block, VotingFor, ClassLocksFor, Delegators, DelegatorVotes,
                       PendingDelegatorVotes, PendingQueries, nextQuery, ReferendumTimeout,
                       relay, history>>
    BY <1>2 DEF update_referendum_vote_status
  <2>2. VoteStatus' \in [Polls -> {"Approved", "Rejected", "None", "Ongoing"}]
    BY <2>1, Constants DEF TypeOK
  <2>3. /\ ReferendumInfoFor' \in [Polls -> Infos]
        /\ \A x \in Polls : \/ ReferendumInfoFor'[x] = ReferendumInfoFor[x]
                            \/ ReferendumInfoFor'[x].state \in {"Completed", "Killed"}
    BY <2>1, OverIs, TypeFacts
  <2> QED BY <2>1, <2>2, <2>3 DEF TypeOK, GovernanceIs
<1>3. ASSUME NEW p \in Polls, kill_referendum(p) PROVE TypeOK' /\ GovernanceIs
  BY <1>3, SetInfoIs DEF kill_referendum
<1>4. ASSUME NEW p \in Polls, NEW s \in {"Completed", "Killed"}, set_referendum_status(p, s)
      PROVE  TypeOK' /\ GovernanceIs
  BY <1>4, SetInfoIs DEF set_referendum_status
<1>5. ASSUME NEW served \in SUBSET ReferendumTimeout, on_idle(served)
      PROVE  TypeOK' /\ GovernanceIs
  <2>1. PICK ps : ps = {t[2] : t \in served}
    OBVIOUS
  <2>2. /\ over_referendum_info_for(ps) /\ block < MaxBlock /\ block' = block + 1
        /\ ReferendumTimeout' = ReferendumTimeout \ served
        /\ UNCHANGED <<VotingFor, ClassLocksFor, Delegators, DelegatorVotes,
                       PendingDelegatorVotes, PendingQueries, nextQuery, VoteStatus, relay,
                       history>>
    BY <1>5, <2>1 DEF on_idle
  <2>3. block' \in 0..MaxBlock
    BY <2>2, Constants DEF TypeOK
  <2>4. /\ ReferendumInfoFor' \in [Polls -> Infos]
        /\ \A x \in Polls : \/ ReferendumInfoFor'[x] = ReferendumInfoFor[x]
                            \/ ReferendumInfoFor'[x].state \in {"Completed", "Killed"}
    BY <2>2, OverIs
  <2> QED BY <2>2, <2>3, <2>4 DEF TypeOK, GovernanceIs
<1> QED BY <1>1, <1>2, <1>3, <1>4, <1>5 DEF Governance

LEMMA TypeInit == ASSUME Init PROVE TypeOK
<1>1. NoInfo \in Infos
  BY DEF NoInfo, Infos, ZeroTally
<1>2. [votes |-> [p \in Polls |-> NoVote], target |-> NoOne, balance |-> 0, conviction |-> 0,
       delegations |-> [votes |-> 0, capital |-> 0], prior |-> [until |-> 0, amount |-> 0]] \in Votings
  <2>1. PICK n \in Entries : n = NoVote
    BY NoVoteType
  <2>2. PICK vs \in [Polls -> Entries] : vs = [p \in Polls |-> NoVote]
    BY <2>1
  <2>3. 0 \in Convictions /\ [votes |-> 0, capital |-> 0] \in Delegations
        /\ [until |-> 0, amount |-> 0] \in [until : Nat, amount : Nat]
    BY DEF Convictions, Delegations
  <2> QED BY <2>2, <2>3 DEF Votings
<1>3. VotingFor \in [Users -> Votings]
  BY <1>2 DEF Init
<1>4. DOMAIN PendingQueries = {}
  BY DEF Init
<1>5. block \in 0..MaxBlock /\ nextQuery \in 0..MaxQueries
  BY Constants DEF Init
<1>6. ReferendumInfoFor \in [Polls -> Infos] /\ ClassLocksFor \in [Users -> Nat]
  BY <1>1 DEF Init
<1>7. OtherTypes /\ PendingTypes /\ HistoryTypes
  BY Constants DEF Init, OtherTypes, PendingTypes, HistoryTypes
<1> QED BY <1>3, <1>4, <1>5, <1>6, <1>7, TypeParts DEF QueryTypes

LEMMA TypeStep ==
  ASSUME TypeOK, DelegatorsIdle, [Next]_vars
  PROVE  TypeOK'
<1>1. CASE Calls
  <2>1. ASSUME NEW u \in Users, NEW to \in Users, NEW i \in DelegateInputs,
               delegate(u, to, i[1], i[2])
        PROVE  TypeOK'
    <3>1. i[1] \in Convictions /\ i[2] \in Nat
      BY Constants
    <3> QED BY <2>1, <3>1, DelegateType
  <2> QED BY <1>1, <2>1, CommonVoteType, UndelegateType, UnlockType, RemoveType DEF Calls
<1>2. CASE Answers
  BY <1>2, RunType, FailedType, SucceededType, NotifyRemoveType DEF Answers
<1>3. CASE Governance \/ \E served \in SUBSET ReferendumTimeout : on_idle(served)
  BY <1>3, GovernanceStep
<1>4. CASE UNCHANGED vars
  BY <1>4 DEF vars, TypeOK
<1> QED BY <1>1, <1>2, <1>3, <1>4 DEF Next
-----------------------------------------------------------------------------
(* Locks: every user's lock covers what that user has in place.            *)
UserOK(u) ==
  /\ Casts(u) => \A p \in Polls : ClassLocksFor[u] >= Vote(u, p).vtoken
  /\ ~Casts(u) => /\ ClassLocksFor[u] >= VotingFor[u].balance
                  /\ VotingFor[u].target # u /\ \A p \in Polls : Vote(u, p) = NoVote

LEMMA UsersOK == LocksCover /\ DelegatorsIdle <=> \A u \in Users : UserOK(u)
BY DEF LocksCover, DelegatorsIdle, UserOK, Vote

LEMMA UserSame ==
  ASSUME NEW u \in Users, UserOK(u),
         VotingFor'[u].votes = VotingFor[u].votes, VotingFor'[u].target = VotingFor[u].target,
         VotingFor'[u].balance = VotingFor[u].balance, ClassLocksFor'[u] = ClassLocksFor[u]
  PROVE  UserOK(u)'
BY DEF UserOK, Casts, Vote

LEMMA UpdateLockUsers ==
  ASSUME TypeOK, NEW u \in Users, NEW v \in Votings, update_lock(u, v),
         \A x \in Users : UserOK(x),
         v.target = VotingFor[u].target, v.target # NoOne => v.votes = VotingFor[u].votes
  PROVE  \A x \in Users : UserOK(x)'
<1>1. /\ VotingFor' \in [Users -> Votings] /\ ClassLocksFor' \in [Users -> Nat]
      /\ \A x \in Users \ {u} : VotingFor'[x] = VotingFor[x] /\ ClassLocksFor'[x] = ClassLocksFor[x]
      /\ VotingFor'[u].votes = v.votes /\ VotingFor'[u].target = v.target
      /\ VotingFor'[u].balance = v.balance
      /\ v.target = NoOne => \A p \in Polls : v.votes[p].vtoken <= ClassLocksFor'[u]
      /\ v.target # NoOne => v.balance <= ClassLocksFor'[u]
  BY UpdateLockIs
<1>2. ASSUME NEW x \in Users \ {u} PROVE UserOK(x)'
  BY <1>1, UserSame
<1>3. UserOK(u)'
  <2>1. /\ ClassLocksFor'[u] \in Nat /\ v.balance \in Nat
        /\ \A p \in Polls : v.votes[p].vtoken \in Nat
    BY <1>1, VotingFields DEF Entries
  <2>2. UserOK(u)
    OBVIOUS
  <2> QED BY <1>1, <2>1, <2>2 DEF UserOK, Casts, Vote
<1> QED BY <1>2, <1>3

LEMMA CommonVoteUsers ==
  ASSUME TypeOK, \A x \in Users : UserOK(x),
         NEW u \in Users, NEW p \in Polls, NEW v \in VoteInputs, common_vote(u, p, v)
  PROVE  \A x \in Users : UserOK(x)'
<1>1. PICK vote, tally, after : CommonVoteIs(u, p, v, vote, tally, after)
  BY CommonVote
<1>2. after \in Votings /\ after.target = NoOne
  BY <1>1 DEF CommonVoteIs
<1>3. PICK n \in Nat : n = locked_vtoken_balance(after) /\ \A x \in Polls : after.votes[x].vtoken <= n
  BY <1>2, LockedVotes
<1>4. /\ VotingFor' = [VotingFor EXCEPT ![u] = after]
      /\ ClassLocksFor' = [ClassLocksFor EXCEPT ![u] = n]
  BY <1>1, <1>3 DEF CommonVoteIs
<1>5. /\ VotingFor'[u] = after /\ ClassLocksFor'[u] = n
      /\ \A x \in Users \ {u} : VotingFor'[x] = VotingFor[x] /\ ClassLocksFor'[x] = ClassLocksFor[x]
  BY <1>4, TypeFacts
<1>6. \A x \in Polls : after.votes[x].vtoken \in Nat
  BY <1>2, VotingFields DEF Entries
<1>7. UserOK(u)'
  BY <1>2, <1>3, <1>5, <1>6 DEF UserOK, Casts, Vote
<1>8. ASSUME NEW x \in Users \ {u} PROVE UserOK(x)'
  BY <1>5, UserSame
<1> QED BY <1>7, <1>8

LEMMA DelegateUsers ==
  ASSUME TypeOK, \A x \in Users : UserOK(x),
         NEW u \in Users, NEW to \in Users, NEW conviction \in Convictions, NEW vtoken \in Nat,
         delegate(u, to, conviction, vtoken)
  PROVE  \A x \in Users : UserOK(x)'
<1>1. PICK mine, theirs : DelegateIs(u, to, conviction, vtoken, mine, theirs)
  BY Delegate
<1>2. /\ TwoVotings(u, to, mine, theirs) /\ u # to /\ mine.target = to /\ mine.balance = vtoken
      /\ mine.votes = VotingFor[u].votes /\ theirs.votes = VotingFor[to].votes
      /\ theirs.target = VotingFor[to].target /\ theirs.balance = VotingFor[to].balance
      /\ \A p \in Polls : VotingFor[u].votes[p] = NoVote
      /\ ClassLocksFor' = [ClassLocksFor EXCEPT ![u] = vtoken]
  BY <1>1 DEF DelegateIs, TwoVotings, Vote
<1>3. /\ VotingFor'[u] = mine /\ VotingFor'[to] = theirs
      /\ \A x \in Users : x # u /\ x # to => VotingFor'[x] = VotingFor[x]
  BY <1>2, TwoVotingsType
<1>4. ClassLocksFor'[u] = vtoken /\ \A x \in Users \ {u} : ClassLocksFor'[x] = ClassLocksFor[x]
  BY <1>2, TypeFacts
<1>5. to # NoOne
  BY Constants
<1>6. UserOK(u)'
  BY <1>2, <1>3, <1>4, <1>5 DEF UserOK, Casts, Vote
<1>7. ASSUME NEW x \in Users \ {u} PROVE UserOK(x)'
  BY <1>2, <1>3, <1>4, UserSame
<1> QED BY <1>6, <1>7

LEMMA UndelegateUsers ==
  ASSUME TypeOK, \A x \in Users : UserOK(x), NEW u \in Users, undelegate(u)
  PROVE  \A x \in Users : UserOK(x)'
<1>1. PICK to \in Users : \E mine, theirs : UndelegateIs(u, to, mine, theirs)
  BY UsersOK, Undelegate
<1>2. PICK mine, theirs : UndelegateIs(u, to, mine, theirs)
  BY <1>1
<1>3. /\ TwoVotings(u, to, mine, theirs) /\ u # to /\ mine.target = NoOne
      /\ mine.votes = VotingFor[u].votes /\ theirs.votes = VotingFor[to].votes
      /\ theirs.target = VotingFor[to].target /\ theirs.balance = VotingFor[to].balance
      /\ ClassLocksFor' = ClassLocksFor /\ VotingFor[u].target = to
  BY <1>2 DEF UndelegateIs, TwoVotings
<1>4. /\ VotingFor'[u] = mine /\ VotingFor'[to] = theirs
      /\ \A x \in Users : x # u /\ x # to => VotingFor'[x] = VotingFor[x]
  BY <1>3, TwoVotingsType
<1>5. UserOK(u)'
  <2>1. to # NoOne /\ UserOK(u)
    BY Constants
  <2>2. \A p \in Polls : VotingFor[u].votes[p] = NoVote
    BY <1>3, <2>1 DEF UserOK, Casts, Vote
  <2>3. ClassLocksFor[u] \in Nat /\ NoVote.vtoken = 0
    BY TypeFacts DEF NoVote
  <2> QED BY <1>3, <1>4, <2>2, <2>3 DEF UserOK, Casts, Vote
<1>6. ASSUME NEW x \in Users \ {u} PROVE UserOK(x)'
  BY <1>3, <1>4, UserSame
<1> QED BY <1>5, <1>6

LEMMA UnlockUsers ==
  ASSUME TypeOK, \A x \in Users : UserOK(x),
         NEW u \in Users, (\E p \in Polls : unlock_poll(u, p)) \/ unlock_delegation(u)
  PROVE  \A x \in Users : UserOK(x)'
<1>1. PICK v \in Votings :
        /\ update_lock(u, v) /\ v.target = VotingFor[u].target
        /\ v.target # NoOne => v.votes = VotingFor[u].votes
  BY UnlockIs, ZenonT(60)
<1> QED BY <1>1, UpdateLockUsers

LEMMA FailedUsers ==
  ASSUME TypeOK, \A x \in Users : UserOK(x), NEW q \in DOMAIN PendingQueries, notify_vote_failed(q)
  PROVE  \A x \in Users : UserOK(x)'
<1>1. PICK query : FailedIs(q, query)
  BY Failed
<1>2. /\ query.who \in Users /\ DOMAIN query.items \subseteq Polls
      /\ \A p \in DOMAIN query.items : query.items[p].old \in Entries
      /\ update_lock(query.who, RolledBack(query.who, query.items))
  BY <1>1 DEF FailedIs
<1>3. PICK v \in Votings :
        /\ v = RolledBack(query.who, query.items) /\ v.target = VotingFor[query.who].target
        /\ v.target # NoOne => v.votes = VotingFor[query.who].votes
  <2>1. PICK r : r = RolledBack(query.who, query.items)
    OBVIOUS
  <2>2. /\ r \in Votings /\ r.target = VotingFor[query.who].target
        /\ VotingFor[query.who].target # NoOne => r = VotingFor[query.who]
    BY <1>2, <2>1, RolledBackIs
  <2> QED BY <2>1, <2>2
<1> QED BY <1>2, <1>3, UpdateLockUsers

LEMMA UsersStep ==
  ASSUME TypeOK, LocksCover, DelegatorsIdle, [Next]_vars
  PROVE  LocksCover' /\ DelegatorsIdle'
<1>0. \A x \in Users : UserOK(x)
  BY UsersOK
<1>1. SUFFICES \A x \in Users : UserOK(x)'
  BY DEF LocksCover, DelegatorsIdle, UserOK, Vote
<1>2. CASE Calls
  <2>1. ASSUME NEW u \in Users, NEW to \in Users, NEW i \in DelegateInputs,
               delegate(u, to, i[1], i[2])
        PROVE  \A x \in Users : UserOK(x)'
    <3>1. i[1] \in Convictions /\ i[2] \in Nat
      BY Constants
    <3> QED BY <1>0, <2>1, <3>1, DelegateUsers
  <2>2. ASSUME NEW p \in Polls, NEW d \in Derivatives, remove_delegator_vote(p, d)
        PROVE  \A x \in Users : UserOK(x)'
    BY <1>0, <2>2, UserSame DEF remove_delegator_vote
  <2> QED BY <1>0, <1>2, <2>1, <2>2, CommonVoteUsers, UndelegateUsers, UnlockUsers DEF Calls
<1>3. CASE Answers
  <2>1. CASE UNCHANGED <<VotingFor, ClassLocksFor>>
    BY <1>0, <2>1, UserSame
  <2>2. ASSUME NEW q \in DOMAIN PendingQueries, ~notify_vote_failed(q),
               \/ \E ok \in BOOLEAN : relay_runs(q, ok)
               \/ notify_vote_succeeded(q) \/ notify_remove_delegator_vote(q)
        PROVE  UNCHANGED <<VotingFor, ClassLocksFor>>
    BY <2>2 DEF relay_runs, notify_vote_succeeded, notify_remove_delegator_vote
  <2> QED BY <1>0, <1>3, <2>1, <2>2, FailedUsers DEF Answers
<1>4. CASE Governance \/ \E served \in SUBSET ReferendumTimeout : on_idle(served)
  BY <1>0, <1>4, GovernanceStep, UserSame DEF GovernanceIs
<1>5. CASE UNCHANGED vars
  BY <1>0, <1>5, UserSame DEF vars
<1> QED BY <1>2, <1>3, <1>4, <1>5 DEF Next
-----------------------------------------------------------------------------
(* Delegations: what a user is credited with is what others delegate.      *)

\* The terms of the sums in Received, as functions of the entries vf.
Given(vf, d, u) == IF vf[d].target = u THEN Amount(vf[d].conviction, vf[d].balance)
                   ELSE [votes |-> 0, capital |-> 0]
ReceivedVotes(vf, u) == SumFunctionOnSet([d \in Users |-> Given(vf, d, u).votes], Users)
ReceivedCapital(vf, u) == SumFunctionOnSet([d \in Users |-> Given(vf, d, u).capital], Users)
ReceivedIn(vf, u) == [votes |-> ReceivedVotes(vf, u), capital |-> ReceivedCapital(vf, u)]

LEMMA ReceivedIs ==
  /\ DelegationsAgree <=> \A u \in Users : VotingFor[u].delegations = ReceivedIn(VotingFor, u)
  /\ DelegationsAgree' <=> \A u \in Users : VotingFor'[u].delegations = ReceivedIn(VotingFor', u)
BY DEF DelegationsAgree, Received, ReceivedIn, ReceivedVotes, ReceivedCapital, Given

LEMMA GivenType ==
  ASSUME NEW vf \in [Users -> Votings], NEW d \in Users, NEW u
  PROVE  Given(vf, d, u) \in Delegations
<1>1. PICK v \in Votings : v = vf[d]
  OBVIOUS
<1>2. Amount(v.conviction, v.balance) \in Delegations
  BY AmountType, VotingFields
<1>3. [votes |-> 0, capital |-> 0] \in Delegations
  BY DEF Delegations
<1> QED BY <1>1, <1>2, <1>3 DEF Given

LEMMA ReceivedSame ==
  ASSUME NEW vf, NEW wf,
         \A d \in Users : /\ wf[d].target = vf[d].target /\ wf[d].balance = vf[d].balance
                          /\ wf[d].conviction = vf[d].conviction
  PROVE  \A u \in Users : ReceivedIn(wf, u) = ReceivedIn(vf, u)
<1> TAKE u \in Users
<1>1. \A d \in Users : Given(wf, d, u) = Given(vf, d, u)
  BY DEF Given
<1>2. /\ [d \in Users |-> Given(wf, d, u).votes] = [d \in Users |-> Given(vf, d, u).votes]
      /\ [d \in Users |-> Given(wf, d, u).capital] = [d \in Users |-> Given(vf, d, u).capital]
  BY <1>1
<1> QED BY <1>2 DEF ReceivedIn, ReceivedVotes, ReceivedCapital

\* When one user's delegation changes.
LEMMA ReceivedUpdate ==
  ASSUME NEW vf \in [Users -> Votings], NEW wf \in [Users -> Votings], NEW k \in Users,
         \A d \in Users \ {k} : /\ wf[d].target = vf[d].target /\ wf[d].balance = vf[d].balance
                                /\ wf[d].conviction = vf[d].conviction,
         NEW u \in Users
  PROVE  /\ ReceivedVotes(vf, u) \in Nat /\ ReceivedCapital(vf, u) \in Nat
         /\ Given(vf, k, u).votes <= ReceivedVotes(vf, u)
         /\ Given(vf, k, u).capital <= ReceivedCapital(vf, u)
         /\ ReceivedVotes(wf, u) =
              ReceivedVotes(vf, u) + (Given(wf, k, u).votes - Given(vf, k, u).votes)
         /\ ReceivedCapital(wf, u) =
              ReceivedCapital(vf, u) + (Given(wf, k, u).capital - Given(vf, k, u).capital)
<1>0. IsFiniteSet(Users)
  BY Constants
<1>1. PICK f, g : f = [d \in Users |-> Given(vf, d, u).votes] /\ g = [d \in Users |-> Given(wf, d, u).votes]
  OBVIOUS
<1>2. PICK c, e : c = [d \in Users |-> Given(vf, d, u).capital] /\ e = [d \in Users |-> Given(wf, d, u).capital]
  OBVIOUS
<1>3. \A d \in Users : Given(vf, d, u) \in Delegations /\ Given(wf, d, u) \in Delegations
  BY GivenType
<1>4. \A d \in Users : /\ f[d] = Given(vf, d, u).votes /\ g[d] = Given(wf, d, u).votes
                       /\ c[d] = Given(vf, d, u).capital /\ e[d] = Given(wf, d, u).capital
  BY <1>1, <1>2
<1>5. \A d \in Users : f[d] \in Nat /\ g[d] \in Nat /\ c[d] \in Nat /\ e[d] \in Nat
  BY <1>3, <1>4 DEF Delegations
<1>6. \A d \in Users : d # k => Given(wf, d, u) = Given(vf, d, u)
  BY DEF Given
<1>7. \A d \in Users : d # k => f[d] = g[d] /\ c[d] = e[d]
  BY <1>4, <1>6
<1>8. SumFunctionOnSet(f, Users) \in Nat /\ f[k] <= SumFunctionOnSet(f, Users)
  BY <1>0, <1>5, SetSumNat
<1>9. SumFunctionOnSet(c, Users) \in Nat /\ c[k] <= SumFunctionOnSet(c, Users)
  BY <1>0, <1>5, SetSumNat
<1>10. SumFunctionOnSet(g, Users) = SumFunctionOnSet(f, Users) + (g[k] - f[k])
  BY <1>0, <1>5, <1>7, SetSumUpdate
<1>11. SumFunctionOnSet(e, Users) = SumFunctionOnSet(c, Users) + (e[k] - c[k])
  BY <1>0, <1>5, <1>7, SetSumUpdate
<1>12. /\ ReceivedVotes(vf, u) = SumFunctionOnSet(f, Users)
       /\ ReceivedVotes(wf, u) = SumFunctionOnSet(g, Users)
       /\ ReceivedCapital(vf, u) = SumFunctionOnSet(c, Users)
       /\ ReceivedCapital(wf, u) = SumFunctionOnSet(e, Users)
  BY <1>1, <1>2 DEF ReceivedVotes, ReceivedCapital
<1> QED BY <1>4, <1>8, <1>9, <1>10, <1>11, <1>12

LEMMA DelegateAgree ==
  ASSUME TypeOK, DelegationsAgree,
         NEW u \in Users, NEW to \in Users, NEW conviction \in Convictions, NEW vtoken \in Nat,
         delegate(u, to, conviction, vtoken)
  PROVE  DelegationsAgree'
<1>1. PICK mine, theirs : DelegateIs(u, to, conviction, vtoken, mine, theirs)
  BY Delegate
<1>2. /\ TwoVotings(u, to, mine, theirs) /\ u # to /\ VotingFor[u].target = NoOne
      /\ mine.target = to /\ mine.balance = vtoken /\ mine.conviction = conviction
      /\ mine.delegations = VotingFor[u].delegations
      /\ theirs.target = VotingFor[to].target /\ theirs.balance = VotingFor[to].balance
      /\ theirs.conviction = VotingFor[to].conviction
      /\ theirs.delegations = AddTo(VotingFor[to].delegations, Amount(conviction, vtoken))
  BY <1>1 DEF DelegateIs, TwoVotings
<1>3. PICK vf, wf : vf = VotingFor /\ wf = VotingFor'
  OBVIOUS
<1>4. vf \in [Users -> Votings] /\ wf \in [Users -> Votings]
  BY <1>2, <1>3, TypeFacts, TwoVotingsType
<1>5. /\ wf[u] = mine /\ wf[to] = theirs /\ \A x \in Users : x # u /\ x # to => wf[x] = vf[x]
  BY <1>2, <1>3, TwoVotingsType
<1>6. \A d \in Users \ {u} : /\ wf[d].target = vf[d].target /\ wf[d].balance = vf[d].balance
                             /\ wf[d].conviction = vf[d].conviction
  BY <1>2, <1>3, <1>5
<1>7. \A x \in Users : vf[x].delegations = ReceivedIn(vf, x)
  BY <1>3, ReceivedIs
<1>8. PICK a \in Delegations : a = Amount(conviction, vtoken)
  BY AmountType
<1>9. \A x \in Users : x # NoOne
  BY Constants
<1>10. \A x \in Users : /\ Given(vf, u, x) = [votes |-> 0, capital |-> 0]
                        /\ Given(wf, u, x) = IF x = to THEN a ELSE [votes |-> 0, capital |-> 0]
  BY <1>2, <1>3, <1>5, <1>8, <1>9 DEF Given
<1>11. a.votes \in Nat /\ a.capital \in Nat
  BY DEF Delegations
<1>12. ASSUME NEW x \in Users
       PROVE  ReceivedIn(wf, x) = IF x = to THEN AddTo(ReceivedIn(vf, x), a) ELSE ReceivedIn(vf, x)
  <2>1. /\ ReceivedVotes(vf, x) \in Nat /\ ReceivedCapital(vf, x) \in Nat
        /\ ReceivedVotes(wf, x) =
             ReceivedVotes(vf, x) + (Given(wf, u, x).votes - Given(vf, u, x).votes)
        /\ ReceivedCapital(wf, x) =
             ReceivedCapital(vf, x) + (Given(wf, u, x).capital - Given(vf, u, x).capital)
    BY <1>4, <1>6, ReceivedUpdate, SMTT(30)
  <2>2. /\ ReceivedVotes(wf, x) = ReceivedVotes(vf, x) + (IF x = to THEN a.votes ELSE 0)
        /\ ReceivedCapital(wf, x) = ReceivedCapital(vf, x) + (IF x = to THEN a.capital ELSE 0)
    BY <1>10, <1>11, <2>1
  <2> QED BY <2>1, <2>2 DEF ReceivedIn, AddTo
<1>13. \A x \in Users : wf[x].delegations = IF x = to THEN AddTo(vf[x].delegations, a) ELSE vf[x].delegations
  BY <1>2, <1>3, <1>5, <1>8
<1>14. \A x \in Users : wf[x].delegations = ReceivedIn(wf, x)
  BY <1>7, <1>12, <1>13
<1> QED BY <1>3, <1>14, ReceivedIs

LEMMA UndelegateAgree ==
  ASSUME TypeOK, DelegationsAgree, DelegatorsIdle, NEW u \in Users, undelegate(u)
  PROVE  DelegationsAgree'
<1>1. PICK to \in Users : /\ \E mine, theirs : UndelegateIs(u, to, mine, theirs)
                          /\ Amount(VotingFor[u].conviction, VotingFor[u].balance) \in Delegations
  BY Undelegate
<1>2. PICK mine, theirs : UndelegateIs(u, to, mine, theirs)
  BY <1>1
<1>3. PICK vf, wf : vf = VotingFor /\ wf = VotingFor'
  OBVIOUS
<1>4. PICK a \in Delegations : a = Amount(vf[u].conviction, vf[u].balance)
  BY <1>1, <1>3
<1>5. /\ TwoVotings(u, to, mine, theirs) /\ u # to /\ vf[u].target = to
      /\ mine.target = NoOne /\ mine.delegations = vf[u].delegations
      /\ theirs.target = vf[to].target /\ theirs.balance = vf[to].balance
      /\ theirs.conviction = vf[to].conviction
      /\ theirs.delegations = SubFrom(vf[to].delegations, a)
  BY <1>2, <1>3, <1>4 DEF UndelegateIs, TwoVotings
<1>6. vf \in [Users -> Votings] /\ wf \in [Users -> Votings]
  BY <1>3, <1>5, TypeFacts, TwoVotingsType
<1>7. /\ wf[u] = mine /\ wf[to] = theirs /\ \A x \in Users : x # u /\ x # to => wf[x] = vf[x]
  BY <1>3, <1>5, TwoVotingsType
<1>8. \A d \in Users \ {u} : /\ wf[d].target = vf[d].target /\ wf[d].balance = vf[d].balance
                             /\ wf[d].conviction = vf[d].conviction
  BY <1>5, <1>7
<1>9. \A x \in Users : vf[x].delegations = ReceivedIn(vf, x)
  BY <1>3, ReceivedIs
<1>10. \A x \in Users : x # NoOne
  BY Constants
<1>11. \A x \in Users : /\ Given(vf, u, x) = IF x = to THEN a ELSE [votes |-> 0, capital |-> 0]
                        /\ Given(wf, u, x) = [votes |-> 0, capital |-> 0]
  BY <1>4, <1>5, <1>7, <1>10 DEF Given
<1>12. a.votes \in Nat /\ a.capital \in Nat
  BY DEF Delegations
<1>13. ASSUME NEW x \in Users
       PROVE  ReceivedIn(wf, x) = IF x = to THEN SubFrom(ReceivedIn(vf, x), a) ELSE ReceivedIn(vf, x)
  <2>1. /\ ReceivedVotes(vf, x) \in Nat /\ ReceivedCapital(vf, x) \in Nat
        /\ Given(vf, u, x).votes <= ReceivedVotes(vf, x)
        /\ Given(vf, u, x).capital <= ReceivedCapital(vf, x)
        /\ ReceivedVotes(wf, x) =
             ReceivedVotes(vf, x) + (Given(wf, u, x).votes - Given(vf, u, x).votes)
        /\ ReceivedCapital(wf, x) =
             ReceivedCapital(vf, x) + (Given(wf, u, x).capital - Given(vf, u, x).capital)
    BY <1>6, <1>8, ReceivedUpdate
  <2>2. /\ ReceivedVotes(wf, x) =
             IF x = to THEN SatSub(ReceivedVotes(vf, x), a.votes) ELSE ReceivedVotes(vf, x)
        /\ ReceivedCapital(wf, x) =
             IF x = to THEN SatSub(ReceivedCapital(vf, x), a.capital) ELSE ReceivedCapital(vf, x)
    BY <1>11, <1>12, <2>1 DEF SatSub
  <2> QED BY <2>2 DEF ReceivedIn, SubFrom
<1>14. \A x \in Users : wf[x].delegations = IF x = to THEN SubFrom(vf[x].delegations, a) ELSE vf[x].delegations
  BY <1>5, <1>7
<1>15. \A x \in Users : wf[x].delegations = ReceivedIn(wf, x)
  BY <1>9, <1>13, <1>14
<1> QED BY <1>3, <1>15, ReceivedIs

\* The steps that are not about delegations.
DelegationsKept ==
  \A x \in Users : /\ VotingFor'[x].target = VotingFor[x].target
                   /\ VotingFor'[x].balance = VotingFor[x].balance
                   /\ VotingFor'[x].conviction = VotingFor[x].conviction
                   /\ VotingFor'[x].delegations = VotingFor[x].delegations

LEMMA CommonVoteKeeps ==
  ASSUME TypeOK, NEW u \in Users, NEW p \in Polls, NEW v \in VoteInputs, common_vote(u, p, v)
  PROVE  DelegationsKept
<1>1. PICK vote, tally, after : CommonVoteIs(u, p, v, vote, tally, after)
  BY CommonVote
<1> QED BY <1>1, TypeFacts DEF CommonVoteIs, DelegationsKept

LEMMA UnlockKeeps ==
  ASSUME TypeOK, NEW u \in Users, (\E p \in Polls : unlock_poll(u, p)) \/ unlock_delegation(u)
  PROVE  DelegationsKept
<1>1. PICK v \in Votings :
        /\ update_lock(u, v)
        /\ v.target = VotingFor[u].target /\ v.balance = VotingFor[u].balance
        /\ v.conviction = VotingFor[u].conviction /\ v.delegations = VotingFor[u].delegations
  BY UnlockIs
<1> QED BY <1>1, UpdateLockIs DEF DelegationsKept

LEMMA FailedKeeps ==
  ASSUME TypeOK, NEW q, NEW query, FailedIs(q, query)
  PROVE  DelegationsKept
<1>1. PICK r : r = RolledBack(query.who, query.items)
  OBVIOUS
<1>2. /\ r \in Votings
      /\ r.target = VotingFor[query.who].target /\ r.balance = VotingFor[query.who].balance
      /\ r.conviction = VotingFor[query.who].conviction
      /\ r.delegations = VotingFor[query.who].delegations
  BY <1>1, RolledBackIs DEF FailedIs
<1> QED BY <1>1, <1>2, UpdateLockIs DEF FailedIs, DelegationsKept

LEMMA AgreeStep ==
  ASSUME TypeOK, DelegationsAgree, DelegatorsIdle, [Next]_vars
  PROVE  DelegationsAgree'
<1>1. ASSUME DelegationsKept PROVE DelegationsAgree'
  <2>1. \A u \in Users : VotingFor[u].delegations = ReceivedIn(VotingFor, u)
    BY ReceivedIs
  <2>2. \A u \in Users : ReceivedIn(VotingFor', u) = ReceivedIn(VotingFor, u)
    BY <1>1, ReceivedSame DEF DelegationsKept
  <2> QED BY <1>1, <2>1, <2>2, ReceivedIs DEF DelegationsKept
<1>2. ASSUME VotingFor' = VotingFor PROVE DelegationsKept
  BY <1>2 DEF DelegationsKept
<1>3. CASE Calls
  <2>1. ASSUME NEW u \in Users, NEW to \in Users, NEW i \in DelegateInputs,
               delegate(u, to, i[1], i[2])
        PROVE  DelegationsAgree'
    <3>1. i[1] \in Convictions /\ i[2] \in Nat
      BY Constants
    <3> QED BY <2>1, <3>1, DelegateAgree
  <2>2. ASSUME NEW p \in Polls, NEW d \in Derivatives, remove_delegator_vote(p, d)
        PROVE  VotingFor' = VotingFor
    BY <2>2 DEF remove_delegator_vote
  <2> QED BY <1>1, <1>2, <1>3, <2>1, <2>2, CommonVoteKeeps, UndelegateAgree, UnlockKeeps DEF Calls
<1>4. CASE Answers
  <2>1. ASSUME NEW q \in DOMAIN PendingQueries,
               \/ \E ok \in BOOLEAN : relay_runs(q, ok)
               \/ notify_vote_succeeded(q) \/ notify_remove_delegator_vote(q)
        PROVE  VotingFor' = VotingFor
    BY <2>1 DEF relay_runs, notify_vote_succeeded, notify_remove_delegator_vote
  <2> QED BY <1>1, <1>2, <1>4, <2>1, Failed, FailedKeeps DEF Answers
<1>5. CASE Governance \/ \E served \in SUBSET ReferendumTimeout : on_idle(served)
  BY <1>1, <1>2, <1>5, GovernanceStep DEF GovernanceIs
<1>6. CASE UNCHANGED vars
  BY <1>1, <1>2, <1>6 DEF vars
<1> QED BY <1>3, <1>4, <1>5, <1>6 DEF Next
-----------------------------------------------------------------------------
(* Tallies as sums over the voters.                                        *)

\* Weights as a function of the entries vf.
WeightsOf(vf, p) == [u \in Users |-> Weight(vf[u].votes[p], vf[u].delegations)]

LEMMA WeightsIs ==
  ASSUME NEW p
  PROVE  /\ Weights(p) = WeightsOf(VotingFor, p) /\ TallyOf(p) = SumTally(WeightsOf(VotingFor, p))
         /\ Weights(p)' = WeightsOf(VotingFor', p)
         /\ TallyOf(p)' = SumTally(WeightsOf(VotingFor', p))
BY DEF Weights, WeightsOf, TallyOf, SumTally

LEMMA WeightsOfType ==
  ASSUME NEW vf \in [Users -> Votings], NEW p \in Polls
  PROVE  WeightsOf(vf, p) \in [Users -> Tallies]
<1>1. ASSUME NEW u \in Users PROVE Weight(vf[u].votes[p], vf[u].delegations) \in Tallies
  <2>1. PICK v \in Votings : v = vf[u]
    OBVIOUS
  <2>2. v.votes[p] \in Entries /\ v.delegations \in Delegations
    BY VotingFields
  <2> QED BY <2>1, <2>2, WeightType
<1> QED BY <1>1 DEF WeightsOf

LEMMA SumTallyUpdate ==
  ASSUME NEW w \in [Users -> Tallies], NEW v \in [Users -> Tallies], NEW k \in Users,
         \A u \in Users \ {k} : v[u] = w[u]
  PROVE  /\ SumTally(w) \in Tallies /\ SumTally(v) \in Tallies
         /\ w[k].ayes <= SumTally(w).ayes /\ w[k].nays <= SumTally(w).nays
         /\ w[k].support <= SumTally(w).support
         /\ SumTally(v).ayes = SumTally(w).ayes + (v[k].ayes - w[k].ayes)
         /\ SumTally(v).nays = SumTally(w).nays + (v[k].nays - w[k].nays)
         /\ SumTally(v).support = SumTally(w).support + (v[k].support - w[k].support)
<1>0. IsFiniteSet(Users)
  BY Constants
<1>1. PICK wa, wn, ws : /\ wa = [u \in Users |-> w[u].ayes] /\ wn = [u \in Users |-> w[u].nays]
                        /\ ws = [u \in Users |-> w[u].support]
  OBVIOUS
<1>2. PICK va, vn, vs : /\ va = [u \in Users |-> v[u].ayes] /\ vn = [u \in Users |-> v[u].nays]
                        /\ vs = [u \in Users |-> v[u].support]
  OBVIOUS
<1>3. \A u \in Users : /\ wa[u] = w[u].ayes /\ wn[u] = w[u].nays /\ ws[u] = w[u].support
                       /\ va[u] = v[u].ayes /\ vn[u] = v[u].nays /\ vs[u] = v[u].support
  BY <1>1, <1>2
<1>4. \A u \in Users : /\ wa[u] \in Nat /\ wn[u] \in Nat /\ ws[u] \in Nat
                       /\ va[u] \in Nat /\ vn[u] \in Nat /\ vs[u] \in Nat
  BY <1>3 DEF Tallies
<1>5. \A u \in Users : u # k => wa[u] = va[u] /\ wn[u] = vn[u] /\ ws[u] = vs[u]
  BY <1>3
<1>6. SumFunctionOnSet(wa, Users) \in Nat /\ wa[k] <= SumFunctionOnSet(wa, Users)
      /\ SumFunctionOnSet(va, Users) \in Nat
  BY <1>0, <1>4, SetSumNat
<1>7. SumFunctionOnSet(wn, Users) \in Nat /\ wn[k] <= SumFunctionOnSet(wn, Users)
      /\ SumFunctionOnSet(vn, Users) \in Nat
  BY <1>0, <1>4, SetSumNat
<1>8. SumFunctionOnSet(ws, Users) \in Nat /\ ws[k] <= SumFunctionOnSet(ws, Users)
      /\ SumFunctionOnSet(vs, Users) \in Nat
  BY <1>0, <1>4, SetSumNat
<1>9. SumFunctionOnSet(va, Users) = SumFunctionOnSet(wa, Users) + (va[k] - wa[k])
  BY <1>0, <1>4, <1>5, SetSumUpdate
<1>10. SumFunctionOnSet(vn, Users) = SumFunctionOnSet(wn, Users) + (vn[k] - wn[k])
  BY <1>0, <1>4, <1>5, SetSumUpdate
<1>11. SumFunctionOnSet(vs, Users) = SumFunctionOnSet(ws, Users) + (vs[k] - ws[k])
  BY <1>0, <1>4, <1>5, SetSumUpdate
<1>12. /\ SumTally(w) = [ayes |-> SumFunctionOnSet(wa, Users), nays |-> SumFunctionOnSet(wn, Users),
                         support |-> SumFunctionOnSet(ws, Users)]
       /\ SumTally(v) = [ayes |-> SumFunctionOnSet(va, Users), nays |-> SumFunctionOnSet(vn, Users),
                         support |-> SumFunctionOnSet(vs, Users)]
  BY <1>1, <1>2 DEF SumTally
<1> QED BY <1>3, <1>6, <1>7, <1>8, <1>9, <1>10, <1>11, <1>12 DEF Tallies

(* Delegations count with a standard vote only.                            *)
LEMMA WeightWithout ==
  ASSUME NEW v, NEW d, NEW e, v.side \notin {"aye", "nay"}
  PROVE  Weight(v, d) = Weight(v, e)
BY DEF Weight, Delegated

LEMMA WeightNoVote ==
  ASSUME NEW d, NEW e
  PROVE  Weight(NoVote, d) = Weight(NoVote, e)
BY WeightWithout DEF NoVote

(* What a query keeps of a vote weighs as much as the vote.                *)
LEMMA WeightOldVote ==
  ASSUME NEW v \in Entries, NEW d
  PROVE  Weight(OldVote(v), d) = Weight(v, d)
<1>1. PICK n : n = compute_token_balance(v.vtoken)
  OBVIOUS
<1>2. CASE v = NoVote
  BY <1>2 DEF OldVote
<1>3. CASE v # NoVote
  <2>1. PICK e : e = [v EXCEPT !.vtoken = n]
    OBVIOUS
  <2>2. OldVote(v) = e
    BY <1>1, <1>3, <2>1 DEF OldVote
  <2>3. /\ e.side = v.side /\ e.conviction = v.conviction /\ e.aye = v.aye /\ e.nay = v.nay
        /\ e.abstain = v.abstain
    BY <2>1 DEF Entries
  <2> QED BY <2>2, <2>3 DEF Weight, Own
<1> QED BY <1>2, <1>3

(* A new vote in place of the old one; nothing saturates.                  *)
LEMMA Revote ==
  ASSUME NEW t \in Tallies, NEW old \in Entries, NEW new \in Entries, NEW d \in Delegations,
         Covers(t, Weight(old, d))
  PROVE  LET s == Plus(Plus(Minus(Minus(t, Own(old)), Delegated(old.side, d)), Own(new)),
                       Delegated(new.side, d))
         IN /\ s.ayes = t.ayes + (Weight(new, d).ayes - Weight(old, d).ayes)
            /\ s.nays = t.nays + (Weight(new, d).nays - Weight(old, d).nays)
            /\ s.support = t.support + (Weight(new, d).support - Weight(old, d).support)
<1>1. PICK o \in Tallies : o = Own(old)
  BY OwnType
<1>2. PICK n \in Tallies : n = Own(new)
  BY OwnType
<1>3. PICK a \in Tallies : a = Delegated(old.side, d)
  BY DelegatedType
<1>4. PICK b \in Tallies : b = Delegated(new.side, d)
  BY DelegatedType
<1>5. Covers(t, Plus(o, a)) /\ Weight(old, d) = Plus(o, a) /\ Weight(new, d) = Plus(n, b)
  BY <1>1, <1>2, <1>3, <1>4 DEF Weight
<1>6. Minus(t, o) = [ayes |-> t.ayes - o.ayes, nays |-> t.nays - o.nays,
                     support |-> t.support - o.support]
  BY <1>5, SMTT(30) DEF Covers, Plus, Minus, SatSub, Tallies
<1>7. Minus(Minus(t, o), a) =
        [ayes |-> t.ayes - o.ayes - a.ayes, nays |-> t.nays - o.nays - a.nays,
         support |-> t.support - o.support - a.support]
  BY <1>5, <1>6 DEF Covers, Plus, Minus, SatSub, Tallies
<1>8. PICK m : m = Minus(Minus(t, o), a)
  OBVIOUS
<1>9. LET s == Plus(Plus(m, n), b)
      IN /\ s.ayes = t.ayes + (n.ayes + b.ayes - (o.ayes + a.ayes))
         /\ s.nays = t.nays + (n.nays + b.nays - (o.nays + a.nays))
         /\ s.support = t.support + (n.support + b.support - (o.support + a.support))
  BY <1>7, <1>8 DEF Plus, Tallies
<1>10. /\ Plus(o, a).ayes = o.ayes + a.ayes /\ Plus(o, a).nays = o.nays + a.nays
       /\ Plus(o, a).support = o.support + a.support
       /\ Plus(n, b).ayes = n.ayes + b.ayes /\ Plus(n, b).nays = n.nays + b.nays
       /\ Plus(n, b).support = n.support + b.support
  BY DEF Plus
<1>11. PICK s : s = Plus(Plus(m, n), b)
  OBVIOUS
<1>12. s = Plus(Plus(Minus(Minus(t, Own(old)), Delegated(old.side, d)), Own(new)),
                Delegated(new.side, d))
  BY <1>1, <1>2, <1>3, <1>4, <1>8, <1>11, Zenon
<1>13. /\ s.ayes = t.ayes + (Weight(new, d).ayes - Weight(old, d).ayes)
       /\ s.nays = t.nays + (Weight(new, d).nays - Weight(old, d).nays)
       /\ s.support = t.support + (Weight(new, d).support - Weight(old, d).support)
  <2>1. PICK w, x : w = Weight(new, d) /\ x = Weight(old, d)
    OBVIOUS
  <2>2. /\ w.ayes = n.ayes + b.ayes /\ w.nays = n.nays + b.nays /\ w.support = n.support + b.support
        /\ x.ayes = o.ayes + a.ayes /\ x.nays = o.nays + a.nays /\ x.support = o.support + a.support
    BY <1>5, <1>10, <2>1
  <2>3. /\ s.ayes = t.ayes + (n.ayes + b.ayes - (o.ayes + a.ayes))
        /\ s.nays = t.nays + (n.nays + b.nays - (o.nays + a.nays))
        /\ s.support = t.support + (n.support + b.support - (o.support + a.support))
    BY <1>9, <1>11
  <2>4. /\ s.ayes = t.ayes + (w.ayes - x.ayes) /\ s.nays = t.nays + (w.nays - x.nays)
        /\ s.support = t.support + (w.support - x.support)
    BY ONLY <2>2, <2>3 DEF Tallies
  <2> QED BY <2>1, <2>4
<1> QED BY <1>12, <1>13, Zenon

(* More or less delegated to the voter.                                    *)
LEMMA WeightAdd ==
  ASSUME NEW v \in Entries, NEW d \in Delegations, NEW a \in Delegations, NEW t \in Tallies
  PROVE  /\ Plus(t, Delegated(v.side, a)).ayes =
              t.ayes + (Weight(v, AddTo(d, a)).ayes - Weight(v, d).ayes)
         /\ Plus(t, Delegated(v.side, a)).nays =
              t.nays + (Weight(v, AddTo(d, a)).nays - Weight(v, d).nays)
         /\ Plus(t, Delegated(v.side, a)).support =
              t.support + (Weight(v, AddTo(d, a)).support - Weight(v, d).support)
<1>1. PICK o \in Tallies : o = Own(v)
  BY OwnType
<1>2. /\ d.votes \in Nat /\ d.capital \in Nat /\ a.votes \in Nat /\ a.capital \in Nat
      /\ t.ayes \in Nat /\ t.nays \in Nat /\ t.support \in Nat
      /\ o.ayes \in Nat /\ o.nays \in Nat /\ o.support \in Nat
  BY DEF Delegations, Tallies
<1> QED BY <1>1, <1>2 DEF Weight, Delegated, AddTo, Plus

LEMMA WeightSub ==
  ASSUME NEW v \in Entries, NEW d \in Delegations, NEW a \in Delegations, NEW t \in Tallies,
         a.votes <= d.votes, a.capital <= d.capital, Covers(t, Weight(v, d))
  PROVE  /\ Minus(t, Delegated(v.side, a)).ayes =
              t.ayes + (Weight(v, SubFrom(d, a)).ayes - Weight(v, d).ayes)
         /\ Minus(t, Delegated(v.side, a)).nays =
              t.nays + (Weight(v, SubFrom(d, a)).nays - Weight(v, d).nays)
         /\ Minus(t, Delegated(v.side, a)).support =
              t.support + (Weight(v, SubFrom(d, a)).support - Weight(v, d).support)
<1>1. PICK o \in Tallies : o = Own(v)
  BY OwnType
<1>2. /\ d.votes \in Nat /\ d.capital \in Nat /\ a.votes \in Nat /\ a.capital \in Nat
      /\ t.ayes \in Nat /\ t.nays \in Nat /\ t.support \in Nat
      /\ o.ayes \in Nat /\ o.nays \in Nat /\ o.support \in Nat
  BY DEF Delegations, Tallies
<1>3. SubFrom(d, a) = [votes |-> d.votes - a.votes, capital |-> d.capital - a.capital]
  BY <1>2 DEF SubFrom, SatSub
<1> QED BY <1>1, <1>2, <1>3 DEF Weight, Delegated, Plus, Minus, SatSub, Covers
-----------------------------------------------------------------------------
(* Pending queries.                                                        *)

LEMMA PendingNew ==
  ASSUME NEW who, NEW ps, NEW old, NewQuery(who, ps, old), NEW p
  PROVE  /\ PendingOn(p)' = IF p \in ps THEN PendingOn(p) \cup {nextQuery} ELSE PendingOn(p)
         /\ \A q \in PendingOn(p) : PendingQueries'[q] = PendingQueries[q]
<1>1. PICK new : new = PendingQueries'[nextQuery]
  OBVIOUS
<1>2. /\ nextQuery \notin DOMAIN PendingQueries
      /\ DOMAIN PendingQueries' = DOMAIN PendingQueries \cup {nextQuery}
      /\ \A r \in DOMAIN PendingQueries : PendingQueries'[r] = PendingQueries[r]
      /\ new.kind = "vote" /\ DOMAIN new.items = ps
  BY <1>1 DEF NewQuery
<1>3. \A q \in DOMAIN PendingQueries : q \in PendingOn(p)' <=> q \in PendingOn(p)
  BY <1>2 DEF PendingOn
<1>4. nextQuery \in PendingOn(p)' <=> p \in ps
  BY <1>1, <1>2 DEF PendingOn
<1>5. PendingOn(p)' \subseteq DOMAIN PendingQueries' /\ PendingOn(p) \subseteq DOMAIN PendingQueries
  BY DEF PendingOn
<1> QED BY <1>2, <1>3, <1>4, <1>5

LEMMA PendingResolved ==
  ASSUME TypeOK, NEW q, PendingQueries' = Resolved(q), nextQuery' = nextQuery, NEW p
  PROVE  /\ PendingOn(p)' = PendingOn(p) \ {q}
         /\ \A r \in PendingOn(p)' : PendingQueries'[r] = PendingQueries[r]
<1>1. /\ DOMAIN PendingQueries' = DOMAIN PendingQueries \ {q}
      /\ \A r \in DOMAIN PendingQueries' : PendingQueries'[r] = PendingQueries[r]
  BY ResolvedTypes
<1>2. \A r \in DOMAIN PendingQueries' : r \in PendingOn(p)' <=> r \in PendingOn(p)
  BY <1>1 DEF PendingOn
<1>3. PendingOn(p)' \subseteq DOMAIN PendingQueries' /\ PendingOn(p) \subseteq DOMAIN PendingQueries
  BY DEF PendingOn
<1> QED BY <1>1, <1>2, <1>3

-----------------------------------------------------------------------------
(* A poll whose votes, tally and queries a step leaves alone.              *)
KeptPoll(p) ==
  /\ \A u \in Users : VotingFor'[u].votes[p] = Vote(u, p)
  /\ \/ /\ ReferendumInfoFor'[p].state = ReferendumInfoFor[p].state
        /\ ReferendumInfoFor'[p].tally = ReferendumInfoFor[p].tally
     \/ ReferendumInfoFor'[p].state \in {"Completed", "Killed"}
  /\ ReferendumInfoFor[p].state \in {"None", "Ongoing"} /\ p \notin history.skewed =>
       \A u \in Users : \/ VotingFor'[u].delegations = VotingFor[u].delegations
                        \/ Vote(u, p).side \notin {"aye", "nay"}
  /\ p \in history.skewed => p \in history'.skewed
  /\ PendingOn(p)' \subseteq PendingOn(p)
  /\ \A q \in PendingOn(p)' : /\ PendingQueries'[q].who = PendingQueries[q].who
                              /\ PendingQueries'[q].items[p] = PendingQueries[q].items[p]
  /\ p \notin history'.delegated /\ PendingOn(p)' # {} =>
       /\ p \notin history.delegated
       /\ \A u \in Users : \/ VotingFor'[u].delegations = VotingFor[u].delegations
                           \/ Vote(u, p) = NoVote

LEMMA KeptPollOK ==
  ASSUME NEW p \in Polls, KeptPoll(p), PollOK(p)
  PROVE  PollOK(p)'
<1> SUFFICES ASSUME p \notin history'.skewed, ReferendumInfoFor'[p].state \in {"None", "Ongoing"}
             PROVE  /\ ReferendumInfoFor'[p].tally = TallyOf(p)'
                    /\ ReferendumInfoFor'[p].state = "None" =>
                         \A u \in Users : VotingFor'[u].votes[p] = NoVote
  BY DEF PollOK, Vote
<1>1. /\ p \notin history.skewed /\ ReferendumInfoFor'[p].state = ReferendumInfoFor[p].state
      /\ ReferendumInfoFor'[p].tally = ReferendumInfoFor[p].tally
      /\ ReferendumInfoFor[p].state \in {"None", "Ongoing"}
  BY DEF KeptPoll
<1>2. /\ ReferendumInfoFor[p].tally = TallyOf(p)
      /\ ReferendumInfoFor[p].state = "None" => \A u \in Users : Vote(u, p) = NoVote
  BY <1>1 DEF PollOK
<1>3. ASSUME NEW u \in Users
      PROVE  Weight(VotingFor'[u].votes[p], VotingFor'[u].delegations) =
               Weight(VotingFor[u].votes[p], VotingFor[u].delegations)
  <2>1. /\ VotingFor'[u].votes[p] = VotingFor[u].votes[p]
        /\ \/ VotingFor'[u].delegations = VotingFor[u].delegations
           \/ VotingFor[u].votes[p].side \notin {"aye", "nay"}
    BY <1>1 DEF KeptPoll, Vote
  <2> QED BY <2>1, WeightWithout
<1>4. WeightsOf(VotingFor', p) = WeightsOf(VotingFor, p)
  BY <1>3 DEF WeightsOf
<1>5. TallyOf(p)' = TallyOf(p)
  BY <1>4, WeightsIs
<1> QED BY <1>1, <1>2, <1>5 DEF KeptPoll

LEMMA KeptQueriesOK ==
  ASSUME TypeOK, NEW p \in Polls, KeptPoll(p), \A q \in PendingOn(p) : QueryOK(q, p),
         NEW q \in PendingOn(p)'
  PROVE  QueryOK(q, p)'
<1>0. PICK who, item : who = PendingQueries[q].who /\ item = PendingQueries[q].items[p]
  OBVIOUS
<1>1. /\ q \in PendingOn(p) /\ PendingQueries'[q].who = who /\ PendingQueries'[q].items[p] = item
  BY <1>0 DEF KeptPoll
<1>2. who \in Users
  BY <1>0, <1>1, QueryFields DEF PendingOn
<1> SUFFICES ASSUME p \notin history'.delegated
             PROVE  /\ PendingOn(p)' = {q} /\ VotingFor'[who].votes[p] # NoVote
                    /\ p \notin history'.skewed => Restores(who, p, item)'
  BY <1>1, Zenon DEF QueryOK, Vote, Restores
<1>3. /\ p \notin history.delegated
      /\ \A u \in Users : VotingFor'[u].delegations = VotingFor[u].delegations \/ Vote(u, p) = NoVote
      /\ \A u \in Users : VotingFor'[u].votes[p] = Vote(u, p)
  BY DEF KeptPoll
<1>4. /\ PendingOn(p) = {q} /\ Vote(who, p) # NoVote
      /\ p \notin history.skewed => Restores(who, p, item)
  BY <1>0, <1>1, <1>3 DEF QueryOK
<1>5. PendingOn(p)' = {q} /\ VotingFor'[who].votes[p] # NoVote
  BY <1>2, <1>3, <1>4 DEF KeptPoll
<1>6. VotingFor'[who].delegations = VotingFor[who].delegations
  BY <1>2, <1>3, <1>4
<1>7. ASSUME NEW u \in Users
      PROVE  Weight(VotingFor'[u].votes[p], VotingFor'[u].delegations) =
               Weight(VotingFor[u].votes[p], VotingFor[u].delegations)
  BY <1>3, WeightNoVote DEF Vote
<1>8. WeightsOf(VotingFor', p) = WeightsOf(VotingFor, p)
  BY <1>7 DEF WeightsOf
<1>9. Weights(p)' = Weights(p)
  BY <1>8, WeightsIs
<1>10. ASSUME p \notin history'.skewed PROVE Restores(who, p, item)'
  <2>1. Restores(who, p, item)
    BY <1>4, <1>10 DEF KeptPoll
  <2>2. \A u \in Users : VotingFor'[u].votes[p] = VotingFor[u].votes[p]
    BY <1>3 DEF Vote
  <2>3. PICK x : x = Weights(p)
    OBVIOUS
  <2>4. VotingFor'[who].delegations = VotingFor[who].delegations /\ Weights(p)' = x /\ Weights(p) = x
    BY <1>6, <1>9, <2>3
  <2> QED BY <2>1, <2>2, <2>4 DEF Restores, SumTally, Vote
<1> QED BY <1>5, <1>10

PollInv(p) == PollOK(p) /\ \A q \in PendingOn(p) : QueryOK(q, p)

LEMMA PollInvs == PollsOK /\ QueriesOK <=> \A p \in Polls : PollInv(p)
BY DEF PollsOK, QueriesOK, PollInv

LEMMA KeptPollInv ==
  ASSUME TypeOK, NEW p \in Polls, KeptPoll(p), PollInv(p)
  PROVE  PollInv(p)'
<1>1. PollOK(p)'
  BY KeptPollOK DEF PollInv
<1>2. \A q \in PendingOn(p)' : QueryOK(q, p)'
  BY KeptQueriesOK DEF PollInv
<1> QED BY <1>1, <1>2 DEF PollInv

(* A vote on p: the new query can restore the old vote.                    *)
LEMMA VotedPoll ==
  ASSUME TypeOK, DelegatedPending,
         NEW u \in Users, NEW p \in Polls, NEW v, NEW vote, NEW tally, NEW after,
         CommonVoteIs(u, p, v, vote, tally, after), PollInv(p), VotingFor' \in [Users -> Votings]
  PROVE  PollInv(p)'
<1>1. PICK vf, wf : vf = VotingFor /\ wf = VotingFor'
  OBVIOUS
<1>2. vf \in [Users -> Votings] /\ wf \in [Users -> Votings]
  BY <1>1, TypeFacts
<1>3. PICK old, d : old = Vote(u, p) /\ d = VotingFor[u].delegations
  OBVIOUS
<1>4. old \in Entries /\ d \in Delegations /\ vote \in Entries /\ vote # NoVote
  BY <1>3, TypeFacts DEF Vote, CommonVoteIs
<1>5. /\ wf = [vf EXCEPT ![u] = after]
      /\ after.votes = [vf[u].votes EXCEPT ![p] = vote] /\ after.delegations = d
      /\ vf[u].votes \in [Polls -> Entries]
  BY <1>1, <1>3, TypeFacts DEF CommonVoteIs
<1>6. /\ wf[u].votes[p] = vote /\ wf[u].delegations = d
      /\ \A x \in Users \ {u} : wf[x] = vf[x]
  BY <1>2, <1>5
<1>7. PICK f, g : f = WeightsOf(vf, p) /\ g = WeightsOf(wf, p)
  OBVIOUS
<1>8. f \in [Users -> Tallies] /\ g \in [Users -> Tallies]
  BY <1>2, <1>7, WeightsOfType
<1>9. /\ f[u] = Weight(old, d) /\ g[u] = Weight(vote, d) /\ \A x \in Users \ {u} : g[x] = f[x]
  BY <1>1, <1>3, <1>6, <1>7 DEF WeightsOf, Vote
<1>10. PICK t \in Tallies : t = ReferendumInfoFor[p].tally
  BY TypeFacts
<1>11. ReferendumInfoFor[p].state \in {"None", "Ongoing"} /\ PendingOn(p) = {}
       /\ history' = history
  BY DEF CommonVoteIs
<1>12. p \notin history.skewed => t = SumTally(f)
  BY <1>1, <1>7, <1>10, <1>11, WeightsIs DEF PollInv, PollOK
<1>13. ReferendumInfoFor'[p].state = "Ongoing" /\ ReferendumInfoFor'[p].tally = tally
  BY TypeFacts DEF CommonVoteIs
<1>14. ASSUME p \notin history.skewed PROVE tally = SumTally(g)
  <2>1. /\ SumTally(f) \in Tallies /\ SumTally(g) \in Tallies
        /\ f[u].ayes <= SumTally(f).ayes /\ f[u].nays <= SumTally(f).nays
        /\ f[u].support <= SumTally(f).support
        /\ SumTally(g).ayes = SumTally(f).ayes + (g[u].ayes - f[u].ayes)
        /\ SumTally(g).nays = SumTally(f).nays + (g[u].nays - f[u].nays)
        /\ SumTally(g).support = SumTally(f).support + (g[u].support - f[u].support)
    BY <1>8, <1>9, SumTallyUpdate
  <2>2. Covers(t, Weight(old, d))
    BY <1>9, <1>12, <1>14, <2>1 DEF Covers, Tallies
  <2>3. tally = Plus(Plus(Minus(Minus(t, Own(old)), Delegated(old.side, d)), Own(vote)),
                     Delegated(vote.side, d))
    BY <1>3, <1>10, Zenon DEF CommonVoteIs
  <2>4. /\ tally.ayes = t.ayes + (Weight(vote, d).ayes - Weight(old, d).ayes)
        /\ tally.nays = t.nays + (Weight(vote, d).nays - Weight(old, d).nays)
        /\ tally.support = t.support + (Weight(vote, d).support - Weight(old, d).support)
    BY <1>4, <2>2, <2>3, Revote
  <2>5. tally.ayes = SumTally(g).ayes /\ tally.nays = SumTally(g).nays
        /\ tally.support = SumTally(g).support
    BY <1>9, <1>12, <1>14, <2>1, <2>4
  <2>6. tally \in Tallies
    BY DEF CommonVoteIs
  <2> QED BY <2>1, <2>5, <2>6 DEF Tallies
<1>15. PollOK(p)'
  BY <1>1, <1>7, <1>11, <1>13, <1>14, WeightsIs DEF PollOK
<1>16. PICK n, new : n = nextQuery /\ new = PendingQueries'[n]
  OBVIOUS
<1>17. PICK os : os = [x \in {p} |-> OldVote(old)]
  OBVIOUS
<1>18. NewQuery(u, {p}, os)
  BY <1>3, <1>17 DEF CommonVoteIs
<1>19. PendingOn(p)' = {n}
  BY <1>11, <1>16, <1>18, PendingNew
<1>20. /\ new.who = u /\ new.items[p].old = OldVote(old)
       /\ new.items[p].info = ReferendumInfoFor[p]
  BY <1>16, <1>17, <1>18 DEF NewQuery
<1>21. PICK item : item = new.items[p]
  OBVIOUS
<1>22. ASSUME p \notin history.skewed PROVE Restores(u, p, item)'
  <2>1. item.info.tally = t /\ item.info.state = ReferendumInfoFor[p].state
    BY <1>10, <1>20, <1>21
  <2>2. f = [g EXCEPT ![u] = Weight(item.old, d)]
    <3>1. PICK w : w = Weight(item.old, d)
      OBVIOUS
    <3>2. f[u] = w
      BY <1>4, <1>9, <1>20, <1>21, <3>1, WeightOldVote
    <3>3. f = [g EXCEPT ![u] = w]
      BY <1>8, <1>9, <3>2
    <3> QED BY <3>1, <3>3
  <2>3. item.info.tally = SumTally([g EXCEPT ![u] = Weight(item.old, d)])
    BY <1>12, <1>22, <2>1, <2>2
  <2>4. Weights(p)' = g
    BY <1>1, <1>7, WeightsIs
  <2>5. ReferendumInfoFor[p].state = "None" =>
          item.old = NoVote /\ \A x \in Users \ {u} : wf[x].votes[p] = NoVote
    <3>1. ReferendumInfoFor[p].state = "None" => \A x \in Users : vf[x].votes[p] = NoVote
      BY <1>1, <1>22 DEF PollInv, PollOK, Vote
    <3>2. old = vf[u].votes[p]
      BY <1>1, <1>3 DEF Vote
    <3> QED BY <1>6, <1>20, <1>21, <3>1, <3>2 DEF OldVote
  <2>6. VotingFor'[u].delegations = d
    BY <1>1, <1>6
  <2> QED BY <1>1, <1>11, <2>1, <2>3, <2>4, <2>5, <2>6 DEF Restores, SumTally, Vote
<1>23. QueryOK(n, p)'
  <2>1. VotingFor'[u].votes[p] # NoVote
    BY <1>1, <1>4, <1>6
  <2> QED BY <1>11, <1>16, <1>19, <1>20, <1>21, <1>22, <2>1, Zenon DEF QueryOK, Vote, Restores
<1> QED BY <1>15, <1>19, <1>23 DEF PollInv

LEMMA DelegationChangedIs ==
  ASSUME TypeOK, NEW to \in Users, delegation_changed(to)
  PROVE  /\ history'.skewed = history.skewed
         /\ \A p \in Polls : p \in history'.delegated <=>
              /\ p \in history.delegated \/ Vote(to, p) # NoVote
              /\ PendingOn(p)' # {}
         /\ DelegatedPending'
<1>1. history \in [delegated : SUBSET Polls, skewed : SUBSET Polls]
  BY DEF TypeOK
<1>2. PICK S : S = {p \in Polls : PendingOn(p)' # {}}
  OBVIOUS
<1>3. PICK V : V = VotedOn(VotingFor[to])
  OBVIOUS
<1>4. history' = [history EXCEPT !.delegated = (@ \cup V) \cap S]
  BY <1>2, <1>3 DEF delegation_changed
<1>5. history'.skewed = history.skewed /\ history'.delegated = (history.delegated \cup V) \cap S
  BY <1>1, <1>4
<1>6. V \subseteq Polls /\ \A p \in Polls : p \in V <=> Vote(to, p) # NoVote
  BY <1>3 DEF VotedOn, Vote
<1>7. \A p \in Polls : p \in S <=> PendingOn(p)' # {}
  BY <1>2
<1> QED BY <1>2, <1>5, <1>6, <1>7 DEF DelegatedPending

(* More or less delegated to a voter: on the polls with a standard vote of *)
(* the voter the tally moves with the weight of the vote.                  *)
LEMMA DelegationPoll ==
  ASSUME TypeOK, NEW u \in Users, NEW to \in Users, NEW mine, NEW theirs,
         TwoVotings(u, to, mine, theirs), delegation_changed(to),
         NEW a \in Delegations, NEW increase \in BOOLEAN, NEW tally, NEW old,
         UpstreamIs(to, a, increase, tally, old),
         theirs.delegations = IF increase THEN AddTo(VotingFor[to].delegations, a)
                              ELSE SubFrom(VotingFor[to].delegations, a),
         ~increase => /\ a.votes <= VotingFor[to].delegations.votes
                      /\ a.capital <= VotingFor[to].delegations.capital,
         NEW p \in Polls, PollInv(p)
  PROVE  PollInv(p)'
<1>1. /\ VotingFor' \in [Users -> Votings] /\ VotingFor'[to] = theirs
      /\ \A x \in Users : VotingFor'[x].votes = VotingFor[x].votes
      /\ \A x \in Users : x # to => VotingFor'[x].delegations = VotingFor[x].delegations
  BY TwoVotingsType
<1>2. /\ history'.skewed = history.skewed
      /\ p \in history'.delegated <=> /\ p \in history.delegated \/ Vote(to, p) # NoVote
                                      /\ PendingOn(p)' # {}
  BY DelegationChangedIs
<1>3. ReferendumInfoFor'[p] = IF p \in Changed(to) THEN [ReferendumInfoFor[p] EXCEPT !.tally = tally[p]]
                              ELSE ReferendumInfoFor[p]
  BY DEF UpstreamIs
<1>4. PollOK(p)
  BY DEF PollInv
<1>5. NoVote.side = "none"
  BY DEF NoVote
<1>6. CASE p \notin Changed(to)
  <2>1. PendingOn(p)' = PendingOn(p) /\ \A q \in PendingOn(p)' : PendingQueries'[q] = PendingQueries[q]
    <3>1. CASE UNCHANGED <<PendingQueries, nextQuery>>
      BY <3>1 DEF PendingOn
    <3>2. CASE NewQuery(to, Changed(to), old)
      BY <1>6, <3>2, PendingNew
    <3> QED BY <3>1, <3>2 DEF UpstreamIs
  <2>2. ASSUME ReferendumInfoFor[p].state \in {"None", "Ongoing"}, p \notin history.skewed
        PROVE  Vote(to, p).side \notin {"aye", "nay"}
    <3>1. CASE ReferendumInfoFor[p].state = "None"
      BY <1>4, <1>5, <2>2, <3>1 DEF PollOK
    <3>2. CASE ReferendumInfoFor[p].state = "Ongoing"
      BY <1>6, <3>2 DEF Changed, StandardVotes, Ongoing, Vote
    <3> QED BY <2>2, <3>1, <3>2
  <2>3. KeptPoll(p)
    BY <1>1, <1>2, <1>3, <1>6, <2>1, <2>2 DEF KeptPoll, Vote
  <2> QED BY <2>3, KeptPollInv
<1>7. CASE p \in Changed(to)
  <2>1. /\ Vote(to, p).side \in {"aye", "nay"} /\ ReferendumInfoFor[p].state = "Ongoing"
    BY <1>7 DEF Changed, StandardVotes, Ongoing, Vote
  <2>2. NewQuery(to, Changed(to), old)
    BY <1>7 DEF UpstreamIs
  <2>3. PendingOn(p)' # {}
    BY <1>7, <2>2, PendingNew
  <2>4. p \in history'.delegated
    BY <1>2, <1>5, <2>1, <2>3
  <2>5. \A q \in PendingOn(p)' : QueryOK(q, p)'
    BY <2>4 DEF QueryOK
  <2>6. PICK vf, wf : vf = VotingFor /\ wf = VotingFor'
    OBVIOUS
  <2>7. vf \in [Users -> Votings] /\ wf \in [Users -> Votings]
    BY <1>1, <2>6, TypeFacts
  <2>8. PICK v, d, e : /\ v = Vote(to, p) /\ d = VotingFor[to].delegations
                       /\ e = VotingFor'[to].delegations
    OBVIOUS
  <2>9. v \in Entries /\ d \in Delegations
    BY <2>8, TypeFacts DEF Vote
  <2>10. PICK t \in Tallies : t = ReferendumInfoFor[p].tally
    BY TypeFacts
  <2>11. PICK f, g : f = WeightsOf(vf, p) /\ g = WeightsOf(wf, p)
    OBVIOUS
  <2>12. f \in [Users -> Tallies] /\ g \in [Users -> Tallies]
    BY <2>7, <2>11, WeightsOfType
  <2>13. /\ f[to] = Weight(v, d) /\ g[to] = Weight(v, e) /\ \A x \in Users \ {to} : g[x] = f[x]
    BY <1>1, <2>6, <2>8, <2>11 DEF WeightsOf, Vote
  <2>14. PICK s : s = tally[p]
    OBVIOUS
  <2>15. /\ s \in Tallies
         /\ s = IF increase THEN Plus(t, Delegated(v.side, a)) ELSE Minus(t, Delegated(v.side, a))
    BY <1>7, <2>8, <2>10, <2>14 DEF UpstreamIs
  <2>16. ReferendumInfoFor'[p].tally = s /\ ReferendumInfoFor'[p].state = "Ongoing"
    <3>1. PICK i \in Infos : i = ReferendumInfoFor[p]
      BY TypeFacts
    <3>2. ReferendumInfoFor'[p] = [i EXCEPT !.tally = s]
      BY <1>3, <1>7, <2>14, <3>1
    <3>3. i.state = "Ongoing"
      BY <2>1, <3>1
    <3> QED BY <3>2, <3>3 DEF Infos
  <2>17. ASSUME p \notin history'.skewed PROVE s = SumTally(g)
    <3>1. t = SumTally(f)
      BY <1>2, <1>4, <2>1, <2>6, <2>10, <2>11, <2>17, WeightsIs DEF PollOK
    <3>2. /\ SumTally(f) \in Tallies /\ SumTally(g) \in Tallies
          /\ f[to].ayes <= SumTally(f).ayes /\ f[to].nays <= SumTally(f).nays
          /\ f[to].support <= SumTally(f).support
          /\ SumTally(g).ayes = SumTally(f).ayes + (g[to].ayes - f[to].ayes)
          /\ SumTally(g).nays = SumTally(f).nays + (g[to].nays - f[to].nays)
          /\ SumTally(g).support = SumTally(f).support + (g[to].support - f[to].support)
      BY <2>12, <2>13, SumTallyUpdate
    <3>3. /\ s.ayes = t.ayes + (Weight(v, e).ayes - Weight(v, d).ayes)
          /\ s.nays = t.nays + (Weight(v, e).nays - Weight(v, d).nays)
          /\ s.support = t.support + (Weight(v, e).support - Weight(v, d).support)
      <4>1. CASE increase
        <5>1. e = AddTo(d, a) /\ s = Plus(t, Delegated(v.side, a))
          BY <1>1, <2>8, <2>15, <4>1
        <5> QED BY <2>9, <5>1, WeightAdd
      <4>2. CASE ~increase
        <5>1. e = SubFrom(d, a) /\ s = Minus(t, Delegated(v.side, a))
          BY <1>1, <2>8, <2>15, <4>2
        <5>2. a.votes <= d.votes /\ a.capital <= d.capital
          BY <2>8, <4>2
        <5>3. Covers(t, Weight(v, d))
          BY <2>13, <3>1, <3>2 DEF Covers, Tallies
        <5> QED BY <2>9, <5>1, <5>2, <5>3, WeightSub
      <4> QED BY <4>1, <4>2
    <3>4. s.ayes = SumTally(g).ayes /\ s.nays = SumTally(g).nays /\ s.support = SumTally(g).support
      BY <2>13, <3>1, <3>2, <3>3
    <3> QED BY <2>15, <3>2, <3>4 DEF Tallies
  <2>18. PollOK(p)'
    BY <2>6, <2>11, <2>16, <2>17, WeightsIs DEF PollOK
  <2> QED BY <2>5, <2>18 DEF PollInv
<1> QED BY <1>6, <1>7

(* What a user delegates is part of what the target is credited with.      *)
LEMMA DelegationCredited ==
  ASSUME TypeOK, DelegationsAgree, NEW u \in Users, VotingFor[u].target \in Users
  PROVE  LET a == Amount(VotingFor[u].conviction, VotingFor[u].balance)
             d == VotingFor[VotingFor[u].target].delegations
         IN a.votes <= d.votes /\ a.capital <= d.capital
<1>1. PICK vf \in [Users -> Votings] : vf = VotingFor
  BY TypeFacts
<1>2. PICK to \in Users : to = vf[u].target
  BY <1>1
<1>3. vf[to].delegations = ReceivedIn(vf, to)
  BY <1>1, ReceivedIs
<1>4. /\ Given(vf, u, to).votes <= ReceivedVotes(vf, to)
      /\ Given(vf, u, to).capital <= ReceivedCapital(vf, to)
  BY ReceivedUpdate
<1>5. Given(vf, u, to) = Amount(vf[u].conviction, vf[u].balance)
  BY <1>2 DEF Given
<1> QED BY <1>1, <1>2, <1>3, <1>4, <1>5 DEF ReceivedIn

(* A vote rolled back: the query restores what the poll had.               *)
LEMMA FailedVotes ==
  ASSUME TypeOK, NEW q, NEW query, FailedIs(q, query)
  PROVE  /\ \A x \in Users \ {query.who} : VotingFor'[x] = VotingFor[x]
         /\ Casts(query.who) => \A p \in Polls :
              VotingFor'[query.who].votes[p] =
                IF p \in DOMAIN query.items THEN query.items[p].old ELSE Vote(query.who, p)
         /\ ~Casts(query.who) => VotingFor'[query.who].votes = VotingFor[query.who].votes
<1>1. PICK r : r = RolledBack(query.who, query.items)
  OBVIOUS
<1>2. PICK v : v = VotingFor[query.who]
  OBVIOUS
<1>3. query.who \in Users /\ update_lock(query.who, r) /\ r \in Votings
  BY <1>1 DEF FailedIs
<1>4. /\ v.target # NoOne => r = v
      /\ v.target = NoOne =>
           r.votes = [p \in Polls |-> IF p \in DOMAIN query.items THEN query.items[p].old
                                      ELSE v.votes[p]]
  BY <1>1, <1>2, RolledBackIs DEF FailedIs
<1>5. /\ VotingFor'[query.who].votes = r.votes
      /\ \A x \in Users \ {query.who} : VotingFor'[x] = VotingFor[x]
  BY <1>3, UpdateLockIs
<1> QED BY <1>2, <1>4, <1>5 DEF Casts, Vote

LEMMA FailedPoll ==
  ASSUME TypeOK, DelegatorsIdle, NEW q, NEW query, FailedIs(q, query),
         VotingFor' \in [Users -> Votings], NEW p \in Polls, PollInv(p)
  PROVE  PollInv(p)'
<1>1. /\ q \in DOMAIN PendingQueries /\ query = PendingQueries[q] /\ query.kind = "vote"
      /\ query.who \in Users /\ DOMAIN query.items \subseteq Polls
      /\ PendingQueries' = Resolved(q) /\ nextQuery' = nextQuery
      /\ ReferendumInfoFor' = [x \in Polls |-> RestoredInfo(x, query.items)]
  BY DEF FailedIs
<1>2. /\ PendingOn(p)' = PendingOn(p) \ {q}
      /\ \A r \in PendingOn(p)' : PendingQueries'[r] = PendingQueries[r]
  BY <1>1, PendingResolved
<1>3. q \in PendingOn(p) <=> p \in DOMAIN query.items
  BY <1>1 DEF PendingOn
<1>4. /\ p \in history'.delegated <=> p \in history.delegated /\ PendingOn(p)' # {}
      /\ p \in history'.skewed <=> \/ p \in history.skewed
                                   \/ /\ p \in DOMAIN query.items
                                      /\ p \in history.delegated \/ ~Ongoing(p)
  <2>1. PICK S : S = {x \in Polls : PendingOn(x)' # {}}
    OBVIOUS
  <2>2. PICK R : R = {x \in DOMAIN query.items : x \in history.delegated \/ ~Ongoing(x)}
    OBVIOUS
  <2>3. history' = [delegated |-> history.delegated \cap S, skewed |-> history.skewed \cup R]
    BY <2>1, <2>2 DEF FailedIs
  <2>4. p \in S <=> PendingOn(p)' # {}
    BY <2>1
  <2>5. p \in R <=> p \in DOMAIN query.items /\ (p \in history.delegated \/ ~Ongoing(p))
    BY <2>2
  <2> QED BY <2>3, <2>4, <2>5
<1>5. \A x \in Users : VotingFor'[x].delegations = VotingFor[x].delegations
  BY FailedKeeps DEF DelegationsKept
<1>6. CASE p \notin DOMAIN query.items
  <2>1. \A x \in Users : VotingFor'[x].votes[p] = Vote(x, p)
    BY <1>6, FailedVotes DEF Vote
  <2>2. ReferendumInfoFor'[p] = ReferendumInfoFor[p]
    BY <1>1, <1>6 DEF RestoredInfo
  <2>3. KeptPoll(p)
    BY <1>2, <1>3, <1>4, <1>5, <1>6, <2>1, <2>2 DEF KeptPoll
  <2> QED BY <2>3, KeptPollInv
<1>7. CASE p \in DOMAIN query.items
  <2> DEFINE who == query.who
             item == query.items[p]
  <2>1. p \notin history.delegated => PendingOn(p) = {q} /\ Vote(who, p) # NoVote
    BY <1>1, <1>3, <1>7 DEF PollInv, QueryOK
  <2>2. ASSUME NEW r \in PendingOn(p)' PROVE QueryOK(r, p)'
    BY <1>2, <1>4, <2>1, <2>2 DEF QueryOK
  <2>3. ReferendumInfoFor'[p] = item.info
    BY <1>1, <1>7 DEF RestoredInfo
  <2>4. ASSUME p \notin history'.skewed
        PROVE  /\ ReferendumInfoFor'[p].tally = TallyOf(p)'
               /\ ReferendumInfoFor'[p].state = "None" =>
                    \A x \in Users : VotingFor'[x].votes[p] = NoVote
    <3>1. p \notin history.skewed /\ p \notin history.delegated
      BY <1>4, <1>7, <2>4
    <3>2. Restores(who, p, item)
      BY <1>1, <1>3, <1>7, <3>1 DEF PollInv, QueryOK
    <3>3. Casts(who)
      BY <1>1, <2>1, <3>1 DEF DelegatorsIdle
    <3>4. /\ VotingFor'[who].votes[p] = item.old
          /\ \A x \in Users \ {who} : VotingFor'[x].votes[p] = Vote(x, p)
      BY <1>1, <1>7, <3>3, FailedVotes DEF Vote
    <3>5. PICK f, g, w : /\ f = WeightsOf(VotingFor, p) /\ g = WeightsOf(VotingFor', p)
                         /\ w = Weight(item.old, VotingFor[who].delegations)
      OBVIOUS
    <3>6. f \in [Users -> Tallies] /\ g \in [Users -> Tallies]
      BY <3>5, TypeFacts, WeightsOfType
    <3>7. g[who] = w /\ \A x \in Users \ {who} : g[x] = f[x]
      BY <1>1, <1>5, <3>4, <3>5 DEF WeightsOf, Vote
    <3>8. g = [f EXCEPT ![who] = w]
      BY <1>1, <3>6, <3>7
    <3>9. item.info.tally = SumTally([f EXCEPT ![who] = w])
      BY <3>2, <3>5, WeightsIs DEF Restores
    <3>10. item.info.tally = TallyOf(p)'
      <4>1. item.info.tally = SumTally(g)
        BY <3>8, <3>9, Zenon
      <4> QED BY <3>5, <4>1, WeightsIs
    <3>11. item.info.state = "None" => item.old = NoVote /\ \A x \in Users \ {who} : Vote(x, p) = NoVote
      BY <3>2 DEF Restores
    <3> QED BY <2>3, <3>4, <3>10, <3>11
  <2>5. PollOK(p)'
    BY <2>4 DEF PollOK, Vote
  <2> QED BY <2>2, <2>5 DEF PollInv
<1> QED BY <1>6, <1>7

\* A step that moves no vote, no delegation and no tally of a poll open to votes.
QuietStep ==
  /\ VotingFor' = VotingFor
  /\ \A p \in Polls : \/ /\ ReferendumInfoFor'[p].state = ReferendumInfoFor[p].state
                         /\ ReferendumInfoFor'[p].tally = ReferendumInfoFor[p].tally
                      \/ ReferendumInfoFor'[p].state \in {"Completed", "Killed"}
  /\ history'.skewed = history.skewed
  /\ \A p \in Polls :
       /\ p \in history'.delegated <=> p \in history.delegated /\ PendingOn(p)' # {}
       /\ PendingOn(p)' \subseteq PendingOn(p)
       /\ \A q \in PendingOn(p)' : /\ PendingQueries'[q].who = PendingQueries[q].who
                                   /\ PendingQueries'[q].items[p] = PendingQueries[q].items[p]

LEMMA QuietPolls ==
  ASSUME TypeOK, QuietStep, \A p \in Polls : PollInv(p)
  PROVE  \A p \in Polls : PollInv(p)'
<1> TAKE p \in Polls
<1>1. KeptPoll(p)
  BY DEF QuietStep, KeptPoll, Vote
<1> QED BY <1>1, KeptPollInv

LEMMA QuietPending ==
  ASSUME TypeOK', QuietStep
  PROVE  DelegatedPending'
BY DEF QuietStep, DelegatedPending, TypeOK

LEMMA RunQuiet ==
  ASSUME TypeOK, DelegatedPending, NEW q \in DOMAIN PendingQueries, NEW ok \in BOOLEAN,
         relay_runs(q, ok)
  PROVE  QuietStep
<1>1. RunIs(q)
  BY RunType
<1>2. UNCHANGED <<ReferendumInfoFor, VotingFor, history>>
  BY DEF relay_runs
<1>3. ASSUME NEW p \in Polls
      PROVE  /\ PendingOn(p)' = PendingOn(p)
             /\ \A r \in PendingOn(p)' : /\ PendingQueries'[r].who = PendingQueries[r].who
                                         /\ PendingQueries'[r].items[p] = PendingQueries[r].items[p]
  <2>1. \A r \in DOMAIN PendingQueries : r \in PendingOn(p)' <=> r \in PendingOn(p)
    BY <1>1 DEF RunIs, PendingOn
  <2>2. PendingOn(p)' = PendingOn(p)
    BY <1>1, <2>1 DEF RunIs, PendingOn
  <2> QED BY <1>1, <2>2 DEF RunIs, PendingOn
<1> QED BY <1>2, <1>3 DEF QuietStep, DelegatedPending

LEMMA SucceededQuiet ==
  ASSUME TypeOK, NEW q \in DOMAIN PendingQueries, notify_vote_succeeded(q)
  PROVE  QuietStep
<1>1. PICK ps : ps = DOMAIN PendingQueries[q].items
  OBVIOUS
<1>2. PICK S : S = {p \in Polls : PendingOn(p)' # {}}
  OBVIOUS
<1>3. /\ ReferendumInfoFor' = [p \in Polls |->
           IF p \in ps /\ Ongoing(p) THEN [ReferendumInfoFor[p] EXCEPT !.at = relay_block]
           ELSE ReferendumInfoFor[p]]
      /\ PendingQueries' = Resolved(q) /\ VotingFor' = VotingFor /\ nextQuery' = nextQuery
      /\ history' = [history EXCEPT !.delegated = @ \cap S]
  BY <1>1, <1>2 DEF notify_vote_succeeded
<1>4. \A i \in Infos : \A b : /\ [i EXCEPT !.at = b].state = i.state
                              /\ [i EXCEPT !.at = b].tally = i.tally
  BY DEF Infos
<1>5. \A p \in Polls : /\ ReferendumInfoFor'[p].state = ReferendumInfoFor[p].state
                       /\ ReferendumInfoFor'[p].tally = ReferendumInfoFor[p].tally
  BY <1>3, <1>4, TypeFacts
<1>6. history'.skewed = history.skewed /\ history'.delegated = history.delegated \cap S
  BY <1>3 DEF TypeOK
<1>7. \A p \in Polls : p \in S <=> PendingOn(p)' # {}
  BY <1>2
<1>8. ASSUME NEW p \in Polls
      PROVE  /\ PendingOn(p)' = PendingOn(p) \ {q}
             /\ \A r \in PendingOn(p)' : PendingQueries'[r] = PendingQueries[r]
  BY <1>3, PendingResolved
<1> QED BY <1>3, <1>5, <1>6, <1>7, <1>8 DEF QuietStep

LEMMA RemoveQuiet ==
  ASSUME TypeOK, DelegatedPending,
         \/ \E p \in Polls, d \in Derivatives : remove_delegator_vote(p, d)
         \/ \E q \in DOMAIN PendingQueries : notify_remove_delegator_vote(q)
  PROVE  QuietStep
<1>1. UNCHANGED <<ReferendumInfoFor, VotingFor, history>>
  BY DEF remove_delegator_vote, notify_remove_delegator_vote
<1>2. ASSUME NEW p \in Polls, NEW d \in Derivatives, remove_delegator_vote(p, d), NEW x \in Polls
      PROVE  /\ PendingOn(x)' = PendingOn(x)
             /\ \A q \in PendingOn(x)' : PendingQueries'[q] = PendingQueries[q]
  <2>1. PICK query : query = [kind |-> "remove", poll |-> p, deriv |-> d, outcome |-> "sent"]
    OBVIOUS
  <2>2. PICK n : n = nextQuery
    OBVIOUS
  <2>3. PendingQueries' = [q \in DOMAIN PendingQueries \cup {n} |->
                              IF q = n THEN query ELSE PendingQueries[q]]
    BY <1>2, <2>1, <2>2 DEF remove_delegator_vote
  <2>4. DOMAIN PendingQueries \subseteq 0..(n - 1) /\ n \in Nat
    BY <2>2 DEF TypeOK
  <2>5. n \notin DOMAIN PendingQueries
    BY <2>4
  <2>6. query.kind # "vote"
    BY <2>1
  <2>7. /\ DOMAIN PendingQueries' = DOMAIN PendingQueries \cup {n} /\ PendingQueries'[n] = query
        /\ \A q \in DOMAIN PendingQueries : PendingQueries'[q] = PendingQueries[q]
    BY <2>3, <2>5
  <2>8. n \notin PendingOn(x)'
    BY <2>6, <2>7 DEF PendingOn
  <2>9. \A q \in DOMAIN PendingQueries : q \in PendingOn(x)' <=> q \in PendingOn(x)
    BY <2>7 DEF PendingOn
  <2>10. PendingOn(x)' \subseteq DOMAIN PendingQueries' /\ PendingOn(x) \subseteq DOMAIN PendingQueries
    BY DEF PendingOn
  <2> QED BY <2>7, <2>8, <2>9, <2>10
<1>3. ASSUME NEW q \in DOMAIN PendingQueries, notify_remove_delegator_vote(q), NEW x \in Polls
      PROVE  /\ PendingOn(x)' = PendingOn(x)
             /\ \A r \in PendingOn(x)' : PendingQueries'[r] = PendingQueries[r]
  <2>1. PendingQueries' = Resolved(q) /\ nextQuery' = nextQuery /\ PendingQueries[q].kind = "remove"
    BY <1>3 DEF notify_remove_delegator_vote
  <2>2. q \notin PendingOn(x)
    BY <2>1 DEF PendingOn
  <2> QED BY <2>1, <2>2, PendingResolved
<1> QED BY <1>1, <1>2, <1>3 DEF QuietStep, DelegatedPending

LEMMA FrameQuiet ==
  ASSUME TypeOK, DelegatedPending, UNCHANGED <<VotingFor, PendingQueries, history>>,
         \A p \in Polls : \/ ReferendumInfoFor'[p] = ReferendumInfoFor[p]
                          \/ ReferendumInfoFor'[p].state \in {"Completed", "Killed"}
  PROVE  QuietStep
<1>1. \A p \in Polls : PendingOn(p)' = PendingOn(p)
  BY DEF PendingOn
<1> QED BY <1>1 DEF QuietStep, DelegatedPending

LEMMA UnlockPolls ==
  ASSUME TypeOK, DelegatedPending, NEW u \in Users,
         (\E p \in Polls : unlock_poll(u, p)) \/ unlock_delegation(u),
         \A p \in Polls : PollInv(p)
  PROVE  DelegatedPending' /\ \A p \in Polls : PollInv(p)'
<1>1. PICK v \in Votings :
        /\ update_lock(u, v) /\ v.delegations = VotingFor[u].delegations
        /\ \/ v.votes = VotingFor[u].votes
           \/ \E p \in Polls : /\ v.votes = [VotingFor[u].votes EXCEPT ![p] = NoVote]
                               /\ ReferendumInfoFor[p].state \in {"Completed", "Killed"}
                               /\ PendingOn(p) = {}
        /\ UNCHANGED <<ReferendumInfoFor, PendingQueries, history>>
  BY UnlockIs
<1>2. /\ VotingFor'[u].votes = v.votes /\ VotingFor'[u].delegations = v.delegations
      /\ \A x \in Users \ {u} : VotingFor'[x] = VotingFor[x]
  BY <1>1, UpdateLockIs
<1>3. \A p \in Polls : PendingOn(p)' = PendingOn(p)
  BY <1>1 DEF PendingOn
<1>4. VotingFor[u].votes \in [Polls -> Entries]
  BY TypeFacts
<1>5. ASSUME NEW p \in Polls PROVE PollInv(p)'
  <2>1. CASE v.votes[p] = VotingFor[u].votes[p]
    <3>1. KeptPoll(p)
      BY <1>1, <1>2, <1>3, <2>1 DEF KeptPoll, Vote, DelegatedPending
    <3> QED BY <3>1, KeptPollInv
  <2>2. CASE v.votes[p] # VotingFor[u].votes[p]
    <3>1. ReferendumInfoFor[p].state \in {"Completed", "Killed"} /\ PendingOn(p) = {}
      BY <1>1, <1>4, <2>2
    <3> QED BY <1>1, <1>3, <3>1 DEF PollInv, PollOK
  <2> QED BY <2>1, <2>2
<1>6. DelegatedPending'
  BY <1>1, <1>3, TypeFacts DEF DelegatedPending
<1> QED BY <1>5, <1>6

LEMMA CommonVotePolls ==
  ASSUME TypeOK, TypeOK', DelegatedPending, \A p \in Polls : PollInv(p),
         NEW u \in Users, NEW p \in Polls, NEW v \in VoteInputs, common_vote(u, p, v)
  PROVE  DelegatedPending' /\ \A x \in Polls : PollInv(x)'
<1>1. PICK vote, tally, after : CommonVoteIs(u, p, v, vote, tally, after)
  BY CommonVote
<1>2. VotingFor' \in [Users -> Votings]
  BY DEF TypeOK
<1>3. PollInv(p)'
  BY <1>1, <1>2, VotedPoll
<1>4. PICK os : NewQuery(u, {p}, os)
  BY <1>1 DEF CommonVoteIs
<1>5. \A x \in Polls : /\ PendingOn(x)' = IF x = p THEN PendingOn(x) \cup {nextQuery} ELSE PendingOn(x)
                       /\ \A q \in PendingOn(x) : PendingQueries'[q] = PendingQueries[q]
  BY <1>4, PendingNew
<1>6. history' = history
  BY <1>1 DEF CommonVoteIs
<1>7. ASSUME NEW x \in Polls \ {p} PROVE PollInv(x)'
  <2>1. /\ VotingFor' = [VotingFor EXCEPT ![u] = after]
        /\ after.votes = [VotingFor[u].votes EXCEPT ![p] = vote]
        /\ after.delegations = VotingFor[u].delegations
        /\ VotingFor[u].votes \in [Polls -> Entries]
    BY <1>1, TypeFacts DEF CommonVoteIs
  <2>2. after.votes[x] = VotingFor[u].votes[x]
    BY <2>1
  <2>3. \A y \in Users : /\ VotingFor'[y].votes[x] = Vote(y, x)
                         /\ VotingFor'[y].delegations = VotingFor[y].delegations
    BY <2>1, <2>2, TypeFacts DEF Vote
  <2>4. ReferendumInfoFor'[x] = ReferendumInfoFor[x]
    BY <1>1, TypeFacts DEF CommonVoteIs
  <2>5. KeptPoll(x)
    BY <1>5, <1>6, <2>3, <2>4 DEF KeptPoll, DelegatedPending
  <2> QED BY <2>5, KeptPollInv
<1>8. DelegatedPending'
  <2>1. \A x \in Polls : PendingOn(x) # {} => PendingOn(x)' # {}
    BY <1>5
  <2> QED BY <1>6, <2>1, TypeFacts DEF DelegatedPending
<1> QED BY <1>3, <1>7, <1>8

LEMMA DelegatePolls ==
  ASSUME TypeOK, \A p \in Polls : PollInv(p),
         NEW u \in Users, NEW to \in Users, NEW conviction \in Convictions, NEW vtoken \in Nat,
         delegate(u, to, conviction, vtoken)
  PROVE  DelegatedPending' /\ \A p \in Polls : PollInv(p)'
<1>1. PICK mine, theirs : DelegateIs(u, to, conviction, vtoken, mine, theirs)
  BY Delegate
<1>2. PICK a \in Delegations : a = Amount(conviction, vtoken)
  BY AmountType
<1>3. PICK tally, old : UpstreamIs(to, a, TRUE, tally, old)
  BY <1>2, Delegate
<1>4. /\ TwoVotings(u, to, mine, theirs) /\ delegation_changed(to)
      /\ theirs.delegations = AddTo(VotingFor[to].delegations, a)
  BY <1>1, <1>2 DEF DelegateIs
<1>5. PICK increase \in BOOLEAN : increase = TRUE
  OBVIOUS
<1>6. ASSUME NEW p \in Polls PROVE PollInv(p)'
  <2>1. theirs.delegations = IF increase THEN AddTo(VotingFor[to].delegations, a)
                             ELSE SubFrom(VotingFor[to].delegations, a)
    BY <1>4, <1>5
  <2>2. UpstreamIs(to, a, increase, tally, old)
    BY <1>3, <1>5
  <2>3. PollInv(p)
    OBVIOUS
  <2> QED BY <1>4, <1>5, <2>1, <2>2, <2>3, DelegationPoll
<1> QED BY <1>4, <1>6, DelegationChangedIs

LEMMA UndelegatePolls ==
  ASSUME TypeOK, DelegationsAgree, DelegatorsIdle, \A p \in Polls : PollInv(p),
         NEW u \in Users, undelegate(u)
  PROVE  DelegatedPending' /\ \A p \in Polls : PollInv(p)'
<1> DEFINE amount == Amount(VotingFor[u].conviction, VotingFor[u].balance)
<1>1. PICK to \in Users :
        /\ \E mine, theirs : UndelegateIs(u, to, mine, theirs)
        /\ amount \in Delegations /\ \E tally, old : UpstreamIs(to, amount, FALSE, tally, old)
  BY Undelegate
<1>2. PICK a \in Delegations : a = amount
  BY <1>1
<1>3. PICK mine, theirs : UndelegateIs(u, to, mine, theirs)
  BY <1>1
<1>4. PICK tally, old : UpstreamIs(to, a, FALSE, tally, old)
  BY <1>1, <1>2
<1>5. /\ TwoVotings(u, to, mine, theirs) /\ delegation_changed(to) /\ VotingFor[u].target = to
      /\ theirs.delegations = SubFrom(VotingFor[to].delegations, a)
  BY <1>2, <1>3 DEF UndelegateIs
<1>6. a.votes <= VotingFor[to].delegations.votes /\ a.capital <= VotingFor[to].delegations.capital
  BY <1>2, <1>5, DelegationCredited
<1>7. PICK increase \in BOOLEAN : increase = FALSE
  OBVIOUS
<1>8. ASSUME NEW p \in Polls PROVE PollInv(p)'
  <2>1. theirs.delegations = IF increase THEN AddTo(VotingFor[to].delegations, a)
                             ELSE SubFrom(VotingFor[to].delegations, a)
    BY <1>5, <1>7
  <2>2. UpstreamIs(to, a, increase, tally, old)
    BY <1>4, <1>7
  <2>3. PollInv(p)
    OBVIOUS
  <2> QED BY <1>5, <1>6, <1>7, <2>1, <2>2, <2>3, DelegationPoll
<1> QED BY <1>5, <1>8, DelegationChangedIs

LEMMA FailedPolls ==
  ASSUME TypeOK, TypeOK', DelegatorsIdle, \A p \in Polls : PollInv(p),
         NEW q \in DOMAIN PendingQueries, notify_vote_failed(q)
  PROVE  DelegatedPending' /\ \A p \in Polls : PollInv(p)'
<1>1. PICK query : FailedIs(q, query)
  BY Failed
<1>2. VotingFor' \in [Users -> Votings]
  BY DEF TypeOK
<1>3. \A p \in Polls : PollInv(p)'
  BY <1>1, <1>2, FailedPoll
<1>4. PICK S : S = {p \in Polls : PendingOn(p)' # {}}
  OBVIOUS
<1>5. history'.delegated = history.delegated \cap S
  BY <1>1, <1>4 DEF FailedIs
<1> QED BY <1>3, <1>4, <1>5 DEF DelegatedPending

LEMMA PollsStep ==
  ASSUME VotingInv, TypeOK', [Next]_vars
  PROVE  DelegatedPending' /\ PollsOK' /\ QueriesOK'
<1>1. /\ TypeOK /\ DelegatedPending /\ DelegatorsIdle /\ DelegationsAgree
      /\ \A p \in Polls : PollInv(p)
  BY PollInvs DEF VotingInv
<1>2. SUFFICES DelegatedPending' /\ \A p \in Polls : PollInv(p)'
  BY DEF PollsOK, QueriesOK, PollInv
<1>3. ASSUME QuietStep PROVE DelegatedPending' /\ \A p \in Polls : PollInv(p)'
  BY <1>1, <1>3, QuietPolls, QuietPending
<1>4. CASE Calls
  <2>1. ASSUME NEW u \in Users, NEW to \in Users, NEW i \in DelegateInputs,
               delegate(u, to, i[1], i[2])
        PROVE  DelegatedPending' /\ \A p \in Polls : PollInv(p)'
    <3>1. i[1] \in Convictions /\ i[2] \in Nat
      BY Constants
    <3> QED BY <1>1, <2>1, <3>1, DelegatePolls
  <2>2. ASSUME NEW p \in Polls, NEW d \in Derivatives, remove_delegator_vote(p, d)
        PROVE  DelegatedPending' /\ \A x \in Polls : PollInv(x)'
    BY <1>1, <1>3, <2>2, RemoveQuiet
  <2> QED BY <1>1, <1>4, <2>1, <2>2, CommonVotePolls, UndelegatePolls, UnlockPolls DEF Calls
<1>5. CASE Answers
  <2>1. ASSUME NEW q \in DOMAIN PendingQueries, NEW ok \in BOOLEAN, relay_runs(q, ok)
        PROVE  QuietStep
    BY <1>1, <2>1, RunQuiet
  <2>2. ASSUME NEW q \in DOMAIN PendingQueries, notify_vote_succeeded(q) PROVE QuietStep
    BY <1>1, <2>2, SucceededQuiet
  <2>3. ASSUME NEW q \in DOMAIN PendingQueries, notify_remove_delegator_vote(q) PROVE QuietStep
    BY <1>1, <2>3, RemoveQuiet
  <2> QED BY <1>1, <1>3, <1>5, <2>1, <2>2, <2>3, FailedPolls DEF Answers
<1>6. CASE Governance \/ \E served \in SUBSET ReferendumTimeout : on_idle(served)
  BY <1>1, <1>3, <1>6, GovernanceStep, FrameQuiet DEF GovernanceIs
<1>7. CASE UNCHANGED vars
  BY <1>1, <1>3, <1>7, FrameQuiet DEF vars
<1> QED BY <1>4, <1>5, <1>6, <1>7 DEF Next

LEMMA VotingInit == ASSUME Init PROVE VotingInv
<1>1. TypeOK
  BY TypeInit
<1>2. /\ \A u \in Users : /\ VotingFor[u].target = NoOne
                          /\ VotingFor[u].delegations = [votes |-> 0, capital |-> 0]
                          /\ \A p \in Polls : VotingFor[u].votes[p] = NoVote
      /\ \A p \in Polls : ReferendumInfoFor[p].tally = ZeroTally
      /\ PendingQueries = [q \in {} |-> 0] /\ history = [delegated |-> {}, skewed |-> {}]
  BY DEF Init, NoInfo
<1>3. LocksCover
  <2>1. NoVote.vtoken = 0 /\ \A u \in Users : ClassLocksFor[u] \in Nat
    BY <1>1, TypeFacts DEF NoVote
  <2> QED BY <1>2, <2>1 DEF LocksCover, Casts
<1>4. DelegatorsIdle
  BY <1>2 DEF DelegatorsIdle, Casts
<1>5. IsFiniteSet(Users) /\ NoOne \notin Users
  BY Constants
<1>6. DelegationsAgree
  <2>1. ASSUME NEW u \in Users PROVE ReceivedIn(VotingFor, u) = [votes |-> 0, capital |-> 0]
    <3>1. PICK f, g : /\ f = [d \in Users |-> Given(VotingFor, d, u).votes]
                      /\ g = [d \in Users |-> Given(VotingFor, d, u).capital]
      OBVIOUS
    <3>2. \A d \in Users : f[d] = 0 /\ g[d] = 0
      BY <1>2, <1>5, <3>1 DEF Given
    <3>3. SumFunctionOnSet(f, Users) = 0 /\ SumFunctionOnSet(g, Users) = 0
      BY <1>5, <3>2, SetSumZero
    <3> QED BY <3>1, <3>3 DEF ReceivedIn, ReceivedVotes, ReceivedCapital
  <2> QED BY <1>2, <2>1, ReceivedIs
<1>7. DOMAIN PendingQueries = {}
  BY <1>2
<1>8. QueriesOK /\ DelegatedPending
  BY <1>2, <1>7 DEF QueriesOK, DelegatedPending, PendingOn
<1>9. PollsOK
  <2>1. ASSUME NEW p \in Polls PROVE TallyOf(p) = ZeroTally
    <3>1. Weight(NoVote, [votes |-> 0, capital |-> 0]) = ZeroTally
      <4>1. Votes(0, 0) = 0
        BY DEF Votes
      <4> QED BY <4>1 DEF Weight, Own, Delegated, Plus, NoVote, ZeroTally
    <3>2. PICK w : w = WeightsOf(VotingFor, p)
      OBVIOUS
    <3>3. \A u \in Users : w[u] = ZeroTally
      BY <1>2, <3>1, <3>2 DEF WeightsOf
    <3>4. PICK f, g, h : /\ f = [u \in Users |-> w[u].ayes] /\ g = [u \in Users |-> w[u].nays]
                         /\ h = [u \in Users |-> w[u].support]
      OBVIOUS
    <3>5. \A u \in Users : f[u] = 0 /\ g[u] = 0 /\ h[u] = 0
      BY <3>3, <3>4 DEF ZeroTally
    <3>6. SumFunctionOnSet(f, Users) = 0 /\ SumFunctionOnSet(g, Users) = 0
          /\ SumFunctionOnSet(h, Users) = 0
      BY <1>5, <3>5, SetSumZero
    <3>7. SumTally(w) = ZeroTally
      BY <3>4, <3>6 DEF SumTally, ZeroTally
    <3> QED BY <3>2, <3>7, WeightsIs
  <2> QED BY <1>2, <2>1 DEF PollsOK, PollOK, Vote
<1> QED BY <1>1, <1>3, <1>4, <1>6, <1>8, <1>9 DEF VotingInv

LEMMA VotingStep == ASSUME VotingInv, [Next]_vars PROVE VotingInv'
<1>1. TypeOK' /\ LocksCover' /\ DelegatorsIdle' /\ DelegationsAgree'
  BY TypeStep, UsersStep, AgreeStep DEF VotingInv
<1> QED BY <1>1, PollsStep DEF VotingInv

-----------------------------------------------------------------------------
(* The theorems.                                                           *)

(* VotingInv is an invariant: the tallies, the locks, the delegations and  *)
(* what every unanswered vote would put back agree, in every order of      *)
(* vote, delegate, undelegate, unlock, answer and the end of a referendum. *)
THEOREM VotingInvariant == Spec => []VotingInv
<1>1. Init => VotingInv
  BY VotingInit
<1>2. VotingInv /\ [Next]_vars => VotingInv'
  BY VotingStep
<1> QED BY <1>1, <1>2, PTL DEF Spec

(* Type correctness: every storage item of the pallet, the queries and the *)
(* allocations of the votes to the derivative accounts keep their types.   *)
THEOREM TypeCorrect == Spec => []TypeOK
<1>1. VotingInv => TypeOK
  BY DEF VotingInv
<1> QED BY <1>1, VotingInvariant, PTL

(* set_lock and update_lock keep enough of a user's vTokens locked for     *)
(* every vote and the delegation in place, also after handle_vote_result   *)
(* rolled votes back and unlock released some.                             *)
THEOREM LocksAlwaysCover == Spec => []LocksCover
<1>1. VotingInv => LocksCover
  BY DEF VotingInv
<1> QED BY <1>1, VotingInvariant, PTL

(* increase_upstream_delegation and reduce_upstream_delegation keep the    *)
(* delegations of a user exactly what others delegate to that user:        *)
(* saturating_sub in reduce_upstream_delegation never saturates.           *)
THEOREM DelegationsExact == Spec => []DelegationsAgree
<1>1. VotingInv => DelegationsAgree
  BY DEF VotingInv
<1> QED BY <1>1, VotingInvariant, PTL

(* The tally of an ongoing referendum is the sum of the votes in place and *)
(* the delegations behind them, however votes, delegations, failures that  *)
(* roll votes back and the ends of referenda follow each other; except on  *)
(* the polls that the model counts as skewed.                              *)
THEOREM TalliesAgree == Spec => []TallyAgrees
<1>1. VotingInv => TallyAgrees
  BY DEF VotingInv, PollsOK, PollOK, TallyAgrees, Ongoing
<1> QED BY <1>1, VotingInvariant, PTL

-----------------------------------------------------------------------------
(* The votes on the relay chain.  The setting in which they follow the     *)
(* tally: one derivative account, with a stake that covers the vote cap.   *)
OneDerivative ==
  VoteCap > 0 /\ \E d \in Derivatives : Derivatives = {d} /\ VoteCap <= Available[d]

(* The capital for a number of votes loses less than the conviction.       *)
LEMMA CapitalRounds ==
  ASSUME NEW c \in Convictions, NEW n \in Nat
  PROVE  /\ vote_to_capital(c, n) \in Nat /\ Votes(c, vote_to_capital(c, n)) \in 0..n
         /\ n - Votes(c, vote_to_capital(c, n)) <= 5
         /\ c <= 1 => Votes(c, vote_to_capital(c, n)) = n
<1>1. c \in 0..6
  BY DEF Convictions
<1>2. CASE c = 0
  <2>1. vote_to_capital(c, n) = n * 10
    BY <1>2 DEF vote_to_capital
  <2>2. (n * 10) \div 10 = n /\ n * 10 \in Nat
    OBVIOUS
  <2>3. Votes(c, n * 10) = n
    BY <1>2, <2>2 DEF Votes
  <2> QED BY <2>1, <2>2, <2>3
<1>3. CASE c # 0
  <2>1. PICK q \in Nat : q = n \div c /\ q * c <= n /\ n < q * c + c
    BY <1>1, <1>3, DivBound
  <2>2. vote_to_capital(c, n) = q /\ Votes(c, q) = q * c
    BY <1>3, <2>1 DEF vote_to_capital, Votes
  <2>3. PICK v \in Nat : v = q * c
    BY <1>1
  <2>4. v <= n /\ n - v <= 5
    BY <1>1, <2>1, <2>3
  <2>5. c = 1 => n \div c = n
    OBVIOUS
  <2>6. c = 1 => v = n
    BY <2>1, <2>3, <2>5
  <2> QED BY <1>1, <1>3, <2>2, <2>3, <2>4, <2>6
<1> QED BY <1>2, <1>3

(* compute_delegator_total_vote: exact up to the cap, otherwise less by at *)
(* most five votes, and some votes remain.                                 *)
LEMMA TotalVotesRound ==
  ASSUME NEW n \in Nat, AllowedConvictions(n) # {}
  PROVE  /\ TotalVotes(n) \in 0..n /\ n - TotalVotes(n) <= 5
         /\ n <= VoteCap => TotalVotes(n) = n
         /\ TotalVotes(n) <= 6 * VoteCap
         /\ n > 0 /\ VoteCap > 0 => TotalCapital(n) > 0 /\ TotalVotes(n) > 0
<1>1. VoteCap \in Nat
  BY Constants
<1>2. AllowedConvictions(n) \in SUBSET Nat
  BY DEF AllowedConvictions, Convictions
<1>3. PICK i \in AllowedConvictions(n) :
        i = Min(AllowedConvictions(n)) /\ \A j \in AllowedConvictions(n) : i <= j
  BY <1>2, MinOfSet
<1>4. i \in Convictions /\ vote_to_capital(i, n) <= VoteCap
  BY DEF AllowedConvictions
<1>5. TotalCapital(n) = vote_to_capital(i, n) /\ TotalVotes(n) = Votes(i, vote_to_capital(i, n))
  BY <1>3 DEF TotalVotes, TotalCapital
<1>6. PICK c \in Nat : c = vote_to_capital(i, n)
  BY <1>4, CapitalRounds
<1>7. PICK v \in 0..n : v = TotalVotes(n) /\ v = Votes(i, c)
  BY <1>4, <1>5, <1>6, CapitalRounds
<1>8. n - v <= 5 /\ (i <= 1 => v = n)
  BY <1>4, <1>6, <1>7, CapitalRounds
<1>9. i \in 0..6
  BY <1>4 DEF Convictions
<1>10. n <= VoteCap => v = n
  <2>1. ASSUME n <= VoteCap PROVE 1 \in AllowedConvictions(n)
    <3>1. vote_to_capital(1, n) = n \div 1 /\ n \div 1 = n
      BY DEF vote_to_capital
    <3> QED BY <2>1, <3>1 DEF AllowedConvictions, Convictions
  <2> QED BY <1>3, <1>8, <1>9, <2>1
<1>11. i # 0 => v = c * i
  BY <1>7 DEF Votes
<1>12. i = 0 => c = n * 10 /\ v = n
  BY <1>6, <1>8 DEF vote_to_capital
<1>13. v <= 6 * VoteCap
  <2>1. CASE i = 0
    BY <1>1, <1>4, <1>6, <1>12, <2>1
  <2>2. CASE i # 0
    <3>1. c * i <= 6 * c
      BY <1>9
    <3>2. 6 * c <= 6 * VoteCap
      BY <1>1, <1>4, <1>6
    <3>3. c * i \in Nat
      BY <1>9
    <3> QED BY <1>1, <1>11, <2>2, <3>1, <3>2, <3>3
  <2> QED BY <2>1, <2>2
<1>14. ASSUME n > 0, VoteCap > 0 PROVE c > 0 /\ v > 0
  <2>1. CASE i = 0
    BY <1>12, <1>14, <2>1
  <2>2. CASE i = 1
    <3>1. v = n /\ v = c * 1
      BY <1>8, <1>11, <2>2
    <3> QED BY <1>14, <3>1
  <2>3. CASE i > 1
    <3>1. PICK j \in 1..5 : j = i - 1
      BY <1>9, <2>3
    <3>2. PICK q \in Nat : q = n \div j /\ q * j <= n
      BY DivBound
    <3>3. j \in Convictions /\ vote_to_capital(j, n) = q
      BY <3>2 DEF vote_to_capital, Convictions
    <3>4. q > VoteCap
      <4>1. j \notin AllowedConvictions(n)
        BY <1>3, <1>9, <3>1
      <4> QED BY <1>1, <3>2, <3>3, <4>1 DEF AllowedConvictions
    <3>5. n >= i
      <4>1. q >= 2
        BY <1>1, <1>14, <3>2, <3>4
      <4>2. 2 * j <= q * j
        BY <4>1
      <4>3. q * j \in Nat
        OBVIOUS
      <4> QED BY <1>9, <2>3, <3>1, <3>2, <4>2, <4>3
    <3>6. c = n \div i /\ c * i <= n /\ n < c * i + i
      <4>1. n \div i \in Nat /\ (n \div i) * i <= n /\ n < (n \div i) * i + i
        BY <1>9, <2>3, DivBound
      <4> QED BY <1>6, <2>3, <4>1 DEF vote_to_capital
    <3>7. c # 0
      BY <1>9, <3>5, <3>6
    <3>8. c * i > 0
      BY <1>9, <2>3, <3>7
    <3> QED BY <1>11, <2>3, <3>7, <3>8
  <2> QED BY <1>9, <2>1, <2>2, <2>3
<1> QED BY <1>5, <1>6, <1>7, <1>8, <1>10, <1>13, <1>14

(* One derivative account that covers the rest casts all of it, but for    *)
(* the rounding of its conviction.                                         *)
CastsVotes(e, side, n) ==
  /\ e \in DelegatorVoteItems /\ e.side = side
  /\ Votes(e.conviction, e.balance) \in 0..n /\ n - Votes(e.conviction, e.balance) <= 5
  /\ n <= VoteCap => Votes(e.conviction, e.balance) = n

LEMMA StepCasts ==
  ASSUME NEW d \in Derivatives, VoteCap <= Available[d], NEW side \in {"aye", "nay"},
         NEW n \in Nat, n > 0, n <= 6 * VoteCap
  PROVE  \E e : /\ CastsVotes(e, side, n)
                /\ DistributeStep([list |-> <<>>, left |-> n, done |-> FALSE], d, side) =
                     [list |-> <<e>>, left |-> n, done |-> TRUE]
<1>1. VoteCap \in Nat /\ Available[d] \in Nat
  BY Constants
<1>2. Votes(6, Available[d]) = Available[d] * 6 /\ Votes(1, Available[d]) = Available[d] * 1
  BY DEF Votes
<1>3. Available[d] # 0 /\ Votes(6, Available[d]) >= n
  BY <1>1, <1>2
<1> DEFINE covering == {i \in Convictions : n <= Votes(i, Available[d])}
<1>4. covering \in SUBSET Nat /\ covering # {}
  BY <1>1, <1>2, <1>3 DEF Convictions
<1>5. PICK i \in covering : i = Min(covering) /\ \A j \in covering : i <= j
  BY <1>4, MinOfSet
<1>6. i \in Convictions /\ i \in Nat
  BY DEF Convictions
<1>7. n <= VoteCap => i <= 1
  <2>1. n <= VoteCap => 1 \in covering
    BY <1>1, <1>2 DEF Convictions
  <2> QED BY <1>5, <2>1
<1>8. PICK c \in Nat : c = vote_to_capital(i, n)
  BY <1>6, CapitalRounds
<1>9. /\ Votes(i, c) \in 0..n /\ n - Votes(i, c) <= 5 /\ (i <= 1 => Votes(i, c) = n)
  BY <1>6, <1>8, CapitalRounds
<1>10. PICK e : e = [deriv |-> d, side |-> side, conviction |-> i, balance |-> c]
  OBVIOUS
<1>11. e \in DelegatorVoteItems /\ e.side = side /\ e.conviction = i /\ e.balance = c
  BY <1>6, <1>10 DEF DelegatorVoteItems
<1>12. CastsVotes(e, side, n)
  BY <1>7, <1>9, <1>11 DEF CastsVotes
<1>13. PICK s : s = [list |-> <<>>, left |-> n, done |-> FALSE]
  OBVIOUS
<1>14. s.list = <<>> /\ s.left = n /\ s.done = FALSE
  BY <1>13
<1>15. DistributeStep(s, d, side) = [list |-> Append(s.list, e), left |-> n, done |-> TRUE]
  BY <1>3, <1>5, <1>8, <1>10, <1>14 DEF DistributeStep
<1>16. Append(s.list, e) = <<e>>
  BY <1>14
<1> QED BY <1>12, <1>13, <1>15, <1>16

(* After a step that is done the walk changes nothing.                     *)
LEMMA DistributeOnce ==
  ASSUME OneDerivative, NEW n \in Nat, TotalVotes(n) \in Nat, TotalVotes(n) > 0,
         TotalVotes(n) <= 6 * VoteCap, NEW side \in {"aye", "nay"},
         NEW data \in Seq(Derivatives), Len(data) > 0
  PROVE  \E e : /\ CastsVotes(e, side, TotalVotes(n))
                /\ Distribute(n, side, data).list = <<e>>
<1>1. PICK d \in Derivatives : Derivatives = {d} /\ VoteCap <= Available[d]
  BY DEF OneDerivative
<1>2. Len(data) \in Nat /\ \A k \in 1..Len(data) : data[k] = d
  BY <1>1
<1>3. PICK w : IsDistribute(w, Len(data), n, side, data) /\ Distribute(n, side, data) = w[Len(data)]
  BY <1>2, DistributeIs
<1>4. PICK start : start = [list |-> <<>>, left |-> TotalVotes(n), done |-> FALSE]
  OBVIOUS
<1>5. PICK e : CastsVotes(e, side, TotalVotes(n)) /\
               DistributeStep(start, d, side) = [list |-> <<e>>, left |-> TotalVotes(n), done |-> TRUE]
  BY <1>1, <1>4, StepCasts
<1>6. PICK last : last = [list |-> <<e>>, left |-> TotalVotes(n), done |-> TRUE]
  OBVIOUS
<1>7. last.list = <<e>> /\ last.done = TRUE
  BY <1>6
<1>8. DistributeStep(last, d, side) = last
  BY <1>7 DEF DistributeStep
<1>9. \A k \in 1..Len(data) : w[k] = DistributeStep(w[k-1], d, side)
  <2> TAKE k \in 1..Len(data)
  <2>1. k \in 0..Len(data) /\ k # 0
    BY <1>2
  <2>2. w[k] = IF k = 0 THEN [list |-> <<>>, left |-> TotalVotes(n), done |-> FALSE]
               ELSE DistributeStep(w[k-1], data[k], side)
    BY <1>3, <2>1 DEF IsDistribute
  <2> QED BY <1>2, <2>1, <2>2
<1>10. w[0] = start
  BY <1>2, <1>3, <1>4 DEF IsDistribute
<1> DEFINE T == {k \in Nat : k + 1 <= Len(data) => w[k+1] = last}
<1>11. 0 \in T
  <2>1. 1 \in 1..Len(data) /\ 1 - 1 = 0
    BY <1>2
  <2>2. w[1] = DistributeStep(w[0], d, side)
    BY <1>9, <2>1
  <2>3. 0 + 1 = 1 /\ w[1] = last
    BY <1>5, <1>6, <1>10, <2>2
  <2>4. 0 + 1 <= Len(data) => w[0+1] = last
    BY <2>3
  <2> QED BY <2>4
<1>12. \A k \in T : k + 1 \in T
  <2> SUFFICES ASSUME NEW k \in T, k + 1 + 1 <= Len(data) PROVE w[k+1+1] = last
    OBVIOUS
  <2>1. k + 1 + 1 \in 1..Len(data) /\ (k + 1 + 1) - 1 = k + 1 /\ w[k+1] = last
    BY <1>2
  <2>2. w[k+1+1] = DistributeStep(w[k+1], d, side)
    BY <1>9, <2>1
  <2> QED BY <1>8, <2>1, <2>2
<1> HIDE DEF T
<1>13. T = Nat
  BY <1>11, <1>12, SetInduction DEF T
<1>14. w[Len(data)] = last
  <2>1. PICK k \in Nat : k + 1 = Len(data)
    <3>1. Len(data) - 1 \in Nat /\ (Len(data) - 1) + 1 = Len(data)
      BY <1>2
    <3> QED BY <3>1
  <2>2. k + 1 <= Len(data) => w[k+1] = last
    BY <1>13 DEF T
  <2> QED BY <1>2, <2>1, <2>2
<1> QED BY <1>3, <1>5, <1>7, <1>14

(* allocate_delegator_votes: the one derivative account casts the net tally. *)
CastsTally(list, t) ==
  Net(t) # 0 => Len(list) = 1 /\ Carries(Cast(list[1]), Net(t))

LEMMA AllocationCasts ==
  ASSUME OneDerivative, TypeOK, NEW p \in Polls, NEW t \in Tallies, CanAllocate(p, t)
  PROVE  CastsTally(Allocation(p, t).list, t)
<1> SUFFICES ASSUME Net(t) # 0
             PROVE  Len(Allocation(p, t).list) = 1 /\ Carries(Cast(Allocation(p, t).list[1]), Net(t))
  BY DEF CastsTally
<1>1. t.ayes \in Nat /\ t.nays \in Nat
  BY DEF Tallies
<1>2. PICK n \in Nat : n = NetVotes(t)
  BY <1>1 DEF NetVotes
<1>3. PICK side \in {"aye", "nay"} : side = IF t.ayes >= t.nays THEN "aye" ELSE "nay"
  OBVIOUS
<1>4. PICK data \in Seq(Derivatives) : data = Candidates(p)
  BY CandidatesType
<1>5. n > 0 /\ (side = "aye" => Net(t) = n) /\ (side = "nay" => Net(t) = -n)
  BY <1>1, <1>2, <1>3 DEF NetVotes, Net
<1>6. Allocation(p, t) = Distribute(n, side, data)
  BY <1>2, <1>3, <1>4 DEF Allocation
<1>7. /\ AllowedConvictions(n) # {}
      /\ Distribute(n, side, data).done \/ TotalCapital(n) = 0
  BY <1>2, <1>6 DEF CanAllocate
<1>8. VoteCap \in Nat /\ VoteCap > 0
  BY Constants DEF OneDerivative
<1>9. PICK m \in 0..n : m = TotalVotes(n)
  BY <1>7, TotalVotesRound
<1>10. n - m <= 5 /\ (n <= VoteCap => m = n) /\ m <= 6 * VoteCap /\ m > 0 /\ TotalCapital(n) # 0
  BY <1>5, <1>7, <1>8, <1>9, TotalVotesRound
<1>11. Len(data) > 0
  <2>1. ASSUME Len(data) = 0 PROVE FALSE
    <3>1. PICK w : IsDistribute(w, Len(data), n, side, data)
                   /\ Distribute(n, side, data) = w[Len(data)]
      BY <2>1, DistributeIs
    <3>2. w[0] = [list |-> <<>>, left |-> TotalVotes(n), done |-> FALSE]
      BY <2>1, <3>1 DEF IsDistribute
    <3> QED BY <1>7, <1>10, <2>1, <3>1, <3>2
  <2> QED BY <2>1
<1>12. PICK e : CastsVotes(e, side, m) /\ Distribute(n, side, data).list = <<e>>
  BY <1>9, <1>10, <1>11, DistributeOnce
<1>13. PICK v \in 0..m : v = Votes(e.conviction, e.balance)
  BY <1>12 DEF CastsVotes
<1>14. m - v <= 5 /\ (m <= VoteCap => v = m) /\ e.side = side
  BY <1>12, <1>13 DEF CastsVotes
<1>15. v <= n /\ n - v <= 10 /\ v >= 0 /\ (n <= VoteCap => v = n)
  BY <1>8, <1>9, <1>10, <1>13, <1>14
<1>16. CASE side = "aye"
  <2>1. Cast(e) = v /\ Net(t) = n
    BY <1>5, <1>13, <1>14, <1>16 DEF Cast
  <2>2. Carries(v, n)
    BY <1>5, <1>8, <1>15 DEF Carries
  <2> QED BY <1>6, <1>12, <2>1, <2>2
<1>17. CASE side = "nay"
  <2>1. Cast(e) = -v /\ Net(t) = -n
    BY <1>5, <1>13, <1>14, <1>17 DEF Cast
  <2>2. Carries(-v, -n)
    BY <1>5, <1>8, <1>15 DEF Carries
  <2> QED BY <1>6, <1>12, <2>1, <2>2
<1> QED BY <1>16, <1>17

-----------------------------------------------------------------------------
(* What is known of the relay chain between a vote and its answer.  The    *)
(* last message on its way casts the tally; once all messages on a poll    *)
(* ran, their votes are there; and an unanswered vote that did not run     *)
(* found the votes of the tally it would restore.  Derivative accounts     *)
(* withdraw their votes only after the referendum is over.                 *)
OnRelay(p, t) == Net(t) # 0 => Carries(SumFunction(relay[p]), Net(t))
Sent(q) == PendingQueries[q].outcome = "sent"
RanOK(q) == PendingQueries[q].outcome = "ok"

\* An unskewed poll that may be voted on.
Followed(p) == p \notin history.skewed /\ ReferendumInfoFor[p].state \in {"None", "Ongoing"}

LastCasts(p) ==
  \A q \in PendingOn(p) : Sent(q) /\ (\A r \in PendingOn(p) : r > q => ~Sent(r)) =>
    CastsTally(PendingQueries[q].items[p].list, ReferendumInfoFor[p].tally)
AllRan(p) == (\A q \in PendingOn(p) : RanOK(q)) => OnRelay(p, ReferendumInfoFor[p].tally)
OldOnRelay(p) ==
  p \notin history.delegated =>
    \A q \in PendingOn(p) : ~RanOK(q) => OnRelay(p, PendingQueries[q].items[p].info.tally)
NoneRemoved(p) ==
  \A q \in DOMAIN PendingQueries : PendingQueries[q].kind = "remove" => PendingQueries[q].poll # p

RelayPoll(p) == Followed(p) => LastCasts(p) /\ AllRan(p) /\ OldOnRelay(p) /\ NoneRemoved(p)
RelayInv == \A p \in Polls : RelayPoll(p)

(* A step that leaves the tally and the relay chain's votes on a poll      *)
(* alone, and of its queries answers at most some that ran.                *)
SameQueries(p) ==
  /\ PendingOn(p)' \subseteq PendingOn(p)
  /\ \A q \in PendingOn(p) \ PendingOn(p)' : RanOK(q)
  /\ \A q \in PendingOn(p)' : /\ PendingQueries'[q].outcome = PendingQueries[q].outcome
                              /\ PendingQueries'[q].items[p] = PendingQueries[q].items[p]
NoNewRemoval(p) ==
  \A q \in DOMAIN PendingQueries' : PendingQueries'[q].kind = "remove" =>
    PendingQueries'[q].poll # p \/ (q \in DOMAIN PendingQueries /\ PendingQueries[q].kind = "remove"
                                    /\ PendingQueries[q].poll = p)

SameTally(p) ==
  Followed(p)' => /\ Followed(p) /\ ReferendumInfoFor'[p].tally = ReferendumInfoFor[p].tally

LEMMA RelaySame ==
  ASSUME NEW p \in Polls, RelayPoll(p), SameQueries(p), NoNewRemoval(p), SameTally(p),
         relay'[p] = relay[p],
         p \in history.delegated => p \in history'.delegated \/ PendingOn(p)' = {}
  PROVE  RelayPoll(p)'
<1> SUFFICES ASSUME Followed(p)' PROVE (LastCasts(p) /\ AllRan(p) /\ OldOnRelay(p) /\ NoneRemoved(p))'
  BY DEF RelayPoll
<1>1. /\ LastCasts(p) /\ AllRan(p) /\ OldOnRelay(p) /\ NoneRemoved(p)
      /\ ReferendumInfoFor'[p].tally = ReferendumInfoFor[p].tally
  BY DEF RelayPoll, SameTally
<1>2. LastCasts(p)'
  BY <1>1 DEF LastCasts, SameQueries, Sent, RanOK
<1>3. AllRan(p)'
  BY <1>1 DEF AllRan, SameQueries, RanOK, OnRelay
<1>4. OldOnRelay(p)'
  BY <1>1 DEF OldOnRelay, SameQueries, RanOK, OnRelay
<1>5. NoneRemoved(p)'
  BY <1>1 DEF NoneRemoved, NoNewRemoval
<1> QED BY <1>2, <1>3, <1>4, <1>5

(* With one derivative account the votes on the relay chain are its vote.  *)
LEMMA SumOfOne ==
  ASSUME NEW d, NEW f \in [{d} -> Int]
  PROVE  SumFunction(f) = f[d]
<1>1. DOMAIN f = {d} /\ f[d] \in Int /\ {d} \ {d} = {} /\ IsFiniteSet({d})
  BY FS_Singleton
<1>2. SumFunctionOnSet(f, {d}) = f[d] + SumFunctionOnSet(f, {d} \ {d})
  BY <1>1, SetSumRemove
<1>3. SumFunctionOnSet(f, {d} \ {d}) = 0
  BY <1>1, SetSumEmpty
<1>4. SumFunction(f) = SumFunctionOnSet(f, {d})
  BY <1>1 DEF SumFunction
<1> QED BY <1>1, <1>2, <1>3, <1>4

LEMMA RunCasts ==
  ASSUME OneDerivative, TypeOK, NEW items, DOMAIN items \subseteq Polls,
         \A p \in DOMAIN items : items[p].list \in Seq(DelegatorVoteItems),
         NEW p \in DOMAIN items, Len(items[p].list) = 1
  PROVE  SumFunction(RunVotes(items)[p]) = Cast(items[p].list[1])
<1>1. PICK d \in Derivatives : Derivatives = {d}
  BY DEF OneDerivative
<1>2. PICK l \in Seq(DelegatorVoteItems) : l = items[p].list
  OBVIOUS
<1>3. DOMAIN l = {1} /\ l[1] \in DelegatorVoteItems
  BY <1>2
<1>4. l[1].deriv = d
  BY <1>1, <1>3 DEF DelegatorVoteItems
<1>5. {k \in DOMAIN l : l[k].deriv = d} = {1}
  BY <1>3, <1>4
<1>6. Max({1}) = 1
  BY DEF Max
<1>7. RunVotes(items)[p][d] = Cast(l[1])
  BY <1>2, <1>5, <1>6 DEF RunVotes
<1>8. RunVotes(items) \in [Polls -> [Derivatives -> Int]]
  BY RunVotesType
<1>9. RunVotes(items)[p] \in [{d} -> Int]
  BY <1>1, <1>8
<1> QED BY <1>2, <1>7, <1>9, SumOfOne

(* A poll that a new message votes on.                                     *)
LEMMA RelayNewVote ==
  ASSUME TypeOK, NEW who, NEW ps, NEW old, NewQuery(who, ps, old), NEW p \in Polls, p \in ps,
         RelayPoll(p), relay' = relay, history'.skewed = history.skewed,
         ReferendumInfoFor[p].state \in {"None", "Ongoing"},
         CastsTally(PendingQueries'[nextQuery].items[p].list, ReferendumInfoFor'[p].tally),
         p \notin history'.delegated => PendingOn(p) = {}
  PROVE  RelayPoll(p)'
<1> SUFFICES ASSUME p \notin history.skewed
             PROVE  (LastCasts(p) /\ AllRan(p) /\ OldOnRelay(p) /\ NoneRemoved(p))'
  BY DEF RelayPoll, Followed
<1>1. LastCasts(p) /\ AllRan(p) /\ OldOnRelay(p) /\ NoneRemoved(p)
  BY DEF RelayPoll, Followed
<1>2. PICK n \in Nat : n = nextQuery
  BY DEF TypeOK
<1>3. PICK new : new = PendingQueries'[n]
  OBVIOUS
<1>4. /\ new.outcome = "sent" /\ new.kind = "vote" /\ new.items[p].info = ReferendumInfoFor[p]
      /\ DOMAIN PendingQueries' = DOMAIN PendingQueries \cup {n}
      /\ \A r \in DOMAIN PendingQueries : PendingQueries'[r] = PendingQueries[r]
  BY <1>2, <1>3 DEF NewQuery
<1>5. PendingOn(p)' = PendingOn(p) \cup {n} /\ PendingOn(p) \subseteq DOMAIN PendingQueries
  BY <1>2, PendingNew DEF PendingOn
<1>6. \A q \in DOMAIN PendingQueries : q \in Nat /\ q < n
  BY <1>2 DEF TypeOK
<1>7. LastCasts(p)'
  <2>1. SUFFICES ASSUME NEW q \in PendingOn(p)', Sent(q)',
                        \A r \in PendingOn(p)' : r > q => ~Sent(r)'
                 PROVE  CastsTally(PendingQueries'[q].items[p].list, ReferendumInfoFor'[p].tally)
    BY DEF LastCasts
  <2>2. Sent(n)'
    BY <1>3, <1>4 DEF Sent
  <2>3. q = n
    BY <1>5, <1>6, <2>1, <2>2
  <2> QED BY <1>2, <2>3
<1>8. AllRan(p)'
  <2>1. ~RanOK(n)'
    BY <1>3, <1>4 DEF RanOK
  <2> QED BY <1>5, <2>1 DEF AllRan
<1>9. OldOnRelay(p)'
  <2>1. SUFFICES ASSUME p \notin history'.delegated, NEW q \in PendingOn(p)'
                 PROVE  OnRelay(p, PendingQueries[q].items[p].info.tally)'
    BY DEF OldOnRelay
  <2>2. q = n /\ OnRelay(p, ReferendumInfoFor[p].tally)
    BY <1>1, <1>5, <2>1 DEF AllRan
  <2>3. PendingQueries'[q].items[p].info.tally = ReferendumInfoFor[p].tally
    BY <1>3, <1>4, <2>2
  <2> QED BY <2>2, <2>3 DEF OnRelay
<1>10. NoneRemoved(p)'
  BY <1>1, <1>3, <1>4 DEF NoneRemoved
<1> QED BY <1>7, <1>8, <1>9, <1>10

LEMMA RelayOtherVote ==
  ASSUME TypeOK, NEW who, NEW ps, NEW old, NewQuery(who, ps, old), NEW p \in Polls, p \notin ps,
         RelayPoll(p), relay' = relay, SameTally(p),
         p \in history.delegated => p \in history'.delegated \/ PendingOn(p)' = {}
  PROVE  RelayPoll(p)'
<1>1. /\ PendingOn(p)' = PendingOn(p)
      /\ \A q \in PendingOn(p) : PendingQueries'[q] = PendingQueries[q]
  BY PendingNew
<1>2. SameQueries(p)
  BY <1>1 DEF SameQueries
<1>3. NoNewRemoval(p)
  BY DEF NewQuery, NoNewRemoval
<1> QED BY <1>2, <1>3, RelaySame

(* The lists of a message are the allocations of its tallies.              *)
LEMMA DoVoteCasts ==
  ASSUME OneDerivative, TypeOK, NEW who, NEW ps \in SUBSET Polls, NEW tallies \in [ps -> Tallies],
         NEW old, do_vote(who, tallies, old), NEW p \in ps
  PROVE  CastsTally(PendingQueries'[nextQuery].items[p].list, tallies[p])
<1>1. DOMAIN tallies = ps
  OBVIOUS
<1>2. PICK list : list = [x \in ps |-> Allocation(x, tallies[x]).list]
  OBVIOUS
<1>3. PICK items : items = [x \in ps |-> [old |-> old[x], info |-> ReferendumInfoFor[x],
                                          list |-> list[x]]]
  OBVIOUS
<1>4. PICK query : query = [kind |-> "vote", who |-> who, outcome |-> "sent", items |-> items]
  OBVIOUS
<1>5. PICK n : n = nextQuery
  OBVIOUS
<1>6. /\ \A x \in ps : CanAllocate(x, tallies[x])
      /\ PendingQueries' = [q \in DOMAIN PendingQueries \cup {n} |->
                              IF q = n THEN query ELSE PendingQueries[q]]
  BY <1>1, <1>2, <1>3, <1>4, <1>5 DEF do_vote
<1>7. PendingQueries'[n].items[p].list = Allocation(p, tallies[p]).list
  BY <1>2, <1>3, <1>4, <1>6
<1>8. CastsTally(Allocation(p, tallies[p]).list, tallies[p])
  BY <1>6, AllocationCasts
<1> QED BY <1>5, <1>7, <1>8

LEMMA CommonVoteRelay ==
  ASSUME OneDerivative, VotingInv, RelayInv,
         NEW u \in Users, NEW p \in Polls, NEW v \in VoteInputs, common_vote(u, p, v)
  PROVE  RelayInv'
<1>1. TypeOK /\ DelegatedPending
  BY DEF VotingInv
<1>2. PICK vote, tally, after : CommonVoteIs(u, p, v, vote, tally, after)
  BY <1>1, CommonVote
<1>3. PICK old : NewQuery(u, {p}, old)
  BY <1>2 DEF CommonVoteIs
<1>4. /\ PendingOn(p) = {} /\ ReferendumInfoFor[p].state \in {"None", "Ongoing"}
      /\ tally \in Tallies /\ relay' = relay /\ history' = history
      /\ ReferendumInfoFor' = [ReferendumInfoFor EXCEPT ![p] =
           [state |-> "Ongoing", tally |-> tally, at |-> IF Ongoing(p) THEN @.at ELSE relay_block]]
  BY <1>2 DEF CommonVoteIs
<1>5. /\ ReferendumInfoFor'[p].tally = tally
      /\ \A x \in Polls \ {p} : ReferendumInfoFor'[x] = ReferendumInfoFor[x]
  BY <1>1, <1>4, TypeFacts
<1>6. CastsTally(PendingQueries'[nextQuery].items[p].list, tally)
  <2> DEFINE ts == [x \in {p} |-> tally]
             os == [x \in {p} |-> OldVote(Vote(u, p))]
  <2>1. do_vote(u, ts, os)
    BY <1>2 DEF common_vote, CommonVoteIs, Vote
  <2>2. ts \in [{p} -> Tallies] /\ ts[p] = tally
    BY <1>4
  <2> HIDE DEF ts, os
  <2> QED BY <1>1, <2>1, <2>2, DoVoteCasts
<1>7. RelayPoll(p)'
  <2>1. RelayPoll(p)
    BY DEF RelayInv
  <2> QED BY <1>1, <1>3, <1>4, <1>5, <1>6, <2>1, RelayNewVote
<1>8. ASSUME NEW x \in Polls \ {p} PROVE RelayPoll(x)'
  <2>1. SameTally(x) /\ RelayPoll(x)
    BY <1>4, <1>5 DEF SameTally, Followed, RelayInv
  <2> QED BY <1>1, <1>3, <1>4, <2>1, RelayOtherVote
<1> QED BY <1>7, <1>8 DEF RelayInv

(* A delegation to a voter changes the tallies of the voter's open polls,  *)
(* and one message casts them all.                                         *)
LEMMA UpstreamRelay ==
  ASSUME OneDerivative, TypeOK, RelayInv, NEW to \in Users, NEW amount \in Delegations,
         NEW increase \in BOOLEAN, upstream_delegation(to, amount, increase),
         delegation_changed(to), relay' = relay
  PROVE  RelayInv'
<1>1. PICK tally, old : UpstreamIs(to, amount, increase, tally, old)
  BY Upstream
<1>2. PICK changed \in SUBSET Polls : changed = Changed(to)
  BY DEF Changed, StandardVotes
<1>3. /\ tally \in [changed -> Tallies]
      /\ ReferendumInfoFor' = [p \in Polls |->
           IF p \in changed THEN [ReferendumInfoFor[p] EXCEPT !.tally = tally[p]]
           ELSE ReferendumInfoFor[p]]
      /\ changed # {} => NewQuery(to, changed, old)
  BY <1>1, <1>2 DEF UpstreamIs
<1>4. /\ history'.skewed = history.skewed
      /\ \A p \in Polls : p \in history'.delegated <=>
           /\ p \in history.delegated \/ Vote(to, p) # NoVote
           /\ PendingOn(p)' # {}
  BY DelegationChangedIs
<1>5. ASSUME NEW p \in Polls \ changed PROVE SameTally(p)
  BY <1>3, <1>4 DEF SameTally, Followed
<1>6. CASE changed = {}
  <2> SUFFICES ASSUME NEW p \in Polls PROVE RelayPoll(p)'
    BY DEF RelayInv
  <2>1. PendingQueries' = PendingQueries /\ PendingOn(p)' = PendingOn(p)
    BY <1>2, <1>6 DEF upstream_delegation, Changed, PendingOn
  <2>2. SameQueries(p) /\ NoNewRemoval(p) /\ SameTally(p) /\ RelayPoll(p)
    BY <1>5, <1>6, <2>1 DEF SameQueries, NoNewRemoval, RelayInv
  <2> QED BY <1>4, <2>1, <2>2, RelaySame
<1>7. CASE changed # {}
  <2>1. NewQuery(to, changed, old)
    BY <1>3, <1>7
  <2>2. do_vote(to, tally, [p \in changed |-> OldVote(VotingFor[to].votes[p])])
    BY <1>1, <1>2, <1>7 DEF upstream_delegation, UpstreamIs, Changed, Vote
  <2>3. \A p \in changed : CastsTally(PendingQueries'[nextQuery].items[p].list, tally[p])
    BY <1>3, <2>2, DoVoteCasts
  <2>4. ASSUME NEW p \in changed PROVE RelayPoll(p)'
    <3>1. Vote(to, p) # NoVote /\ ReferendumInfoFor[p].state = "Ongoing"
      BY <1>2 DEF Changed, StandardVotes, Vote, NoVote, Ongoing
    <3>2. PendingOn(p)' # {}
      BY <2>1, PendingNew
    <3>3. p \in history'.delegated
      BY <1>4, <3>1, <3>2
    <3>4. ReferendumInfoFor'[p].tally = tally[p]
      <4>1. PICK i \in Infos : i = ReferendumInfoFor[p]
        BY TypeFacts
      <4>2. [i EXCEPT !.tally = tally[p]].tally = tally[p]
        BY DEF Infos
      <4> QED BY <1>3, <4>1, <4>2
    <3>5. RelayPoll(p)
      BY DEF RelayInv
    <3> QED BY <1>4, <2>1, <2>3, <3>1, <3>3, <3>4, <3>5, RelayNewVote
  <2>5. ASSUME NEW p \in Polls \ changed PROVE RelayPoll(p)'
    <3>1. RelayPoll(p) /\ SameTally(p)
      BY <1>5 DEF RelayInv
    <3> QED BY <1>4, <2>1, <3>1, RelayOtherVote
  <2> QED BY <2>4, <2>5 DEF RelayInv
<1> QED BY <1>6, <1>7

LEMMA DelegationRelay ==
  ASSUME OneDerivative, VotingInv, RelayInv, NEW u \in Users,
         \/ undelegate(u)
         \/ \E to \in Users, i \in DelegateInputs : delegate(u, to, i[1], i[2])
  PROVE  RelayInv'
<1>1. TypeOK /\ DelegatorsIdle
  BY DEF VotingInv
<1>2. CASE undelegate(u)
  <2>1. PICK v \in Votings : v = VotingFor[u]
    BY <1>1, TypeFacts
  <2>2. v.target \in Users /\ v.conviction \in Convictions /\ v.balance \in Nat
    BY <1>2, <2>1 DEF undelegate, Casts, Votings
  <2>3. /\ upstream_delegation(v.target, Amount(v.conviction, v.balance), FALSE)
        /\ delegation_changed(v.target) /\ relay' = relay
    BY <1>2, <2>1 DEF undelegate
  <2>4. Amount(v.conviction, v.balance) \in Delegations
    BY <2>2, AmountType
  <2> QED BY <1>1, <2>2, <2>3, <2>4, UpstreamRelay
<1>3. ASSUME NEW to \in Users, NEW i \in DelegateInputs, delegate(u, to, i[1], i[2])
      PROVE  RelayInv'
  <2>1. /\ upstream_delegation(to, Amount(i[1], i[2]), TRUE)
        /\ delegation_changed(to) /\ relay' = relay
    BY <1>3 DEF delegate
  <2>2. Amount(i[1], i[2]) \in Delegations
    BY Constants, AmountType
  <2> QED BY <1>1, <2>1, <2>2, UpstreamRelay
<1> QED BY <1>2, <1>3

(* The relay chain runs the first message that waits.                      *)
LEMMA RunRelay ==
  ASSUME OneDerivative, VotingInv, RelayInv, NEW q \in DOMAIN PendingQueries, NEW ok \in BOOLEAN,
         relay_runs(q, ok)
  PROVE  RelayInv'
<1> SUFFICES ASSUME NEW p \in Polls PROVE RelayPoll(p)'
  BY DEF RelayInv
<1>1. TypeOK /\ QueriesOK /\ RelayPoll(p)
  BY DEF VotingInv, RelayInv
<1>2. PICK query : query = PendingQueries[q]
  OBVIOUS
<1>3. /\ query.outcome = "sent"
      /\ \A r \in DOMAIN PendingQueries : r < q => ~Sent(r)
      /\ relay' = IF ~ok THEN relay
                  ELSE IF query.kind = "vote" THEN RunVotes(query.items)
                  ELSE [relay EXCEPT ![query.poll][query.deriv] = 0]
      /\ ReferendumInfoFor' = ReferendumInfoFor /\ history' = history
  BY <1>2 DEF relay_runs, Sent
<1>4. /\ RunIs(q) /\ PendingQueries'[q].outcome = IF ok THEN "ok" ELSE "failed"
  <2>1. RunIs(q)
    BY <1>1, RunType
  <2>2. PendingQueries' = [PendingQueries EXCEPT ![q].outcome = IF ok THEN "ok" ELSE "failed"]
    BY DEF relay_runs
  <2>3. PendingQueries'[q] = [query EXCEPT !.outcome = IF ok THEN "ok" ELSE "failed"]
    BY <1>2, <2>2
  <2>4. query.kind = "vote" =>
          query = [kind |-> "vote", who |-> query.who, outcome |-> query.outcome,
                   items |-> query.items]
    BY <1>1, <1>2, QueryFields
  <2>5. query.kind = "remove" =>
          query = [kind |-> "remove", poll |-> query.poll, deriv |-> query.deriv,
                   outcome |-> query.outcome]
    BY <1>1, <1>2, QueryFields
  <2>6. query.kind \in {"vote", "remove"}
    BY <1>1, <1>2, QueryFields
  <2>7. [query EXCEPT !.outcome = IF ok THEN "ok" ELSE "failed"].outcome =
          IF ok THEN "ok" ELSE "failed"
    BY <2>4, <2>5, <2>6
  <2> QED BY <2>1, <2>3, <2>7
<1>5. PendingOn(p)' = PendingOn(p)
  BY <1>4 DEF RunIs, PendingOn
<1>6. NoNewRemoval(p)
  <2>1. ASSUME query.kind = "remove" PROVE PendingQueries'[q].poll = query.poll
    <3>1. query = [kind |-> "remove", poll |-> query.poll, deriv |-> query.deriv,
                   outcome |-> query.outcome]
      BY <1>1, <1>2, <2>1, QueryFields
    <3>2. PendingQueries'[q] = [query EXCEPT !.outcome = IF ok THEN "ok" ELSE "failed"]
      BY <1>2 DEF relay_runs
    <3> QED BY <3>1, <3>2
  <2> QED BY <1>2, <1>4, <2>1 DEF RunIs, NoNewRemoval
<1>7. SameTally(p)
  BY <1>3 DEF SameTally, Followed
<1>8. query.kind \in {"vote", "remove"}
  BY <1>1, <1>2, QueryFields
<1>9. CASE query.kind = "remove" /\ query.poll = p
  <2>1. ~Followed(p)
    BY <1>1, <1>2, <1>9 DEF RelayPoll, NoneRemoved
  <2> QED BY <1>7, <2>1 DEF RelayPoll, SameTally
<1>10. CASE query.kind = "remove" /\ query.poll # p
  <2>1. q \notin PendingOn(p)
    BY <1>2, <1>10 DEF PendingOn
  <2>2. SameQueries(p)
    BY <1>4, <1>5, <2>1 DEF RunIs, SameQueries, PendingOn
  <2>3. relay'[p] = relay[p]
    <3>1. relay \in [Polls -> [Derivatives -> Int]]
      BY <1>1 DEF TypeOK
    <3> QED BY <1>3, <1>10, <3>1
  <2> QED BY <1>1, <1>3, <1>6, <1>7, <2>2, <2>3, RelaySame
<1>11. CASE query.kind = "vote" /\ p \notin DOMAIN query.items
  <2>1. q \notin PendingOn(p)
    BY <1>2, <1>11 DEF PendingOn
  <2>2. SameQueries(p)
    BY <1>4, <1>5, <2>1 DEF RunIs, SameQueries, PendingOn
  <2>3. relay'[p] = relay[p]
    <3>1. relay[p] \in [Derivatives -> Int]
      BY <1>1 DEF TypeOK
    <3>2. RunVotes(query.items)[p] = [d \in Derivatives |-> relay[p][d]]
      BY <1>11 DEF RunVotes
    <3>3. RunVotes(query.items)[p] = relay[p]
      BY <3>1, <3>2
    <3> QED BY <1>3, <1>11, <3>3
  <2> QED BY <1>1, <1>3, <1>6, <1>7, <2>2, <2>3, RelaySame
<1>12. CASE query.kind = "vote" /\ p \in DOMAIN query.items
  <2> SUFFICES ASSUME Followed(p)
               PROVE  (LastCasts(p) /\ AllRan(p) /\ OldOnRelay(p) /\ NoneRemoved(p))'
    BY <1>7 DEF RelayPoll, SameTally
  <2>1. LastCasts(p) /\ AllRan(p) /\ OldOnRelay(p) /\ NoneRemoved(p)
    BY <1>1 DEF RelayPoll
  <2>2. q \in PendingOn(p) /\ Sent(q) /\ ~RanOK(q)
    BY <1>2, <1>3, <1>12 DEF PendingOn, Sent, RanOK
  <2>3. /\ PendingOn(p) \subseteq DOMAIN PendingQueries /\ DOMAIN PendingQueries \subseteq Nat
        /\ \A r \in PendingOn(p) : r # q => PendingQueries'[r] = PendingQueries[r]
        /\ PendingQueries'[q].items = query.items
    BY <1>1, <1>2, <1>4, <1>12 DEF TypeOK, RunIs, PendingOn
  <2>4. ~Sent(q)' /\ (RanOK(q)' <=> ok)
    BY <1>4 DEF Sent, RanOK
  <2>5. \A r \in PendingOn(p) : r # q => (Sent(r)' <=> Sent(r)) /\ (RanOK(r)' <=> RanOK(r))
    BY <2>3 DEF Sent, RanOK
  <2>6. \A r \in PendingOn(p) : Sent(r) => r >= q
    BY <1>3, <2>2, <2>3
  <2>7. LastCasts(p)'
    <3>1. SUFFICES ASSUME NEW r \in PendingOn(p), Sent(r)', \A s \in PendingOn(p) : s > r => ~Sent(s)'
                   PROVE  CastsTally(PendingQueries'[r].items[p].list, ReferendumInfoFor[p].tally)
      BY <1>3, <1>5 DEF LastCasts
    <3>2. r # q /\ Sent(r) /\ r > q
      BY <2>2, <2>3, <2>4, <2>5, <2>6, <3>1
    <3>3. \A s \in PendingOn(p) : s > r => ~Sent(s)
      BY <2>2, <2>3, <2>5, <3>1, <3>2
    <3> QED BY <2>1, <2>3, <3>2, <3>3 DEF LastCasts
  <2>8. AllRan(p)'
    <3>1. SUFFICES ASSUME \A r \in PendingOn(p) : RanOK(r)', Net(ReferendumInfoFor[p].tally) # 0
                   PROVE  Carries(SumFunction(relay'[p]), Net(ReferendumInfoFor[p].tally))
      BY <1>3, <1>5 DEF AllRan, OnRelay
    <3>2. ok /\ \A r \in PendingOn(p) : r > q => ~Sent(r)
      BY <2>2, <2>3, <2>4, <2>5, <3>1 DEF Sent, RanOK
    <3>3. CastsTally(query.items[p].list, ReferendumInfoFor[p].tally)
      BY <1>2, <2>1, <2>2, <3>2 DEF LastCasts
    <3>4. /\ Len(query.items[p].list) = 1
          /\ Carries(Cast(query.items[p].list[1]), Net(ReferendumInfoFor[p].tally))
      BY <3>1, <3>3 DEF CastsTally
    <3>5. /\ DOMAIN query.items \subseteq Polls
          /\ \A x \in DOMAIN query.items : query.items[x].list \in Seq(DelegatorVoteItems)
      BY <1>1, <1>2, <1>12, QueryFields
    <3>6. SumFunction(RunVotes(query.items)[p]) = Cast(query.items[p].list[1])
      BY <1>1, <1>12, <3>4, <3>5, RunCasts
    <3>7. relay' = RunVotes(query.items)
      BY <1>3, <1>12, <3>2
    <3> QED BY <3>4, <3>6, <3>7
  <2>9. OldOnRelay(p)'
    <3>1. SUFFICES ASSUME p \notin history.delegated, NEW r \in PendingOn(p), ~RanOK(r)'
                   PROVE  OnRelay(p, PendingQueries[r].items[p].info.tally)'
      BY <1>3, <1>5 DEF OldOnRelay
    <3>2. r = q
      BY <1>1, <2>2, <3>1 DEF QueriesOK, QueryOK
    <3>3. relay' = relay
      BY <1>3, <2>4, <3>1, <3>2
    <3>4. PendingQueries'[r].items[p].info.tally = query.items[p].info.tally
      BY <2>3, <3>2
    <3>5. OnRelay(p, query.items[p].info.tally)
      BY <1>2, <2>1, <2>2, <3>1 DEF OldOnRelay
    <3> QED BY <3>3, <3>4, <3>5 DEF OnRelay
  <2>10. NoneRemoved(p)'
    BY <1>6, <2>1 DEF NoneRemoved, NoNewRemoval
  <2> QED BY <2>7, <2>8, <2>9, <2>10
<1> QED BY <1>8, <1>9, <1>10, <1>11, <1>12

(* A failure puts the tally back whose votes the relay chain still has.    *)
LEMMA FailedRelay ==
  ASSUME VotingInv, RelayInv, NEW q \in DOMAIN PendingQueries, notify_vote_failed(q)
  PROVE  RelayInv'
<1> SUFFICES ASSUME NEW p \in Polls PROVE RelayPoll(p)'
  BY DEF RelayInv
<1>1. TypeOK /\ QueriesOK /\ RelayPoll(p)
  BY DEF VotingInv, RelayInv
<1>2. PICK query : query = PendingQueries[q] /\ FailedIs(q, query) /\ query.outcome = "failed"
  BY <1>1, Failed DEF notify_vote_failed
<1>3. /\ query.kind = "vote" /\ relay' = relay /\ PendingQueries' = Resolved(q)
      /\ nextQuery' = nextQuery
      /\ ReferendumInfoFor'[p] = RestoredInfo(p, query.items)
      /\ history'.skewed = history.skewed \cup
           {x \in DOMAIN query.items : x \in history.delegated \/ ~Ongoing(x)}
  BY <1>2 DEF FailedIs
<1>4. p \in history'.delegated <=> p \in history.delegated /\ PendingOn(p)' # {}
  <2>1. PICK S : S = {x \in Polls : PendingOn(x)' # {}}
    OBVIOUS
  <2>2. history'.delegated = history.delegated \cap S
    BY <1>2, <2>1 DEF FailedIs
  <2> QED BY <2>1, <2>2
<1>5. /\ PendingOn(p)' = PendingOn(p) \ {q}
      /\ \A r \in PendingOn(p)' : PendingQueries'[r] = PendingQueries[r]
  BY <1>1, <1>3, PendingResolved
<1>6. NoNewRemoval(p)
  BY <1>1, <1>3, ResolvedTypes DEF NoNewRemoval
<1>7. CASE p \notin DOMAIN query.items
  <2>1. q \notin PendingOn(p)
    BY <1>2, <1>7 DEF PendingOn
  <2>2. SameQueries(p)
    BY <1>5, <2>1 DEF SameQueries
  <2>3. SameTally(p)
    BY <1>3, <1>7 DEF SameTally, Followed, RestoredInfo
  <2> QED BY <1>1, <1>3, <1>4, <1>6, <2>2, <2>3, RelaySame
<1>8. CASE p \in DOMAIN query.items
  <2> SUFFICES ASSUME Followed(p)'
               PROVE  (LastCasts(p) /\ AllRan(p) /\ OldOnRelay(p) /\ NoneRemoved(p))'
    BY DEF RelayPoll
  <2>1. p \notin history.delegated /\ Ongoing(p) /\ p \notin history.skewed
    BY <1>3, <1>8 DEF Followed
  <2>2. q \in PendingOn(p) /\ ~RanOK(q)
    BY <1>2, <1>3, <1>8 DEF PendingOn, RanOK
  <2>3. PendingOn(p)' = {}
    BY <1>1, <1>5, <2>1, <2>2 DEF QueriesOK, QueryOK
  <2>4. OldOnRelay(p) /\ NoneRemoved(p)
    BY <1>1, <2>1 DEF RelayPoll, Followed, Ongoing
  <2>5. OnRelay(p, query.items[p].info.tally)
    BY <1>2, <2>1, <2>2, <2>4 DEF OldOnRelay
  <2>6. ReferendumInfoFor'[p] = query.items[p].info
    BY <1>3, <1>8 DEF RestoredInfo
  <2>7. AllRan(p)'
    BY <1>3, <2>5, <2>6 DEF AllRan, OnRelay
  <2>8. LastCasts(p)' /\ OldOnRelay(p)'
    BY <2>3 DEF LastCasts, OldOnRelay
  <2>9. NoneRemoved(p)'
    BY <1>6, <2>4 DEF NoneRemoved, NoNewRemoval
  <2> QED BY <2>7, <2>8, <2>9
<1> QED BY <1>7, <1>8

LEMMA SucceededRelay ==
  ASSUME VotingInv, RelayInv, NEW q \in DOMAIN PendingQueries, notify_vote_succeeded(q)
  PROVE  RelayInv'
<1> SUFFICES ASSUME NEW p \in Polls PROVE RelayPoll(p)'
  BY DEF RelayInv
<1>1. TypeOK /\ RelayPoll(p)
  BY DEF VotingInv, RelayInv
<1>2. QuietStep
  BY <1>1, SucceededQuiet
<1>3. /\ RanOK(q) /\ relay' = relay /\ PendingQueries' = Resolved(q) /\ nextQuery' = nextQuery
      /\ PendingQueries[q].kind = "vote"
  BY DEF notify_vote_succeeded, RanOK
<1>4. /\ PendingOn(p)' = PendingOn(p) \ {q}
      /\ \A r \in PendingOn(p)' : PendingQueries'[r] = PendingQueries[r]
  BY <1>1, <1>3, PendingResolved
<1>5. SameQueries(p)
  BY <1>3, <1>4 DEF SameQueries
<1>6. NoNewRemoval(p)
  BY <1>1, <1>3, ResolvedTypes DEF NoNewRemoval
<1>7. SameTally(p)
  BY <1>2 DEF QuietStep, SameTally, Followed
<1> QED BY <1>1, <1>2, <1>3, <1>5, <1>6, <1>7, RelaySame DEF QuietStep

(* Votes are withdrawn only where the referendum is completed.             *)
LEMMA RemoveRelay ==
  ASSUME VotingInv, RelayInv,
         \/ \E p \in Polls, d \in Derivatives : remove_delegator_vote(p, d)
         \/ \E q \in DOMAIN PendingQueries : notify_remove_delegator_vote(q)
  PROVE  RelayInv'
<1>1. TypeOK /\ UNCHANGED <<ReferendumInfoFor, history, relay>>
  BY DEF VotingInv, remove_delegator_vote, notify_remove_delegator_vote
<1> SUFFICES ASSUME NEW x \in Polls PROVE RelayPoll(x)'
  BY DEF RelayInv
<1>2. RelayPoll(x) /\ SameTally(x)
  BY <1>1 DEF RelayInv, SameTally, Followed
<1>3. ASSUME NEW p \in Polls, NEW d \in Derivatives, remove_delegator_vote(p, d)
      PROVE  RelayPoll(x)'
  <2>1. PICK query : query = [kind |-> "remove", poll |-> p, deriv |-> d, outcome |-> "sent"]
    OBVIOUS
  <2>2. PICK n : n = nextQuery
    OBVIOUS
  <2>3. PendingQueries' = [q \in DOMAIN PendingQueries \cup {n} |->
                              IF q = n THEN query ELSE PendingQueries[q]]
    BY <1>3, <2>1, <2>2 DEF remove_delegator_vote
  <2>4. DOMAIN PendingQueries \subseteq 0..(n - 1) /\ n \in Nat
    BY <1>1, <2>2 DEF TypeOK
  <2>5. n \notin DOMAIN PendingQueries
    BY <2>4
  <2>6. query.kind = "remove" /\ query.poll = p
    BY <2>1
  <2>7. /\ DOMAIN PendingQueries' = DOMAIN PendingQueries \cup {n} /\ PendingQueries'[n] = query
        /\ \A q \in DOMAIN PendingQueries : PendingQueries'[q] = PendingQueries[q]
    BY <2>3, <2>5
  <2>8. CASE x = p
    <3>1. ReferendumInfoFor[p].state = "Completed"
      BY <1>3 DEF remove_delegator_vote, Expired
    <3> QED BY <1>1, <2>8, <3>1 DEF RelayPoll, Followed
  <2>9. CASE x # p
    <3>1. n \notin PendingOn(x)'
      BY <2>6, <2>7 DEF PendingOn
    <3>2. \A q \in DOMAIN PendingQueries : q \in PendingOn(x)' <=> q \in PendingOn(x)
      BY <2>7 DEF PendingOn
    <3>3. PendingOn(x)' = PendingOn(x) /\ PendingOn(x) \subseteq DOMAIN PendingQueries
      BY <2>7, <3>1, <3>2 DEF PendingOn
    <3>4. SameQueries(x)
      BY <2>7, <3>3 DEF SameQueries
    <3>5. NoNewRemoval(x)
      BY <2>6, <2>7, <2>9 DEF NoNewRemoval
    <3> QED BY <1>1, <1>2, <3>4, <3>5, RelaySame
  <2> QED BY <2>8, <2>9
<1>4. ASSUME NEW q \in DOMAIN PendingQueries, notify_remove_delegator_vote(q)
      PROVE  RelayPoll(x)'
  <2>1. PendingQueries' = Resolved(q) /\ nextQuery' = nextQuery /\ PendingQueries[q].kind = "remove"
    BY <1>4 DEF notify_remove_delegator_vote
  <2>2. q \notin PendingOn(x)
    BY <2>1 DEF PendingOn
  <2>3. /\ PendingOn(x)' = PendingOn(x)
        /\ \A r \in PendingOn(x)' : PendingQueries'[r] = PendingQueries[r]
    BY <1>1, <2>1, <2>2, PendingResolved
  <2>4. SameQueries(x)
    BY <2>3 DEF SameQueries
  <2>5. NoNewRemoval(x)
    BY <1>1, <2>1, ResolvedTypes DEF NoNewRemoval
  <2> QED BY <1>1, <1>2, <2>4, <2>5, RelaySame
<1> QED BY <1>3, <1>4

(* A step that touches neither queries nor the relay chain, and at most    *)
(* ends a referendum.                                                      *)
LEMMA FrameRelay ==
  ASSUME RelayInv, UNCHANGED <<PendingQueries, relay, history>>,
         \A p \in Polls : \/ ReferendumInfoFor'[p] = ReferendumInfoFor[p]
                          \/ ReferendumInfoFor'[p].state \in {"Completed", "Killed"}
  PROVE  RelayInv'
<1> SUFFICES ASSUME NEW p \in Polls PROVE RelayPoll(p)'
  BY DEF RelayInv
<1>1. PendingOn(p)' = PendingOn(p)
  BY DEF PendingOn
<1>2. SameQueries(p) /\ NoNewRemoval(p) /\ SameTally(p) /\ RelayPoll(p)
  BY <1>1 DEF SameQueries, NoNewRemoval, SameTally, Followed, RelayInv
<1> QED BY <1>2, RelaySame

LEMMA RelayStep ==
  ASSUME OneDerivative, VotingInv, RelayInv, [Next]_vars
  PROVE  RelayInv'
<1>1. TypeOK
  BY DEF VotingInv
<1>2. CASE Calls
  <2>1. ASSUME NEW u \in Users, (\E p \in Polls : unlock_poll(u, p)) \/ unlock_delegation(u)
        PROVE  RelayInv'
    <3>1. UNCHANGED <<ReferendumInfoFor, PendingQueries, relay, history>>
      BY <2>1 DEF unlock_poll, unlock_delegation
    <3> QED BY <3>1, FrameRelay
  <2>2. ASSUME \E p \in Polls, d \in Derivatives : remove_delegator_vote(p, d) PROVE RelayInv'
    BY <2>2, RemoveRelay
  <2>3. ASSUME NEW u \in Users,
               undelegate(u) \/ \E to \in Users, i \in DelegateInputs : delegate(u, to, i[1], i[2])
        PROVE  RelayInv'
    BY <2>3, DelegationRelay
  <2>4. ASSUME NEW u \in Users, NEW p \in Polls, NEW v \in VoteInputs, common_vote(u, p, v)
        PROVE  RelayInv'
    BY <2>4, CommonVoteRelay
  <2> QED BY <1>2, <2>1, <2>2, <2>3, <2>4 DEF Calls
<1>3. CASE Answers
  <2>1. ASSUME NEW q \in DOMAIN PendingQueries, NEW ok \in BOOLEAN, relay_runs(q, ok)
        PROVE  RelayInv'
    BY <2>1, RunRelay
  <2>2. ASSUME NEW q \in DOMAIN PendingQueries, notify_vote_failed(q) PROVE RelayInv'
    BY <2>2, FailedRelay
  <2>3. ASSUME NEW q \in DOMAIN PendingQueries, notify_vote_succeeded(q) PROVE RelayInv'
    BY <2>3, SucceededRelay
  <2>4. ASSUME NEW q \in DOMAIN PendingQueries, notify_remove_delegator_vote(q) PROVE RelayInv'
    BY <2>4, RemoveRelay
  <2> QED BY <1>3, <2>1, <2>2, <2>3, <2>4 DEF Answers
<1>4. CASE Governance \/ \E served \in SUBSET ReferendumTimeout : on_idle(served)
  BY <1>1, <1>4, GovernanceStep, FrameRelay DEF GovernanceIs
<1>5. CASE UNCHANGED vars
  BY <1>5, FrameRelay DEF vars
<1> QED BY <1>2, <1>3, <1>4, <1>5 DEF Next

LEMMA RelayInit == ASSUME Init PROVE RelayInv
<1>1. \A p \in Polls : Net(ReferendumInfoFor[p].tally) = 0
  BY DEF Init, NoInfo, ZeroTally, Net
<1>2. DOMAIN PendingQueries = {}
  BY DEF Init
<1>3. \A p : PendingOn(p) = {}
  BY <1>2 DEF PendingOn
<1> QED BY <1>1, <1>2, <1>3
  DEF RelayInv, RelayPoll, LastCasts, AllRan, OldOnRelay, NoneRemoved, OnRelay

(* With one derivative account whose stake covers the vote cap, what it    *)
(* votes on the relay chain is the net tally of vote and delegate calls,   *)
(* exactly up to the cap and within ten votes beyond, on every ongoing     *)
(* poll without unanswered queries: whatever messages failed, whatever was *)
(* rolled back and in whatever order notify_vote delivered the answers.    *)
THEOREM RelayFollowsTally == OneDerivative => (Spec => []RelayCarriesTally)
<1> SUFFICES ASSUME OneDerivative PROVE Spec => []RelayCarriesTally
  OBVIOUS
<1>1. Init => RelayInv
  BY RelayInit
<1>2. VotingInv /\ RelayInv /\ [Next]_vars => RelayInv'
  BY RelayStep
<1>3. RelayInv => RelayCarriesTally
  BY DEF RelayInv, RelayPoll, Followed, AllRan, OnRelay, RelayCarriesTally, Ongoing
<1> QED BY <1>1, <1>2, <1>3, VotingInvariant, PTL DEF Spec
=============================================================================
