----------------------------- MODULE VtokenVoting -----------------------------
(***************************************************************************)
(* The vtoken-voting pallet (src/pallets/vtoken-voting/src) for the relay  *)
(* chain's vToken: holders vote on referenda of the relay chain with their *)
(* vTokens.  The pallet keeps a tally per poll, and after every change of  *)
(* the tally sends an XCM message in which its derivative accounts cast    *)
(* the net vote there.  The answer (notify_vote) either confirms the vote  *)
(* or rolls it back; it may come late, out of order or never.              *)
(*                                                                         *)
(* An extrinsic either completes or leaves no trace.  Locking periods,     *)
(* timeouts and the vote cap are constants, and so is the rate at which    *)
(* vTokens count as tokens.  A lost answer is one that is never delivered; *)
(* after pallet_xcm's timeout governance may still deliver it by hand.     *)
(* PendingReferendumInfo is written and removed along with                 *)
(* PendingVotingInfo and never read, so it is left out.                    *)
(***************************************************************************)
EXTENDS Integers, Sequences, FiniteSets, FiniteSetsExt, Functions

CONSTANTS
  Users, NoOne,
  Polls,
  TotalBalance,          \* user -> vTokens held
  TokenSupply, VtokenSupply,
  Derivatives,           \* derivative accounts the staking side knows
  Available,             \* derivative -> its stake on the relay chain
  InitialDelegators,     \* genesis list of derivative accounts
  VoteCap,               \* VoteCapRatio * token supply
  UndecidingTimeout, VoteLockingPeriod, ReferendumCheckInterval,
  MaxVotes, MaxVotesPerDelegate,
  RelayAhead,            \* the relay chain's block number minus the local one
  VoteInputs,            \* bound: votes the users cast
  DelegateInputs,        \* bound: <<conviction, vToken balance>> they delegate
  VoteStatuses,          \* bound: results governance reports
  MaxQueries, MaxBlock   \* bounds: queries sent, blocks

Convictions == 0..6
QueryIds == 0..(MaxQueries - 1)

AccountVotes == [side : {"aye", "nay", "split"}, conviction : Convictions,
                 aye : Nat, nay : Nat, abstain : Nat]

ASSUME VotingAssumption ==
  /\ NoOne \notin Users /\ IsFiniteSet(Users) /\ IsFiniteSet(Polls)
  /\ TotalBalance \in [Users -> Nat] /\ Available \in [Derivatives -> Nat]
  /\ TokenSupply \in Nat /\ VtokenSupply \in Nat \ {0} /\ VoteCap \in Nat
  /\ {UndecidingTimeout, VoteLockingPeriod, MaxVotes, MaxVotesPerDelegate, RelayAhead,
      MaxQueries, MaxBlock} \subseteq Nat
  /\ ReferendumCheckInterval \in Nat \ {0}
  /\ InitialDelegators \in Seq(Derivatives)
  /\ VoteInputs \subseteq AccountVotes
  /\ DelegateInputs \subseteq Convictions \X Nat
  /\ VoteStatuses \subseteq {"Approved", "Rejected", "None", "Ongoing"}

VARIABLES
  block,                 \* local block number
  ReferendumInfoFor,     \* poll -> see Infos
  VotingFor,             \* user -> votes or delegation, see Votings
  ClassLocksFor,         \* user -> vTokens locked
  Delegators,            \* derivative accounts that may vote, in order
  DelegatorVotes,        \* poll -> votes confirmed by the relay chain
  PendingDelegatorVotes, \* poll -> votes waiting for an answer
  PendingQueries,        \* PendingVotingInfo and PendingRemoveDelegatorVote
  nextQuery,             \* pallet_xcm's next query id
  ReferendumTimeout,     \* pairs <<block, poll>> of ReferendumTimeoutV3
  VoteStatus,            \* ReferendumVoteStatusStore
  relay,                 \* poll -> derivative -> net votes on the relay chain
  history                \* history: sets of polls, see TallyAgrees

vars == <<block, ReferendumInfoFor, VotingFor, ClassLocksFor, Delegators, DelegatorVotes,
          PendingDelegatorVotes, PendingQueries, nextQuery, ReferendumTimeout, VoteStatus,
          relay, history>>

relay_block == block + RelayAhead

-----------------------------------------------------------------------------
(* Votes and tallies.  A vote is standard ("aye", "nay") or split; a split *)
(* one has conviction 0 (Conviction::None, a tenth of a vote per token).   *)

Votes(conviction, balance) ==
  IF conviction = 0 THEN balance \div 10 ELSE balance * conviction

lock_periods(conviction) == <<0, 1, 2, 4, 8, 16, 32>>[conviction + 1]

Balance(v) == v.aye + v.nay + v.abstain

\* An entry of Casting.votes: the vote in tokens and the vTokens locked for it.
NoVote == [side |-> "none", conviction |-> 0, aye |-> 0, nay |-> 0, abstain |-> 0, vtoken |-> 0]
Entry(v, vtoken) == [side |-> v.side, conviction |-> v.conviction, aye |-> v.aye,
                     nay |-> v.nay, abstain |-> v.abstain, vtoken |-> vtoken]

compute_token_balance(vtoken) == (vtoken * TokenSupply) \div VtokenSupply
compute_token_vote(v) ==
  [v EXCEPT !.aye = compute_token_balance(@), !.nay = compute_token_balance(@),
            !.abstain = compute_token_balance(@)]

\* What a vote itself, and the delegations to its voter, add to a tally.
Own(v) == [ayes |-> Votes(v.conviction, v.aye), nays |-> Votes(v.conviction, v.nay),
           support |-> v.aye + v.abstain]
Delegated(side, d) ==
  [ayes |-> IF side = "aye" THEN d.votes ELSE 0,
   nays |-> IF side = "nay" THEN d.votes ELSE 0,
   support |-> IF side = "aye" THEN d.capital ELSE 0]

\* Mutant: the subtraction does not saturate.
SatSubPlain(a, b) == a - b

SatSub(a, b) == IF a > b THEN a - b ELSE 0
Covers(t, w) == t.ayes >= w.ayes /\ t.nays >= w.nays /\ t.support >= w.support
Plus(t, w) == [ayes |-> t.ayes + w.ayes, nays |-> t.nays + w.nays,
               support |-> t.support + w.support]
Minus(t, w) == [ayes |-> SatSub(t.ayes, w.ayes), nays |-> SatSub(t.nays, w.nays),
                support |-> SatSub(t.support, w.support)]
ZeroTally == [ayes |-> 0, nays |-> 0, support |-> 0]
Net(t) == t.ayes - t.nays

-----------------------------------------------------------------------------
(* A referendum: unknown, ongoing (at: submitted), completed or killed (at:*)
(* the block).                                                             *)
Infos == [state : {"None", "Ongoing", "Completed", "Killed"}, at : Nat,
          tally : [ayes : Nat, nays : Nat, support : Nat]]
NoInfo == [state |-> "None", at |-> 0, tally |-> ZeroTally]
Info(state, at) == [state |-> state, at |-> at, tally |-> ZeroTally]
Ongoing(p) == ReferendumInfoFor[p].state = "Ongoing"

(* A user either casts votes (target = NoOne) or delegates.                *)
Delegations == [votes : Nat, capital : Nat]
Entries == [side : {"none", "aye", "nay", "split"}, conviction : Convictions,
            aye : Nat, nay : Nat, abstain : Nat, vtoken : Nat]
Votings == [votes : [Polls -> Entries],
            target : Users \cup {NoOne}, balance : Nat, conviction : Convictions,
            delegations : Delegations, prior : [until : Nat, amount : Nat]]
Casts(u) == VotingFor[u].target = NoOne
VotedOn(v) == {p \in Polls : v.votes[p] # NoVote}

accumulate(prior, until, amount) ==
  [until |-> Max({prior.until, until}), amount |-> Max({prior.amount, amount})]
rejig(v) ==
  IF relay_block >= v.prior.until THEN [v EXCEPT !.prior = [until |-> 0, amount |-> 0]] ELSE v

locked_vtoken_balance(v) == Max({v.votes[p].vtoken : p \in Polls} \cup {0})

\* Mutant: a delegation locks nothing.
locked_balance_of_votes(v) == Max({locked_vtoken_balance(v), v.prior.amount})

locked_balance(v) ==
  IF v.target = NoOne THEN Max({locked_vtoken_balance(v), v.prior.amount})
  ELSE Max({v.balance, v.prior.amount})

update_lock(u, v) ==
  /\ VotingFor' = [VotingFor EXCEPT ![u] = rejig(v)]
  /\ ClassLocksFor' = [ClassLocksFor EXCEPT ![u] = locked_balance(rejig(v))]

-----------------------------------------------------------------------------
(* From a tally to the votes of the derivative accounts.                   *)

vote_to_capital(conviction, votes) ==
  IF conviction = 0 THEN votes * 10 ELSE votes \div conviction

\* compute_delegator_total_vote: the least conviction whose capital the cap allows.
AllowedConvictions(votes) == {i \in Convictions : vote_to_capital(i, votes) <= VoteCap}
TotalCapital(votes) == vote_to_capital(Min(AllowedConvictions(votes)), votes)
TotalVotes(votes) == Votes(Min(AllowedConvictions(votes)), TotalCapital(votes))

(* distribute_votes_to_derivatives over the sequence data of derivative    *)
(* accounts: each one casts all it can, the one that covers the rest casts *)
(* it with the least conviction.                                           *)
DistributeStep(s, d, side) ==
  LET covering == {i \in Convictions : s.left <= Votes(i, Available[d])}
      cast(i, capital) == [deriv |-> d, side |-> side, conviction |-> i, balance |-> capital]
  IN IF s.done \/ s.left = 0 \/ Available[d] = 0 THEN s
     ELSE IF Votes(6, Available[d]) >= s.left
     THEN [list |-> Append(s.list, cast(Min(covering), vote_to_capital(Min(covering), s.left))),
           left |-> s.left, done |-> TRUE]
     ELSE [list |-> Append(s.list, cast(6, Available[d])),
           left |-> s.left - Votes(6, Available[d]), done |-> FALSE]

Distribute(votes, side, data) ==
  LET walk[k \in 0..Len(data)] ==
        IF k = 0 THEN [list |-> <<>>, left |-> TotalVotes(votes), done |-> FALSE]
        ELSE DistributeStep(walk[k-1], data[k], side)
  IN walk[Len(data)]

\* allocate_delegator_votes: the accounts that voted before come first.
Voted(p) == [k \in DOMAIN DelegatorVotes[p] |-> DelegatorVotes[p][k].deriv]
Candidates(p) ==
  LET keys == Range(Voted(p))
      walk[k \in 0..Len(Delegators)] ==
        IF k = 0 THEN Voted(p)
        ELSE IF Delegators[k] \in keys THEN walk[k-1]
        ELSE Append(walk[k-1], Delegators[k])
  IN walk[Len(Delegators)]

\* Mutant: the votes of the tally are cast without netting.
NetVotesGross(t) == t.ayes
NetVotes(t) == IF t.ayes >= t.nays THEN t.ayes - t.nays ELSE t.nays - t.ayes
Allocation(p, t) ==
  Distribute(NetVotes(t), IF t.ayes >= t.nays THEN "aye" ELSE "nay", Candidates(p))
CanAllocate(p, t) ==
  /\ AllowedConvictions(NetVotes(t)) # {}
  /\ Allocation(p, t).done \/ TotalCapital(NetVotes(t)) = 0

-----------------------------------------------------------------------------
(* Queries.  A vote query remembers, for every poll of its message, the    *)
(* vote and the referendum it would roll back to; outcome is the relay     *)
(* chain's, "sent" before it runs the message.                             *)
(*                                                                         *)
(* do_vote with the new tallies (a function on the polls concerned).  An   *)
(* allocation is empty when ayes and nays are even, and a message without  *)
(* any vote is refused (vote_call_encode: NoData).                         *)
do_vote(who, tallies, old) ==
  LET ps == DOMAIN tallies
      list == [p \in ps |-> Allocation(p, tallies[p]).list]
  IN /\ nextQuery < MaxQueries
     /\ \A p \in ps : CanAllocate(p, tallies[p])
     /\ \E p \in ps : list[p] # <<>>
     /\ PendingDelegatorVotes' =
          [p \in Polls |-> IF p \in ps THEN PendingDelegatorVotes[p] \o list[p]
                           ELSE PendingDelegatorVotes[p]]
     /\ PendingQueries' = [q \in DOMAIN PendingQueries \cup {nextQuery} |->
          IF q = nextQuery
          THEN [kind |-> "vote", who |-> who, outcome |-> "sent",
                items |-> [p \in ps |-> [old |-> old[p], info |-> ReferendumInfoFor[p],
                                         list |-> list[p]]]]
          ELSE PendingQueries[q]]
     /\ nextQuery' = nextQuery + 1

PendingOn(p) == {q \in DOMAIN PendingQueries : PendingQueries[q].kind = "vote"
                                               /\ p \in DOMAIN PendingQueries[q].items}
\* Mutant: only the voter's own pending votes are looked for.
ensure_no_pending_vote_of(u, p) == \A q \in PendingOn(p) : PendingQueries[q].who # u
ensure_no_pending_vote(u, p) == PendingOn(p) = {}

\* The old vote with, in place of its vTokens, their worth in tokens.
OldVote(v) == IF v = NoVote THEN NoVote ELSE [v EXCEPT !.vtoken = compute_token_balance(@)]

\* Mutant: who already delegates may delegate again.
CanVoteAgain(u, vtoken) == vtoken <= TotalBalance[u]
CanVote(u, vtoken) == vtoken <= TotalBalance[u] /\ Casts(u)

\* common_vote: vote by a user, delegate_vote by the pallet's own account.
common_vote(u, p, vtoken_vote) ==
  LET vote == Entry(compute_token_vote(vtoken_vote), Balance(vtoken_vote))
      mine == VotingFor[u]
      old == mine.votes[p]
      cleared == Minus(Minus(ReferendumInfoFor[p].tally, Own(old)),
                       Delegated(old.side, mine.delegations))
      tally == Plus(Plus(cleared, Own(vote)), Delegated(vote.side, mine.delegations))
      after == [mine EXCEPT !.votes[p] = vote]
  IN /\ ensure_no_pending_vote(u, p)
     /\ ReferendumInfoFor[p].state \in {"None", "Ongoing"}
     /\ CanVote(u, Balance(vtoken_vote))
     /\ Covers(ReferendumInfoFor[p].tally, Own(old))
     /\ old = NoVote => Cardinality(VotedOn(mine)) < MaxVotes
     /\ do_vote(u, [x \in {p} |-> tally], [x \in {p} |-> OldVote(old)])
     /\ ReferendumInfoFor' = [ReferendumInfoFor EXCEPT ![p] =
          [state |-> "Ongoing", tally |-> tally,
           at |-> IF Ongoing(p) THEN @.at ELSE relay_block]]
     /\ VotingFor' = [VotingFor EXCEPT ![u] = after]
     /\ ClassLocksFor' = [ClassLocksFor EXCEPT ![u] = locked_vtoken_balance(after)]
     /\ UNCHANGED <<block, Delegators, DelegatorVotes, ReferendumTimeout, VoteStatus, relay,
                    history>>

-----------------------------------------------------------------------------
(* Delegation.                                                             *)
Amount(conviction, vtoken) ==
  LET b == compute_token_balance(vtoken)
  IN [votes |-> Votes(conviction, b), capital |-> b]

StandardVotes(u) == {p \in Polls : VotingFor[u].votes[p].side \in {"aye", "nay"}}

\* increase_upstream_delegation and reduce_upstream_delegation.
upstream_delegation(to, amount, increase) ==
  LET changed == {p \in StandardVotes(to) : Ongoing(p)}
      share(p) == Delegated(VotingFor[to].votes[p].side, amount)
      tally == [p \in changed |->
                  IF increase THEN Plus(ReferendumInfoFor[p].tally, share(p))
                  ELSE Minus(ReferendumInfoFor[p].tally, share(p))]
  IN /\ Casts(to) => Cardinality(VotedOn(VotingFor[to])) <= MaxVotesPerDelegate
     /\ ReferendumInfoFor' = [p \in Polls |->
          IF p \in changed THEN [ReferendumInfoFor[p] EXCEPT !.tally = tally[p]]
          ELSE ReferendumInfoFor[p]]
     /\ IF changed = {} THEN UNCHANGED <<PendingDelegatorVotes, PendingQueries, nextQuery>>
        ELSE do_vote(to, tally, [p \in changed |-> OldVote(VotingFor[to].votes[p])])

\* History: polls with an unanswered query whose voters' delegations changed.
delegation_changed(to) ==
  history' = [history EXCEPT !.delegated =
                (@ \cup VotedOn(VotingFor[to])) \cap {p \in Polls : PendingOn(p)' # {}}]

delegate(u, to, conviction, vtoken) ==
  LET amount == Amount(conviction, vtoken)
      Add(d) == [votes |-> d.votes + amount.votes, capital |-> d.capital + amount.capital]
  IN /\ u # to /\ CanVote(u, vtoken) /\ VotedOn(VotingFor[u]) = {}
     /\ upstream_delegation(to, amount, TRUE)
     /\ VotingFor' = [VotingFor EXCEPT
          ![u].target = to, ![u].balance = vtoken, ![u].conviction = conviction,
          ![to].delegations = Add(@)]
     /\ ClassLocksFor' = [ClassLocksFor EXCEPT ![u] = vtoken]
     /\ delegation_changed(to)
     /\ UNCHANGED <<block, Delegators, DelegatorVotes, ReferendumTimeout, VoteStatus, relay>>

\* The lock of an ended delegation is dated with the local block number.
undelegate(u) ==
  LET v == VotingFor[u]
      amount == Amount(v.conviction, v.balance)
      Sub(d) == [votes |-> SatSub(d.votes, amount.votes),
                 capital |-> SatSub(d.capital, amount.capital)]
      periods == VoteLockingPeriod * lock_periods(v.conviction)
  IN /\ ~Casts(u)
     /\ upstream_delegation(v.target, amount, FALSE)
     /\ VotingFor' = [VotingFor EXCEPT
          ![u] = [v EXCEPT !.target = NoOne, !.balance = 0, !.conviction = 0,
                           !.prior = accumulate(v.prior, block + periods, v.balance)],
          ![v.target].delegations = Sub(@)]
     /\ delegation_changed(v.target)
     /\ UNCHANGED <<block, ClassLocksFor, Delegators, DelegatorVotes, ReferendumTimeout,
                    VoteStatus, relay>>

-----------------------------------------------------------------------------
(* Removing votes.                                                         *)

is_aye_dominant(v) == v.side = "aye" \/ (v.side = "split" /\ v.aye > v.nay)

early_unlock(v, p) ==
  \/ VoteStatus[p] = "None"
  \/ VoteStatus[p] = "Rejected" /\ is_aye_dominant(v)
  \/ VoteStatus[p] = "Approved" /\ ~is_aye_dominant(v)

unlock_at(v, p) == ReferendumInfoFor[p].at + VoteLockingPeriod * lock_periods(v.conviction)

\* Vote v on the completed poll p must stay locked.
StillLocked(v, p) ==
  /\ ReferendumInfoFor[p].state = "Completed"
  /\ ~early_unlock(v, p)
  /\ v.side # "split" /\ v.conviction > 0
  /\ relay_block < unlock_at(v, p)

unlock_poll(u, p) ==
  /\ ReferendumInfoFor[p].state \in {"Completed", "Killed"}
  /\ ensure_no_pending_vote(u, p)
  /\ Casts(u) => VotingFor[u].votes[p] # NoVote /\ ~StillLocked(VotingFor[u].votes[p], p)
  /\ update_lock(u, IF Casts(u) THEN [VotingFor[u] EXCEPT !.votes[p] = NoVote]
                    ELSE VotingFor[u])
  /\ UNCHANGED <<block, ReferendumInfoFor, Delegators, DelegatorVotes, PendingDelegatorVotes,
                 PendingQueries, nextQuery, ReferendumTimeout, VoteStatus, relay, history>>

\* unlock without a poll, for a user whose delegation has ended.
unlock_delegation(u) ==
  /\ Casts(u) => VotedOn(VotingFor[u]) = {}
  /\ update_lock(u, VotingFor[u])
  /\ UNCHANGED <<block, ReferendumInfoFor, Delegators, DelegatorVotes, PendingDelegatorVotes,
                 PendingQueries, nextQuery, ReferendumTimeout, VoteStatus, relay, history>>

-----------------------------------------------------------------------------
(* The answer to a vote query.                                             *)

Resolved(q) == [r \in DOMAIN PendingQueries \ {q} |-> PendingQueries[r]]

\* handle_vote_result after a failure: try_remove_vote and try_vote may refuse,
\* and then the whole call fails and the query stays pending.
CanRollBack(who, p, item) ==
  LET cur == VotingFor[who].votes[p]
  IN /\ Casts(who) => cur # NoVote
     /\ Casts(who) /\ Ongoing(p) => Covers(ReferendumInfoFor[p].tally, Own(cur))
     /\ item.old # NoVote => CanVote(who, item.old.vtoken) /\ Ongoing(p)

\* A completed poll leaves the removed vote's lock behind.
RolledBack(who, items) ==
  LET v == VotingFor[who]
      kept == {p \in DOMAIN items : StillLocked(v.votes[p], p)}
      untils == {unlock_at(v.votes[p], p) : p \in kept}
      amounts == {v.votes[p].vtoken : p \in kept}
  IN IF ~Casts(who) THEN v
     ELSE [v EXCEPT !.votes = [p \in Polls |-> IF p \in DOMAIN items THEN items[p].old ELSE @[p]],
                    !.prior = accumulate(@, Max(untils \cup {0}), Max(amounts \cup {0}))]

RestoredInfo(p, items) == IF p \in DOMAIN items THEN items[p].info ELSE ReferendumInfoFor[p]

notify_vote_failed(q) ==
  LET query == PendingQueries[q]
      ps == DOMAIN query.items
  IN /\ query.kind = "vote" /\ query.outcome = "failed"
     /\ \A p \in ps : CanRollBack(query.who, p, query.items[p])
     /\ PendingDelegatorVotes' = [p \in Polls |-> <<>>]
     /\ ReferendumInfoFor' = [p \in Polls |-> RestoredInfo(p, query.items)]
     /\ update_lock(query.who, RolledBack(query.who, query.items))
     /\ PendingQueries' = Resolved(q)
     /\ history' = [delegated |-> history.delegated \cap {p \in Polls : PendingOn(p)' # {}},
                    skewed |-> history.skewed \cup
                                 {p \in ps : p \in history.delegated \/ ~Ongoing(p)}]
     /\ UNCHANGED <<block, Delegators, DelegatorVotes, nextQuery, ReferendumTimeout, VoteStatus,
                    relay>>

notify_vote_succeeded(q) ==
  LET query == PendingQueries[q]
      ps == DOMAIN query.items
  IN /\ query.kind = "vote" /\ query.outcome = "ok"
     /\ DelegatorVotes' = [p \in Polls |-> IF p \in ps THEN PendingDelegatorVotes[p]
                                           ELSE DelegatorVotes[p]]
     /\ PendingDelegatorVotes' = [p \in Polls |-> IF p \in ps THEN <<>>
                                                  ELSE PendingDelegatorVotes[p]]
     /\ ReferendumInfoFor' = [p \in Polls |->
          IF p \in ps /\ Ongoing(p) THEN [ReferendumInfoFor[p] EXCEPT !.at = relay_block]
          ELSE ReferendumInfoFor[p]]
     /\ ReferendumTimeout' = ReferendumTimeout \cup
          {<<relay_block + UndecidingTimeout, p>> : p \in {x \in ps : Ongoing(x)}}
     /\ PendingQueries' = Resolved(q)
     /\ history' = [history EXCEPT !.delegated = @ \cap {p \in Polls : PendingOn(p)' # {}}]
     /\ UNCHANGED <<block, VotingFor, ClassLocksFor, Delegators, nextQuery, VoteStatus, relay>>

-----------------------------------------------------------------------------
(* Removing the derivative accounts' votes on the relay chain.             *)

\* ensure_referendum_expired looks at the first derivative account's vote only.
Expired(p) ==
  LET first == DelegatorVotes[p][1]
  IN /\ ReferendumInfoFor[p].state = "Completed"
     /\ relay_block >= ReferendumInfoFor[p].at
                       + VoteLockingPeriod * lock_periods(first.conviction)

remove_delegator_vote(p, d) ==
  /\ DelegatorVotes[p] # <<>> /\ Expired(p)
  /\ nextQuery < MaxQueries
  /\ PendingQueries' = [q \in DOMAIN PendingQueries \cup {nextQuery} |->
       IF q = nextQuery THEN [kind |-> "remove", poll |-> p, deriv |-> d, outcome |-> "sent"]
       ELSE PendingQueries[q]]
  /\ nextQuery' = nextQuery + 1
  /\ UNCHANGED <<block, ReferendumInfoFor, VotingFor, ClassLocksFor, Delegators, DelegatorVotes,
                 PendingDelegatorVotes, ReferendumTimeout, VoteStatus, relay, history>>

notify_remove_delegator_vote(q) ==
  LET query == PendingQueries[q]
  IN /\ query.kind = "remove" /\ query.outcome # "sent"
     /\ DelegatorVotes' = IF query.outcome = "ok" THEN [DelegatorVotes EXCEPT ![query.poll] = <<>>]
                          ELSE DelegatorVotes
     /\ PendingQueries' = Resolved(q)
     /\ UNCHANGED <<block, ReferendumInfoFor, VotingFor, ClassLocksFor, Delegators,
                    PendingDelegatorVotes, nextQuery, ReferendumTimeout, VoteStatus, relay,
                    history>>

(* The relay chain (external) runs the messages in the order they were     *)
(* sent, each as a whole or not at all.  A derivative account's new vote   *)
(* on a poll replaces its old one.                                         *)
Cast(entry) ==
  (IF entry.side = "aye" THEN 1 ELSE -1) * Votes(entry.conviction, entry.balance)

RunVotes(items) ==
  [p \in Polls |-> [d \in Derivatives |->
     LET votes == IF p \in DOMAIN items
                  THEN {k \in DOMAIN items[p].list : items[p].list[k].deriv = d} ELSE {}
     IN IF votes = {} THEN relay[p][d] ELSE Cast(items[p].list[Max(votes)])]]

relay_runs(q, ok) ==
  LET query == PendingQueries[q]
  IN /\ query.outcome = "sent"
     /\ \A r \in DOMAIN PendingQueries : r < q => PendingQueries[r].outcome # "sent"
     /\ PendingQueries' = [PendingQueries EXCEPT ![q].outcome = IF ok THEN "ok" ELSE "failed"]
     /\ relay' = IF ~ok THEN relay
                 ELSE IF query.kind = "vote" THEN RunVotes(query.items)
                 ELSE [relay EXCEPT ![query.poll][query.deriv] = 0]
     /\ UNCHANGED <<block, ReferendumInfoFor, VotingFor, ClassLocksFor, Delegators,
                    DelegatorVotes, PendingDelegatorVotes, nextQuery, ReferendumTimeout,
                    VoteStatus, history>>

-----------------------------------------------------------------------------
(* Blocks and governance.                                                  *)

over_referendum_info_for(ps) ==
  ReferendumInfoFor' = [p \in Polls |->
    IF p \in ps /\ Ongoing(p) THEN Info("Completed", relay_block) ELSE ReferendumInfoFor[p]]

\* on_idle ends the block; served is the part of the due timeouts for which
\* the block has weight left.
on_idle(served) ==
  LET due == IF block % ReferendumCheckInterval # 0 THEN {}
             ELSE {t \in ReferendumTimeout : relay_block >= t[1]}
  IN /\ block < MaxBlock
     /\ served \subseteq due
     /\ over_referendum_info_for({t[2] : t \in served})
     /\ ReferendumTimeout' = ReferendumTimeout \ served
     /\ block' = block + 1
     /\ UNCHANGED <<VotingFor, ClassLocksFor, Delegators, DelegatorVotes, PendingDelegatorVotes,
                    PendingQueries, nextQuery, VoteStatus, relay, history>>

add_delegator(d) ==
  /\ \A k \in DOMAIN Delegators : Delegators[k] # d
  /\ Delegators' = Append(Delegators, d)
  /\ UNCHANGED <<block, ReferendumInfoFor, VotingFor, ClassLocksFor, DelegatorVotes,
                 PendingDelegatorVotes, PendingQueries, nextQuery, ReferendumTimeout, VoteStatus,
                 relay, history>>

update_referendum_vote_status(p, status) ==
  /\ VoteStatus' = [VoteStatus EXCEPT ![p] = status]
  /\ IF status # "Ongoing" THEN over_referendum_info_for({p}) ELSE UNCHANGED ReferendumInfoFor
  /\ UNCHANGED <<block, VotingFor, ClassLocksFor, Delegators, DelegatorVotes,
                 PendingDelegatorVotes, PendingQueries, nextQuery, ReferendumTimeout, relay,
                 history>>

\* kill_referendum, and set_referendum_status to another state; governance
\* does not rewrite the tally of an ongoing poll.
set_info(p, info) ==
  /\ ReferendumInfoFor' = [ReferendumInfoFor EXCEPT ![p] = info]
  /\ UNCHANGED <<block, VotingFor, ClassLocksFor, Delegators, DelegatorVotes,
                 PendingDelegatorVotes, PendingQueries, nextQuery, ReferendumTimeout, VoteStatus,
                 relay, history>>
kill_referendum(p) ==
  ReferendumInfoFor[p].state = "Completed" /\ set_info(p, Info("Killed", relay_block))
set_referendum_status(p, state) ==
  /\ Ongoing(p) /\ relay_block >= ReferendumInfoFor[p].at
  /\ set_info(p, Info(state, relay_block))

-----------------------------------------------------------------------------
Init ==
  /\ block = 0
  /\ ReferendumInfoFor = [p \in Polls |-> NoInfo]
  /\ VotingFor = [u \in Users |->
       [votes |-> [p \in Polls |-> NoVote], target |-> NoOne, balance |-> 0, conviction |-> 0,
        delegations |-> [votes |-> 0, capital |-> 0], prior |-> [until |-> 0, amount |-> 0]]]
  /\ ClassLocksFor = [u \in Users |-> 0]
  /\ Delegators = InitialDelegators
  /\ DelegatorVotes = [p \in Polls |-> <<>>]
  /\ PendingDelegatorVotes = [p \in Polls |-> <<>>]
  /\ PendingQueries = [q \in {} |-> 0]
  /\ nextQuery = 0
  /\ ReferendumTimeout = {}
  /\ VoteStatus = [p \in Polls |-> "Ongoing"]
  /\ relay = [p \in Polls |-> [d \in Derivatives |-> 0]]
  /\ history = [delegated |-> {}, skewed |-> {}]

Calls ==
  \/ \E u \in Users, p \in Polls, v \in VoteInputs : common_vote(u, p, v)
  \/ \E u, to \in Users, i \in DelegateInputs : delegate(u, to, i[1], i[2])
  \/ \E u \in Users : undelegate(u)
  \/ \E u \in Users, p \in Polls : unlock_poll(u, p)
  \/ \E u \in Users : unlock_delegation(u)
  \/ \E p \in Polls, d \in Derivatives : remove_delegator_vote(p, d)

Answers ==
  \/ \E q \in DOMAIN PendingQueries, ok \in BOOLEAN : relay_runs(q, ok)
  \/ \E q \in DOMAIN PendingQueries : notify_vote_failed(q)
  \/ \E q \in DOMAIN PendingQueries : notify_vote_succeeded(q)
  \/ \E q \in DOMAIN PendingQueries : notify_remove_delegator_vote(q)

Governance ==
  \/ \E d \in Derivatives : add_delegator(d)
  \/ \E p \in Polls, s \in VoteStatuses :
       update_referendum_vote_status(p, s)
  \/ \E p \in Polls : kill_referendum(p)
  \/ \E p \in Polls, s \in {"Completed", "Killed"} : set_referendum_status(p, s)

Next == Calls \/ Answers \/ Governance \/ \E served \in SUBSET ReferendumTimeout : on_idle(served)

Spec == Init /\ [][Next]_vars

-----------------------------------------------------------------------------
DelegatorVoteItems == [deriv : Derivatives, side : {"aye", "nay"}, conviction : Convictions,
                       balance : Nat]
IsQuery(q) ==
  \/ /\ q.kind = "vote" /\ q.who \in Users /\ DOMAIN q.items \subseteq Polls
     /\ q = [kind |-> "vote", who |-> q.who, outcome |-> q.outcome, items |-> q.items]
     /\ q.outcome \in {"sent", "ok", "failed"}
     /\ \A p \in DOMAIN q.items :
          q.items[p] \in [old : Entries, info : Infos, list : Seq(DelegatorVoteItems)]
  \/ q \in [kind : {"remove"}, poll : Polls, deriv : Derivatives,
            outcome : {"sent", "ok", "failed"}]

(* Every storage item holds values of its type.                            *)
TypeOK ==
  /\ block \in 0..MaxBlock /\ nextQuery \in 0..MaxQueries
  /\ ReferendumInfoFor \in [Polls -> Infos]
  /\ VotingFor \in [Users -> Votings]
  /\ ClassLocksFor \in [Users -> Nat]
  /\ DOMAIN PendingQueries \subseteq 0..(nextQuery - 1)
  /\ \A q \in DOMAIN PendingQueries : IsQuery(PendingQueries[q])
  /\ Delegators \in Seq(Derivatives)
  /\ DelegatorVotes \in [Polls -> Seq(DelegatorVoteItems)]
  /\ PendingDelegatorVotes \in [Polls -> Seq(DelegatorVoteItems)]
  /\ ReferendumTimeout \subseteq Nat \X Polls
  /\ VoteStatus \in [Polls -> {"Approved", "Rejected", "None", "Ongoing"}]
  /\ relay \in [Polls -> [Derivatives -> Int]]
  /\ history \in [delegated : SUBSET Polls, skewed : SUBSET Polls]

(* The lock on a user's vTokens covers every vote and the delegation the   *)
(* user has in place, whatever was cast, rolled back or unlocked before.   *)
LocksCover ==
  \A u \in Users :
    /\ Casts(u) => \A p \in Polls : ClassLocksFor[u] >= VotingFor[u].votes[p].vtoken
    /\ ~Casts(u) => ClassLocksFor[u] >= VotingFor[u].balance

(* The delegations a user is credited with are those of the users that    *)
(* delegate to that user now, whatever was delegated and ended before.     *)
Received(u) ==
  LET amount(d) == IF VotingFor[d].target = u
                   THEN Amount(VotingFor[d].conviction, VotingFor[d].balance)
                   ELSE [votes |-> 0, capital |-> 0]
  IN [votes |-> SumFunctionOnSet([d \in Users |-> amount(d).votes], Users),
      capital |-> SumFunctionOnSet([d \in Users |-> amount(d).capital], Users)]
DelegationsAgree == \A u \in Users : VotingFor[u].delegations = Received(u)

(* The tally of an ongoing poll is what the votes in place and the         *)
(* delegations to their voters add up to, unless a vote was rolled back    *)
(* (skewed) after the poll was over, or after the delegations to a voter   *)
(* changed while the vote was unanswered.  Answers may come in any order,  *)
(* late or never.                                                          *)
Weight(v, d) == Plus(Own(v), Delegated(v.side, d))
SumTally(w) ==
  [ayes |-> SumFunctionOnSet([u \in Users |-> w[u].ayes], Users),
   nays |-> SumFunctionOnSet([u \in Users |-> w[u].nays], Users),
   support |-> SumFunctionOnSet([u \in Users |-> w[u].support], Users)]
Weights(p) == [u \in Users |-> Weight(VotingFor[u].votes[p], VotingFor[u].delegations)]
TallyOf(p) == SumTally(Weights(p))
TallyAgrees ==
  \A p \in Polls : Ongoing(p) /\ p \notin history.skewed => ReferendumInfoFor[p].tally = TallyOf(p)

(* "Distribute a delegator's total vote into one or more derivative        *)
(* accounts": once every query on an ongoing poll is answered, the votes   *)
(* of the derivative accounts on the relay chain are the net tally, on its *)
(* side.  Up to the cap they are exact; beyond it the two choices of a     *)
(* conviction round down by up to five votes each.  An even tally has no   *)
(* votes to cast, and what was cast before stays.                          *)
Carries(cast, net) ==
  LET side == IF net >= 0 THEN 1 ELSE -1
      missing == side * net - side * cast
  IN /\ side * cast >= 0 /\ missing \in 0..10
     /\ side * net <= VoteCap => missing = 0
RelayCarriesTally ==
  \A p \in Polls :
    LET net == Net(ReferendumInfoFor[p].tally)
    IN Ongoing(p) /\ p \notin history.skewed /\ PendingOn(p) = {} /\ net # 0 =>
         Carries(SumFunction(relay[p]), net)
=============================================================================
