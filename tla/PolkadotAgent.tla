---------------------------- MODULE PolkadotAgent ----------------------------
(***************************************************************************)
(* The SLP pallet (src/pallets/slp/src) for DOT or KSM: the derivative     *)
(* accounts ("delegators") through which the pool is staked on the other   *)
(* chain.  Every staking operation is an XCM message; the local ledger is  *)
(* updated only when its answer arrives, from an entry kept under the      *)
(* query id.  An answer may be late, lost, or given by hand.               *)
(*                                                                         *)
(* An extrinsic either completes or leaves no trace.  Minimums, maximums,  *)
(* the unlock delay and fees are constants; XCM fees are always covered    *)
(* and the time unit may be updated in every block.  The other chain's     *)
(* staking pallet is external: relay_runs.  A delegator is its derivative  *)
(* index; governance adds one under its own index only.  The whitelist of  *)
(* validators is a constant.                                               *)
(***************************************************************************)
EXTENDS Integers, Sequences, FiniteSets, FiniteSetsExt, Functions

CONSTANTS
  MaxDelegators,             \* mins_maxs.delegators_maximum
  Validators,                \* the whitelist
  delegator_bonded_minimum, bond_extra_minimum, unbond_minimum, rebond_minimum,
  unbond_record_maximum, validators_back_maximum, delegator_active_staking_maximum,
  UnlockDelay,               \* CurrencyDelays.unlock_delay, in eras
  TIMEOUT_BLOCKS,
  Permill,                   \* parts of one in a Permill
  HostingFee, MaxTune,       \* Permill: fee on rewards, largest increase at once
  TuneLimit,                 \* tunes per time unit
  InitialPool, InitialIssuance, InitialEntrance,
  InitialBond,               \* delegator 0's stake at the start
  Amounts, PoolValues,       \* bounds: amounts of the calls, values of a tune
  Rewards,                   \* bound: rewards the other chain pays at once
  Readded,                   \* bound: delegators governance adds by hand
  MaxUnreported, MaxChannel, MaxBlock, MaxEra, MaxCalls   \* bounds

Delegators == 0..(MaxDelegators - 1)
TimeUnits == 0..(MaxEra + UnlockDelay)

ASSUME SlpAssumption ==
  /\ {MaxDelegators, delegator_bonded_minimum, bond_extra_minimum, unbond_minimum,
      rebond_minimum, unbond_record_maximum, validators_back_maximum,
      delegator_active_staking_maximum, UnlockDelay, TIMEOUT_BLOCKS, TuneLimit, InitialPool,
      InitialIssuance, InitialEntrance, InitialBond, MaxUnreported, MaxChannel,
      MaxBlock, MaxEra, MaxCalls} \subseteq Nat
  /\ MaxDelegators > 1 /\ InitialBond > 0
  /\ Permill \in Nat \ {0} /\ HostingFee \in 0..Permill /\ MaxTune \in 0..Permill
  /\ Amounts \cup PoolValues \cup Rewards \subseteq Nat /\ Readded \subseteq Delegators

VARIABLES
  block,
  time_unit,             \* OngoingTimeUnit of vtoken-minting
  DelegatorNextIndex,
  known,                 \* keys of DelegatorsMultilocation2Index
  DelegatorLedgers,      \* delegator -> ledger, see Ledgers
  LedgerQueue,           \* DelegatorLedgerXcmUpdateQueue
  ValidatorsByDelegator, \* delegator -> validators it nominates
  ValidatorsQueue,       \* ValidatorsByDelegatorXcmUpdateQueue
  TuneRecord,            \* [time, count]: CurrencyLatestTuneRecord
  DelegatorLatestTuneRecord,
  pool,                  \* [token, issuance]: TokenPool and VtokenIssuance
  entrance,              \* the entrance account's tokens
  nextQuery,             \* pallet_xcm's next query id
  channel,               \* messages the other chain has not run yet
  outcome,               \* query -> "ok" or "failed", once the message has run
  era,                   \* the other chain's era
  relay,                 \* delegator -> its stake there, see Stakes
  calls,                 \* number of calls made, which MaxCalls bounds
  unreported,            \* history: delegator -> rewards there, not yet booked here
  spoiled                \* history: where the two chains are known to disagree

clocks == <<block, time_unit, era>>
tunes == <<TuneRecord, DelegatorLatestTuneRecord, pool>>
accounts == <<DelegatorNextIndex, known, tunes>>
queries == <<LedgerQueue, ValidatorsQueue, nextQuery, outcome>>
vars == <<clocks, accounts, queries, DelegatorLedgers, ValidatorsByDelegator, entrance, channel,
          relay, calls, unreported, spoiled>>

-----------------------------------------------------------------------------
(* A ledger: total, active and the unlock chunks, oldest first.            *)
Chunks == [value : Nat, time : TimeUnits]
Ledgers == [total : Nat, active : Nat, unlocking : Seq(Chunks)]
NoLedger == [total |-> 0, active |-> 0, unlocking |-> <<>>, none |-> TRUE]
Bonded(d) == DelegatorLedgers[d] # NoLedger

Chunk(value, t) == [value |-> value, time |-> t]
Values(s) == [i \in DOMAIN s |-> s[i].value]
Unlocking(s) == SumFunctionOnSet(Values(s), DOMAIN s)
UnlockingAt(s, t) == SumFunctionOnSet(Values(s), {i \in DOMAIN s : s[i].time = t})

\* Chunks are taken back from the newest; an amount beyond them all is not noticed.
Rebonded(unlocking, amount) ==
  LET From(i) == SumFunctionOnSet(Values(unlocking), i..Len(unlocking))
  IN [i \in 1..Cardinality({i \in DOMAIN unlocking : From(i) > amount}) |->
        Chunk(Min({unlocking[i].value, From(i) - amount}), unlocking[i].time)]

\* The due chunks at the head of the list, and the rest.
DueCount(unlocking, t) ==
  Max({k \in 0..Len(unlocking) : \A i \in 1..k : unlocking[i].time <= t})
Due(unlocking, t) == SubSeq(unlocking, 1, DueCount(unlocking, t))
NotDue(unlocking, t) == SubSeq(unlocking, DueCount(unlocking, t) + 1, Len(unlocking))

-----------------------------------------------------------------------------
(* Queries.  An entry holds the update to make when the message succeeds.  *)
(* A message also carries the time unit of its entry, which the other      *)
(* chain does not see, to tell when the two chains disagree about the era. *)

RelayCalls == {"bond", "bond_extra", "unbond", "rebond", "withdraw_unbonded", "chill",
               "nominate", "payout_stakers", "transfer_back", "deposit"}
Operations == {"Bond", "Unlock", "Rebond", "Liquidize"}
Entries == [who : Delegators, op : Operations, amount : Nat, time : TimeUnits, timeout : Nat]
Nominations == [who : Delegators, validators : SUBSET Validators, timeout : Nat]
PendingOf(d) == {q \in DOMAIN LedgerQueue : LedgerQueue[q].who = d}
NominationsOf(d) == {q \in DOMAIN ValidatorsQueue : ValidatorsQueue[q].who = d}
InFlight(d) == \E i \in DOMAIN channel : channel[i].who = d

get_unlocking_time_unit_from_current == time_unit + UnlockDelay
unlock_time(op) ==
  IF op = "Unlock" THEN get_unlocking_time_unit_from_current
  ELSE IF op = "Liquidize" THEN time_unit ELSE 0

Put(f, q, e) == [x \in DOMAIN f \cup {q} |-> IF x = q THEN e ELSE f[x]]
Without(f, q) == [x \in DOMAIN f \ {q} |-> f[x]]
Messages == [query : Nat, call : RelayCalls, who : Delegators, amount : Nat,
             targets : SUBSET Validators, time : TimeUnits]
Message(query, call, d, amount, targets, t) ==
  [query |-> query, call |-> call, who |-> d, amount |-> amount, targets |-> targets, time |-> t]

(* Where the other chain's outcome cannot be what the entry assumes, the   *)
(* delegator is recorded under the kind of state that is no longer known:  *)
(* "stake", "noms" (its nominations) or "chill" (see chill).               *)
Kinds == {"stake", "noms", "chill"}
SpoilIf(condition, kind, d) ==
  [spoiled EXCEPT ![kind] = IF condition THEN @ \cup {d} ELSE @]

\* The bound on the number of calls.
Called == calls < MaxCalls /\ calls' = calls + 1

\* construct_xcm_and_send_as_subaccount_without_query_id.
send(call, d, amount) ==
  /\ d \in known /\ Len(channel) < MaxChannel /\ Called
  /\ channel' = Append(channel, Message(0, call, d, amount, {}, 0))
  /\ UNCHANGED <<clocks, accounts, queries, DelegatorLedgers, ValidatorsByDelegator, relay,
                 unreported, spoiled>>

\* construct_xcm_as_subaccount_with_query_id and send_xcm.
send_with_query(call, d, amount, targets, t) ==
  /\ d \in known /\ Len(channel) < MaxChannel /\ Called
  /\ channel' = Append(channel, Message(nextQuery, call, d, amount, targets, t))
  /\ nextQuery' = nextQuery + 1
  /\ UNCHANGED <<clocks, accounts, outcome, entrance, relay, unreported>>

(* Two operations on the stake of one delegator do not commute unless one  *)
(* of them is a bond.                                                      *)
Overlaps(op, d) == op # "Bond" /\ \E q \in PendingOf(d) : LedgerQueue[q].op # "Bond"

\* With insert_delegator_ledger_update_entry.
request(call, op, d, amount) ==
  /\ send_with_query(call, d, amount, {}, unlock_time(op))
  /\ LedgerQueue' = Put(LedgerQueue, nextQuery,
       [who |-> d, op |-> op, amount |-> amount, time |-> unlock_time(op),
        timeout |-> block + TIMEOUT_BLOCKS])
  /\ spoiled' = SpoilIf(Overlaps(op, d), "stake", d)
  /\ UNCHANGED <<ValidatorsQueue, ValidatorsByDelegator>>

\* With insert_validators_by_delegator_update_entry.  Answers may come in either order.
nominate(d, targets) ==
  /\ send_with_query("nominate", d, 0, targets, 0)
  /\ ValidatorsQueue' = Put(ValidatorsQueue, nextQuery,
       [who |-> d, validators |-> targets, timeout |-> block + TIMEOUT_BLOCKS])
  /\ spoiled' = SpoilIf(NominationsOf(d) # {}, "noms", d)
  /\ UNCHANGED <<LedgerQueue, DelegatorLedgers, ValidatorsByDelegator>>

-----------------------------------------------------------------------------
(* Staking calls of the operator.                                          *)

bond(d, amount) ==
  /\ ~Bonded(d)
  /\ amount >= delegator_bonded_minimum /\ amount <= delegator_active_staking_maximum
  /\ request("bond", "Bond", d, amount)
  /\ DelegatorLedgers' = [DelegatorLedgers EXCEPT
       ![d] = [total |-> 0, active |-> 0, unlocking |-> <<>>]]

bond_extra(d, amount) ==
  /\ Bonded(d)
  /\ amount >= bond_extra_minimum
  /\ amount + DelegatorLedgers[d].active <= delegator_active_staking_maximum
  /\ request("bond_extra", "Bond", d, amount)
  /\ UNCHANGED DelegatorLedgers

\* Mutant: the active stake need not cover the amount.
CanUnbondUnchecked(l, amount) == amount >= unbond_minimum

CanUnbond(l, amount) ==
  /\ amount >= unbond_minimum
  /\ l.active >= amount /\ l.active - amount >= delegator_bonded_minimum
  /\ Len(l.unlocking) < unbond_record_maximum

unbond(d, amount) ==
  /\ Bonded(d) /\ CanUnbond(DelegatorLedgers[d], amount)
  /\ request("unbond", "Unlock", d, amount)
  /\ UNCHANGED DelegatorLedgers

unbond_all(d) ==
  /\ Bonded(d)
  /\ request("unbond", "Unlock", d, DelegatorLedgers[d].active)
  /\ UNCHANGED DelegatorLedgers

rebond(d, amount) ==
  /\ Bonded(d)
  /\ amount >= rebond_minimum /\ Unlocking(DelegatorLedgers[d].unlocking) >= amount
  /\ request("rebond", "Rebond", d, amount)
  /\ UNCHANGED DelegatorLedgers

liquidize(d) ==
  /\ request("withdraw_unbonded", "Liquidize", d, 0)
  /\ UNCHANGED DelegatorLedgers

\* The entry moves the whole active stake to the unlock chunks.
chill(d) ==
  /\ Bonded(d)
  /\ request("chill", "Unlock", d, DelegatorLedgers[d].active)
  /\ UNCHANGED DelegatorLedgers

payout(d) == send("payout_stakers", d, 0) /\ UNCHANGED entrance

transfer_back(d, amount) ==
  /\ amount > 0
  /\ send("transfer_back", d, amount)
  /\ UNCHANGED entrance

\* The transfer's fee comes from the fee source and is left out.
transfer_to(d, amount) ==
  /\ amount > 0 /\ amount <= entrance
  /\ send("deposit", d, amount)
  /\ entrance' = entrance - amount

\* Also redelegate.
delegate(d, targets) ==
  /\ Bonded(d)
  /\ targets # {} /\ Cardinality(targets) <= validators_back_maximum
  /\ nominate(d, targets)

undelegate(d, targets) ==
  LET new_set == ValidatorsByDelegator[d] \ targets
  IN /\ Bonded(d) /\ targets # {} /\ new_set # {}
     /\ nominate(d, new_set)

-----------------------------------------------------------------------------
(* Answers.                                                                *)

\* Mutant: an underflow is not refused.
CanApplyUnchecked(l, e) == l # NoLedger

\* The checked subtractions of update_ledger_query_response_storage.
CanApply(l, e) ==
  /\ l # NoLedger
  /\ e.op = "Unlock" => e.amount <= l.active
  /\ e.op = "Liquidize" => Unlocking(Due(l.unlocking, e.time)) <= l.total

\* Mutant: the active stake is not increased.
rebonded_inactive(l, amount) == [l EXCEPT !.unlocking = Rebonded(@, amount)]

rebonded(l, amount) ==
  [l EXCEPT !.active = @ + amount, !.unlocking = Rebonded(@, amount)]

\* update_ledger_query_response_storage.
Applied(l, e) ==
  CASE e.op = "Bond" -> [l EXCEPT !.active = @ + e.amount, !.total = @ + e.amount]
    [] e.op = "Unlock" ->
         [l EXCEPT !.active = @ - e.amount, !.unlocking = Append(@, Chunk(e.amount, e.time))]
    [] e.op = "Rebond" -> rebonded(l, e.amount)
    [] e.op = "Liquidize" ->
         [l EXCEPT !.total = @ - Unlocking(Due(l.unlocking, e.time)),
                   !.unlocking = NotDue(@, e.time)]

(* The other chain's answer, or the operator's word for it, right or not.  *)
(* An answer that cannot be applied leaves the entry where it is.          *)
confirm_delegator_ledger(q, success) ==
  LET e == LedgerQueue[q]
      applied == success /\ block <= e.timeout
      l == DelegatorLedgers[e.who]
  IN /\ applied => CanApply(l, e)
     /\ DelegatorLedgers' = IF applied THEN [DelegatorLedgers EXCEPT ![e.who] = Applied(l, e)]
                            ELSE DelegatorLedgers
     /\ LedgerQueue' = Without(LedgerQueue, q) /\ outcome' = Without(outcome, q)
     /\ spoiled' = SpoilIf(q \notin DOMAIN outcome \/ (applied # (outcome[q] = "ok")),
                           "stake", e.who)
     /\ UNCHANGED <<clocks, accounts, ValidatorsQueue, nextQuery, ValidatorsByDelegator,
                    entrance, channel, relay, calls, unreported>>

\* Mutant: stored whatever the answer was.
validators_after_any(e, applied) == [ValidatorsByDelegator EXCEPT ![e.who] = e.validators]

\* update_validators_by_delegator_query_response_storage.
validators_after(e, applied) ==
  IF applied THEN [ValidatorsByDelegator EXCEPT ![e.who] = e.validators]
  ELSE ValidatorsByDelegator

confirm_validators_by_delegator(q, success) ==
  LET e == ValidatorsQueue[q]
      applied == success /\ block <= e.timeout
  IN /\ ValidatorsByDelegator' = validators_after(e, applied)
     /\ ValidatorsQueue' = Without(ValidatorsQueue, q) /\ outcome' = Without(outcome, q)
     /\ spoiled' = SpoilIf(q \notin DOMAIN outcome \/ (applied # (outcome[q] = "ok")),
                           "noms", e.who)
     /\ UNCHANGED <<clocks, accounts, LedgerQueue, nextQuery, DelegatorLedgers, entrance,
                    channel, relay, calls, unreported>>

-----------------------------------------------------------------------------
(* Delegators, and the operator's corrections.                             *)

\* inner_add_delegator.
inner_add_delegator(d, next) ==
  /\ d \notin known /\ next < MaxDelegators /\ Called
  /\ known' = known \cup {d}
  /\ DelegatorNextIndex' = next
  /\ UNCHANGED <<clocks, queries, tunes, DelegatorLedgers, ValidatorsByDelegator, entrance,
                 channel, relay, unreported, spoiled>>

initialize_delegator == inner_add_delegator(DelegatorNextIndex, DelegatorNextIndex + 1)
add_delegator(d) == inner_add_delegator(d, DelegatorNextIndex)

\* What is pending or unreported then belongs to nobody.  The nominations stay.
remove_delegator(d) ==
  /\ d \in known /\ Bonded(d) /\ DelegatorLedgers[d].total = 0 /\ Called
  /\ known' = known \ {d}
  /\ DelegatorLedgers' = [DelegatorLedgers EXCEPT ![d] = NoLedger]
  /\ spoiled' = SpoilIf(PendingOf(d) # {} \/ unreported[d] > 0, "stake", d)
  /\ UNCHANGED <<clocks, queries, DelegatorNextIndex, tunes, ValidatorsByDelegator,
                entrance, channel, relay, unreported>>

\* The operator copies what it sees on the other chain, or clears the ledger.
set_delegator_ledger(d, copy) ==
  LET r == relay[d]
  IN /\ Called
     /\ DelegatorLedgers' = [DelegatorLedgers EXCEPT ![d] =
          IF copy THEN [total |-> r.active + Unlocking(r.unlocking), active |-> r.active,
                        unlocking |-> r.unlocking]
          ELSE NoLedger]
     /\ unreported' = IF copy THEN [unreported EXCEPT ![d] = 0] ELSE unreported
     /\ spoiled' = IF copy /\ PendingOf(d) = {} /\ ~InFlight(d)
                    THEN [spoiled EXCEPT !["stake"] = @ \ {d}, !["chill"] = @ \ {d}]
                    ELSE SpoilIf(TRUE, "stake", d)
     /\ UNCHANGED <<clocks, accounts, queries, ValidatorsByDelegator,
                    entrance, channel, relay>>

set_validators_by_delegator(d, targets) ==
  /\ Cardinality(targets) <= validators_back_maximum /\ Bonded(d) /\ Called
  /\ ValidatorsByDelegator' = [ValidatorsByDelegator EXCEPT ![d] = targets]
  /\ spoiled' = IF NominationsOf(d) = {} /\ ~InFlight(d) /\ targets = relay[d].noms
                 THEN [spoiled EXCEPT !["noms"] = @ \ {d}] ELSE SpoilIf(TRUE, "noms", d)
  /\ UNCHANGED <<clocks, accounts, queries, DelegatorLedgers, entrance,
                 channel, relay, unreported>>

-----------------------------------------------------------------------------
(* Rewards: charge_host_fee_and_tune_vtoken_exchange_rate.  The commission *)
(* and oracle records it makes in other pallets are left out.              *)

mul_floor(part, n) == (part * n) \div Permill

\* inner_calculate_vtoken_hosting_fee.
hosting_fee(fee) == IF pool.token = 0 THEN 0 ELSE (fee * pool.issuance) \div pool.token

\* Mutant: the pool is left as it was.
increase_token_pool_forgotten(p, pool_value) == p

increase_token_pool(p, pool_value) == [p EXCEPT !.token = @ + pool_value]

tune_vtoken_exchange_rate(d, pool_value, delegator_value) ==
  LET tuned == IF TuneRecord.time = time_unit THEN TuneRecord.count ELSE 0
      charge == hosting_fee(mul_floor(HostingFee, pool_value))
  IN /\ Called
     /\ pool_value > 0 /\ pool_value <= mul_floor(MaxTune, pool.token)
     /\ delegator_value > 0 /\ delegator_value <= mul_floor(MaxTune, pool.token)
     /\ TuneRecord.time = time_unit => tuned < TuneLimit
     /\ charge > 0
     /\ d \in known /\ Bonded(d) /\ DelegatorLatestTuneRecord[d] # time_unit
     /\ pool' = increase_token_pool([pool EXCEPT !.issuance = @ + charge], pool_value)
     /\ TuneRecord' = [time |-> time_unit, count |-> tuned + 1]
     /\ DelegatorLatestTuneRecord' = [DelegatorLatestTuneRecord EXCEPT ![d] = time_unit]
     /\ DelegatorLedgers' = [DelegatorLedgers EXCEPT ![d].active = @ + delegator_value,
                                                     ![d].total = @ + delegator_value]
     /\ unreported' = [unreported EXCEPT ![d] = Max({@ - delegator_value, 0})]
     /\ spoiled' = SpoilIf(delegator_value > unreported[d], "stake", d)
     /\ UNCHANGED <<clocks, queries, DelegatorNextIndex, known, ValidatorsByDelegator,
                    entrance, channel, relay>>

-----------------------------------------------------------------------------
(* Time.  The operator reports only eras that have begun.                  *)

tick ==
  /\ block < MaxBlock /\ block' = block + 1
  /\ UNCHANGED <<time_unit, era, accounts, queries, DelegatorLedgers, ValidatorsByDelegator,
                 entrance, channel, relay, calls, unreported, spoiled>>

new_era ==
  /\ era < MaxEra /\ era' = era + 1
  /\ UNCHANGED <<block, time_unit, accounts, queries, DelegatorLedgers, ValidatorsByDelegator,
                 entrance, channel, relay, calls, unreported, spoiled>>

update_ongoing_time_unit(t) ==
  /\ time_unit < t /\ t <= era
  /\ time_unit' = t
  /\ UNCHANGED <<block, era, accounts, queries, DelegatorLedgers, ValidatorsByDelegator,
                 entrance, channel, relay, calls, unreported, spoiled>>

-----------------------------------------------------------------------------
(* The other chain (external).  Messages run in the order they were sent.  *)
(* free is what the delegator holds unbonded there.                        *)

Stakes == [free : Nat, bonded : BOOLEAN, active : Nat,
           unlocking : Seq(Chunks), noms : SUBSET Validators]

\* Whether the call succeeds.
Succeeds(m, r) ==
  CASE m.call = "bond" -> ~r.bonded /\ Min({m.amount, r.free}) > 0
    [] m.call = "rebond" -> r.bonded /\ r.unlocking # <<>>
    [] m.call = "transfer_back" -> m.amount <= r.free
    [] m.call = "deposit" -> TRUE
    [] OTHER -> r.bonded

\* A stash with nothing staked is removed when its last chunk is withdrawn.
Withdrawn(r) ==
  LET left == NotDue(r.unlocking, era)
      kept == r.active > 0 \/ left # <<>>
  IN [r EXCEPT !.free = @ + Unlocking(Due(r.unlocking, era)), !.unlocking = left,
               !.bonded = kept, !.noms = IF kept THEN @ ELSE {}]

\* What a successful call makes of the stake.
After(m, r) ==
  LET most == Min({m.amount, r.free})
      cut == Min({m.amount, r.active})
  IN CASE m.call \in {"bond", "bond_extra"} ->
            [r EXCEPT !.bonded = TRUE, !.active = @ + most, !.free = @ - most]
       [] m.call = "unbond" ->
            [r EXCEPT !.active = @ - cut,
                      !.unlocking = IF cut = 0 THEN @
                                    ELSE Append(@, Chunk(cut, era + UnlockDelay))]
       [] m.call = "rebond" ->
            [r EXCEPT !.active = @ + Min({m.amount, Unlocking(r.unlocking)}),
                      !.unlocking = Rebonded(@, m.amount)]
       [] m.call = "withdraw_unbonded" -> Withdrawn(r)
       [] m.call = "chill" -> [r EXCEPT !.noms = {}]
       [] m.call = "nominate" -> [r EXCEPT !.noms = m.targets]
       [] m.call = "transfer_back" -> [r EXCEPT !.free = @ - m.amount]
       [] m.call = "deposit" -> [r EXCEPT !.free = @ + m.amount]

\* The call did not do what its entry says: funds were short, or the eras differ.
Differs(m, r) ==
  \/ m.call \in {"bond", "bond_extra"} /\ r.free < m.amount
  \/ m.call = "unbond" /\ m.time # era + UnlockDelay
  \/ m.call = "withdraw_unbonded" /\ DueCount(r.unlocking, m.time) # DueCount(r.unlocking, era)

\* The nominations went away without an entry that says so.
LosesNominations(m, r) ==
  m.call \in {"chill", "withdraw_unbonded"} /\ After(m, r).noms # r.noms

relay_runs ==
  LET m == Head(channel)
      r == relay[m.who]
      queued == DOMAIN LedgerQueue \cup DOMAIN ValidatorsQueue
  IN /\ channel # <<>> /\ m.call # "payout_stakers"
     /\ channel' = Tail(channel)
     /\ relay' = IF Succeeds(m, r) THEN [relay EXCEPT ![m.who] = After(m, r)] ELSE relay
     /\ entrance' = IF m.call = "transfer_back" /\ Succeeds(m, r) THEN entrance + m.amount
                     ELSE entrance
     /\ outcome' = IF m.query \in queued
                    THEN Put(outcome, m.query, IF Succeeds(m, r) THEN "ok" ELSE "failed")
                    ELSE outcome
     /\ spoiled' = [spoiled EXCEPT
          !["stake"] = IF Succeeds(m, r) /\ Differs(m, r) THEN @ \cup {m.who} ELSE @,
          !["noms"] = IF Succeeds(m, r) /\ LosesNominations(m, r) THEN @ \cup {m.who} ELSE @,
          !["chill"] = IF m.call = "chill" /\ Succeeds(m, r) /\ m.amount > 0
                       THEN @ \cup {m.who} ELSE @]
     /\ UNCHANGED <<clocks, accounts, LedgerQueue, ValidatorsQueue, nextQuery,
                    DelegatorLedgers, ValidatorsByDelegator, calls, unreported>>

\* Rewards are added to the active stake.
relay_pays(v) ==
  LET d == Head(channel).who
  IN /\ channel # <<>> /\ Head(channel).call = "payout_stakers"
     /\ unreported[d] + v <= MaxUnreported
     /\ v > 0 => relay[d].bonded
     /\ channel' = Tail(channel)
     /\ relay' = [relay EXCEPT ![d].active = @ + v]
     /\ unreported' = [unreported EXCEPT ![d] = @ + v]
     /\ UNCHANGED <<clocks, accounts, queries, DelegatorLedgers, ValidatorsByDelegator,
                    entrance, calls, spoiled>>

-----------------------------------------------------------------------------

Init ==
  /\ block = 0 /\ time_unit = 0 /\ era = 0
  /\ DelegatorNextIndex = 1 /\ known = {0}
  /\ DelegatorLedgers = [d \in Delegators |->
       IF d = 0 THEN [total |-> InitialBond, active |-> InitialBond, unlocking |-> <<>>]
       ELSE NoLedger]
  /\ LedgerQueue = <<>> /\ ValidatorsQueue = <<>> /\ outcome = <<>> /\ nextQuery = 1
  /\ ValidatorsByDelegator = [d \in Delegators |-> {}]
  /\ TuneRecord = [time |-> 0, count |-> 0]
  /\ DelegatorLatestTuneRecord = [d \in Delegators |-> -1]
  /\ pool = [token |-> InitialPool, issuance |-> InitialIssuance]
  /\ entrance = InitialEntrance /\ calls = 0
  /\ channel = <<>>
  /\ relay = [d \in Delegators |->
       [free |-> 0, bonded |-> d = 0, active |-> IF d = 0 THEN InitialBond ELSE 0,
        unlocking |-> <<>>, noms |-> {}]]
  /\ unreported = [d \in Delegators |-> 0]
  /\ spoiled = [k \in Kinds |-> {}]

Next ==
  \/ \E d \in Delegators, amount \in Amounts :
       \/ bond(d, amount) \/ bond_extra(d, amount)
       \/ unbond(d, amount) \/ rebond(d, amount)
       \/ transfer_back(d, amount) \/ transfer_to(d, amount)
  \/ \E d \in Delegators :
       \/ unbond_all(d) \/ liquidize(d) \/ chill(d) \/ payout(d)
       \/ remove_delegator(d)
       \/ \E copy \in BOOLEAN : set_delegator_ledger(d, copy)
       \/ \E v \in PoolValues, w \in Rewards \ {0} : tune_vtoken_exchange_rate(d, v, w)
       \/ \E targets \in SUBSET Validators :
            \/ delegate(d, targets) \/ undelegate(d, targets)
            \/ set_validators_by_delegator(d, targets)
  \/ initialize_delegator
  \/ \E d \in Readded : add_delegator(d)
  \/ \E q \in DOMAIN LedgerQueue, success \in BOOLEAN : confirm_delegator_ledger(q, success)
  \/ \E q \in DOMAIN ValidatorsQueue, success \in BOOLEAN :
       confirm_validators_by_delegator(q, success)
  \/ tick \/ new_era \/ \E t \in 1..MaxEra : update_ongoing_time_unit(t)
  \/ relay_runs \/ \E v \in Rewards : relay_pays(v)

Spec == Init /\ [][Next]_vars

-----------------------------------------------------------------------------

\* Types; an update is never applied past zero.
ClockTypes ==
  block \in 0..MaxBlock /\ era \in 0..MaxEra /\ time_unit \in 0..era /\ calls \in 0..MaxCalls
AccountTypes ==
  /\ known \subseteq Delegators /\ DelegatorNextIndex \in 0..MaxDelegators
  /\ TuneRecord \in [time : 0..MaxEra, count : Nat]
  /\ DelegatorLatestTuneRecord \in [Delegators -> -1..MaxEra]
  /\ pool \in [token : Nat, issuance : Nat] /\ entrance \in Nat
LedgerTypes ==
  /\ DelegatorLedgers \in [Delegators -> Ledgers \cup {NoLedger}]
  /\ ValidatorsByDelegator \in [Delegators -> SUBSET Validators]
  /\ relay \in [Delegators -> Stakes] /\ unreported \in [Delegators -> Nat]
  /\ spoiled \in [Kinds -> SUBSET Delegators]
QueryTypes ==
  /\ LedgerQueue \in [DOMAIN LedgerQueue -> Entries]
  /\ ValidatorsQueue \in [DOMAIN ValidatorsQueue -> Nominations]
  /\ outcome \in [DOMAIN outcome -> {"ok", "failed"}]
  /\ nextQuery \in Nat \ {0}
  /\ DOMAIN LedgerQueue \cup DOMAIN ValidatorsQueue \subseteq 1..(nextQuery - 1)
  /\ DOMAIN outcome \subseteq DOMAIN LedgerQueue \cup DOMAIN ValidatorsQueue
  /\ DOMAIN LedgerQueue \cap DOMAIN ValidatorsQueue = {}
  /\ channel \in Seq(Messages)
TypeOK == ClockTypes /\ AccountTypes /\ LedgerTypes /\ QueryTypes

Agrees(d) ==
  LET l == DelegatorLedgers[d]
      r == relay[d]
  IN /\ l.active + unreported[d] = r.active
     /\ l.total + unreported[d] = r.active + Unlocking(r.unlocking)
     /\ \A t \in TimeUnits : UnlockingAt(l.unlocking, t) = UnlockingAt(r.unlocking, t)

(* When no update is pending, the ledger is the stake on the other chain,  *)
(* chunk by chunk, but for rewards not yet reported: operations of several *)
(* delegators, their answers and the eras may come in any order.           *)
LedgerMirrors ==
  \A d \in Delegators \ (spoiled["stake"] \cup spoiled["chill"]) :
    PendingOf(d) = {} => Agrees(d)

(* An operation that succeeded on the other chain can always be booked:    *)
(* its entry does not stay behind for an underflow or a missing ledger.    *)
ConfirmApplies ==
  \A q \in DOMAIN LedgerQueue :
    LET e == LedgerQueue[q]
    IN e.who \notin spoiled["stake"] \cup spoiled["chill"]
       /\ q \in DOMAIN outcome /\ outcome[q] = "ok"
         => CanApply(DelegatorLedgers[e.who], e)

\* When no nomination is pending, ValidatorsByDelegator is what the other chain has.
NominationsMirror ==
  \A d \in Delegators \ spoiled["noms"] :
    NominationsOf(d) = {} => ValidatorsByDelegator[d] = relay[d].noms

(* Charging the hosting fee and tuning never lower the exchange rate: the  *)
(* vtokens minted for the fee are worth less than the reward.              *)
TuneKeepsRate ==
  [][pool'.token * pool.issuance >= pool.token * pool'.issuance]_pool

(* agent.rs: chill is followed by "Unbonding all the active amount [...]   *)
(* so that we can collect back all the bonded amount".  A chill that       *)
(* succeeded leaves the stake as it was, here as there.                    *)
ChillKeepsStake ==
  \A d \in Delegators \ spoiled["stake"] : PendingOf(d) = {} => Agrees(d)

=============================================================================
