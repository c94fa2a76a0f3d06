------------------------------- MODULE Farming -------------------------------
(***************************************************************************)
(* The farming pallet (src/pallets/farming/src): one farming pool, from    *)
(* its creation on.  Users deposit a token with the pool's keeper account  *)
(* and hold shares; rewards in another currency accrue each block and are  *)
(* paid out of the pool's reward issuer account.                           *)
(*                                                                         *)
(* The rewards of a share are kept without a loop over the users: a new    *)
(* share inflates the total by what the shares of its size were given so   *)
(* far, and counts this as already withdrawn.                              *)
(*                                                                         *)
(* A call either completes or leaves no trace.  The pool has one token, at *)
(* proportion one, one reward currency, no gauge and no boost; transfers   *)
(* of less than an existential deposit are left out.                       *)
(***************************************************************************)
EXTENDS Integers, Sequences, FiniteSets, FiniteSetsExt, Functions

CONSTANTS
  Users,
  min_deposit_to_start, after_block_to_start, claim_limit_time, withdraw_limit_count,
  RetireLimit,
  InitialBasicRewards, InitialLimitTime,
  InitialWallet,                \* each user's tokens
  Amounts,                      \* bound: deposits and withdrawals
  Charges,                      \* bound: amounts the issuer is charged with
  BasicRewards, LimitTimes,     \* bounds: values edit_pool may set
  MaxIssuer, MaxBlock, MaxEdits \* bounds

ASSUME FarmingAssumption ==
  /\ {min_deposit_to_start, after_block_to_start, claim_limit_time, withdraw_limit_count,
      RetireLimit, InitialBasicRewards, InitialLimitTime, InitialWallet, MaxIssuer, MaxBlock,
      MaxEdits} \subseteq Nat
  /\ Amounts \cup Charges \cup BasicRewards \cup LimitTimes \subseteq Nat
  /\ IsFiniteSet(Users)

VARIABLES
  block,
  state,     \* PoolState, or "Killed"
  params,    \* [basic_rewards, withdraw_limit_time]
  pool,      \* [total_shares, reward, withdrawn]: PoolInfo and its entry of rewards
  info,      \* user -> SharesAndWithdrawnRewards, see ShareInfos
  wallet,    \* user -> tokens
  keeper,    \* tokens of the keeper account
  issuer,    \* rewards of the reward issuer account
  history,   \* [accrued, paid]: rewards since the pool was created or reset
  edits      \* number of calls of edit_pool and reset_pool, which MaxEdits bounds

vars == <<block, state, params, pool, info, wallet, keeper, issuer, history, edits>>

States == {"UnCharged", "Charged", "Ongoing", "Dead", "Retired", "Killed"}
Withdrawals == [due : Nat, value : Nat]
ShareInfos == [share : Nat, withdrawn : Nat, claim_last_block : Nat,
               withdraw_list : Seq(Withdrawals)]
NoInfo == [share |-> 0, withdrawn |-> 0, claim_last_block |-> 0, withdraw_list |-> <<>>,
           none |-> TRUE]
EmptyPool == [total_shares |-> 0, reward |-> 0, withdrawn |-> 0]

Holders == {u \in Users : info[u] # NoInfo}
Values(list) == SumFunctionOnSet([k \in DOMAIN list |-> list[k].value], DOMAIN list)
SatSub(a, b) == Max({a - b, 0})
Proportion(part, total, of) == IF of = 0 THEN 0 ELSE (part * total) \div of

-----------------------------------------------------------------------------
(* Steps of the calls, as functions of the part of the state they change:  *)
(* p is the pool, i the user's share, f the funds of the two accounts and  *)
(* of the user.                                                            *)

\* Mutant: the inflation is not counted as withdrawn by the new share.
inflated_share_only(i, amount, inflation) == [i EXCEPT !.share = @ + amount]

inflated_share(i, amount, inflation) ==
  [i EXCEPT !.share = @ + amount, !.withdrawn = @ + inflation]

\* Mutant: only the total is inflated.
inflated_pool_total(p, amount, inflation) ==
  [p EXCEPT !.total_shares = @ + amount, !.reward = @ + inflation]

inflated_pool(p, amount, inflation) ==
  [p EXCEPT !.total_shares = @ + amount, !.reward = @ + inflation, !.withdrawn = @ + inflation]

inflation_of(p, amount) == Proportion(amount, p.reward, p.total_shares)

\* What claim_rewards pays.
reward_to_withdraw(p, i) ==
  Min({SatSub(Proportion(i.share, p.reward, p.total_shares), i.withdrawn),
       SatSub(p.reward, p.withdrawn)})

\* Mutant: the issuer's balance is not checked.
can_pay_unchecked(reward) == TRUE

can_pay(reward) == reward <= issuer

\* The pool and the share after claim_rewards.
claimed_pool(p, i) == [p EXCEPT !.withdrawn = @ + reward_to_withdraw(p, i)]
claimed_share(p, i) ==
  IF i.share = 0 THEN i
  ELSE [i EXCEPT !.withdrawn = @ + reward_to_withdraw(p, i), !.claim_last_block = block]

\* Mutant: the total of withdrawn rewards is kept.
removed_pool_total(p, amount, cut) ==
  [p EXCEPT !.total_shares = SatSub(@, amount), !.reward = SatSub(@, cut)]

removed_pool(p, amount, cut) ==
  IF SatSub(p.reward, cut) = 0
  THEN [EmptyPool EXCEPT !.total_shares = SatSub(p.total_shares, amount)]
  ELSE [p EXCEPT !.total_shares = SatSub(@, amount), !.reward = SatSub(@, cut),
                 !.withdrawn = SatSub(@, cut)]

removed_share(i, amount, cut, due) ==
  [i EXCEPT !.share = @ - amount, !.withdrawn = SatSub(@, cut),
            !.withdraw_list = Append(@, [due |-> due, value |-> amount])]

(* remove_share, after its claim.  When there is nothing to remove, the    *)
(* record was taken out of storage and is not put back.                    *)
after_remove(p, i, amount, due) ==
  LET cut == Proportion(amount, i.withdrawn, i.share)
  IN IF amount = 0 THEN [pool |-> p, info |-> NoInfo]
     ELSE [pool |-> removed_pool(p, amount, cut), info |-> removed_share(i, amount, cut, due)]

IsDue(e) == e.due <= block

(* The loop of process_withdraw_list: the entries that stay, in order, and *)
(* the tokens paid out.                                                    *)
SplitList(list) ==
  LET walk[k \in 0..Len(list)] ==
        IF k = 0 THEN [left |-> <<>>, paid |-> 0]
        ELSE IF IsDue(list[k]) THEN [walk[k-1] EXCEPT !.paid = @ + list[k].value]
        ELSE [walk[k-1] EXCEPT !.left = Append(@, list[k])]
  IN walk[Len(list)]

\* Mutant: the due entries stay.
remaining_all(list) == list

remaining(list) == SplitList(list).left
due_value(i) == SplitList(i.withdraw_list).paid

\* process_withdraw_list: the record left.
processed(i, if_remove) ==
  LET left == [i EXCEPT !.withdraw_list = remaining(@)]
  IN IF if_remove /\ left.withdraw_list = <<>> /\ left.share = 0 THEN NoInfo ELSE left

-----------------------------------------------------------------------------
(* Calls of the users.                                                     *)

deposit(u, amount) ==
  LET i == IF info[u] = NoInfo
           THEN [share |-> 0, withdrawn |-> 0, claim_last_block |-> block,
                 withdraw_list |-> <<>>]
           ELSE info[u]
      inflation == inflation_of(pool, amount)
  IN /\ state = "Ongoing" \/ (state = "Charged" /\ block >= after_block_to_start)
     /\ amount > 0 /\ amount <= wallet[u]
     /\ wallet' = [wallet EXCEPT ![u] = @ - amount]
     /\ keeper' = keeper + amount
     /\ pool' = inflated_pool(pool, amount, inflation)
     /\ info' = [info EXCEPT ![u] = inflated_share(i, amount, inflation)]
     /\ UNCHANGED <<block, state, params, issuer, history, edits>>

\* Paying the reward of a claim.
pays(reward) ==
  /\ can_pay(reward)
  /\ issuer' = issuer - reward
  /\ history' = [history EXCEPT !.paid = @ + reward]

\* amount is the input, or the whole share.
withdraw(u, amount) ==
  LET after == after_remove(claimed_pool(pool, info[u]), claimed_share(pool, info[u]), amount,
                            block + params.withdraw_limit_time)
  IN /\ state \in {"Ongoing", "Charged", "Dead"}
     /\ u \in Holders /\ Len(info[u].withdraw_list) < withdraw_limit_count
     /\ amount <= info[u].share /\ (amount = 0 => info[u].share = 0)
     /\ pays(reward_to_withdraw(pool, info[u]))
     /\ pool' = after.pool
     /\ info' = [info EXCEPT ![u] = after.info]
     /\ UNCHANGED <<block, state, params, wallet, keeper, edits>>

\* The tokens of the due entries.
releases(u, value) ==
  /\ value <= keeper
  /\ keeper' = keeper - value
  /\ wallet' = [wallet EXCEPT ![u] = @ + value]

claim(u) ==
  /\ state \in {"Ongoing", "Dead"}
  /\ u \in Holders /\ info[u].claim_last_block + claim_limit_time <= block
  /\ pays(reward_to_withdraw(pool, info[u]))
  /\ pool' = claimed_pool(pool, info[u])
  /\ info' = [info EXCEPT ![u] = processed(claimed_share(pool, info[u]), TRUE)]
  /\ releases(u, due_value(info[u]))
  /\ UNCHANGED <<block, state, params, edits>>

withdraw_claim(u) ==
  /\ state # "Killed" /\ u \in Holders
  /\ info' = [info EXCEPT ![u] = processed(info[u], FALSE)]
  /\ releases(u, due_value(info[u]))
  /\ UNCHANGED <<block, state, params, pool, issuer, history, edits>>

charge(amount) ==
  /\ state \in {"UnCharged", "Ongoing"}
  /\ issuer + amount <= MaxIssuer
  /\ issuer' = issuer + amount
  /\ state' = IF state = "UnCharged" THEN "Charged" ELSE state
  /\ UNCHANGED <<block, params, pool, info, wallet, keeper, history, edits>>

-----------------------------------------------------------------------------
(* Calls of governance.                                                    *)

close_pool ==
  /\ state = "Ongoing"
  /\ state' = "Dead"
  /\ UNCHANGED <<block, params, pool, info, wallet, keeper, issuer, history, edits>>

\* One round of the loop of force_retire_pool: w is the state reached so far.
retired(w, u) ==
  LET reward == reward_to_withdraw(w.pool, w.info[u])
      after == after_remove(claimed_pool(w.pool, w.info[u]), claimed_share(w.pool, w.info[u]),
                            w.info[u].share, block)
      value == due_value(after.info)
  IN [pool |-> after.pool,
      info |-> [w.info EXCEPT ![u] = IF after.info = NoInfo THEN NoInfo
                                     ELSE processed(after.info, TRUE)],
      wallet |-> [w.wallet EXCEPT ![u] = @ + value],
      keeper |-> w.keeper - value,
      reward |-> w.reward + reward]

\* The loop, over the first n holders in order.
retired_all(order, n) ==
  LET walk[k \in 0..n] ==
        IF k = 0 THEN [pool |-> pool, info |-> info, wallet |-> wallet, keeper |-> keeper,
                       reward |-> 0]
        ELSE retired(walk[k-1], order[k])
  IN walk[n]

(* The holders come in the order of their storage keys, which is any       *)
(* order.  When all are retired, the pool as it was read before the loop   *)
(* is written back.                                                        *)
force_retire_pool ==
  \E order \in Bijection(1..Cardinality(Holders), Holders) :
    LET n == Min({Cardinality(Holders), RetireLimit})
        w == retired_all(order, n)
    IN /\ state = "Dead"
       /\ pays(w.reward) /\ w.keeper >= 0
       /\ info' = w.info /\ wallet' = w.wallet /\ keeper' = w.keeper
       /\ IF n = Cardinality(Holders) THEN state' = "Retired" /\ UNCHANGED pool
          ELSE pool' = w.pool /\ UNCHANGED state
       /\ UNCHANGED <<block, params, edits>>

reset_pool ==
  /\ state = "Retired" /\ edits < MaxEdits
  /\ state' = "UnCharged" /\ edits' = edits + 1
  /\ pool' = EmptyPool
  /\ history' = [accrued |-> 0, paid |-> 0]
  /\ UNCHANGED <<block, params, info, wallet, keeper, issuer>>

kill_pool ==
  /\ state \in {"Retired", "UnCharged"}
  /\ state' = "Killed"
  /\ info' = [u \in Users |-> NoInfo]
  /\ pool' = EmptyPool
  /\ history' = [accrued |-> 0, paid |-> 0]
  /\ UNCHANGED <<block, params, wallet, keeper, issuer, edits>>

edit_pool(rewards, limit_time) ==
  /\ state \in {"Retired", "Ongoing", "Charged", "UnCharged"} /\ edits < MaxEdits
  /\ params' = [basic_rewards |-> rewards, withdraw_limit_time |-> limit_time]
  /\ edits' = edits + 1
  /\ UNCHANGED <<block, state, pool, info, wallet, keeper, issuer, history>>

-----------------------------------------------------------------------------

\* A new block.
on_initialize ==
  LET accrued == IF state = "Ongoing" THEN params.basic_rewards ELSE 0
  IN /\ block < MaxBlock /\ block' = block + 1
     /\ pool' = [pool EXCEPT !.reward = @ + accrued]
     /\ history' = [history EXCEPT !.accrued = @ + accrued]
     /\ state' = IF /\ state = "Charged" /\ block' >= after_block_to_start
                    /\ pool.total_shares >= min_deposit_to_start
                 THEN "Ongoing" ELSE state
     /\ UNCHANGED <<params, info, wallet, keeper, issuer, edits>>

\* After create_farming_pool.
Init ==
  /\ block = 0 /\ state = "UnCharged"
  /\ params = [basic_rewards |-> InitialBasicRewards, withdraw_limit_time |-> InitialLimitTime]
  /\ pool = EmptyPool /\ info = [u \in Users |-> NoInfo]
  /\ wallet = [u \in Users |-> InitialWallet] /\ keeper = 0 /\ issuer = 0
  /\ history = [accrued |-> 0, paid |-> 0] /\ edits = 0

Next ==
  \/ \E u \in Users, amount \in Amounts : deposit(u, amount) \/ withdraw(u, amount)
  \/ \E u \in Users :
       \/ withdraw(u, info[u].share)
       \/ claim(u) \/ withdraw_claim(u)
  \/ \E amount \in Charges : charge(amount)
  \/ close_pool \/ force_retire_pool \/ reset_pool \/ kill_pool
  \/ \E rewards \in BasicRewards, limit_time \in LimitTimes : edit_pool(rewards, limit_time)
  \/ on_initialize

Spec == Init /\ [][Next]_vars

-----------------------------------------------------------------------------

\* Types; neither account is overdrawn.
TypeOK ==
  /\ block \in 0..MaxBlock /\ state \in States /\ edits \in 0..MaxEdits
  /\ params \in [basic_rewards : Nat, withdraw_limit_time : Nat]
  /\ pool \in [total_shares : Nat, reward : Nat, withdrawn : Nat]
  /\ info \in [Users -> ShareInfos \cup {NoInfo}]
  /\ wallet \in [Users -> Nat] /\ keeper \in Nat /\ issuer \in Nat
  /\ history \in [accrued : Nat, paid : Nat]

Total(f) == SumFunctionOnSet(f, Users)
Shares(i) == [u \in Users |-> i[u].share]
Withdrawn(i) == [u \in Users |-> i[u].withdrawn]
OwedTokens(i) == [u \in Users |-> i[u].share + Values(i[u].withdraw_list)]

(* The pool's totals are the sums over its users, of the shares and of     *)
(* what counts as withdrawn, through rounding, full removals, retirement   *)
(* in parts and resets.  A retired pool keeps stale totals until its reset.*)
SharesAgree ==
  state # "Retired" => /\ pool.total_shares = Total(Shares(info))
                       /\ pool.withdrawn = Total(Withdrawn(info))

\* The keeper holds every share and every withdrawal still to be paid.
KeeperCovers == keeper >= Total(OwedTokens(info))

(* Rewards are neither made nor lost by the inflation: what the pool has   *)
(* left to give is what accrued and was not paid.                          *)
RewardsConserved ==
  state # "Retired" => pool.reward - pool.withdrawn = history.accrued - history.paid

(* A deposit gives nobody a reward that accrued before: no claim grows by  *)
(* more than the one unit that rounding the inflation down can give.  (The *)
(* first share takes what accrued while there was none.)                   *)
NoGainByDeposit ==
  [][pool'.total_shares > pool.total_shares /\ pool.total_shares > 0
       => \A u \in Users : reward_to_withdraw(pool', info'[u])
                             <= reward_to_withdraw(pool, info[u]) + 1]_vars

(* force_retire_pool "will retire the pool and transfer the withdrawable   *)
(* tokens to the users": the tokens of a user are in the wallet, in the    *)
(* shares or among the withdrawals to be paid.                             *)
DepositsKept ==
  \A u \in Users :
    wallet[u] + info[u].share + Values(info[u].withdraw_list) = InitialWallet

=============================================================================
