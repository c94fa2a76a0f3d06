# A TLA+ verification of the Bifrost halal-loan parachain

The repository is a fork of the Bifrost parachain (liquid staking: DOT in, vDOT
out) with a new pallet on top of it: loans without interest, secured by vTokens.
This directory models the part of it that keeps and moves users' money, checks
the models with TLC on small instances, and proves most of what the runs check with
TLAPS, for every value of the parameters. The modelled part is
the loans pallet, the redeem queue behind vTokens, the staking of the pool on the
other chain, voting with vTokens, pooled lending, and farming pools.

## 1. The system

### Components, their state and how they interact

| component | state it keeps | operations | talks to |
|---|---|---|---|
| `no-interest-loans` | `Loans`, `UserLoans`, `NextLoanId`, `LoanRewards`; all collateral and all money to lend in one account | `create_loan`, `repay_loan`, `liquidate_loan`, `distribute_cycle_rewards` | token ledger (transfers), prices (read) |
| token ledger (orml-tokens, external) | balances per currency and account | transfer, deposit, withdraw; existential deposits and dust removal | every pallet |
| `prices` | emergency prices over an oracle | `set_price`, `reset_price`, `get_price` | read by loans and lend-market |
| `vtoken-minting` | `TokenPool`, `VtokenIssuance`, three unlock ledgers and `UnlockingTotal`, `TokenToRebond`, `MinTimeUnit`, `OngoingTimeUnit` | `mint`, `redeem`, `rebond`, `rebond_by_unlock_id`, hook `on_idle`, governance setters, incentive locks | token ledger, XCM and Hyperbridge (payments), called by SLP and slpx |
| `slp` (and `slp-v2`) | per delegator a ledger (total, active, unlock chunks) and its nominations; queues of updates waiting for an answer; tune records | bond, unbond, rebond, liquidize, chill, delegate, transfers, `tune`, confirmations, corrections by hand | the staking pallet of the other chain by XCM queries; `vtoken-minting` (pool, time unit) |
| `vtoken-voting` | referenda and tallies, votes and delegations per user, locks, pending queries, the derivative accounts' votes | `vote`, `delegate`, `undelegate`, `unlock`, answers, `on_idle`, governance of referenda | the relay chain by XCM queries; `vtoken-minting` (rate), `slp` (derivative accounts) |
| `lend-market` | markets, total supply, borrows and reserves, borrow index, deposits and debts per user | `mint`, `redeem`, `borrow`, `repay_borrow`, `liquidate_borrow`, collateral, reserves, market parameters | token ledger, prices |
| `farming` | per pool its state, total shares and rewards; per user a share and withdrawals to come | `deposit`, `withdraw`, `claim`, `charge`, the life of a pool, `on_initialize` | token ledger |
| `leverage-staking`, `slpx`, `salp`, `channel-commission`, `bb-bnc`, `buy-back`, `stable-asset`, ... | see `PROJECT.json`, "components" | | |

A block runs extrinsics one after the other, then `on_idle`. There are no
threads: what interleaves is the calls of different users, the block hooks, the
price feeds, and the messages to other chains with their answers, which may come
late, in another order, or never. An extrinsic runs in a storage layer, so a
failing one leaves nothing behind; `handle_ledger_by_currency`, which the hook
calls for each currency, is transactional by annotation.

### What is hard in it

* Money that several parties own lies in one account (the loans pallet's account,
  the entrance account). What is promised (rewards credited, redeems queued) and
  what is held are changed by different calls.
* One redeem is recorded in four places, with a removal rule of its own in each.
* Payments are partial when the account runs dry, refused when a message cannot be
  sent, and retried in every block.
* The hook works on one time unit and only moves forward.
* Fixed-point arithmetic rounds several times between a price and a decision, and
  between the shares of many users and a total.
* Votes and staking operations take effect on another chain. What was assumed when
  a message was sent (the tally, the active stake, the era) may no longer hold when
  its answer arrives, and a failed vote has to be undone.

`PROJECT.json`, "hazards", lists these at the lines where they bite, with the
property that would catch each one.

### What makes the components correct

* loans: the account covers all collateral and all credited rewards; whoever has
  the amount borrowed can repay, and pays exactly that; a loan settles once; the
  valuation never shelters an unhealthy loan; the index of loans per user is exact.
* vtoken-minting: the ledgers agree; no redeem is forgotten and every one is paid
  in the end; pool and queue are backed; no user's call dilutes the others.
* slp: a ledger is the stake on the other chain when nothing is pending, and an
  operation that succeeded there can be booked here; fees do not dilute the pool.
* vtoken-voting: a tally is the sum of the votes in place, the derivative accounts
  carry exactly its net vote, and the locks cover the votes.
* lend-market: vouchers are conserved and never lose value, and a borrow leaves its
  borrower covered.
* farming: totals are the sums of the shares, deposits are covered and come back,
  rewards are neither created nor lost, and a deposit takes nothing from others.

## 2. Modules

| module | content |
|---|---|
| `NatSums` | sums of a function over `0..n-1`, as a recursive function |
| `MultiCurrency` | the token ledger as the pallets use it (external code) |
| `NoInterestLoans` | the loans pallet, its specifications and properties |
| `VtokenMinting` | the vtoken-minting pallet, with SLP as its environment |
| `RedeemQueue` | what vtoken-minting promises a redeemer: an abstract queue of claims |
| `PolkadotAgent` | the SLP pallet for DOT or KSM, with the other chain's staking pallet |
| `VtokenVoting` | the vtoken-voting pallet, with the relay chain's referenda |
| `LendMarket` | the lend-market pallet |
| `Farming` | one pool of the farming pallet |
| `MCNoInterestLoans`, `MCVtokenMinting`, `MCPolkadotAgent`, `MCVtokenVoting`, `MCLendMarket`, `MCFarming` | values for the constants of the runs |
| `NatSumsProofs` | induction, finite sums, division: the lemmas the other proofs share |
| `MultiCurrencyProofs` | what a transfer, a deposit and a withdrawal do to a balance, dust included |
| `NoInterestLoansProofs` | types, settling, the index of loans, solvency and repayability |
| `VtokenMintingProofs` | types, the unlock ledgers, backing, the rate, the refinement of `RedeemQueue` |
| `LendMarketProofs` | types, vouchers, exchange rate |
| `PolkadotAgentProofs` | types, tuning, nominations, the ledgers and the stakes |
| `VtokenVotingProofs` | types, locks, delegations, tallies |
| `FarmingProofs` | types, totals, deposits, rewards, no gain by a deposit |

`NoInterestLoans`, `VtokenMinting` and `LendMarket` extend `MultiCurrency` and keep
the balances in a variable of their own. Definitions named `...RoundedUp`, `...Alone`, `...Unchecked` and
so on, marked "Mutant", are deliberately wrong versions of the definition that
follows them. They are used by nothing; substituting one must break the property
it is listed with in `PROJECT.json`.

### NoInterestLoans

Variables are the storage items, plus `balances` and `prices`. `Loans` and
`LoanRewards` are functions on the ids in use. An action is a successful call;
every `ensure!` and every transfer that can fail is a conjunct. The transfers of
a call happen one after the other on intermediate balances, because they share
accounts and may share a currency (`Claim(repaid, id)` is the ledger after the
repayment and after the claim).

* `Saturate` is u128 saturation at `MaxBalance`; `total_asset_value` wraps, as
  `Iterator::sum` does in a release build.
* `mul_int`, `reciprocal` and `from_rational` are the fixed-point operations with
  their rounding; `NoPrice` is both a missing price and an error of the valuation.
* `PriceUpdate` (any currency, any report, at any time) stands for the oracle and
  the prices pallet; `Fund` is a plain transfer into the pallet account.
* `Spec` is the code as it is. `FundedSpec` adds one thing the code leaves to its
  operator: rewards are credited only when the pallet account already holds them
  beyond what it owes (`Funded`).

### VtokenMinting

The unlock ledgers of a token are one record `ledgers[c]` with the redeems by id,
the entries by user and by time unit, and the total. Lists of unlock ids are kept
as sets: ids grow and are only pushed at the end, so the list is the set in
increasing order. An absent entry is the empty one.

* `Added` and `Subtracted` are `update_unlock_ledger`; each of the maps has its own
  removal rule, as in the code (`Removes`, `SubFromEntry`).
* `rebond` walks the redeems from the newest (`RebondWalk`), `on_idle` from the
  oldest (`HandleBatch`), both as recursive functions over the position.
* A payment is `Native` (a transfer, possibly partial) or `CrossChain` (XCM or
  Hyperbridge, all or nothing, may be refused: `sent`). The five XCM destinations
  and Hyperbridge differ only in the message built.
* The staking side is the environment: `slp_stake`, `slp_return`,
  `increase_token_pool`, `decrease_token_pool`, `update_ongoing_time_unit`. `staked`
  is what it holds, external state by which backing can be stated. A reward or a
  slash is reported together with the change of the stake it reports.
* Governance parameters are constants. `mint` covers `do_mint`, which slpx calls too;
  `do_redeem` covers `redeem` and the cross-chain redeems of slpx.

### RedeemQueue

The queue of redeems without ledgers: a claim has an owner, an amount and a due
time; it shrinks only when its owner takes it back or when it is due and paid, and
the time being served moves on only past claims with nothing left to pay.
`VtokenMinting!ImplementsQueue` is this specification under the mapping claims =
`TokenUnlockLedger`, funds = the entrance account, time served = `MinTimeUnit`,
taken back = `TokenToRebond`. It says of rebonds and of the hook what no single
ledger shows: nobody's claim is cut for somebody else, and what leaves the queue has
left the account, dust below the existential deposit excepted.

### PolkadotAgent

Variables are the storage items of slp for one currency, the messages on their way
(`channel`), and the other chain's stake (`relay`, external). `request` is what every
staking operation does after its checks: send the message and keep the entry that an
answer will apply. `confirm_delegator_ledger(q, success)` stands for the answer and
for the operator's call with the same effect, at any time and with any word;
`relay_runs` runs messages in order, with the effects of the staking pallet.

Some disagreements between the chains are not the code's to prevent: an operator who
confirms what did not happen, operations that overlap on one delegator, eras that
changed while a message was on its way, an answer after the timeout. `spoiled`
records the delegators concerned; the properties speak about the others, and a
correction (`set_delegator_ledger`) brings a delegator back.

### VtokenVoting

A vote query keeps, per poll, the old vote and the old referendum, as
`PendingVotingInfo` does. `common_vote`, `delegate` and `undelegate` change the tally,
allocate its net vote to the derivative accounts (`Distribute`) and send it, in one
step; `notify_vote_failed` is the whole rollback with the checks that can refuse it.
`relay` is what the derivative accounts' votes on the relay chain amount to.
A vote is standard (one side, a conviction) or split; only standard votes carry the
delegations to their voter.

A rollback writes back the whole referendum of the time its query was sent, so what
changed in between is lost from the tally. `history` says, poll by poll, when that
may have happened: `delegated` are the polls with an unanswered query whose voters'
delegations changed since, `skewed` those on which a vote was rolled back after such
a change, or after the poll was over. The properties about tallies except skewed
polls, and no others.

### LendMarket

Rates have `ONE` parts and ratios `PARTS` parts, with the rounding of each operation.
Every call first accrues interest on the assets it names (`accrue_interest`) and uses
the stored figures of the others. A price of zero is an oracle that does not answer.
Market bonds and liquidation-free collateral restrict what may back a borrow.

`BorrowCovered` says for each borrow that the debt it leaves is backed: by the
collateral bonded to its asset, and by the liquidation-free collateral or the whole
position for the liquidation-free asset, by what remains of the position for any
other. Three things the code does are part of the statement. The call compares the
values of the old debt and of the borrow, each rounded down, so the value of their sum
may be one unit in the last place more (`Covers`). A borrow whose value rounds to zero
is checked against nothing that it changes, and is left out. A payment that leaves
less than the existential deposit also takes the rest out of the pallet's account,
which moves the exchange rate and with it the value of the vouchers.

### Farming

`inflated_pool`, `inflated_share`, `claimed_pool`, `removed_pool` and so on are the
steps of `rewards.rs` on the pool and on one share, and the calls are made of them.
`force_retire_pool` retires `RetireLimit` users a call, in any order (the storage map's
order is not defined), and writes back the pool it read at its start. Its loop
(`retired_all`) and the one over a list of withdrawals (`SplitList`) are recursive
functions over the position reached.

## 3. Runs

| run | checks | shows |
|---|---|---|
| `loans_funded` | `TypeOK`, `UserLoansIndex`, `SettledOweNothing`, `Solvency`, `Repayable`, `LoansOnlySettle`, `RepaidExactly` | under `FundedSpec` the account covers what it owes, repayment works and costs exactly the loan, a loan settles once |
| `loans_prices` | `UnhealthyIsLiquidatable`, `GoodPricesKeepHealthy` | rounding errs on one side only |
| `loans_unfunded` | `Repayable` (violated) | rewards credited by anyone, without tokens, lock borrowers in |
| `minting_safe` | `TypeOK`, `LedgersAgree`, `NoRedeemLeftBehind`, `Backed`, `RateNeverDrops`, `ImplementsQueue` | safety of the queue and of the rate under any staking side; the refinement of `RedeemQueue` |
| `minting_served` | `RedeemsSettle`, `RateNeverDrops` | every redeem leaves the queue, if the queue is served |
| `minting_rebond` | `RebondsExactly` (violated) | rebonding the exact amount of a redeem cuts the next one too |
| `voting_safe` | `TypeOK`, `LocksCover`, `DelegationsAgree`, `TallyAgrees`, `RelayCarriesTally` | tallies, delegations, locks and the relay chain agree, whatever the order of the answers |
| `lend_market` | `TypeOK`, `SupplyAgrees`, `RateNeverFalls`, `BorrowCovered` | vouchers are conserved and never lose value, a borrow leaves its borrower's debts backed |
| `slp_ledgers` | `TypeOK`, `LedgerMirrors`, `ConfirmApplies`, `NominationsMirror`, `TuneKeepsRate` | ledgers and nominations mirror the other chain, answers can be booked |
| `slp_chill` | `ChillKeepsStake` (violated) | a chill is booked as an unbonding of the whole stake |
| `farming_pool` | `TypeOK`, `SharesAgree`, `KeeperCovers`, `RewardsConserved`, `NoGainByDeposit` | shares, deposits and rewards stay in balance |
| `farming_kept` | `DepositsKept` (violated) | removing a share of zero drops the withdrawals to be paid |

The violated ones state what a comment or document of the repository says; the
quotations are in `PROJECT.json`, "findings".

### Disagreements without a run of their own

Met while modelling, and left to the hazards or to this list, where the model keeps
what the code does:

* loans: `create_loan` never reads `MaxLTV` and `liquidate_loan` never reads
  `LiquidationBonus`, which `lib.rs` (76, 84) documents; the pallet account is not on
  the runtime's dust whitelist, so a remainder below the existential deposit is swept
  (391).
* vtoken-minting: a redeem worth zero tokens is never removed from its time unit and
  stops the queue of its currency (`impls.rs`, 408).
* vtoken-voting: `undelegate` dates the lock with the local block number (2121) and
  `unlock` compares it with the relay chain's; with two derivative accounts a smaller
  later vote leaves the second account's vote on the relay chain (1740); where a
  delegation changes several polls at once and makes the ayes and nays of one of them
  even, nothing is allocated for that poll and its earlier vote stays on the relay
  chain.
* lend-market: after the supply of a market was zero, the restart of the exchange rate
  refuses a former supplier's next mint (1610).
* slp: the maximum of the whitelist is compared with the length of an `Option`
  (`common.rs`, 105), so it is never reached.
* farming: a pool starts when both conditions hold (`lib.rs`, 439), not when one of
  them does, as the comment above `create_farming_pool` (468) has it.

### Bounds

*Loans.* Two users and up to three loans are enough for two loans of one user and
one of another, and for loans created after others were settled; the limits on ids
and on loans per user are both reached. Loans of nothing are among them. That the
properties also hold when products and sums saturate and wrap, and with any loan
currency, is proved (section 4). `loans_prices` uses one loan and
ten prices around the unit (with `FixedDiv = 10` the reciprocal is coarse, which
is where rounding shows), including no price and price zero. `Permill` is 100.

*Minting.* `minting_safe` has two users, three unlock ids, lists of at most two,
three time units, one redeem per block and currency, fees of a third (so that
rounding happens), an existential deposit of 2 against redeems of 1 and 2
(payments below it, and payments refused because of it). Two ids in one time unit
and one in the next occur, so do partial payments, refused ones, slashes and a dry
entrance account. `minting_served` has one user and two ids, because liveness is
checked without symmetry. Its `MaxTimeUnit` of 2 makes the time unit saturate.
Rates other than one arise from slashes in the first run and from rewards in the
second (`MaxPool` caps what rewards lead to), which is why both check the rate.
The minting runs end in states without a successor (ids and time are used up), so
deadlock is not checked there.

*Voting.* Two users with one poll and one derivative account; votes with conviction
one and none, on both sides, a split one, a delegation, and three queries, so that a second and a
third vote meet an answer still to come. The cap of 12 votes lies between what single
votes add up to, so that both exact and rounded votes are cast. vTokens are worth 1.5 tokens, so that a
rollback's confusion of the two shows. The relay chain's block number is ahead of
the local one.

*Lending.* Two users, two markets, one of them pending at the start, bonded to the
other and liquidation-free; amounts of 1 to 8 at a first rate of two vouchers per
unit; an existential deposit, so that a payment may leave dust; debts grow by half within the two seconds the clock may pass, so interest
rounds, drives borrowers below the threshold and exceeds what the totals hold. One
step of oracle or governance: a price halved or missing, a market put under
supervision, a new rate model, a bond.

*SLP.* A delegator with a stake, and one that can be initialized, removed and added
again; three calls by operators; a channel of two messages; one era and one block, with a timeout
of zero blocks, so that answers come in time and too late; rewards of one unit.
Three calls are enough for an operation, one that overlaps it, and a correction or a
removal; `slp_chill` needs two.

*Farming.* Two users with two tokens each, one user retired a call, three blocks, a
charge of 4 against rewards of 3 a block, so that rewards are divided with a
remainder and the issuer runs dry; one edit or reset.

### Fairness

Only `ServedSpec` has fairness; the other modules promise nothing that would need it
(an answer from another chain may never come). `WF(on_idle(TRUE))`: blocks keep coming, with
weight left for the hook, and a cross-chain payment retried in every block is
accepted at some point. `WF` of `slp_return` while the entrance account is short:
the operators of the staking side unbond and return what the queue needs; nothing
in the repository forces them to. `ServingStaking` also excludes staking tokens the
queue is waiting for, and slashes: without these assumptions redeems may wait for
ever, and the code does not claim otherwise.

## 4. Proofs

TLAPS checks every theorem down to the last leaf, for every value of the constants
that satisfies the assumptions stated in the modules. TLC evaluates those assumptions
in every run. They say that the pallets' accounts are different ones, that amounts,
limits and rates are natural numbers, that ratios lie between zero and one, and that
users, tokens, assets and polls are finitely many (a sum over them must exist); they
bound nothing else. What a theorem needs beyond them is in its statement.

| module | theorem | statement |
|---|---|---|
| `NoInterestLoansProofs` | `TypeCorrect` | `Spec => []TypeOK` |
| | `SettledLoansOweNothing` | `Spec => []SettledOweNothing` |
| | `LoansSettleOnce` | `Spec => LoansOnlySettle` |
| | `UserLoansExact` | `Spec => []UserLoansIndex` |
| | `AlwaysSolvent` | `SolventSetting => (FundedSpec => []Solvency)` |
| | `AlwaysRepayable` | `SolventSetting /\ NoExistentialDeposits => (FundedSpec => []Repayable)` |
| | `RepayIsExact` | `NoExistentialDeposits => (Spec => RepaidExactly)` |
| | `UnhealthyLoansLiquidatable` | `Spec => []UnhealthyIsLiquidatable` |
| | `GoodPricesNeverLiquidate` | `Spec => GoodPricesKeepHealthy` |
| `VtokenMintingProofs` | `TypeCorrect` | `Spec => []TypeOK` |
| | `UnlockLedgersAgree` | `Spec => []LedgersAgree` |
| | `NothingLeftBehind` | `Spec => []NoRedeemLeftBehind` |
| | `AlwaysBacked` | `Spec => []Backed` |
| | `RateKeeps` | `Spec => RateNeverDrops` |
| | `PalletImplementsQueue` | `MintRate < Permill`: `Spec => ImplementsQueue` |
| `LendMarketProofs` | `TypeCorrect` | `Spec => []TypeOK` |
| | `SupplyExact` | `Spec => []SupplyAgrees` |
| | `RateKeeps` | `Spec => RateNeverFalls` |
| | `BorrowsAreCovered` | `Spec => BorrowCovered` |
| `PolkadotAgentProofs` | `TypeCorrect` | `Spec => []TypeOK` |
| | `TuneKeepsExchangeRate` | `Spec => TuneKeepsRate` |
| | `NominationsAgree` | `Spec => []NominationsMirror` |
| | `LedgersAgreeWithStakes` | `Spec => []LedgerMirrors` |
| | `ConfirmedAreBooked` | `Spec => []ConfirmApplies` |
| `VtokenVotingProofs` | `TypeCorrect` | `Spec => []TypeOK` |
| | `LocksAlwaysCover` | `Spec => []LocksCover` |
| | `DelegationsExact` | `Spec => []DelegationsAgree` |
| | `TalliesAgree` | `Spec => []TallyAgrees` |
| | `RelayFollowsTally` | `OneDerivative => (Spec => []RelayCarriesTally)` |
| `FarmingProofs` | `TypeCorrect` | `Spec => []TypeOK` |
| | `SharesExact` | `Spec => []SharesAgree` |
| | `KeeperAlwaysCovers` | `Spec => []KeeperCovers` |
| | `RewardsStay` | `Spec => []RewardsConserved` |
| | `DepositsTakeNothing` | `Spec => NoGainByDeposit` |

### Loans

`TypeOK` is inductive alone; it says that the maps have exactly the ids below
`NextLoanId`, which the others need: a new id is fresh, and a sum up to `NextLoanId`
sees every loan. `SettledOweNothing`, `UserLoansIndex` and `Solvency` are inductive
together with it. `StepKinds` sums up what each action does to the records, so that
the proofs split on four kinds of step. `Solvency` compares a balance with a sum over
all loans: creating a loan adds its collateral to both sides, settling one takes
collateral and rewards off both, and crediting a cycle raises what is owed by at most
the cycle's rewards (`SumOfShares`: rounded-down shares of `r` add up to at most `r`),
which `Funded` has in hand.

`UnhealthyIsLiquidatable` needs no invariant but the types: each of the three
roundings of the valuation (price times amount, reciprocal, product) loses value, and
the last one, of the LTV, cannot cross the threshold from above. The
multiplications are checked: where one overflows there is no value, and the property
speaks only of loans that have one. For
`GoodPricesKeepHealthy` each of the steps is shown to be monotone in the two prices,
and ids to persist, so that the same loan is compared. `RepaidExactly` follows the
three transfers of `repay_loan` one after the other for each currency and account,
where currencies may coincide and the borrower may be anyone; `OnlyRepayRepays` shows
that no other call makes a loan repaid.

The hypotheses are what the code needs and does not enforce.
`LoanCurrencies \cap VTokens = {}`: otherwise a loan is paid out of other borrowers'
collateral. `PalletAccount \in DustWhitelist`: otherwise dust removal takes
collateral. No existential deposits, for repayability: otherwise a small reward
cannot be paid to a borrower with an empty account, and a remainder below the deposit
is swept, so that a repayment would cost more than the loan.

### vToken minting

The inductive invariant `MintingInv` is what the run checks and `LockOK`
(`MinTimeUnit` is never beyond the time unit a redeem made now would be locked to):
without it a new redeem could land in a time unit the hook has passed. The loops of
`rebond` and `on_idle` are handled by an invariant of the walk, proved by induction
over the position, from which a whole batch of payments keeps the ledgers in
agreement. `Backed` becomes a bound on the surplus of each vToken's tokens, which each
step changes for one token. `RateNeverDrops` is an inequality between products: mint
and redeem round down with the rate, so pool times issuance moves one way.

The refinement needs `MintRate < Permill`. With a mint fee of the whole amount,
`rebond_by_unlock_id` mints nothing and still removes the redeem, a step the abstract
queue does not have. Its proof maps each action to one step of `RedeemQueue` or to a
stutter; a batch of the hook is one `Serve`.

### Lend market

`LendInv` adds to types and supply that every market has a valid rate model
(`MarketsOK`), so that `get_borrow_rate` yields a natural number and a liquidation
pays at least the value. Types are the deep part here: that no total, debt or deposit
goes below zero is what the code's checked and saturating subtractions rely on.
`RateNeverFalls` is proved per step on the cross products of underlying and supply; a
payment that leaves dust may empty the account to the treasury, which is the one
exception the property names.

`BorrowsAreCovered` first finds the call: of all actions only `borrow` pays an account
and changes its debt (`OnlyBorrowPays`; a repayer pays, a liquidator's own debt stays).
The liquidity checks speak about the state before the debt is written; `BorrowEffect`,
`RatesKept` and `BorrowTotals` relate it to the state after: the payment leaves the
exchange rates as they were unless dust is swept, so the collateral keeps its value,
and each total of debts grows by at most the value of the borrow and one unit
(`ValueOfSum`), once, for the one asset concerned.

### SLP

`TypeOK` and `TuneKeepsRate` are inductive alone. `NominationsInv` and `StakeInv` say
what is known of a delegator between request and answer: at most one change that does
not commute waits for its answer, each message on its way has its entry, every entry
can be booked, and booking an entry whose message succeeded makes the ledger the
stake on the other chain, but for bonds that ran and rewards not reported yet
(`Ahead`). With nothing pending this is `LedgerMirrors`; for an entry that succeeded it
is `ConfirmApplies`. Lists of unlock chunks are compared through what they hold from a
time on, since rebonding cuts them from the end and withdrawing from the front.

### Voting

A failed answer restores a vote and a tally of an earlier state, so agreement now is
not enough. `VotingInv` adds to types, locks, delegations and tallies:

* `QueriesOK`: on a poll without changed delegations, the unanswered query is the only
  one, and the tally it would restore is the sum of the votes in place with its
  voter's old vote instead of the new one, as long as the poll is not skewed;
* `PollsOK`: a poll nobody has voted on has no votes in place, and its tally is exact
  also before it opens;
* `DelegatorsIdle`: who delegates casts no vote and does not delegate to itself, so a
  sum over voters changes at one voter in each step;
* `DelegatedPending`: a poll leaves `delegated` with its last query.

`RelayCarriesTally` follows from a second invariant, `RelayInv`, about what is on its
way. On a poll that is not skewed and may be voted on, the last message not yet run
casts the tally of now; once all messages on the poll ran with success, their votes
are on the relay chain; an unanswered vote that did not run, or failed, found there
the votes of the tally it would restore; and no removal of votes is on its way.
`VotingInv` is needed to know that a poll with two unanswered queries is one whose
rollback skews it. The arithmetic is `TotalVotesRound` and `StepCasts`: both choices of
a conviction are exact up to the cap and lose at most five votes beyond. The
hypothesis `OneDerivative` is one derivative account with a stake of at least the vote
cap. It is what the statement needs: with two accounts a later vote may use only the
first and leaves the second one's votes in place (section 3).

`DelegationsAgree` is stated since the proof of `TallyAgrees` needs it: only an exact
delegation makes the saturating subtractions of `undelegate` exact.

### Farming

`FarmInv` adds to the checked invariants that the pool's books agree with the users'
records in every state but `Retired` (the pool written back by `force_retire_pool` is
the one it read), and that a user without a share has withdrawn nothing. A call
touches one user's record, and `OneUser` and `OneOwed` say what such a change must
respect; the loops keep the same facts for each user retired and each withdrawal paid.
`NoGainByDeposit` bounds the difference of two rounded quotients by one.

### Means

TLAPS instantiates no induction theorem with an operator parameter, so
`NatSumsProofs` derives induction over the naturals and over finite sets as
statements about sets (`SetInduction`), and from it the recursion of `SumTo` and the
sums of the community modules: changing one term changes a sum by the difference,
sums are monotone and additive, a sum over two disjoint sets splits.

### Only model-checked

* `RedeemsSettle`: liveness under fairness is out of the prover's reach.
* What the recursive functions compute for every input, where no walk of the proofs
  needs it.

Every invariant and action property that a passing run checks is also a theorem.

## 5. Not modelled

Events, weights and logging; `created_at`; the age of a price.

* vtoken-minting: the governance calls (so `NoRedeemLeftBehind` is shown for unlock
  durations that stay as they are and time units that grow, as `slp` enforces and
  `slp-v2` does not); incentive locks; records of channel commission; u128 overflow
  (the code checks it and fails). `TimeUnit` is a number: a currency is assumed to
  count in one kind of unit.
* slp: the agents of the other chains (Moonbeam, Astar and Phala follow the same
  request and confirmation protocol with ledgers of their own), lists of validators,
  XCM fees, parameters that governance changes.
* vtoken-voting: the agent that votes on this chain without messages; changes of
  periods, caps and timeouts; a rate that moves between a vote and its rollback.
* lend-market: supply and borrow rewards, which touch none of the modelled state; the
  creation of markets; the curve rate model.
* farming: gauges and boost; several tokens or reward currencies; existential deposits.

The remaining pallets, the runtimes and the node, with the reason for each, are in
`PROJECT.json`. Much of the repository is configuration, weights, migrations, tests
and forks of other projects' pallets, which state no protocol of its own; the share
of its lines the models stand for is accordingly small.

## 6. Plan

Done: the loans pallet; the redeem queue of vtoken-minting and the abstract queue it
implements; slp's protocol with the other chain; vtoken-voting; lend-market; farming;
and for each of them the proofs of section 4.

Proofs still worth having: the votes on the relay chain with several derivative
accounts, once the code withdraws the votes of accounts it no longer uses.

Models: the governance calls of `VtokenMinting`, two tokens behind one vToken, and
`PolkadotAgent` composed with `VtokenMinting` in place of its environment.
