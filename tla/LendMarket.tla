----------------------------- MODULE LendMarket -----------------------------
(***************************************************************************)
(* The lend-market pallet (src/pallets/lend-market/src): pooled lending.   *)
(* A supplier pays an asset in and holds vouchers, worth the exchange rate *)
(* (cash + borrows - reserves) / supply.  A deposit may be pledged as      *)
(* collateral for borrowing; debts grow with a borrow index, and a         *)
(* borrower short of collateral may be liquidated.                         *)
(*                                                                         *)
(* An extrinsic either completes or leaves no trace: an action is the      *)
(* successful call and its guard holds every early return.  Every call     *)
(* works on the pools AFTER accruing interest on the assets it names and   *)
(* on the stored, possibly old, figures of all others.  A price of zero    *)
(* stands for an oracle that is not ready.  Rates have ONE parts           *)
(* (FixedU128), ratios PARTS parts (Permill).  Supply and borrow rewards   *)
(* (farming.rs) touch none of this state and are left out.                 *)
(***************************************************************************)
EXTENDS Integers, FiniteSets, FiniteSetsExt, Functions, MultiCurrency

CONSTANTS
  Users, PalletAccount, IncentiveAccount,
  Assets,
  LiquidationFreeAssetId,  \* the asset liquidation-free collateral backs
  ONE, PARTS,              \* parts of one in a Rate and in a Ratio
  MIN_EXCHANGE_RATE,       \* 0.02; the maximum is ONE
  SECONDS_PER_YEAR,
  InitialMarkets,          \* valid markets, some already activated
  MarketUpdates,           \* bound: parameters update_market sets
  Bonds, FreeCollaterals,  \* bound: values governance gives the two maps
  InitialBalances, InitialPrices, InitialBonds,
  Prices,                  \* bound: prices of the oracle
  Mints, Redeems, Borrows, Repayments, Transfers, ReserveAmounts,  \* bound: amounts
  Ticks,                   \* bound: seconds between two blocks
  MaxTime,                 \* bound: last timestamp
  Changed,                 \* bound: assets whose market and price change
  MaxChanges               \* bound: steps of oracle and governance

Accounts == Users \cup {PalletAccount, IncentiveAccount, TreasuryAccount}
Holders == Users \cup {IncentiveAccount}

\* JumpModel::check_model: at most 10%, 30% and 50%.
check_model(m) ==
  /\ 10 * m.base_rate <= ONE /\ 10 * m.jump_rate <= 3 * ONE /\ 2 * m.full_rate <= ONE
  /\ m.base_rate <= m.jump_rate /\ m.jump_rate <= m.full_rate

\* add_market's and update_market's conditions on a market.
ValidMarket(m) ==
  /\ m.collateral_factor <= m.liquidation_threshold
  /\ m.liquidation_threshold < PARTS
  /\ 0 < m.reserve_factor /\ m.reserve_factor < PARTS
  /\ 0 < m.liquidate_incentive_reserved_factor
  /\ m.liquidate_incentive_reserved_factor < PARTS
  /\ m.supply_cap > 0
  /\ check_model(m)

MarketStates == {"Active", "Pending", "Supervision"}
Ratio == 0..PARTS
Market ==
  [state : MarketStates,
   collateral_factor : Ratio, liquidation_threshold : Ratio, reserve_factor : Ratio,
   close_factor : Ratio, liquidate_incentive : Nat,
   liquidate_incentive_reserved_factor : Ratio,
   supply_cap : Nat, borrow_cap : Nat,
   base_rate : Nat, jump_rate : Nat, full_rate : Nat, jump_utilization : Ratio]

ASSUME LendAccountsAssumption ==
  /\ Cardinality({PalletAccount, IncentiveAccount, TreasuryAccount}) = 3
  /\ {PalletAccount, IncentiveAccount, TreasuryAccount} \cap Users = {}
  /\ IsFiniteSet(Users) /\ IsFiniteSet(Assets)
ASSUME LendScaleAssumption ==
  /\ ONE \in Nat /\ PARTS \in Nat \ {0} /\ PARTS <= ONE
  /\ MIN_EXCHANGE_RATE \in 1..ONE /\ SECONDS_PER_YEAR \in Nat \ {0}
ASSUME LendMarketsAssumption ==
  /\ InitialMarkets \in [Assets -> Market]
  /\ \A a \in Assets : ValidMarket(InitialMarkets[a])
  /\ MarketUpdates \subseteq Market
  /\ \A m \in {InitialMarkets[a] : a \in Assets} \cup MarketUpdates :
       m.jump_utilization \in 1..(PARTS - 1) /\ m.liquidate_incentive >= ONE
  /\ LiquidationFreeAssetId \in Assets /\ Changed \subseteq Assets
  /\ ED \in [Assets -> Nat] /\ InitialBalances \in [Assets -> [Accounts -> Nat]]
  /\ \A a \in Assets : InitialBalances[a][PalletAccount] = 0
  /\ InitialPrices \in [Assets -> Nat] /\ Prices \subseteq Nat
  /\ InitialBonds \in [Assets -> SUBSET Assets]
  /\ Bonds \cup FreeCollaterals \subseteq SUBSET Assets
  /\ Mints \cup Redeems \cup Borrows \cup Repayments \cup Transfers
       \cup ReserveAmounts \cup Ticks \subseteq Nat \ {0}
  /\ MaxTime \in Nat /\ MaxChanges \in Nat

VARIABLES
  balances,        \* the token ledger
  markets,         \* Markets
  pools,           \* TotalSupply, TotalBorrows, TotalReserves, BorrowIndex, ...
  AccountDeposits, AccountBorrows,
  AccountEarned,   \* exchange_rate_prior of each EarnedSnapshot
  LiquidationFreeCollaterals, MarketBond,
  price,           \* what OraclePriceProvider answers
  now,             \* UnixTime
  changes          \* steps of oracle and governance so far

governed == <<markets, LiquidationFreeCollaterals, MarketBond, price, now, changes>>
vars == <<balances, pools, AccountDeposits, AccountBorrows, AccountEarned, governed>>

Pool == [TotalSupply : Nat, TotalBorrows : Nat, TotalReserves : Nat,
         BorrowIndex : Nat, ExchangeRate : Nat, LastAccrued : Nat]
Deposit_ == [exists : BOOLEAN, voucher_balance : Nat, is_collateral : BOOLEAN]
NoDeposit == [exists |-> FALSE, voucher_balance |-> 0, is_collateral |-> FALSE]
NoBorrow == [principal |-> 0, borrow_index |-> 0]
\* The index of a snapshot with no principal is never read.
BorrowSnapshot(principal, index) ==
  IF principal = 0 THEN NoBorrow ELSE [principal |-> principal, borrow_index |-> index]

Init ==
  /\ balances = InitialBalances
  /\ markets = InitialMarkets
  /\ pools = [a \in Assets |->
       [TotalSupply |-> 0, TotalBorrows |-> 0, TotalReserves |-> 0,
        BorrowIndex |-> ONE, ExchangeRate |-> MIN_EXCHANGE_RATE, LastAccrued |-> 0]]
  /\ AccountDeposits = [a \in Assets |-> [u \in Holders |-> NoDeposit]]
  /\ AccountBorrows = [a \in Assets |-> [u \in Holders |-> NoBorrow]]
  /\ AccountEarned = [a \in Assets |-> [u \in Holders |-> 0]]
  /\ LiquidationFreeCollaterals = {}
  /\ MarketBond = InitialBonds
  /\ price = InitialPrices
  /\ now = 1
  /\ changes = 0

-----------------------------------------------------------------------------
(* Fixed-point arithmetic; every operation rounds down except mul_ceil.    *)

monus(x, y) == IF x > y THEN x - y ELSE 0
larger(x, y) == IF x > y THEN x ELSE y
mul_int(rate, n) == (rate * n) \div ONE       \* checked_mul_int, checked_mul
div_int(n, rate) == (n * ONE) \div rate       \* checked_div
mul_floor(ratio, n) == (ratio * n) \div PARTS
mul_ceil(ratio, n) == (ratio * n + PARTS - 1) \div PARTS
as_rate(ratio) == (ratio * ONE) \div PARTS

-----------------------------------------------------------------------------
(* Interest (interest.rs, rate_model.rs)                                   *)

Cash(a) == balances[a][PalletAccount]

\* Value of the pool that the vouchers share.
Underlying(p, cash) == cash + p.TotalBorrows - p.TotalReserves

exchange_rate_of(p, cash) ==
  IF p.TotalSupply = 0 THEN MIN_EXCHANGE_RATE
  ELSE (Underlying(p, cash) * ONE) \div p.TotalSupply

ensure_valid_exchange_rate(p, cash) ==
  \/ p.TotalSupply = 0
  \/ /\ Underlying(p, cash) >= 0
     /\ exchange_rate_of(p, cash) >= MIN_EXCHANGE_RATE
     /\ exchange_rate_of(p, cash) < ONE

calc_utilization_ratio(p, cash) ==
  LET total == Underlying(p, cash)
  IN IF p.TotalBorrows = 0 THEN 0
     ELSE IF total <= p.TotalBorrows THEN PARTS
     ELSE (p.TotalBorrows * PARTS) \div total

\* JumpModel
get_borrow_rate(m, util) ==
  IF util <= m.jump_utilization
  THEN m.base_rate
       + div_int(mul_int(m.jump_rate - m.base_rate, as_rate(util)), as_rate(m.jump_utilization))
  ELSE m.jump_rate
       + div_int(mul_int(m.full_rate - m.jump_rate, as_rate(util - m.jump_utilization)),
                 as_rate(PARTS - m.jump_utilization))

get_market_status(p, m, cash) ==
  LET rate == get_borrow_rate(m, calc_utilization_ratio(p, cash))
      elapsed == now - p.LastAccrued
      interest == (mul_int(rate, p.TotalBorrows) * elapsed) \div SECONDS_PER_YEAR
      q == [p EXCEPT
              !.TotalBorrows = @ + interest,
              !.TotalReserves = @ + mul_floor(m.reserve_factor, interest),
              !.BorrowIndex = @ + (mul_int(rate, @) * elapsed) \div SECONDS_PER_YEAR,
              !.LastAccrued = now]
  IN [q EXCEPT !.ExchangeRate = exchange_rate_of(q, cash)]

accrue_due(a) == pools[a].LastAccrued # 0 /\ now > pools[a].LastAccrued

accrued(a) ==
  IF accrue_due(a) THEN get_market_status(pools[a], markets[a], Cash(a))
  ELSE IF pools[a].LastAccrued = 0 THEN [pools[a] EXCEPT !.LastAccrued = now]
  ELSE pools[a]

\* The pools once accrue_interest has run on the assets S, and the condition
\* under which it succeeds.
accrue_interest(S) == [a \in Assets |-> IF a \in S THEN accrued(a) ELSE pools[a]]
accrue_allowed(S) ==
  \A a \in S : accrue_due(a) =>
    /\ Underlying(pools[a], Cash(a)) >= 0 \/ pools[a].TotalBorrows = 0
    /\ ensure_valid_exchange_rate(accrued(a), Cash(a))

-----------------------------------------------------------------------------
(* Positions.  P are the pools as the call sees them.                      *)

active_markets == {a \in Assets : markets[a].state = "Active"}

exchange_rate_stored(P, a) == exchange_rate_of(P[a], Cash(a))
calc_underlying_amount(vouchers, rate) == mul_int(rate, vouchers)
calc_collateral_amount(amount, rate) == div_int(amount, rate)
get_asset_value(a, amount) == mul_int(price[a], amount)

current_borrow_balance(P, u, a) ==
  LET snapshot == AccountBorrows[a][u]
  IN IF snapshot.principal = 0 \/ snapshot.borrow_index = 0 THEN 0
     ELSE mul_int(div_int(P[a].BorrowIndex, snapshot.borrow_index), snapshot.principal)

pledged(u, a) == AccountDeposits[a][u].is_collateral /\ AccountDeposits[a][u].voucher_balance > 0

\* collateral_asset_value and liquidation_threshold_asset_value
pledged_value(P, u, a, ratio) ==
  get_asset_value(a,
    IF pledged(u, a)
    THEN mul_ceil(ratio, calc_underlying_amount(AccountDeposits[a][u].voucher_balance,
                                                exchange_rate_stored(P, a)))
    ELSE 0)

collateral_asset_value(P, u, a) == pledged_value(P, u, a, markets[a].collateral_factor)
liquidation_threshold_asset_value(P, u, a) ==
  pledged_value(P, u, a, markets[a].liquidation_threshold)

borrowed_value(P, u, a) == get_asset_value(a, current_borrow_balance(P, u, a))

total_borrowed_value(P, u) ==
  SumFunctionOnSet([a \in Assets |-> borrowed_value(P, u, a)], active_markets)
total_collateral_value(P, u) ==
  SumFunctionOnSet([a \in Assets |-> collateral_asset_value(P, u, a)], active_markets)
total_liquidation_threshold_value(P, u) ==
  SumFunctionOnSet([a \in Assets |-> liquidation_threshold_asset_value(P, u, a)], active_markets)

lf_markets == active_markets \cap LiquidationFreeCollaterals
get_lf_borrowed_value(P, u) == borrowed_value(P, u, LiquidationFreeAssetId)
get_lf_base_position(P, u) ==
  SumFunctionOnSet([a \in Assets |-> collateral_asset_value(P, u, a)], lf_markets)
get_lf_liquidation_base_position(P, u) ==
  SumFunctionOnSet([a \in Assets |-> liquidation_threshold_asset_value(P, u, a)], lf_markets)

\* Every figure above needs the price of every active market and of the
\* liquidation-free asset, and a valid rate wherever collateral is pledged.
positions_known(P, u) ==
  /\ \A a \in active_markets \cup {LiquidationFreeAssetId} : price[a] # 0
  /\ \A a \in active_markets : pledged(u, a) => ensure_valid_exchange_rate(P[a], Cash(a))

\* get_account_liquidity and get_account_liquidation_threshold_liquidity
get_account_liquidity(P, u) == monus(total_collateral_value(P, u), total_borrowed_value(P, u))
get_lf_liquidity(P, u) == monus(get_lf_base_position(P, u), get_lf_borrowed_value(P, u))

\* Mutant: liquidation-free collateral also backs the other assets.
ensure_liquidity_of_all(P, u, reduce_value, lf_enable) ==
  /\ positions_known(P, u)
  /\ larger(get_account_liquidity(P, u), get_lf_liquidity(P, u)) >= reduce_value

ensure_liquidity(P, u, reduce_value, lf_enable) ==
  /\ positions_known(P, u)
  /\ IF lf_enable
     THEN larger(get_account_liquidity(P, u), get_lf_liquidity(P, u)) >= reduce_value
     ELSE get_account_liquidity(P, u) >= get_lf_liquidity(P, u) + reduce_value

ensure_enough_cash(P, a, amount) ==
  Cash(a) >= P[a].TotalReserves /\ Cash(a) - P[a].TotalReserves >= amount

bonded_value(P, u, a) ==
  SumFunctionOnSet([c \in Assets |-> collateral_asset_value(P, u, c)], MarketBond[a])

ensure_liquidity_for_market_bond(P, u, a, reduce_value) ==
  /\ MarketBond[a] # {}
  /\ \A c \in MarketBond[a] \cup {a} : price[c] # 0
  /\ \A c \in MarketBond[a] : pledged(u, c) => ensure_valid_exchange_rate(P[c], Cash(c))
  /\ bonded_value(P, u, a) >= borrowed_value(P, u, a) + reduce_value

ensure_liquidity_for_withdraw_market_bond(P, u, c, vouchers) ==
  \A a \in active_markets :
    c \in MarketBond[a] /\ current_borrow_balance(P, u, a) # 0 =>
      LET rate == exchange_rate_stored(P, c)
          left == calc_underlying_amount(AccountDeposits[c][u].voucher_balance, rate)
                  - calc_underlying_amount(vouchers, rate)
      IN get_asset_value(c, mul_ceil(markets[c].collateral_factor, left)) >= borrowed_value(P, u, a)

-----------------------------------------------------------------------------
(* Supplying                                                               *)

AddVouchers(row, u, n) ==
  [row EXCEPT ![u].exists = TRUE, ![u].voucher_balance = @ + n]
\* A deposit emptied this way is removed, its collateral flag with it.
TakeVouchers(row, u, n) ==
  IF row[u].voucher_balance = n THEN [row EXCEPT ![u] = NoDeposit]
  ELSE [row EXCEPT ![u].voucher_balance = @ - n]

\* update_earned_stored subtracts the rate of the account's last call.
update_earned_allowed(u, a, rate) == rate >= AccountEarned[a][u]

\* Mutant: the vouchers of a mint are rounded up.
minted_vouchers_up(amount, rate) == (amount * ONE + rate - 1) \div rate

minted_vouchers(amount, rate) == calc_collateral_amount(amount, rate)

\* do_mint
mint(u, a, amount) ==
  LET P == accrue_interest({a})
      rate == exchange_rate_stored(P, a)
      vouchers == minted_vouchers(amount, rate)
  IN /\ a \in active_markets
     /\ Cash(a) + amount <= markets[a].supply_cap
     /\ accrue_allowed({a}) /\ ensure_valid_exchange_rate(P[a], Cash(a))
     /\ update_earned_allowed(u, a, rate)
     /\ vouchers > 0
     /\ CanTransfer(balances, a, u, PalletAccount, amount)
     /\ balances' = Transfer(balances, a, u, PalletAccount, amount)
     /\ AccountDeposits' = [AccountDeposits EXCEPT ![a] = AddVouchers(@, u, vouchers)]
     /\ pools' = [P EXCEPT ![a].TotalSupply = @ + vouchers]
     /\ AccountEarned' = [AccountEarned EXCEPT ![a][u] = rate]
     /\ UNCHANGED <<AccountBorrows, governed>>

redeem_allowed(P, u, a, vouchers) ==
  LET amount == calc_underlying_amount(vouchers, exchange_rate_stored(P, a))
  IN /\ ensure_valid_exchange_rate(P[a], Cash(a))
     /\ AccountDeposits[a][u].voucher_balance >= vouchers
     /\ ensure_enough_cash(P, a, amount)
     /\ AccountDeposits[a][u].is_collateral =>
          /\ ensure_liquidity(P, u,
               get_asset_value(a, mul_ceil(markets[a].collateral_factor, amount)),
               a \in LiquidationFreeCollaterals)
          /\ ensure_liquidity_for_withdraw_market_bond(P, u, a, vouchers)

do_redeem_voucher(P, u, a, vouchers) ==
  /\ redeem_allowed(P, u, a, vouchers)
  /\ AccountDeposits' = [AccountDeposits EXCEPT ![a] = TakeVouchers(@, u, vouchers)]
  /\ pools' = [P EXCEPT ![a].TotalSupply = @ - vouchers]

redeem_vouchers(u, a, vouchers) ==
  LET P == accrue_interest({a})
      rate == exchange_rate_stored(P, a)
      amount == calc_underlying_amount(vouchers, rate)
  IN /\ a \in active_markets
     /\ accrue_allowed({a})
     /\ update_earned_allowed(u, a, rate)
     /\ do_redeem_voucher(P, u, a, vouchers)
     /\ CanTransfer(balances, a, PalletAccount, u, amount)
     /\ balances' = Transfer(balances, a, PalletAccount, u, amount)
     /\ AccountEarned' = [AccountEarned EXCEPT ![a][u] = rate]
     /\ UNCHANGED <<AccountBorrows, governed>>

redeem(u, a, amount) ==
  redeem_vouchers(u, a,
    calc_collateral_amount(amount, exchange_rate_stored(accrue_interest({a}), a)))

redeem_all(u, a) == redeem_vouchers(u, a, AccountDeposits[a][u].voucher_balance)

\* Governance redeems what liquidations left to the incentive account, without
\* accruing interest, and sends it to a receiver.
reduce_incentive_reserves(receiver, a, amount) ==
  LET rate == exchange_rate_stored(pools, a)
      vouchers == calc_collateral_amount(amount, rate)
      paid == calc_underlying_amount(vouchers, rate)
      redeemed == Transfer(balances, a, PalletAccount, IncentiveAccount, paid)
  IN /\ a \in active_markets
     /\ do_redeem_voucher(pools, IncentiveAccount, a, vouchers)
     /\ CanTransfer(balances, a, PalletAccount, IncentiveAccount, paid)
     /\ CanTransfer(redeemed, a, IncentiveAccount, receiver, paid)
     /\ balances' = Transfer(redeemed, a, IncentiveAccount, receiver, paid)
     /\ UNCHANGED <<AccountBorrows, AccountEarned, governed>>

\* Pledging a deposit, and releasing it once the rest covers the debts.
collateral_asset(u, a, enable) ==
  /\ a \in active_markets
  /\ AccountDeposits[a][u].exists
  /\ AccountDeposits[a][u].is_collateral # enable
  /\ ~enable =>
       /\ \A c \in active_markets :
            price[c] # 0 /\ (pledged(u, c) => ensure_valid_exchange_rate(pools[c], Cash(c)))
       /\ total_collateral_value(pools, u)
            >= total_borrowed_value(pools, u) + collateral_asset_value(pools, u, a)
  /\ AccountDeposits' = [AccountDeposits EXCEPT ![a][u].is_collateral = enable]
  /\ UNCHANGED <<balances, pools, AccountBorrows, AccountEarned, governed>>

-----------------------------------------------------------------------------
(* Lend tokens: vouchers as a transferable asset (lend_token.rs)           *)

\* What is left of the liquidity, turned into vouchers at the rate of the
\* last accrual.
reducible_asset(u, a) ==
  LET vouchers == AccountDeposits[a][u].voucher_balance
      liquidity == get_account_liquidity(pools, u)
      supply_value == div_int(liquidity, as_rate(markets[a].collateral_factor))
  IN IF ~AccountDeposits[a][u].is_collateral THEN vouchers
     ELSE IF ~(a \in active_markets /\ positions_known(pools, u)) THEN 0
     ELSE IF liquidity >= collateral_asset_value(pools, u, a) THEN vouchers
     ELSE calc_collateral_amount(div_int(supply_value, price[a]), pools[a].ExchangeRate)

transfer(source, dest, a, vouchers) ==
  /\ vouchers <= AccountDeposits[a][source].voucher_balance
  /\ vouchers <= reducible_asset(source, a)
  /\ AccountDeposits' =
       [AccountDeposits EXCEPT ![a] = AddVouchers(TakeVouchers(@, source, vouchers), dest, vouchers)]
  /\ UNCHANGED <<balances, pools, AccountBorrows, AccountEarned, governed>>

-----------------------------------------------------------------------------
(* Borrowing and repaying                                                  *)

borrow(u, a, amount) ==
  LET P == accrue_interest({a})
      value == get_asset_value(a, amount)
  IN /\ a \in active_markets
     /\ accrue_allowed({a})
     /\ P[a].TotalBorrows + amount <= markets[a].borrow_cap
     /\ ensure_enough_cash(P, a, amount)
     /\ ensure_liquidity_for_market_bond(P, u, a, value)
     /\ ensure_liquidity(P, u, value, a = LiquidationFreeAssetId)
     /\ CanTransfer(balances, a, PalletAccount, u, amount)
     /\ AccountBorrows' = [AccountBorrows EXCEPT ![a][u] =
          BorrowSnapshot(current_borrow_balance(P, u, a) + amount, P[a].BorrowIndex)]
     /\ pools' = [P EXCEPT ![a].TotalBorrows = @ + amount]
     /\ balances' = Transfer(balances, a, PalletAccount, u, amount)
     /\ UNCHANGED <<AccountDeposits, AccountEarned, governed>>

\* The total may be below the sum of the debts: it saturates.
repaid_total(p, amount) == monus(p.TotalBorrows, amount)

\* do_repay_borrow_with_amount
repay(u, a, P, amount) ==
  LET debt == current_borrow_balance(P, u, a)
  IN /\ a \in active_markets
     /\ accrue_allowed({a})
     /\ amount <= debt
     /\ CanTransfer(balances, a, u, PalletAccount, amount)
     /\ balances' = Transfer(balances, a, u, PalletAccount, amount)
     /\ AccountBorrows' = [AccountBorrows EXCEPT ![a][u] =
          BorrowSnapshot(debt - amount, P[a].BorrowIndex)]
     /\ pools' = [P EXCEPT ![a].TotalBorrows = repaid_total(P[a], amount)]
     /\ UNCHANGED <<AccountDeposits, AccountEarned, governed>>

repay_borrow(u, a, amount) == repay(u, a, accrue_interest({a}), amount)

repay_borrow_all(u, a) ==
  LET P == accrue_interest({a}) IN repay(u, a, P, current_borrow_balance(P, u, a))

-----------------------------------------------------------------------------
(* Liquidation                                                             *)

liquidate_borrow_allowed(P, b, a, amount) ==
  LET covered == total_liquidation_threshold_value(P, b)
      owed == total_borrowed_value(P, b)
      lf_liquidity == monus(get_lf_liquidation_base_position(P, b), get_lf_borrowed_value(P, b))
      debt_value == borrowed_value(P, b, a)
      repayable == IF a = LiquidationFreeAssetId
                   THEN monus(debt_value, get_lf_base_position(P, b)) ELSE debt_value
  IN /\ positions_known(P, b)
     /\ owed > covered \/ covered - owed < lf_liquidity
     /\ mul_ceil(markets[a].close_factor, repayable) >= get_asset_value(a, amount)

\* Mutant: the liquidator is given the seized vouchers and the reserved ones.
liquidator_share_all(seized, reserved) == seized

liquidator_share(seized, reserved) == seized - reserved

\* The liquidator repays amount of asset a for borrower b and takes vouchers
\* of collateral c; the incentive account keeps a part of them.
liquidate_borrow(l, b, a, amount, c) ==
  LET P == accrue_interest({a, c})
      m == markets[a]
      rate == exchange_rate_stored(P, c)
      deposit == AccountDeposits[c][b]
      liquidate_value == mul_int(m.liquidate_incentive, get_asset_value(a, amount))
      seized == calc_collateral_amount(div_int(liquidate_value, price[c]), rate)
      reserved == mul_floor(m.liquidate_incentive_reserved_factor,
                            div_int(seized, m.liquidate_incentive))
      debt == current_borrow_balance(P, b, a)
      left == [AccountDeposits[c] EXCEPT ![b].voucher_balance = @ - seized]
  IN /\ c \notin LiquidationFreeCollaterals
     /\ {a, c} \subseteq active_markets
     /\ l # b
     /\ deposit.is_collateral
     /\ accrue_allowed({a, c})
     /\ liquidate_borrow_allowed(P, b, a, amount)
     /\ ensure_valid_exchange_rate(P[c], Cash(c))
     /\ get_asset_value(c, calc_underlying_amount(deposit.voucher_balance, rate)) >= liquidate_value
     /\ CanTransfer(balances, a, l, PalletAccount, amount)
     /\ debt >= amount /\ P[a].TotalBorrows >= amount
     /\ deposit.voucher_balance >= seized
     /\ balances' = Transfer(balances, a, l, PalletAccount, amount)
     /\ AccountBorrows' = [AccountBorrows EXCEPT ![a][b] =
          BorrowSnapshot(debt - amount, P[a].BorrowIndex)]
     /\ pools' = [P EXCEPT ![a].TotalBorrows = @ - amount]
     /\ AccountDeposits' = [AccountDeposits EXCEPT ![c] =
          AddVouchers(AddVouchers(left, l, liquidator_share(seized, reserved)),
                      IncentiveAccount, reserved)]
     /\ UNCHANGED <<AccountEarned, governed>>

-----------------------------------------------------------------------------
(* Governance, the oracle and time                                         *)

add_reserves(payer, a, amount) ==
  /\ a \in active_markets
  /\ CanTransfer(balances, a, payer, PalletAccount, amount)
  /\ balances' = Transfer(balances, a, payer, PalletAccount, amount)
  /\ pools' = [pools EXCEPT ![a].TotalReserves = @ + amount]
  /\ UNCHANGED <<AccountDeposits, AccountBorrows, AccountEarned, governed>>

reduce_reserves(receiver, a, amount) ==
  /\ a \in active_markets
  /\ amount <= pools[a].TotalReserves
  /\ CanTransfer(balances, a, PalletAccount, receiver, amount)
  /\ balances' = Transfer(balances, a, PalletAccount, receiver, amount)
  /\ pools' = [pools EXCEPT ![a].TotalReserves = @ - amount]
  /\ UNCHANGED <<AccountDeposits, AccountBorrows, AccountEarned, governed>>

positions == <<balances, pools, AccountDeposits, AccountBorrows, AccountEarned>>

SetMarket(a, m) ==
  /\ changes < MaxChanges /\ changes' = changes + 1
  /\ markets' = [markets EXCEPT ![a] = m]
  /\ UNCHANGED <<positions, LiquidationFreeCollaterals, MarketBond, price, now>>

\* Activating an active market does nothing.
activate_market(a) ==
  /\ markets[a].state # "Active"
  /\ markets' = [markets EXCEPT ![a].state = "Active"]
  /\ UNCHANGED <<positions, LiquidationFreeCollaterals, MarketBond, price, now, changes>>

\* update_market keeps the state and the rate model.
update_market(a, m) ==
  /\ ValidMarket(m)
  /\ SetMarket(a, [m EXCEPT !.state = markets[a].state,
                    !.base_rate = markets[a].base_rate, !.jump_rate = markets[a].jump_rate,
                    !.full_rate = markets[a].full_rate,
                    !.jump_utilization = markets[a].jump_utilization])

update_rate_model(a, m) ==
  /\ check_model(m)
  /\ SetMarket(a, [markets[a] EXCEPT !.base_rate = m.base_rate, !.jump_rate = m.jump_rate,
                    !.full_rate = m.full_rate, !.jump_utilization = m.jump_utilization])

\* force_update_market checks the rate model and nothing else.
force_update_market(a, m) ==
  /\ check_model(m)
  /\ SetMarket(a, m)

update_liquidation_free_collateral(S) ==
  /\ changes < MaxChanges /\ changes' = changes + 1
  /\ LiquidationFreeCollaterals' = S
  /\ UNCHANGED <<positions, markets, MarketBond, price, now>>

add_market_bond(a, S) ==
  /\ changes < MaxChanges /\ changes' = changes + 1
  /\ MarketBond' = [MarketBond EXCEPT ![a] = S]
  /\ UNCHANGED <<positions, markets, LiquidationFreeCollaterals, price, now>>

\* The oracle (external): a new price, or none.
feed_price(a, p) ==
  /\ changes < MaxChanges /\ changes' = changes + 1
  /\ price' = [price EXCEPT ![a] = p]
  /\ UNCHANGED <<positions, markets, LiquidationFreeCollaterals, MarketBond, now>>

tick(seconds) ==
  /\ now + seconds <= MaxTime
  /\ now' = now + seconds
  /\ UNCHANGED <<positions, markets, LiquidationFreeCollaterals, MarketBond, price, changes>>

\* The calls of u.  Bound: those for a whole position are made by its holder.
Call(u, a) ==
  \/ \E n \in Mints : mint(u, a, n)
  \/ \E n \in Redeems : redeem(u, a, n)
  \/ \E n \in Borrows : borrow(u, a, n)
  \/ \E n \in Transfers, d \in Users : transfer(u, d, a, n)
  \/ \E n \in Repayments :
       \/ repay_borrow(u, a, n)
       \/ \E b \in Users, c \in Assets : liquidate_borrow(u, b, a, n, c)
  \/ AccountDeposits[a][u].voucher_balance > 0 /\ redeem_all(u, a)
  \/ AccountBorrows[a][u].principal > 0 /\ repay_borrow_all(u, a)
  \/ \E enable \in BOOLEAN : collateral_asset(u, a, enable)

\* Governance names the account that pays or receives: here the treasury.
Reserves(a) ==
  \E n \in ReserveAmounts :
    \/ add_reserves(TreasuryAccount, a, n) \/ reduce_reserves(TreasuryAccount, a, n)
    \/ reduce_incentive_reserves(TreasuryAccount, a, n)

Change(a) ==
  \/ activate_market(a)
  \/ \E m \in MarketUpdates :
       update_market(a, m) \/ update_rate_model(a, m) \/ force_update_market(a, m)
  \/ \E S \in Bonds : add_market_bond(a, S)
  \/ \E p \in Prices : feed_price(a, p)

Next ==
  \/ \E u \in Users, a \in Assets : Call(u, a)
  \/ \E a \in Assets : Reserves(a)
  \/ \E a \in Changed : Change(a)
  \/ \E S \in FreeCollaterals : update_liquidation_free_collateral(S)
  \/ \E seconds \in Ticks : tick(seconds)

Spec == Init /\ [][Next]_vars

-----------------------------------------------------------------------------
(* Properties                                                              *)

\* Types of the storage: balances, totals and snapshots are naturals, and
\* no account's vouchers, debt or total has been driven below zero.
TypeOK ==
  /\ balances \in [Assets -> [Accounts -> Nat]]
  /\ markets \in [Assets -> Market]
  /\ pools \in [Assets -> Pool]
  /\ AccountDeposits \in [Assets -> [Holders -> Deposit_]]
  /\ AccountBorrows \in [Assets -> [Holders -> [principal : Nat, borrow_index : Nat]]]
  /\ AccountEarned \in [Assets -> [Holders -> Nat]]
  /\ LiquidationFreeCollaterals \subseteq Assets
  /\ MarketBond \in [Assets -> SUBSET Assets]
  /\ price \in [Assets -> Nat]
  /\ now \in 1..larger(1, MaxTime) /\ changes \in 0..MaxChanges

\* The vouchers of all accounts, the incentive account's included, make up
\* TotalSupply: minting, redeeming, transfers to oneself and the three-way
\* split of a liquidation neither create nor lose a voucher.
SupplyAgrees ==
  \A a \in Assets :
    pools[a].TotalSupply =
      SumFunctionOnSet([u \in Holders |-> AccountDeposits[a][u].voucher_balance], Holders)

\* Whether a payment empties the pallet's account: below the existential
\* deposit the rest is dust, unless the account is exempt.
MayBeSwept(a) == ED[a] > 0 /\ PalletAccount \notin DustWhitelist

\* The exchange rate of a before the step, with the interest the step accrues,
\* and after it.  Reserves are taken off; the one way down is a payment that
\* leaves dust, which goes to the treasury and empties the account.
KeepsRate(a) ==
  LET seen == IF pools'[a].LastAccrued = pools[a].LastAccrued THEN pools[a] ELSE accrued(a)
      before == exchange_rate_of(pools[a], Cash(a))
      with_interest == exchange_rate_of(seen, Cash(a))
      after == exchange_rate_of(pools[a], Cash(a))'
  IN pools[a].TotalSupply > 0 /\ pools'[a].TotalSupply > 0 =>
       /\ before <= with_interest
       /\ with_interest <= after \/ (MayBeSwept(a) /\ Cash(a)' = 0)

\* While vouchers are out neither interest nor anything else a step does lowers
\* their exchange rate: the rounding of mint, redeem, repay and liquidation
\* always favours the suppliers who stay.
RateNeverFalls == [][\A a \in Assets : KeepsRate(a)]_vars

\* The value of a sum, rounded down, is at most one unit in the last place
\* more than the sum of the values the call compared.
Covers(backing, owed) == backing + 1 >= owed

\* A borrower's position as the comment in liquidate_borrow_allowed has it:
\* the other collateral covers the other debts and what the liquidation-free
\* collateral leaves of the liquidation-free debt.
Covered(P, u) ==
  Covers(total_collateral_value(P, u) - get_lf_base_position(P, u),
         total_borrowed_value(P, u) - get_lf_borrowed_value(P, u)
           + monus(get_lf_borrowed_value(P, u), get_lf_base_position(P, u)))

\* What backs a debt in a: its bonded collateral backs it alone, and the whole
\* position is covered; for the liquidation-free asset either the
\* liquidation-free collateral or the whole position is enough.
Backed(P, u, a) ==
  /\ Covers(bonded_value(P, u, a), borrowed_value(P, u, a))
  /\ IF a = LiquidationFreeAssetId
     THEN \/ Covers(get_lf_base_position(P, u), get_lf_borrowed_value(P, u))
          \/ Covers(total_collateral_value(P, u), total_borrowed_value(P, u))
     ELSE Covered(P, u)

\* A borrow worth anything leaves its borrower's debts backed, with the
\* interest the call accrued counted in, unless the payment also sweeps dust
\* out of the pallet's account.  (Only a borrow pays an account and changes
\* its debt.)
BorrowCovered ==
  [][\A u \in Users, a \in Assets :
       LET received == balances'[a][u] - balances[a][u]
       IN /\ get_asset_value(a, received) > 0
          /\ AccountBorrows'[a][u] # AccountBorrows[a][u]
          => Backed(pools, u, a)' \/ (MayBeSwept(a) /\ Cash(a)' < Cash(a) - received)]_vars
=============================================================================
