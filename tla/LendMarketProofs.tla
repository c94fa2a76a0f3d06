-------------------------- MODULE LendMarketProofs --------------------------
(* Proofs about LendMarket: the types of its storage, that the vouchers of *)
(* all accounts make up TotalSupply, that no step lowers the exchange rate *)
(* and that a borrow leaves its borrower's debts backed.                   *)
EXTENDS LendMarket, NatSumsProofs, MultiCurrencyProofs

-----------------------------------------------------------------------------
(* The inductive invariant adds to types and supply what the rate model    *)
(* needs to yield rates: an ascending curve whose kink is neither at zero  *)
(* nor at full utilisation, and an incentive that pays at least the value. *)
MarketOK(m) ==
  /\ check_model(m)
  /\ m.jump_utilization \in 1..(PARTS - 1) /\ m.liquidate_incentive >= ONE
MarketsOK == \A a \in Assets : MarketOK(markets[a])

LendInv == TypeOK /\ SupplyAgrees /\ MarketsOK

-----------------------------------------------------------------------------
(* Arithmetic                                                              *)

(* A quotient of integers grows with its dividend.                         *)
LEMMA IntDivMonotone ==
  ASSUME NEW m \in Int, NEW k \in Int, NEW n \in Nat \ {0}, m <= k
  PROVE  m \div n <= k \div n /\ m \div n \in Int
<1>1. m \div n \in Int /\ k \div n \in Int /\ (m \div n) * n <= m /\ k < (k \div n) * n + n
  OBVIOUS
<1> DEFINE p == m \div n
           q == k \div n
<1>2. SUFFICES ASSUME q < p PROVE FALSE
  BY <1>1
<1>3. p \in Int /\ q \in Int /\ p * n < q * n + n
  BY <1>1
<1> HIDE DEF p, q
<1>4. q + 1 <= p
  BY <1>2, <1>3
<1>5. (q + 1) * n <= p * n
  BY <1>3, <1>4
<1>6. (q + 1) * n = q * n + n
  BY <1>3
<1> QED BY <1>3, <1>5, <1>6

(* What n times fits into m is at most the quotient.                       *)
LEMMA DivAtLeast ==
  ASSUME NEW m \in Int, NEW n \in Nat \ {0}, NEW k \in Int, k * n <= m
  PROVE  k <= m \div n
<1>1. (k * n) \div n = k
  OBVIOUS
<1>2. k * n \in Int
  OBVIOUS
<1> QED BY <1>1, <1>2, IntDivMonotone

(* A product of naturals over a positive natural is a natural.             *)
LEMMA MulDivNat ==
  ASSUME NEW x \in Nat, NEW y \in Nat, NEW n \in Nat \ {0}
  PROVE  (x * y) \div n \in Nat
<1>1. x * y \in Nat
  OBVIOUS
<1> QED BY <1>1, DivBound

LEMMA FixedPointNat ==
  ASSUME NEW x \in Nat, NEW y \in Nat
  PROVE  mul_int(x, y) \in Nat /\ mul_floor(x, y) \in Nat /\ as_rate(x) \in Nat
<1>1. ONE \in Nat \ {0} /\ PARTS \in Nat \ {0}
  BY LendScaleAssumption
<1>2. mul_int(x, y) \in Nat /\ mul_floor(x, y) \in Nat /\ as_rate(x) \in Nat
  BY <1>1, MulDivNat DEF mul_int, mul_floor, as_rate
<1> QED BY <1>2

LEMMA DivIntNat ==
  ASSUME NEW x \in Nat, NEW rate \in Nat \ {0}
  PROVE  div_int(x, rate) \in Nat
BY LendScaleAssumption, MulDivNat DEF div_int

(* A ratio above zero is a rate above zero.                                *)
LEMMA AsRatePositive ==
  ASSUME NEW x \in Nat \ {0}
  PROVE  as_rate(x) \in Nat \ {0}
<1>1. ONE \in Nat /\ PARTS \in Nat \ {0} /\ PARTS <= ONE
  BY LendScaleAssumption
<1>2. x * ONE \in Nat /\ 1 * PARTS <= x * ONE
  <2>1. 1 * ONE <= x * ONE
    BY <1>1, MulMonotone
  <2> QED BY <1>1, <2>1
<1>3. 1 <= (x * ONE) \div PARTS
  BY <1>1, <1>2, DivAtLeast
<1> QED BY <1>1, <1>3, FixedPointNat DEF as_rate

(* The borrow rate is a natural number.                                    *)
LEMMA BorrowRateNat ==
  ASSUME NEW m \in Market, MarketOK(m), NEW util \in Nat
  PROVE  get_borrow_rate(m, util) \in Nat
<1>1. PARTS \in Nat \ {0} /\ m.jump_utilization \in Nat \ {0} /\ PARTS - m.jump_utilization \in Nat \ {0}
  BY LendScaleAssumption DEF MarketOK
<1>2. /\ m.base_rate \in Nat /\ m.jump_rate \in Nat /\ m.full_rate \in Nat
      /\ m.jump_rate - m.base_rate \in Nat /\ m.full_rate - m.jump_rate \in Nat
  BY DEF MarketOK, check_model, Market
<1>3. as_rate(m.jump_utilization) \in Nat \ {0} /\ as_rate(PARTS - m.jump_utilization) \in Nat \ {0}
  BY <1>1, AsRatePositive
<1>4. CASE util <= m.jump_utilization
  <2> DEFINE x == mul_int(m.jump_rate - m.base_rate, as_rate(util))
  <2>1. x \in Nat
    BY <1>2, FixedPointNat
  <2> HIDE DEF x
  <2>2. div_int(x, as_rate(m.jump_utilization)) \in Nat
    BY <2>1, <1>3, DivIntNat
  <2> QED BY <1>4, <1>2, <2>2 DEF get_borrow_rate, x
<1>5. CASE ~(util <= m.jump_utilization)
  <2> DEFINE y == util - m.jump_utilization
             x == mul_int(m.full_rate - m.jump_rate, as_rate(y))
  <2>1. y \in Nat
    BY <1>5, <1>1
  <2> HIDE DEF y
  <2>2. x \in Nat
    BY <1>2, <2>1, FixedPointNat
  <2> HIDE DEF x
  <2>3. div_int(x, as_rate(PARTS - m.jump_utilization)) \in Nat
    BY <2>2, <1>3, DivIntNat
  <2> QED BY <1>5, <1>2, <2>3 DEF get_borrow_rate, x, y
<1> QED BY <1>4, <1>5

-----------------------------------------------------------------------------
(* Interest                                                                *)

LEMMA UtilizationNat ==
  ASSUME NEW p \in Pool, NEW cash \in Nat
  PROVE  calc_utilization_ratio(p, cash) \in Nat
<1>1. /\ p.TotalBorrows \in Nat /\ Underlying(p, cash) \in Int /\ PARTS \in Nat
  BY LendScaleAssumption DEF Pool, Underlying
<1>2. CASE p.TotalBorrows = 0 \/ Underlying(p, cash) <= p.TotalBorrows
  BY <1>1, <1>2 DEF calc_utilization_ratio
<1>3. CASE p.TotalBorrows # 0 /\ ~(Underlying(p, cash) <= p.TotalBorrows)
  <2>1. Underlying(p, cash) \in Nat \ {0}
    BY <1>1, <1>3
  <2>2. (p.TotalBorrows * PARTS) \div Underlying(p, cash) \in Nat
    BY <1>1, <2>1, MulDivNat
  <2> QED BY <1>3, <2>2 DEF calc_utilization_ratio
<1> QED BY <1>2, <1>3

(* The exchange rate is an integer, and a natural when it is valid.        *)
LEMMA ExchangeRateType ==
  ASSUME NEW p \in Pool, NEW cash \in Nat
  PROVE  /\ exchange_rate_of(p, cash) \in Int /\ Underlying(p, cash) \in Int
         /\ ensure_valid_exchange_rate(p, cash) =>
              exchange_rate_of(p, cash) \in Nat \ {0}
         /\ p.TotalSupply > 0 =>
              exchange_rate_of(p, cash) = (Underlying(p, cash) * ONE) \div p.TotalSupply
<1>1. /\ p.TotalSupply \in Nat /\ Underlying(p, cash) \in Int /\ ONE \in Nat
      /\ MIN_EXCHANGE_RATE \in Nat \ {0}
  BY LendScaleAssumption DEF Pool, Underlying
<1>2. CASE p.TotalSupply = 0
  BY <1>1, <1>2 DEF exchange_rate_of
<1>3. CASE p.TotalSupply # 0
  <2>1. Underlying(p, cash) * ONE \in Int /\ p.TotalSupply \in Nat \ {0}
    BY <1>1, <1>3
  <2>2. (Underlying(p, cash) * ONE) \div p.TotalSupply \in Int
    BY <2>1, IntDivMonotone
  <2>3. exchange_rate_of(p, cash) = (Underlying(p, cash) * ONE) \div p.TotalSupply
    BY <1>3 DEF exchange_rate_of
  <2>4. ensure_valid_exchange_rate(p, cash) => exchange_rate_of(p, cash) >= MIN_EXCHANGE_RATE
    BY <1>3 DEF ensure_valid_exchange_rate
  <2> QED BY <1>1, <1>3, <2>2, <2>3, <2>4
<1> QED BY <1>2, <1>3

(* With as many vouchers out, more value means no lower a rate.            *)
LEMMA RateGrows ==
  ASSUME NEW p \in Pool, NEW q \in Pool, NEW cash \in Nat, NEW cash2 \in Nat,
         p.TotalSupply > 0, q.TotalSupply = p.TotalSupply,
         Underlying(p, cash) <= Underlying(q, cash2)
  PROVE  exchange_rate_of(p, cash) <= exchange_rate_of(q, cash2)
<1>1. p.TotalSupply \in Nat \ {0} /\ ONE \in Nat
  BY LendScaleAssumption DEF Pool
<1> DEFINE u == Underlying(p, cash)
           v == Underlying(q, cash2)
<1>2. u \in Int /\ v \in Int /\ u <= v
  BY ExchangeRateType
<1>3. /\ exchange_rate_of(p, cash) = (u * ONE) \div p.TotalSupply
      /\ exchange_rate_of(q, cash2) = (v * ONE) \div p.TotalSupply
  BY ExchangeRateType
<1> HIDE DEF u, v
<1>4. u * ONE <= v * ONE /\ u * ONE \in Int /\ v * ONE \in Int
  BY <1>1, <1>2
<1> QED BY <1>1, <1>3, <1>4, IntDivMonotone

(* Interest leaves the supply alone and adds to the value of the pool no   *)
(* less than to its reserves.                                              *)
LEMMA StatusEffect ==
  ASSUME NEW p \in Pool, NEW m \in Market, MarketOK(m), NEW cash \in Nat, now \in Nat,
         now > p.LastAccrued, ensure_valid_exchange_rate(get_market_status(p, m, cash), cash)
  PROVE  /\ get_market_status(p, m, cash) \in Pool
         /\ get_market_status(p, m, cash).TotalSupply = p.TotalSupply
         /\ get_market_status(p, m, cash).LastAccrued = now
         /\ Underlying(p, cash) <= Underlying(get_market_status(p, m, cash), cash)
<1> DEFINE rate == get_borrow_rate(m, calc_utilization_ratio(p, cash))
           elapsed == now - p.LastAccrued
           interest == (mul_int(rate, p.TotalBorrows) * elapsed) \div SECONDS_PER_YEAR
           share == mul_floor(m.reserve_factor, interest)
           growth == (mul_int(rate, p.BorrowIndex) * elapsed) \div SECONDS_PER_YEAR
           q == [p EXCEPT !.TotalBorrows = @ + interest, !.TotalReserves = @ + share,
                          !.BorrowIndex = @ + growth, !.LastAccrued = now]
           r == [q EXCEPT !.ExchangeRate = exchange_rate_of(q, cash)]
<1>1. get_market_status(p, m, cash) = r
  BY DEF get_market_status
<1>2. /\ p.TotalSupply \in Nat /\ p.TotalBorrows \in Nat /\ p.TotalReserves \in Nat
      /\ p.BorrowIndex \in Nat /\ p.ExchangeRate \in Nat /\ p.LastAccrued \in Nat
  BY DEF Pool
<1>3. SECONDS_PER_YEAR \in Nat \ {0} /\ PARTS \in Nat \ {0}
  BY LendScaleAssumption
<1>4. rate \in Nat /\ elapsed \in Nat
  BY <1>2, UtilizationNat, BorrowRateNat
<1> HIDE DEF rate, elapsed
<1>5. mul_int(rate, p.TotalBorrows) \in Nat /\ mul_int(rate, p.BorrowIndex) \in Nat
  BY <1>2, <1>4, FixedPointNat
<1>6. interest \in Nat /\ growth \in Nat
  BY <1>3, <1>4, <1>5, MulDivNat
<1> HIDE DEF interest, growth
<1>7. share \in Nat /\ share <= interest
  <2>1. m.reserve_factor \in Nat /\ m.reserve_factor <= PARTS
    BY <1>3 DEF Market, Ratio
  <2> QED BY <1>3, <1>6, <2>1, ShareBound DEF mul_floor
<1> HIDE DEF share
<1>8. /\ q \in Pool /\ q.TotalSupply = p.TotalSupply /\ q.LastAccrued = now
      /\ q.TotalBorrows = p.TotalBorrows + interest /\ q.TotalReserves = p.TotalReserves + share
  <2>1. /\ p.TotalBorrows + interest \in Nat /\ p.TotalReserves + share \in Nat
        /\ p.BorrowIndex + growth \in Nat
    BY <1>2, <1>6, <1>7
  <2>2. q \in Pool
    BY <2>1, <1>2 DEF Pool
  <2>3. q.TotalSupply = p.TotalSupply /\ q.LastAccrued = now
    BY DEF Pool
  <2>4. q.TotalBorrows = p.TotalBorrows + interest /\ q.TotalReserves = p.TotalReserves + share
    BY DEF Pool
  <2> QED BY <2>2, <2>3, <2>4
<1> HIDE DEF q
<1>9. /\ r = [q EXCEPT !.ExchangeRate = exchange_rate_of(q, cash)]
      /\ r.TotalSupply = q.TotalSupply /\ r.TotalBorrows = q.TotalBorrows
      /\ r.TotalReserves = q.TotalReserves /\ r.LastAccrued = q.LastAccrued
  BY <1>8 DEF Pool
<1> HIDE DEF r
<1>10. Underlying(r, cash) = Underlying(q, cash)
  BY <1>9 DEF Underlying
<1>11. ensure_valid_exchange_rate(r, cash) <=> ensure_valid_exchange_rate(q, cash)
  BY <1>9, <1>10 DEF ensure_valid_exchange_rate, exchange_rate_of
<1>12. exchange_rate_of(q, cash) \in Nat
  BY <1>1, <1>8, <1>11, ExchangeRateType
<1>13. r \in Pool
  BY <1>8, <1>9, <1>12 DEF Pool
<1>14. Underlying(p, cash) <= Underlying(r, cash)
  BY <1>2, <1>6, <1>7, <1>8, <1>10 DEF Underlying
<1> QED BY <1>1, <1>8, <1>9, <1>13, <1>14

LEMMA InvTypes ==
  ASSUME LendInv
  PROVE  /\ now \in Nat \ {0}
         /\ pools \in [Assets -> Pool] /\ markets \in [Assets -> Market]
         /\ \A a \in Assets : MarketOK(markets[a]) /\ Cash(a) \in Nat
<1>1. PalletAccount \in Accounts /\ MaxTime \in Nat
  BY LendMarketsAssumption DEF Accounts
<1>2. now \in Nat \ {0}
  BY <1>1 DEF LendInv, TypeOK, larger
<1> QED BY <1>1, <1>2 DEF LendInv, TypeOK, MarketsOK, Cash

(* Accruing on the assets S.                                               *)
LEMMA AccrueEffect ==
  ASSUME LendInv, NEW S \in SUBSET Assets, accrue_allowed(S)
  PROVE  /\ accrue_interest(S) \in [Assets -> Pool]
         /\ \A a \in Assets :
              LET q == accrue_interest(S)[a]
              IN /\ q.TotalSupply = pools[a].TotalSupply
                 /\ q.LastAccrued = pools[a].LastAccrued => q = pools[a]
                 /\ q.LastAccrued # pools[a].LastAccrued => q = accrued(a)
                 /\ Underlying(pools[a], Cash(a)) <= Underlying(q, Cash(a))
<1>1. SUFFICES ASSUME NEW a \in Assets
               PROVE  LET q == accrue_interest(S)[a]
                      IN /\ q \in Pool
                         /\ q.TotalSupply = pools[a].TotalSupply
                         /\ q.LastAccrued = pools[a].LastAccrued => q = pools[a]
                         /\ q.LastAccrued # pools[a].LastAccrued => q = accrued(a)
                         /\ Underlying(pools[a], Cash(a)) <= Underlying(q, Cash(a))
  BY DEF accrue_interest
<1> DEFINE q == accrue_interest(S)[a]
           p == pools[a]
<1>2. /\ p \in Pool /\ markets[a] \in Market /\ MarketOK(markets[a]) /\ Cash(a) \in Nat
      /\ now \in Nat \ {0} /\ p.LastAccrued \in Nat /\ Underlying(p, Cash(a)) \in Int
  BY InvTypes DEF Pool, Underlying
<1>3. CASE a \notin S
  BY <1>2, <1>3 DEF accrue_interest
<1>4. CASE a \in S /\ ~accrue_due(a) /\ p.LastAccrued = 0
  <2>1. q = [p EXCEPT !.LastAccrued = now] /\ q = accrued(a)
    BY <1>4 DEF accrue_interest, accrued
  <2>2. /\ q \in Pool /\ q.TotalSupply = p.TotalSupply /\ q.LastAccrued # p.LastAccrued
        /\ q.TotalBorrows = p.TotalBorrows /\ q.TotalReserves = p.TotalReserves
    BY <1>2, <1>4, <2>1 DEF Pool
  <2>3. Underlying(q, Cash(a)) = Underlying(p, Cash(a))
    BY <2>2 DEF Underlying
  <2> QED BY <1>2, <2>1, <2>2, <2>3
<1>5. CASE a \in S /\ ~accrue_due(a) /\ p.LastAccrued # 0
  BY <1>2, <1>5 DEF accrue_interest, accrued
<1>6. CASE a \in S /\ accrue_due(a)
  <2>1. q = get_market_status(p, markets[a], Cash(a)) /\ q = accrued(a)
    BY <1>6 DEF accrue_interest, accrued
  <2>2. /\ now > p.LastAccrued
        /\ ensure_valid_exchange_rate(get_market_status(p, markets[a], Cash(a)), Cash(a))
    BY <1>6, <2>1 DEF accrue_allowed, accrue_due
  <2> HIDE DEF p, q
  <2>3. /\ get_market_status(p, markets[a], Cash(a)) \in Pool
        /\ get_market_status(p, markets[a], Cash(a)).TotalSupply = p.TotalSupply
        /\ get_market_status(p, markets[a], Cash(a)).LastAccrued = now
        /\ Underlying(p, Cash(a))
             <= Underlying(get_market_status(p, markets[a], Cash(a)), Cash(a))
    BY <1>2, <2>2, StatusEffect
  <2> QED BY <1>2, <2>1, <2>2, <2>3 DEF p, q
<1> QED BY <1>3, <1>4, <1>5, <1>6

-----------------------------------------------------------------------------
(* Vouchers                                                                *)

Vouchers(row) == SumFunctionOnSet([u \in Holders |-> row[u].voucher_balance], Holders)

LEMMA HoldersFinite == IsFiniteSet(Holders)
BY LendAccountsAssumption, FS_AddElement DEF Holders

(* The sum of the vouchers follows a change to one account's.              *)
LEMMA VoucherChange ==
  ASSUME NEW row \in [Holders -> Deposit_], NEW row2 \in [Holders -> Deposit_],
         NEW u \in Holders, \A x \in Holders : x # u => row2[x] = row[x]
  PROVE  /\ Vouchers(row2)
              = Vouchers(row) + (row2[u].voucher_balance - row[u].voucher_balance)
         /\ Vouchers(row) \in Nat /\ row[u].voucher_balance <= Vouchers(row)
         /\ row[u].voucher_balance \in Nat
<1> DEFINE f == [x \in Holders |-> row[x].voucher_balance]
           g == [x \in Holders |-> row2[x].voucher_balance]
<1>1. /\ \A x \in Holders : f[x] \in Nat /\ g[x] \in Nat
      /\ \A x \in Holders : x # u => f[x] = g[x]
      /\ f[u] = row[u].voucher_balance /\ g[u] = row2[u].voucher_balance
  BY DEF Deposit_
<1>2. Vouchers(row) = SumFunctionOnSet(f, Holders) /\ Vouchers(row2) = SumFunctionOnSet(g, Holders)
  BY DEF Vouchers
<1> HIDE DEF f, g
<1>3. SumFunctionOnSet(f, Holders) \in Nat /\ f[u] <= SumFunctionOnSet(f, Holders)
  BY <1>1, HoldersFinite, SetSumNat
<1>4. \A x \in Holders : f[x] \in Int /\ g[x] \in Int
  BY <1>1
<1>5. SumFunctionOnSet(g, Holders) = SumFunctionOnSet(f, Holders) + (g[u] - f[u])
  BY <1>1, <1>4, HoldersFinite, SetSumUpdate
<1> QED BY <1>1, <1>2, <1>3, <1>5

LEMMA AddVouchersEffect ==
  ASSUME NEW row \in [Holders -> Deposit_], NEW u \in Holders, NEW n \in Nat
  PROVE  /\ AddVouchers(row, u, n) \in [Holders -> Deposit_]
         /\ Vouchers(AddVouchers(row, u, n)) = Vouchers(row) + n
         /\ Vouchers(row) \in Nat
<1> DEFINE row2 == AddVouchers(row, u, n)
<1>1. row[u].voucher_balance \in Nat /\ row[u].is_collateral \in BOOLEAN /\ row[u] \in Deposit_
  BY DEF Deposit_
<1>2. row2 = [row EXCEPT ![u].exists = TRUE, ![u].voucher_balance = @ + n]
  BY DEF AddVouchers
<1>3. row[u].voucher_balance + n \in Nat
  BY <1>1
<1>4. /\ row2 \in [Holders -> Deposit_] /\ \A x \in Holders : x # u => row2[x] = row[x]
      /\ row2[u].voucher_balance = row[u].voucher_balance + n
  BY <1>1, <1>2, <1>3 DEF Deposit_
<1> HIDE DEF row2
<1>5. /\ Vouchers(row2) = Vouchers(row) + (row2[u].voucher_balance - row[u].voucher_balance)
      /\ Vouchers(row) \in Nat
  BY <1>4, VoucherChange
<1> QED BY <1>1, <1>4, <1>5 DEF row2

LEMMA TakeVouchersEffect ==
  ASSUME NEW row \in [Holders -> Deposit_], NEW u \in Holders, NEW n \in Nat,
         n <= row[u].voucher_balance
  PROVE  /\ TakeVouchers(row, u, n) \in [Holders -> Deposit_]
         /\ Vouchers(TakeVouchers(row, u, n)) = Vouchers(row) - n
         /\ Vouchers(row) \in Nat /\ n <= Vouchers(row)
<1> DEFINE row2 == TakeVouchers(row, u, n)
<1>1. row[u].voucher_balance \in Nat /\ row[u].is_collateral \in BOOLEAN /\ row[u] \in Deposit_
  BY DEF Deposit_
<1>2. row2 = IF row[u].voucher_balance = n THEN [row EXCEPT ![u] = NoDeposit]
             ELSE [row EXCEPT ![u].voucher_balance = @ - n]
  BY DEF TakeVouchers
<1>3. /\ row[u].voucher_balance - n \in Nat
      /\ NoDeposit \in Deposit_ /\ NoDeposit.voucher_balance = 0
  BY <1>1 DEF Deposit_, NoDeposit
<1>4. /\ row2 \in [Holders -> Deposit_] /\ \A x \in Holders : x # u => row2[x] = row[x]
      /\ row2[u].voucher_balance = row[u].voucher_balance - n
  <2>1. CASE row[u].voucher_balance = n
    BY <1>1, <1>2, <1>3, <2>1
  <2>2. CASE row[u].voucher_balance # n
    BY <1>1, <1>2, <1>3, <2>2 DEF Deposit_
  <2> QED BY <2>1, <2>2
<1> HIDE DEF row2
<1>5. /\ Vouchers(row2) = Vouchers(row) + (row2[u].voucher_balance - row[u].voucher_balance)
      /\ Vouchers(row) \in Nat /\ row[u].voucher_balance <= Vouchers(row)
  BY <1>4, VoucherChange
<1> QED BY <1>1, <1>4, <1>5 DEF row2

(* What a liquidation takes from the borrower stays a deposit.             *)
LEMMA SeizeEffect ==
  ASSUME NEW row \in [Holders -> Deposit_], NEW u \in Holders, NEW n \in Nat,
         n <= row[u].voucher_balance
  PROVE  /\ [row EXCEPT ![u].voucher_balance = @ - n] \in [Holders -> Deposit_]
         /\ Vouchers([row EXCEPT ![u].voucher_balance = @ - n]) = Vouchers(row) - n
         /\ Vouchers(row) \in Nat
<1> DEFINE row2 == [row EXCEPT ![u].voucher_balance = @ - n]
<1>1. row[u].voucher_balance \in Nat /\ row[u] \in Deposit_
  BY DEF Deposit_
<1>2. row2 = [row EXCEPT ![u] = [row[u] EXCEPT !.voucher_balance = row[u].voucher_balance - n]]
  OBVIOUS
<1>3. /\ [row[u] EXCEPT !.voucher_balance = row[u].voucher_balance - n] \in Deposit_
      /\ [row[u] EXCEPT !.voucher_balance = row[u].voucher_balance - n].voucher_balance
           = row[u].voucher_balance - n
  BY <1>1 DEF Deposit_
<1>4. /\ row2 \in [Holders -> Deposit_] /\ \A x \in Holders : x # u => row2[x] = row[x]
      /\ row2[u].voucher_balance = row[u].voucher_balance - n
  BY <1>2, <1>3
<1> HIDE DEF row2
<1>5. /\ Vouchers(row2) = Vouchers(row) + (row2[u].voucher_balance - row[u].voucher_balance)
      /\ Vouchers(row) \in Nat
  BY <1>4, VoucherChange
<1> QED BY <1>1, <1>4, <1>5 DEF row2

-----------------------------------------------------------------------------
(* What every step has to keep                                             *)

GoodStep == LendInv' /\ \A a \in Assets : KeepsRate(a)

(* A step that changes the pool of the asset a, after accruing on S.       *)
LEMMA KeepsRateFrom ==
  ASSUME LendInv, NEW S \in SUBSET Assets, accrue_allowed(S), NEW a \in Assets,
         NEW q \in Pool,
         pools' = [accrue_interest(S) EXCEPT ![a] = q],
         q.LastAccrued = accrue_interest(S)[a].LastAccrued,
         balances' \in [Assets -> [Accounts -> Nat]],
         \A c \in Assets : c # a => Cash(c)' = Cash(c),
         accrue_interest(S)[a].TotalSupply > 0 /\ q.TotalSupply > 0 =>
           \/ exchange_rate_of(accrue_interest(S)[a], Cash(a)) <= exchange_rate_of(q, Cash(a)')
           \/ MayBeSwept(a) /\ Cash(a)' = 0
  PROVE  \A c \in Assets : KeepsRate(c)
<1>1. SUFFICES ASSUME NEW c \in Assets, pools[c].TotalSupply > 0, pools'[c].TotalSupply > 0
               PROVE  LET seen == IF pools'[c].LastAccrued = pools[c].LastAccrued THEN pools[c]
                                  ELSE accrued(c)
                      IN /\ exchange_rate_of(pools[c], Cash(c)) <= exchange_rate_of(seen, Cash(c))
                         /\ \/ exchange_rate_of(seen, Cash(c)) <= exchange_rate_of(pools'[c], Cash(c)')
                            \/ MayBeSwept(c) /\ Cash(c)' = 0
  BY DEF KeepsRate
<1> DEFINE r == accrue_interest(S)[c]
           seen == IF pools'[c].LastAccrued = pools[c].LastAccrued THEN pools[c] ELSE accrued(c)
<1>2. /\ accrue_interest(S) \in [Assets -> Pool] /\ r \in Pool
      /\ r.TotalSupply = pools[c].TotalSupply
      /\ r.LastAccrued = pools[c].LastAccrued => r = pools[c]
      /\ r.LastAccrued # pools[c].LastAccrued => r = accrued(c)
      /\ Underlying(pools[c], Cash(c)) <= Underlying(r, Cash(c))
  BY AccrueEffect
<1>3. pools[c] \in Pool /\ Cash(c) \in Nat
  BY InvTypes
<1>4. pools'[c].LastAccrued = r.LastAccrued
  BY <1>2
<1>5. seen = r
  BY <1>2, <1>4
<1>6. exchange_rate_of(pools[c], Cash(c)) <= exchange_rate_of(r, Cash(c))
  BY <1>1, <1>2, <1>3, RateGrows
<1>7. exchange_rate_of(r, Cash(c)) \in Int
  BY <1>2, <1>3, ExchangeRateType
<1>8. \/ exchange_rate_of(r, Cash(c)) <= exchange_rate_of(pools'[c], Cash(c)')
      \/ MayBeSwept(c) /\ Cash(c)' = 0
  <2>1. CASE c = a
    <3>1. pools'[c] = q
      BY <1>2, <2>1
    <3> QED BY <1>1, <1>2, <2>1, <3>1
  <2>2. CASE c # a
    <3>1. pools'[c] = r /\ Cash(c)' = Cash(c)
      BY <1>2, <2>2
    <3> QED BY <1>7, <3>1
  <2> QED BY <2>1, <2>2
<1> HIDE DEF r, seen
<1>9. /\ exchange_rate_of(pools[c], Cash(c)) <= exchange_rate_of(seen, Cash(c))
      /\ \/ exchange_rate_of(seen, Cash(c)) <= exchange_rate_of(pools'[c], Cash(c)')
         \/ MayBeSwept(c) /\ Cash(c)' = 0
  BY <1>5, <1>6, <1>8
<1> QED BY <1>9 DEF seen

(* A step that leaves the governed state alone.                            *)
LEMMA InvFrom ==
  ASSUME LendInv, UNCHANGED governed,
         balances' \in [Assets -> [Accounts -> Nat]], pools' \in [Assets -> Pool],
         AccountDeposits' \in [Assets -> [Holders -> Deposit_]],
         AccountBorrows' \in [Assets -> [Holders -> [principal : Nat, borrow_index : Nat]]],
         AccountEarned' \in [Assets -> [Holders -> Nat]],
         \A a \in Assets : pools'[a].TotalSupply = Vouchers(AccountDeposits'[a])
  PROVE  LendInv'
<1>1. TypeOK'
  BY DEF LendInv, TypeOK, governed
<1>2. SupplyAgrees'
  BY DEF SupplyAgrees, Vouchers
<1>3. MarketsOK'
  BY DEF LendInv, MarketsOK, governed
<1> QED BY <1>1, <1>2, <1>3 DEF LendInv

LEMMA SupplyIs ==
  ASSUME LendInv, NEW a \in Assets
  PROVE  pools[a].TotalSupply = Vouchers(AccountDeposits[a])
BY DEF LendInv, SupplyAgrees, Vouchers

-----------------------------------------------------------------------------
(* Payments                                                                *)

LEMMA AccountFacts ==
  /\ Users \subseteq Accounts /\ Users \subseteq Holders
  /\ {PalletAccount, IncentiveAccount, TreasuryAccount} \subseteq Accounts
  /\ IncentiveAccount \in Holders /\ PalletAccount \notin Users
  /\ PalletAccount # IncentiveAccount /\ PalletAccount # TreasuryAccount
<1>1. ASSUME NEW x, NEW y PROVE Cardinality({x, y}) # 3
  <2>1. Cardinality({x}) = 1 /\ IsFiniteSet({x})
    BY FS_Singleton
  <2>2. {x, y} = {x} \cup {y}
    OBVIOUS
  <2>3. Cardinality({x} \cup {y}) = IF y \in {x} THEN Cardinality({x}) ELSE Cardinality({x}) + 1
    BY <2>1, FS_AddElement
  <2> QED BY <2>1, <2>2, <2>3
<1>2. PalletAccount # IncentiveAccount
  <2>1. SUFFICES ASSUME PalletAccount = IncentiveAccount PROVE FALSE
    OBVIOUS
  <2>2. {PalletAccount, IncentiveAccount, TreasuryAccount} = {PalletAccount, TreasuryAccount}
    BY <2>1
  <2> QED BY <1>1, <2>2, LendAccountsAssumption
<1>3. PalletAccount # TreasuryAccount
  <2>1. SUFFICES ASSUME PalletAccount = TreasuryAccount PROVE FALSE
    OBVIOUS
  <2>2. {PalletAccount, IncentiveAccount, TreasuryAccount} = {PalletAccount, IncentiveAccount}
    BY <2>1
  <2> QED BY <1>1, <2>2, LendAccountsAssumption
<1>4. PalletAccount \notin Users
  BY LendAccountsAssumption
<1> QED BY <1>2, <1>3, <1>4 DEF Accounts, Holders

(* A payment to the pallet adds to its cash.                               *)
LEMMA PayIn ==
  ASSUME LendInv, NEW a \in Assets, NEW from \in Accounts \ {PalletAccount}, NEW amount \in Nat,
         CanTransfer(balances, a, from, PalletAccount, amount),
         balances' = Transfer(balances, a, from, PalletAccount, amount)
  PROVE  /\ balances' \in [Assets -> [Accounts -> Nat]]
         /\ \A c \in Assets : c # a => Cash(c)' = Cash(c)
         /\ Cash(a)' = Cash(a) + amount
<1>1. /\ balances \in [Assets -> [Accounts -> Nat]] /\ PalletAccount \in Accounts
      /\ TreasuryAccount \in Accounts /\ from \in Accounts
      /\ PalletAccount \notin {from, TreasuryAccount}
  BY AccountFacts DEF LendInv, TypeOK
<1> DEFINE d == Transfer(balances, a, from, PalletAccount, amount)
<1>2. /\ d \in [Assets -> [Accounts -> Nat]]
      /\ \A e \in Assets : e # a => d[e] = balances[e]
  BY <1>1, TransferEffect, SMTT(30)
<1>3. d[a][PalletAccount] = balances[a][PalletAccount] + amount
  BY <1>1, TransferEffect
<1> HIDE DEF d
<1> QED BY <1>1, <1>2, <1>3 DEF Cash, d

(* A payment by the pallet takes from its cash, or all of it.              *)
LEMMA PayOut ==
  ASSUME LendInv, NEW a \in Assets, NEW to \in Accounts \ {PalletAccount}, NEW amount \in Nat,
         CanTransfer(balances, a, PalletAccount, to, amount)
  PROVE  LET d == Transfer(balances, a, PalletAccount, to, amount)
         IN /\ d \in [Assets -> [Accounts -> Nat]]
            /\ \A c \in Assets : c # a => d[c][PalletAccount] = Cash(c)
            /\ \/ d[a][PalletAccount] = Cash(a) - amount
               \/ MayBeSwept(a) /\ d[a][PalletAccount] = 0
<1>1. /\ balances \in [Assets -> [Accounts -> Nat]] /\ PalletAccount \in Accounts
      /\ TreasuryAccount \in Accounts /\ PalletAccount # TreasuryAccount /\ ED[a] \in Nat
  BY AccountFacts, LendMarketsAssumption DEF LendInv, TypeOK
<1> DEFINE d == Transfer(balances, a, PalletAccount, to, amount)
<1>2. /\ d \in [Assets -> [Accounts -> Nat]]
      /\ \A e \in Assets : e # a => d[e] = balances[e]
  BY <1>1, TransferEffect
<1>3. \/ d[a][PalletAccount] = balances[a][PalletAccount] - amount
      \/ d[a][PalletAccount] = 0 /\ PalletAccount \notin DustWhitelist /\ ED[a] > 0
  BY <1>1, TransferLeaves
<1> HIDE DEF d
<1> QED BY <1>1, <1>2, <1>3 DEF Cash, MayBeSwept, d

-----------------------------------------------------------------------------
(* The rounding of vouchers                                                *)

LEMMA MintRate ==
  ASSUME NEW p \in Pool, NEW q \in Pool, NEW cash \in Nat, NEW amount \in Nat, NEW v \in Nat,
         ensure_valid_exchange_rate(p, cash), p.TotalSupply > 0,
         v = minted_vouchers(amount, exchange_rate_of(p, cash)),
         q.TotalSupply = p.TotalSupply + v, q.TotalBorrows = p.TotalBorrows,
         q.TotalReserves = p.TotalReserves
  PROVE  exchange_rate_of(p, cash) <= exchange_rate_of(q, cash + amount)
<1> DEFINE rate == exchange_rate_of(p, cash)
           s == p.TotalSupply
           u == Underlying(p, cash)
           u2 == Underlying(q, cash + amount)
<1>1. ONE \in Nat \ {0} /\ s \in Nat \ {0} /\ s + v \in Nat \ {0}
  BY LendScaleAssumption DEF Pool
<1>2. u \in Nat
  BY <1>1, ExchangeRateType DEF ensure_valid_exchange_rate
<1>3. rate \in Nat \ {0} /\ rate = (u * ONE) \div s
  BY <1>1, ExchangeRateType
<1>4. u2 = u + amount
  BY <1>1 DEF Underlying, Pool
<1>5. exchange_rate_of(q, cash + amount) = (u2 * ONE) \div (s + v)
  <2>1. cash + amount \in Nat /\ q.TotalSupply > 0
    BY <1>1
  <2> QED BY <2>1, ExchangeRateType
<1>6. v = (amount * ONE) \div rate
  BY DEF minted_vouchers, calc_collateral_amount, div_int
<1> HIDE DEF rate, s, u, u2
<1>7. rate * s <= u * ONE
  <2>1. u * ONE \in Nat
    BY <1>1, <1>2
  <2>2. ((u * ONE) \div s) * s <= u * ONE
    BY <1>1, <2>1, DivBound
  <2> QED BY <1>3, <2>2
<1>8. v * rate <= amount * ONE
  <2>1. amount * ONE \in Nat
    BY <1>1
  <2> QED BY <1>3, <1>6, <2>1, DivBound
<1>9. rate * (s + v) = rate * s + v * rate /\ u2 * ONE = u * ONE + amount * ONE
  BY <1>1, <1>2, <1>3, <1>4
<1>10. rate * (s + v) <= u2 * ONE
  <2>1. rate * s \in Int /\ v * rate \in Int /\ u * ONE \in Int /\ amount * ONE \in Int
    BY <1>1, <1>2, <1>3
  <2> QED BY <2>1, <1>7, <1>8, <1>9
<1>11. u2 * ONE \in Int
  BY <1>1, <1>2, <1>4
<1>12. rate <= (u2 * ONE) \div (s + v)
  BY <1>1, <1>3, <1>10, <1>11, DivAtLeast
<1> QED BY <1>5, <1>12 DEF rate

LEMMA RedeemRate ==
  ASSUME NEW p \in Pool, NEW q \in Pool, NEW cash \in Nat, NEW cash2 \in Nat, NEW v \in Nat,
         ensure_valid_exchange_rate(p, cash), p.TotalSupply > 0, q.TotalSupply > 0,
         cash2 = cash - calc_underlying_amount(v, exchange_rate_of(p, cash)),
         q.TotalSupply = p.TotalSupply - v, q.TotalBorrows = p.TotalBorrows,
         q.TotalReserves = p.TotalReserves
  PROVE  exchange_rate_of(p, cash) <= exchange_rate_of(q, cash2)
<1> DEFINE rate == exchange_rate_of(p, cash)
           s == p.TotalSupply
           u == Underlying(p, cash)
           u2 == Underlying(q, cash2)
           amount == calc_underlying_amount(v, rate)
<1>1. ONE \in Nat \ {0} /\ s \in Nat \ {0} /\ s - v \in Nat \ {0}
  BY LendScaleAssumption DEF Pool
<1>2. u \in Nat
  BY <1>1, ExchangeRateType DEF ensure_valid_exchange_rate
<1>3. rate \in Nat \ {0} /\ rate = (u * ONE) \div s
  BY <1>1, ExchangeRateType
<1>4. amount = (rate * v) \div ONE
  BY DEF calc_underlying_amount, mul_int
<1>5. exchange_rate_of(q, cash2) = (u2 * ONE) \div (s - v)
  BY ExchangeRateType
<1>6. amount \in Nat /\ amount * ONE <= rate * v
  <2>1. rate * v \in Nat
    BY <1>3
  <2> HIDE DEF rate
  <2> QED BY <1>1, <1>4, <2>1, DivBound
<1>7. u2 = u - amount
  <2>1. cash2 = cash - amount
    OBVIOUS
  <2> HIDE DEF amount
  <2> QED BY <1>1, <1>6, <2>1 DEF Underlying, Pool
<1> HIDE DEF rate, s, u, u2, amount
<1>8. rate * s <= u * ONE
  <2>1. u * ONE \in Nat
    BY <1>1, <1>2
  <2>2. ((u * ONE) \div s) * s <= u * ONE
    BY <1>1, <2>1, DivBound
  <2> QED BY <1>3, <2>2
<1>9. rate * (s - v) = rate * s - rate * v /\ u2 * ONE = u * ONE - amount * ONE
  BY <1>1, <1>2, <1>3, <1>6, <1>7
<1>10. rate * (s - v) <= u2 * ONE
  <2>1. rate * s \in Int /\ rate * v \in Int /\ u * ONE \in Int /\ amount * ONE \in Int
    BY <1>1, <1>2, <1>3, <1>6
  <2> QED BY <2>1, <1>6, <1>8, <1>9
<1>11. u2 * ONE \in Int
  BY <1>1, <1>2, <1>6, <1>7
<1>12. rate <= (u2 * ONE) \div (s - v)
  BY <1>1, <1>3, <1>10, <1>11, DivAtLeast
<1> QED BY <1>5, <1>12 DEF rate

-----------------------------------------------------------------------------
(* The calls                                                               *)

LEMMA MintStep ==
  ASSUME LendInv, NEW u \in Users, NEW a \in Assets, NEW amount \in Nat, mint(u, a, amount)
  PROVE  GoodStep
<1> DEFINE P == accrue_interest({a})
           rate == exchange_rate_of(P[a], Cash(a))
           v == minted_vouchers(amount, rate)
           q == [P[a] EXCEPT !.TotalSupply = @ + v]
           row == AddVouchers(AccountDeposits[a], u, v)
<1>1. /\ accrue_allowed({a}) /\ ensure_valid_exchange_rate(P[a], Cash(a)) /\ v > 0
      /\ CanTransfer(balances, a, u, PalletAccount, amount)
      /\ balances' = Transfer(balances, a, u, PalletAccount, amount)
      /\ AccountDeposits' = [AccountDeposits EXCEPT ![a] = row]
      /\ pools' = [P EXCEPT ![a].TotalSupply = @ + v]
      /\ AccountEarned' = [AccountEarned EXCEPT ![a][u] = rate]
      /\ UNCHANGED <<AccountBorrows, governed>>
  BY DEF mint, exchange_rate_stored
<1>2. /\ P \in [Assets -> Pool] /\ P[a] \in Pool
      /\ \A c \in Assets : P[c].TotalSupply = pools[c].TotalSupply
  BY <1>1, AccrueEffect
<1>3. Cash(a) \in Nat /\ u \in Accounts \ {PalletAccount} /\ u \in Holders
  BY InvTypes, AccountFacts
<1>4. rate \in Nat \ {0}
  BY <1>1, <1>2, <1>3, ExchangeRateType
<1>5. v \in Nat
  BY <1>4, DivIntNat DEF minted_vouchers, calc_collateral_amount
<1> HIDE DEF P, rate, v
<1>6. /\ q \in Pool /\ q.TotalSupply = P[a].TotalSupply + v /\ q.LastAccrued = P[a].LastAccrued
      /\ q.TotalBorrows = P[a].TotalBorrows /\ q.TotalReserves = P[a].TotalReserves
  BY <1>2, <1>5 DEF Pool
<1>7. pools' = [P EXCEPT ![a] = q] /\ pools' \in [Assets -> Pool]
  BY <1>1, <1>2, <1>6
<1> HIDE DEF q
<1>8. /\ balances' \in [Assets -> [Accounts -> Nat]]
      /\ \A c \in Assets : c # a => Cash(c)' = Cash(c)
      /\ Cash(a)' = Cash(a) + amount
  BY <1>1, <1>3, PayIn
<1>9. \A c \in Assets : KeepsRate(c)
  <2>1. P[a].TotalSupply > 0 => exchange_rate_of(P[a], Cash(a)) <= exchange_rate_of(q, Cash(a) + amount)
    BY <1>1, <1>2, <1>3, <1>5, <1>6, MintRate DEF v, rate
  <2> QED BY <1>1, <1>6, <1>7, <1>8, <2>1, KeepsRateFrom DEF P
<1>10. AccountDeposits \in [Assets -> [Holders -> Deposit_]] /\ AccountDeposits[a] \in [Holders -> Deposit_]
  BY DEF LendInv, TypeOK
<1>11. row \in [Holders -> Deposit_] /\ Vouchers(row) = Vouchers(AccountDeposits[a]) + v
  BY <1>3, <1>5, <1>10, AddVouchersEffect
<1> HIDE DEF row
<1>12. \A c \in Assets : pools'[c].TotalSupply = Vouchers(AccountDeposits'[c])
  BY <1>1, <1>2, <1>6, <1>7, <1>10, <1>11, SupplyIs
<1>13. /\ AccountDeposits' \in [Assets -> [Holders -> Deposit_]]
       /\ AccountBorrows' \in [Assets -> [Holders -> [principal : Nat, borrow_index : Nat]]]
       /\ AccountEarned' \in [Assets -> [Holders -> Nat]]
  BY <1>1, <1>3, <1>4, <1>10, <1>11 DEF LendInv, TypeOK
<1>14. LendInv'
  BY <1>1, <1>7, <1>8, <1>12, <1>13, InvFrom
<1> QED BY <1>9, <1>14 DEF GoodStep

(* do_redeem_voucher, with the pools the interest on S was added to, and   *)
(* the payment of the vouchers' worth.                                     *)
LEMMA RedeemStep ==
  ASSUME LendInv, NEW S \in SUBSET Assets, accrue_allowed(S), NEW u \in Holders,
         NEW a \in Assets, NEW v,
         ensure_valid_exchange_rate(accrue_interest(S)[a], Cash(a)) => v \in Nat,
         do_redeem_voucher(accrue_interest(S), u, a, v),
         balances' \in [Assets -> [Accounts -> Nat]],
         \A c \in Assets : c # a => Cash(c)' = Cash(c),
         \/ Cash(a)' = Cash(a) - calc_underlying_amount(v, exchange_rate_of(accrue_interest(S)[a], Cash(a)))
         \/ MayBeSwept(a) /\ Cash(a)' = 0,
         AccountEarned' \in [Assets -> [Holders -> Nat]], UNCHANGED <<AccountBorrows, governed>>
  PROVE  GoodStep
<1> DEFINE P == accrue_interest(S)
           q == [P[a] EXCEPT !.TotalSupply = @ - v]
           row == TakeVouchers(AccountDeposits[a], u, v)
<1>1. /\ ensure_valid_exchange_rate(P[a], Cash(a)) /\ v \in Nat
      /\ AccountDeposits[a][u].voucher_balance >= v
      /\ AccountDeposits' = [AccountDeposits EXCEPT ![a] = row]
      /\ pools' = [P EXCEPT ![a].TotalSupply = @ - v]
  BY DEF do_redeem_voucher, redeem_allowed
<1>2. /\ P \in [Assets -> Pool] /\ P[a] \in Pool
      /\ \A c \in Assets : P[c].TotalSupply = pools[c].TotalSupply
  BY AccrueEffect
<1>3. /\ Cash(a) \in Nat /\ Cash(a)' \in Nat
      /\ AccountDeposits \in [Assets -> [Holders -> Deposit_]]
      /\ AccountDeposits[a] \in [Holders -> Deposit_] /\ AccountDeposits[a][u].voucher_balance \in Nat
  BY InvTypes, AccountFacts DEF LendInv, TypeOK, Cash, Deposit_
<1> HIDE DEF P
<1>4. /\ row \in [Holders -> Deposit_] /\ Vouchers(row) = Vouchers(AccountDeposits[a]) - v
      /\ Vouchers(AccountDeposits[a]) \in Nat /\ v <= Vouchers(AccountDeposits[a])
  BY <1>1, <1>3, TakeVouchersEffect
<1>5. P[a].TotalSupply = Vouchers(AccountDeposits[a])
  BY <1>2, SupplyIs
<1> HIDE DEF row
<1>6. /\ q \in Pool /\ q.TotalSupply = P[a].TotalSupply - v /\ q.LastAccrued = P[a].LastAccrued
      /\ q.TotalBorrows = P[a].TotalBorrows /\ q.TotalReserves = P[a].TotalReserves
  <2>1. P[a].TotalSupply - v \in Nat
    BY <1>1, <1>4, <1>5
  <2> QED BY <1>2, <2>1 DEF Pool
<1>7. pools' = [P EXCEPT ![a] = q] /\ pools' \in [Assets -> Pool]
  BY <1>1, <1>2, <1>6
<1> HIDE DEF q
<1>8. P[a].TotalSupply > 0 /\ q.TotalSupply > 0 =>
        \/ exchange_rate_of(P[a], Cash(a)) <= exchange_rate_of(q, Cash(a)')
        \/ MayBeSwept(a) /\ Cash(a)' = 0
  <2>1. CASE Cash(a)' = Cash(a) - calc_underlying_amount(v, exchange_rate_of(P[a], Cash(a)))
    BY <1>1, <1>2, <1>3, <1>6, <2>1, RedeemRate
  <2> QED BY <2>1 DEF P
<1>9. \A c \in Assets : KeepsRate(c)
  BY <1>6, <1>7, <1>8, KeepsRateFrom DEF P
<1>10. \A c \in Assets : pools'[c].TotalSupply = Vouchers(AccountDeposits'[c])
  BY <1>1, <1>2, <1>3, <1>4, <1>5, <1>6, <1>7, SupplyIs
<1>11. /\ AccountDeposits' \in [Assets -> [Holders -> Deposit_]]
       /\ AccountBorrows' \in [Assets -> [Holders -> [principal : Nat, borrow_index : Nat]]]
  BY <1>1, <1>3, <1>4 DEF LendInv, TypeOK
<1>12. LendInv'
  BY <1>7, <1>10, <1>11, InvFrom
<1> QED BY <1>9, <1>12 DEF GoodStep

LEMMA RedeemVouchersStep ==
  ASSUME LendInv, NEW u \in Users, NEW a \in Assets, NEW v,
         ensure_valid_exchange_rate(accrue_interest({a})[a], Cash(a)) => v \in Nat,
         redeem_vouchers(u, a, v)
  PROVE  GoodStep
<1> DEFINE P == accrue_interest({a})
           rate == exchange_rate_of(P[a], Cash(a))
           amount == calc_underlying_amount(v, rate)
<1>1. /\ accrue_allowed({a}) /\ do_redeem_voucher(P, u, a, v)
      /\ CanTransfer(balances, a, PalletAccount, u, amount)
      /\ balances' = Transfer(balances, a, PalletAccount, u, amount)
      /\ AccountEarned' = [AccountEarned EXCEPT ![a][u] = rate]
      /\ UNCHANGED <<AccountBorrows, governed>>
  BY DEF redeem_vouchers, exchange_rate_stored
<1>2. ensure_valid_exchange_rate(P[a], Cash(a)) /\ v \in Nat
  BY <1>1 DEF do_redeem_voucher, redeem_allowed
<1>3. P[a] \in Pool /\ Cash(a) \in Nat /\ u \in Accounts \ {PalletAccount} /\ u \in Holders
  BY <1>1, AccrueEffect, InvTypes, AccountFacts
<1>4. rate \in Nat
  BY <1>2, <1>3, ExchangeRateType
<1> HIDE DEF rate
<1>5. amount \in Nat
  BY <1>2, <1>4, FixedPointNat DEF calc_underlying_amount
<1> HIDE DEF amount
<1>6. /\ balances' \in [Assets -> [Accounts -> Nat]]
      /\ \A c \in Assets : c # a => Cash(c)' = Cash(c)
      /\ Cash(a)' = Cash(a) - amount \/ (MayBeSwept(a) /\ Cash(a)' = 0)
  <2> DEFINE d == Transfer(balances, a, PalletAccount, u, amount)
  <2>1. /\ d \in [Assets -> [Accounts -> Nat]]
        /\ \A c \in Assets : c # a => d[c][PalletAccount] = Cash(c)
        /\ \/ d[a][PalletAccount] = Cash(a) - amount
           \/ MayBeSwept(a) /\ d[a][PalletAccount] = 0
    BY <1>1, <1>3, <1>5, PayOut
  <2> HIDE DEF d
  <2>2. balances' = d
    BY <1>1 DEF d
  <2> QED BY <2>1, <2>2 DEF Cash
<1>7. AccountEarned' \in [Assets -> [Holders -> Nat]]
  BY <1>1, <1>3, <1>4 DEF LendInv, TypeOK
<1>8. {a} \in SUBSET Assets
  OBVIOUS
<1> QED BY <1>1, <1>2, <1>3, <1>6, <1>7, <1>8, RedeemStep DEF amount, rate

(* Of a valid rate, an amount of the asset is a number of vouchers.        *)
LEMMA VouchersNat ==
  ASSUME NEW p \in Pool, NEW cash \in Nat, NEW amount \in Nat, ensure_valid_exchange_rate(p, cash)
  PROVE  calc_collateral_amount(amount, exchange_rate_of(p, cash)) \in Nat
BY ExchangeRateType, DivIntNat DEF calc_collateral_amount

LEMMA RedeemCallsStep ==
  ASSUME LendInv, NEW u \in Users, NEW a \in Assets
  PROVE  /\ \A amount \in Nat : redeem(u, a, amount) => GoodStep
         /\ redeem_all(u, a) => GoodStep
<1>1. ASSUME NEW amount \in Nat, redeem(u, a, amount) PROVE GoodStep
  <2> DEFINE v == calc_collateral_amount(amount, exchange_rate_of(accrue_interest({a})[a], Cash(a)))
  <2>1. redeem_vouchers(u, a, v)
    BY <1>1 DEF redeem, exchange_rate_stored
  <2>2. accrue_allowed({a}) /\ {a} \in SUBSET Assets
    BY <2>1 DEF redeem_vouchers
  <2>3. accrue_interest({a})[a] \in Pool /\ Cash(a) \in Nat
    BY <2>2, AccrueEffect, InvTypes
  <2>4. ensure_valid_exchange_rate(accrue_interest({a})[a], Cash(a)) => v \in Nat
    BY <2>3, VouchersNat
  <2> HIDE DEF v
  <2> QED BY <2>1, <2>4, RedeemVouchersStep
<1>2. ASSUME redeem_all(u, a) PROVE GoodStep
  <2>1. AccountDeposits[a][u].voucher_balance \in Nat
    BY AccountFacts DEF LendInv, TypeOK, Deposit_
  <2> QED BY <1>2, <2>1, RedeemVouchersStep DEF redeem_all
<1> QED BY <1>1, <1>2

LEMMA IncentiveStep ==
  ASSUME LendInv, NEW a \in Assets, NEW amount \in Nat,
         reduce_incentive_reserves(TreasuryAccount, a, amount)
  PROVE  GoodStep
<1> DEFINE rate == exchange_rate_of(pools[a], Cash(a))
           v == calc_collateral_amount(amount, rate)
           paid == calc_underlying_amount(v, rate)
           d == Transfer(balances, a, PalletAccount, IncentiveAccount, paid)
           e == Transfer(d, a, IncentiveAccount, TreasuryAccount, paid)
<1>1. /\ do_redeem_voucher(pools, IncentiveAccount, a, v)
      /\ CanTransfer(balances, a, PalletAccount, IncentiveAccount, paid)
      /\ CanTransfer(d, a, IncentiveAccount, TreasuryAccount, paid)
      /\ balances' = e
      /\ UNCHANGED <<AccountBorrows, AccountEarned, governed>>
  BY DEF reduce_incentive_reserves, exchange_rate_stored
<1>2. ensure_valid_exchange_rate(pools[a], Cash(a))
  BY <1>1 DEF do_redeem_voucher, redeem_allowed
<1>3. /\ pools \in [Assets -> Pool] /\ pools[a] \in Pool /\ Cash(a) \in Nat
      /\ IncentiveAccount \in Accounts \ {PalletAccount} /\ IncentiveAccount \in Holders
      /\ TreasuryAccount \in Accounts \ {PalletAccount} /\ PalletAccount \in Accounts
      /\ IncentiveAccount \in Accounts /\ TreasuryAccount \in Accounts
  BY InvTypes, AccountFacts
<1>4. rate \in Nat /\ v \in Nat
  BY <1>2, <1>3, ExchangeRateType, VouchersNat
<1> HIDE DEF rate, v
<1>5. paid \in Nat
  BY <1>4, FixedPointNat DEF calc_underlying_amount
<1> HIDE DEF paid
<1>6. /\ d \in [Assets -> [Accounts -> Nat]]
      /\ \A c \in Assets : c # a => d[c][PalletAccount] = Cash(c)
      /\ \/ d[a][PalletAccount] = Cash(a) - paid
         \/ MayBeSwept(a) /\ d[a][PalletAccount] = 0
  BY <1>1, <1>3, <1>5, PayOut
<1> HIDE DEF d
<1>7. /\ e \in [Assets -> [Accounts -> Nat]]
      /\ \A c \in Assets : c # a => e[c] = d[c]
      /\ \A x \in Accounts \ {IncentiveAccount, TreasuryAccount, TreasuryAccount} : e[a][x] = d[a][x]
  BY <1>1, <1>3, <1>5, <1>6, TransferEffect
<1> HIDE DEF e
<1>8. e[a][PalletAccount] = d[a][PalletAccount]
  BY <1>3, <1>7
<1>9. /\ balances' \in [Assets -> [Accounts -> Nat]]
      /\ \A c \in Assets : c # a => Cash(c)' = Cash(c)
      /\ Cash(a)' = Cash(a) - paid \/ (MayBeSwept(a) /\ Cash(a)' = 0)
  BY <1>1, <1>6, <1>7, <1>8 DEF Cash
<1>10. AccountEarned' \in [Assets -> [Holders -> Nat]]
  BY <1>1 DEF LendInv, TypeOK
<1>11. accrue_interest({}) = pools /\ accrue_allowed({}) /\ {} \in SUBSET Assets
  BY <1>3 DEF accrue_interest, accrue_allowed
<1> QED BY <1>1, <1>3, <1>4, <1>9, <1>10, <1>11, RedeemStep DEF paid, rate

(* A step that moves no cash and no pool.                                  *)
LEMMA QuietRate ==
  ASSUME LendInv, UNCHANGED <<balances, pools>>
  PROVE  \A a \in Assets : KeepsRate(a)
<1>1. SUFFICES ASSUME NEW a \in Assets PROVE KeepsRate(a)
  OBVIOUS
<1>2. exchange_rate_of(pools[a], Cash(a)) \in Int
  BY InvTypes, ExchangeRateType
<1>3. Cash(a)' = Cash(a) /\ pools'[a] = pools[a]
  BY DEF Cash
<1>4. exchange_rate_of(pools[a], Cash(a))' = exchange_rate_of(pools[a], Cash(a))
  BY <1>3
<1> QED BY <1>2, <1>3, <1>4 DEF KeepsRate

LEMMA CollateralStep ==
  ASSUME LendInv, NEW u \in Users, NEW a \in Assets, NEW enable \in BOOLEAN,
         collateral_asset(u, a, enable)
  PROVE  GoodStep
<1>1. /\ AccountDeposits' = [AccountDeposits EXCEPT ![a][u].is_collateral = enable]
      /\ UNCHANGED <<balances, pools, AccountBorrows, AccountEarned, governed>>
  BY DEF collateral_asset
<1>2. /\ AccountDeposits \in [Assets -> [Holders -> Deposit_]] /\ u \in Holders
      /\ AccountDeposits[a] \in [Holders -> Deposit_]
  BY AccountFacts DEF LendInv, TypeOK
<1>3. AccountDeposits' \in [Assets -> [Holders -> Deposit_]]
  BY <1>1, <1>2 DEF Deposit_
<1>4. /\ \A x \in Holders : x # u => AccountDeposits'[a][x] = AccountDeposits[a][x]
      /\ AccountDeposits'[a][u].voucher_balance = AccountDeposits[a][u].voucher_balance
      /\ \A c \in Assets : c # a => AccountDeposits'[c] = AccountDeposits[c]
      /\ AccountDeposits'[a] \in [Holders -> Deposit_]
  BY <1>1, <1>2, <1>3 DEF Deposit_
<1>5. /\ Vouchers(AccountDeposits'[a]) = Vouchers(AccountDeposits[a])
           + (AccountDeposits'[a][u].voucher_balance - AccountDeposits[a][u].voucher_balance)
      /\ Vouchers(AccountDeposits[a]) \in Nat /\ AccountDeposits[a][u].voucher_balance \in Nat
  BY <1>2, <1>4, VoucherChange
<1>6. Vouchers(AccountDeposits'[a]) = Vouchers(AccountDeposits[a])
  BY <1>4, <1>5
<1>7. \A c \in Assets : pools'[c].TotalSupply = Vouchers(AccountDeposits'[c])
  BY <1>1, <1>4, <1>6, SupplyIs
<1>8. LendInv'
  BY <1>1, <1>3, <1>7, InvFrom DEF LendInv, TypeOK
<1> QED BY <1>1, <1>8, QuietRate DEF GoodStep

LEMMA TransferStep ==
  ASSUME LendInv, NEW u \in Users, NEW d \in Users, NEW a \in Assets, NEW n \in Nat,
         transfer(u, d, a, n)
  PROVE  GoodStep
<1> DEFINE row == TakeVouchers(AccountDeposits[a], u, n)
           row2 == AddVouchers(row, d, n)
<1>1. /\ n <= AccountDeposits[a][u].voucher_balance
      /\ AccountDeposits' = [AccountDeposits EXCEPT ![a] = row2]
      /\ UNCHANGED <<balances, pools, AccountBorrows, AccountEarned, governed>>
  BY DEF transfer
<1>2. /\ AccountDeposits \in [Assets -> [Holders -> Deposit_]] /\ u \in Holders /\ d \in Holders
      /\ AccountDeposits[a] \in [Holders -> Deposit_]
  BY AccountFacts DEF LendInv, TypeOK
<1>3. /\ row \in [Holders -> Deposit_] /\ Vouchers(row) = Vouchers(AccountDeposits[a]) - n
      /\ Vouchers(AccountDeposits[a]) \in Nat
  BY <1>1, <1>2, TakeVouchersEffect
<1> HIDE DEF row
<1>4. row2 \in [Holders -> Deposit_] /\ Vouchers(row2) = Vouchers(row) + n
  BY <1>2, <1>3, AddVouchersEffect
<1> HIDE DEF row2
<1>5. Vouchers(row2) = Vouchers(AccountDeposits[a])
  BY <1>3, <1>4
<1>6. AccountDeposits' \in [Assets -> [Holders -> Deposit_]]
  BY <1>1, <1>2, <1>4
<1>7. \A c \in Assets : pools'[c].TotalSupply = Vouchers(AccountDeposits'[c])
  BY <1>1, <1>2, <1>5, SupplyIs
<1>8. LendInv'
  BY <1>1, <1>6, <1>7, InvFrom DEF LendInv, TypeOK
<1> QED BY <1>1, <1>8, QuietRate DEF GoodStep

(* A step that exchanges cash for debt or reserves.                        *)
LEMMA ValueStep ==
  ASSUME LendInv, NEW S \in SUBSET Assets, accrue_allowed(S), NEW a \in Assets, NEW q \in Pool,
         pools' = [accrue_interest(S) EXCEPT ![a] = q],
         q.TotalSupply = accrue_interest(S)[a].TotalSupply,
         q.LastAccrued = accrue_interest(S)[a].LastAccrued,
         balances' \in [Assets -> [Accounts -> Nat]],
         \A c \in Assets : c # a => Cash(c)' = Cash(c),
         \/ Underlying(accrue_interest(S)[a], Cash(a)) <= Underlying(q, Cash(a)')
         \/ MayBeSwept(a) /\ Cash(a)' = 0,
         AccountDeposits' \in [Assets -> [Holders -> Deposit_]],
         \A c \in Assets : Vouchers(AccountDeposits'[c]) = Vouchers(AccountDeposits[c]),
         AccountBorrows' \in [Assets -> [Holders -> [principal : Nat, borrow_index : Nat]]],
         UNCHANGED <<AccountEarned, governed>>
  PROVE  GoodStep
<1> DEFINE P == accrue_interest(S)
<1>1. /\ P \in [Assets -> Pool] /\ P[a] \in Pool
      /\ \A c \in Assets : P[c].TotalSupply = pools[c].TotalSupply
  BY AccrueEffect
<1>2. Cash(a) \in Nat /\ Cash(a)' \in Nat
  BY InvTypes, AccountFacts DEF Cash
<1>3. P[a].TotalSupply > 0 /\ q.TotalSupply > 0 =>
        \/ exchange_rate_of(P[a], Cash(a)) <= exchange_rate_of(q, Cash(a)')
        \/ MayBeSwept(a) /\ Cash(a)' = 0
  BY <1>1, <1>2, RateGrows
<1>4. \A c \in Assets : KeepsRate(c)
  BY <1>3, KeepsRateFrom
<1> HIDE DEF P
<1>5. pools' \in [Assets -> Pool] /\ \A c \in Assets : pools'[c].TotalSupply = pools[c].TotalSupply
  BY <1>1 DEF P
<1>6. \A c \in Assets : pools'[c].TotalSupply = Vouchers(AccountDeposits'[c])
  BY <1>5, SupplyIs
<1>7. AccountEarned' \in [Assets -> [Holders -> Nat]]
  BY DEF LendInv, TypeOK
<1>8. LendInv'
  BY <1>5, <1>6, <1>7, InvFrom
<1> QED BY <1>4, <1>8 DEF GoodStep

LEMMA DebtNat ==
  ASSUME LendInv, NEW P \in [Assets -> Pool], NEW u \in Holders, NEW a \in Assets
  PROVE  current_borrow_balance(P, u, a) \in Nat /\ P[a].BorrowIndex \in Nat
<1> DEFINE s == AccountBorrows[a][u]
<1>1. s.principal \in Nat /\ s.borrow_index \in Nat /\ P[a].BorrowIndex \in Nat
  BY DEF LendInv, TypeOK, Pool
<1>2. CASE s.principal = 0 \/ s.borrow_index = 0
  BY <1>1, <1>2 DEF current_borrow_balance
<1>3. CASE ~(s.principal = 0 \/ s.borrow_index = 0)
  <2>1. div_int(P[a].BorrowIndex, s.borrow_index) \in Nat
    BY <1>1, <1>3, DivIntNat
  <2>2. mul_int(div_int(P[a].BorrowIndex, s.borrow_index), s.principal) \in Nat
    BY <1>1, <2>1, FixedPointNat
  <2>3. current_borrow_balance(P, u, a)
          = mul_int(div_int(P[a].BorrowIndex, s.borrow_index), s.principal)
    BY <1>3 DEF current_borrow_balance
  <2> QED BY <1>1, <2>2, <2>3
<1> QED BY <1>2, <1>3

LEMMA SnapshotType ==
  ASSUME NEW n \in Nat, NEW index \in Nat
  PROVE  BorrowSnapshot(n, index) \in [principal : Nat, borrow_index : Nat]
BY DEF BorrowSnapshot, NoBorrow

LEMMA BorrowStep ==
  ASSUME LendInv, NEW u \in Users, NEW a \in Assets, NEW amount \in Nat, borrow(u, a, amount)
  PROVE  GoodStep
<1> DEFINE P == accrue_interest({a})
           q == [P[a] EXCEPT !.TotalBorrows = @ + amount]
           debt == current_borrow_balance(P, u, a)
<1>1. /\ accrue_allowed({a}) /\ {a} \in SUBSET Assets
      /\ CanTransfer(balances, a, PalletAccount, u, amount)
      /\ AccountBorrows' = [AccountBorrows EXCEPT ![a][u] =
                              BorrowSnapshot(debt + amount, P[a].BorrowIndex)]
      /\ pools' = [P EXCEPT ![a].TotalBorrows = @ + amount]
      /\ balances' = Transfer(balances, a, PalletAccount, u, amount)
      /\ UNCHANGED <<AccountDeposits, AccountEarned, governed>>
  BY DEF borrow
<1>2. P \in [Assets -> Pool] /\ P[a] \in Pool
  BY <1>1, AccrueEffect
<1>3. Cash(a) \in Nat /\ u \in Accounts \ {PalletAccount} /\ u \in Holders
  BY InvTypes, AccountFacts
<1>4. debt \in Nat /\ P[a].BorrowIndex \in Nat
  BY <1>2, <1>3, DebtNat
<1> HIDE DEF P, debt
<1>5. /\ q \in Pool /\ q.TotalSupply = P[a].TotalSupply /\ q.LastAccrued = P[a].LastAccrued
      /\ q.TotalBorrows = P[a].TotalBorrows + amount /\ q.TotalReserves = P[a].TotalReserves
      /\ P[a].TotalBorrows \in Nat /\ P[a].TotalReserves \in Nat
  BY <1>2 DEF Pool
<1>6. pools' = [P EXCEPT ![a] = q]
  BY <1>1, <1>2
<1> HIDE DEF q
<1>7. /\ balances' \in [Assets -> [Accounts -> Nat]]
      /\ \A c \in Assets : c # a => Cash(c)' = Cash(c)
      /\ Cash(a)' = Cash(a) - amount \/ (MayBeSwept(a) /\ Cash(a)' = 0)
  <2> DEFINE d == Transfer(balances, a, PalletAccount, u, amount)
  <2>1. /\ d \in [Assets -> [Accounts -> Nat]]
        /\ \A c \in Assets : c # a => d[c][PalletAccount] = Cash(c)
        /\ \/ d[a][PalletAccount] = Cash(a) - amount
           \/ MayBeSwept(a) /\ d[a][PalletAccount] = 0
    BY <1>1, <1>3, PayOut
  <2> HIDE DEF d
  <2>2. balances' = d
    BY <1>1 DEF d
  <2> QED BY <2>1, <2>2 DEF Cash
<1>8. Underlying(P[a], Cash(a)) <= Underlying(q, Cash(a)') \/ (MayBeSwept(a) /\ Cash(a)' = 0)
  BY <1>3, <1>5, <1>7 DEF Underlying
<1>9. BorrowSnapshot(debt + amount, P[a].BorrowIndex) \in [principal : Nat, borrow_index : Nat]
  <2>1. debt + amount \in Nat
    BY <1>4
  <2> QED BY <1>4, <2>1, SnapshotType
<1>10. /\ AccountBorrows' \in [Assets -> [Holders -> [principal : Nat, borrow_index : Nat]]]
       /\ AccountDeposits' \in [Assets -> [Holders -> Deposit_]]
       /\ \A c \in Assets : Vouchers(AccountDeposits'[c]) = Vouchers(AccountDeposits[c])
  BY <1>1, <1>3, <1>9 DEF LendInv, TypeOK
<1> QED BY <1>1, <1>5, <1>6, <1>7, <1>8, <1>10, ValueStep DEF P

LEMMA RepayStep ==
  ASSUME LendInv, NEW u \in Users, NEW a \in Assets, NEW amount \in Nat,
         repay(u, a, accrue_interest({a}), amount)
  PROVE  GoodStep
<1> DEFINE P == accrue_interest({a})
           total == repaid_total(P[a], amount)
           q == [P[a] EXCEPT !.TotalBorrows = total]
           debt == current_borrow_balance(P, u, a)
<1>1. /\ accrue_allowed({a}) /\ {a} \in SUBSET Assets /\ amount <= debt
      /\ CanTransfer(balances, a, u, PalletAccount, amount)
      /\ AccountBorrows' = [AccountBorrows EXCEPT ![a][u] =
                              BorrowSnapshot(debt - amount, P[a].BorrowIndex)]
      /\ pools' = [P EXCEPT ![a].TotalBorrows = total]
      /\ balances' = Transfer(balances, a, u, PalletAccount, amount)
      /\ UNCHANGED <<AccountDeposits, AccountEarned, governed>>
  BY DEF repay
<1>2. P \in [Assets -> Pool] /\ P[a] \in Pool
  BY <1>1, AccrueEffect
<1>3. Cash(a) \in Nat /\ u \in Accounts \ {PalletAccount} /\ u \in Holders
  BY InvTypes, AccountFacts
<1>4. debt \in Nat /\ P[a].BorrowIndex \in Nat
  BY <1>2, <1>3, DebtNat
<1> HIDE DEF P, debt
<1>5. P[a].TotalBorrows \in Nat /\ P[a].TotalReserves \in Nat
  BY <1>2 DEF Pool
<1>6. total \in Nat /\ P[a].TotalBorrows <= total + amount
  BY <1>5 DEF repaid_total, monus
<1> HIDE DEF total
<1>7. /\ q \in Pool /\ q.TotalSupply = P[a].TotalSupply /\ q.LastAccrued = P[a].LastAccrued
      /\ q.TotalBorrows = total /\ q.TotalReserves = P[a].TotalReserves
  BY <1>2, <1>6 DEF Pool
<1>8. pools' = [P EXCEPT ![a] = q]
  BY <1>1, <1>2
<1> HIDE DEF q
<1>9. /\ balances' \in [Assets -> [Accounts -> Nat]]
      /\ \A c \in Assets : c # a => Cash(c)' = Cash(c)
      /\ Cash(a)' = Cash(a) + amount
  BY <1>1, <1>3, PayIn
<1>10. Underlying(P[a], Cash(a)) <= Underlying(q, Cash(a)')
  BY <1>3, <1>5, <1>6, <1>7, <1>9 DEF Underlying
<1>11. BorrowSnapshot(debt - amount, P[a].BorrowIndex) \in [principal : Nat, borrow_index : Nat]
  <2>1. debt - amount \in Nat
    BY <1>1, <1>4
  <2> QED BY <1>4, <2>1, SnapshotType
<1>12. /\ AccountBorrows' \in [Assets -> [Holders -> [principal : Nat, borrow_index : Nat]]]
       /\ AccountDeposits' \in [Assets -> [Holders -> Deposit_]]
       /\ \A c \in Assets : Vouchers(AccountDeposits'[c]) = Vouchers(AccountDeposits[c])
  BY <1>1, <1>3, <1>11 DEF LendInv, TypeOK
<1> QED BY <1>1, <1>7, <1>8, <1>9, <1>10, <1>12, ValueStep DEF P

(* The part of the seized vouchers kept back is at most what was seized.   *)
LEMMA ReservedBound ==
  ASSUME NEW m \in Market, MarketOK(m), NEW seized \in Nat
  PROVE  LET reserved == mul_floor(m.liquidate_incentive_reserved_factor,
                                   div_int(seized, m.liquidate_incentive))
         IN reserved \in Nat /\ reserved <= seized
<1> DEFINE part == div_int(seized, m.liquidate_incentive)
<1>1. ONE \in Nat \ {0} /\ PARTS \in Nat \ {0}
  BY LendScaleAssumption
<1>2. /\ m.liquidate_incentive \in Nat \ {0} /\ ONE <= m.liquidate_incentive
      /\ m.liquidate_incentive_reserved_factor \in Nat
      /\ m.liquidate_incentive_reserved_factor <= PARTS
  BY <1>1 DEF MarketOK, Market, Ratio
<1>3. part \in Nat
  BY <1>2, DivIntNat
<1>4. part <= seized
  <2>1. ONE * seized <= m.liquidate_incentive * seized
    BY <1>1, <1>2, MulMonotone
  <2>2. seized * ONE \in Nat /\ seized * ONE <= seized * m.liquidate_incentive
    BY <1>1, <1>2, <2>1
  <2>3. (seized * ONE) \div m.liquidate_incentive <= seized
    BY <1>2, <2>2, DivAtMost
  <2> QED BY <2>3 DEF div_int
<1> HIDE DEF part
<1>5. /\ mul_floor(m.liquidate_incentive_reserved_factor, part) \in Nat
      /\ mul_floor(m.liquidate_incentive_reserved_factor, part) <= part
  BY <1>1, <1>2, <1>3, ShareBound DEF mul_floor
<1> QED BY <1>3, <1>4, <1>5 DEF part

LEMMA LiquidateStep ==
  ASSUME LendInv, NEW l \in Users, NEW b \in Users, NEW a \in Assets, NEW amount \in Nat,
         NEW c \in Assets, liquidate_borrow(l, b, a, amount, c)
  PROVE  GoodStep
<1> DEFINE P == accrue_interest({a, c})
           m == markets[a]
           rate == exchange_rate_of(P[c], Cash(c))
           liquidate_value == mul_int(m.liquidate_incentive, get_asset_value(a, amount))
           worth == div_int(liquidate_value, price[c])
           seized == calc_collateral_amount(worth, rate)
           reserved == mul_floor(m.liquidate_incentive_reserved_factor,
                                 div_int(seized, m.liquidate_incentive))
           debt == current_borrow_balance(P, b, a)
           old == AccountDeposits[c]
           left == [old EXCEPT ![b].voucher_balance = @ - seized]
           share == liquidator_share(seized, reserved)
           paid == AddVouchers(left, l, share)
           row == AddVouchers(paid, IncentiveAccount, reserved)
           q == [P[a] EXCEPT !.TotalBorrows = @ - amount]
<1>1. /\ accrue_allowed({a, c}) /\ {a, c} \in SUBSET Assets /\ c \in active_markets
      /\ liquidate_borrow_allowed(P, b, a, amount)
      /\ ensure_valid_exchange_rate(P[c], Cash(c))
      /\ CanTransfer(balances, a, l, PalletAccount, amount)
      /\ debt >= amount /\ P[a].TotalBorrows >= amount /\ old[b].voucher_balance >= seized
      /\ balances' = Transfer(balances, a, l, PalletAccount, amount)
      /\ AccountBorrows' = [AccountBorrows EXCEPT ![a][b] =
                              BorrowSnapshot(debt - amount, P[a].BorrowIndex)]
      /\ pools' = [P EXCEPT ![a].TotalBorrows = @ - amount]
      /\ AccountDeposits' = [AccountDeposits EXCEPT ![c] = row]
      /\ UNCHANGED <<AccountEarned, governed>>
  BY DEF liquidate_borrow, exchange_rate_stored
<1>2. P \in [Assets -> Pool] /\ P[a] \in Pool /\ P[c] \in Pool
  BY <1>1, AccrueEffect
<1>3. /\ Cash(a) \in Nat /\ Cash(c) \in Nat /\ m \in Market /\ MarketOK(m)
      /\ l \in Accounts \ {PalletAccount} /\ l \in Holders /\ b \in Holders
      /\ IncentiveAccount \in Holders
      /\ AccountDeposits \in [Assets -> [Holders -> Deposit_]] /\ old \in [Holders -> Deposit_]
      /\ price[a] \in Nat /\ price[c] \in Nat
  BY InvTypes, AccountFacts DEF LendInv, TypeOK
<1>4. price[c] # 0
  BY <1>1 DEF liquidate_borrow_allowed, positions_known
<1>5. debt \in Nat /\ P[a].BorrowIndex \in Nat
  BY <1>2, <1>3, DebtNat
<1> HIDE DEF P, debt, m, old
<1>6. liquidate_value \in Nat
  <2>1. m.liquidate_incentive \in Nat
    BY <1>3 DEF Market
  <2>2. get_asset_value(a, amount) \in Nat
    BY <1>3, FixedPointNat DEF get_asset_value
  <2> QED BY <2>1, <2>2, FixedPointNat
<1> HIDE DEF liquidate_value
<1>7. worth \in Nat
  BY <1>3, <1>4, <1>6, DivIntNat
<1> HIDE DEF worth
<1>8. seized \in Nat
  BY <1>1, <1>2, <1>3, <1>7, VouchersNat
<1> HIDE DEF seized, rate
<1>9. reserved \in Nat /\ reserved <= seized
  BY <1>3, <1>8, ReservedBound
<1> HIDE DEF reserved
<1>10. share \in Nat /\ share = seized - reserved
  BY <1>8, <1>9 DEF liquidator_share
<1> HIDE DEF share
<1>11. /\ left \in [Holders -> Deposit_] /\ Vouchers(left) = Vouchers(old) - seized
       /\ Vouchers(old) \in Nat
  <2>1. seized <= old[b].voucher_balance
    BY <1>1, <1>3, <1>8 DEF Deposit_
  <2> QED BY <1>3, <1>8, <2>1, SeizeEffect
<1> HIDE DEF left
<1>12. paid \in [Holders -> Deposit_] /\ Vouchers(paid) = Vouchers(left) + share
  BY <1>3, <1>10, <1>11, AddVouchersEffect, ZenonT(60)
<1> HIDE DEF paid
<1>13. row \in [Holders -> Deposit_] /\ Vouchers(row) = Vouchers(paid) + reserved
  BY <1>3, <1>9, <1>12, AddVouchersEffect
<1> HIDE DEF row
<1>14. Vouchers(row) = Vouchers(old)
  BY <1>8, <1>9, <1>10, <1>11, <1>12, <1>13
<1>15. /\ AccountDeposits' \in [Assets -> [Holders -> Deposit_]]
       /\ \A e \in Assets : Vouchers(AccountDeposits'[e]) = Vouchers(AccountDeposits[e])
  BY <1>1, <1>3, <1>13, <1>14 DEF old
<1>16. /\ q \in Pool /\ q.TotalSupply = P[a].TotalSupply /\ q.LastAccrued = P[a].LastAccrued
       /\ q.TotalBorrows = P[a].TotalBorrows - amount /\ q.TotalReserves = P[a].TotalReserves
       /\ P[a].TotalBorrows \in Nat /\ P[a].TotalReserves \in Nat
  <2>1. P[a].TotalBorrows \in Nat /\ P[a].TotalReserves \in Nat
    BY <1>2 DEF Pool
  <2>2. P[a].TotalBorrows - amount \in Nat
    BY <1>1, <2>1
  <2> QED BY <1>2, <2>1, <2>2 DEF Pool
<1>17. pools' = [P EXCEPT ![a] = q]
  BY <1>1, <1>2
<1> HIDE DEF q
<1>18. /\ balances' \in [Assets -> [Accounts -> Nat]]
       /\ \A e \in Assets : e # a => Cash(e)' = Cash(e)
       /\ Cash(a)' = Cash(a) + amount
  BY <1>1, <1>3, PayIn
<1>19. Underlying(P[a], Cash(a)) <= Underlying(q, Cash(a)')
  BY <1>3, <1>16, <1>18 DEF Underlying
<1>20. BorrowSnapshot(debt - amount, P[a].BorrowIndex) \in [principal : Nat, borrow_index : Nat]
  <2>1. debt - amount \in Nat
    BY <1>1, <1>5
  <2> QED BY <1>5, <2>1, SnapshotType
<1>21. AccountBorrows' \in [Assets -> [Holders -> [principal : Nat, borrow_index : Nat]]]
  BY <1>1, <1>3, <1>20 DEF LendInv, TypeOK
<1> QED BY <1>1, <1>15, <1>16, <1>17, <1>18, <1>19, <1>21, ValueStep, ZenonT(60) DEF P

LEMMA NoAccrual ==
  ASSUME LendInv
  PROVE  accrue_interest({}) = pools /\ accrue_allowed({}) /\ {} \in SUBSET Assets
BY InvTypes DEF accrue_interest, accrue_allowed

LEMMA AddReservesStep ==
  ASSUME LendInv, NEW a \in Assets, NEW amount \in Nat, add_reserves(TreasuryAccount, a, amount)
  PROVE  GoodStep
<1> DEFINE q == [pools[a] EXCEPT !.TotalReserves = @ + amount]
<1>1. /\ CanTransfer(balances, a, TreasuryAccount, PalletAccount, amount)
      /\ balances' = Transfer(balances, a, TreasuryAccount, PalletAccount, amount)
      /\ pools' = [pools EXCEPT ![a].TotalReserves = @ + amount]
      /\ UNCHANGED <<AccountDeposits, AccountBorrows, AccountEarned, governed>>
  BY DEF add_reserves
<1>2. /\ pools \in [Assets -> Pool] /\ pools[a] \in Pool /\ Cash(a) \in Nat
      /\ TreasuryAccount \in Accounts \ {PalletAccount}
  BY InvTypes, AccountFacts
<1>3. /\ q \in Pool /\ q.TotalSupply = pools[a].TotalSupply /\ q.LastAccrued = pools[a].LastAccrued
      /\ q.TotalBorrows = pools[a].TotalBorrows /\ q.TotalReserves = pools[a].TotalReserves + amount
      /\ pools[a].TotalBorrows \in Nat /\ pools[a].TotalReserves \in Nat
  BY <1>2 DEF Pool
<1>4. pools' = [pools EXCEPT ![a] = q]
  BY <1>1, <1>2
<1> HIDE DEF q
<1>5. /\ balances' \in [Assets -> [Accounts -> Nat]]
      /\ \A c \in Assets : c # a => Cash(c)' = Cash(c)
      /\ Cash(a)' = Cash(a) + amount
  BY <1>1, <1>2, PayIn
<1>6. Underlying(pools[a], Cash(a)) <= Underlying(q, Cash(a)')
  BY <1>2, <1>3, <1>5 DEF Underlying
<1>7. /\ AccountBorrows' \in [Assets -> [Holders -> [principal : Nat, borrow_index : Nat]]]
      /\ AccountDeposits' \in [Assets -> [Holders -> Deposit_]]
      /\ \A c \in Assets : Vouchers(AccountDeposits'[c]) = Vouchers(AccountDeposits[c])
  BY <1>1 DEF LendInv, TypeOK
<1> DEFINE S == {}
<1>8. accrue_interest(S) = pools
  BY NoAccrual
<1>9. accrue_allowed(S) /\ S \in SUBSET Assets
  BY NoAccrual
<1> HIDE DEF S
<1>10. /\ pools' = [accrue_interest(S) EXCEPT ![a] = q]
       /\ q.TotalSupply = accrue_interest(S)[a].TotalSupply
       /\ q.LastAccrued = accrue_interest(S)[a].LastAccrued
       /\ \/ Underlying(accrue_interest(S)[a], Cash(a)) <= Underlying(q, Cash(a)')
          \/ MayBeSwept(a) /\ Cash(a)' = 0
  BY <1>3, <1>4, <1>6, <1>8
<1> QED BY <1>1, <1>3, <1>5, <1>7, <1>9, <1>10, ValueStep, ZenonT(60)

LEMMA ReduceReservesStep ==
  ASSUME LendInv, NEW a \in Assets, NEW amount \in Nat, reduce_reserves(TreasuryAccount, a, amount)
  PROVE  GoodStep
<1> DEFINE q == [pools[a] EXCEPT !.TotalReserves = @ - amount]
<1>1. /\ CanTransfer(balances, a, PalletAccount, TreasuryAccount, amount)
      /\ balances' = Transfer(balances, a, PalletAccount, TreasuryAccount, amount)
      /\ amount <= pools[a].TotalReserves
      /\ pools' = [pools EXCEPT ![a].TotalReserves = @ - amount]
      /\ UNCHANGED <<AccountDeposits, AccountBorrows, AccountEarned, governed>>
  BY DEF reduce_reserves
<1>2. /\ pools \in [Assets -> Pool] /\ pools[a] \in Pool /\ Cash(a) \in Nat
      /\ TreasuryAccount \in Accounts \ {PalletAccount}
  BY InvTypes, AccountFacts
<1>3. /\ q \in Pool /\ q.TotalSupply = pools[a].TotalSupply /\ q.LastAccrued = pools[a].LastAccrued
      /\ q.TotalBorrows = pools[a].TotalBorrows /\ q.TotalReserves = pools[a].TotalReserves - amount
      /\ pools[a].TotalBorrows \in Nat /\ pools[a].TotalReserves \in Nat
  <2>1. pools[a].TotalBorrows \in Nat /\ pools[a].TotalReserves \in Nat
    BY <1>2 DEF Pool
  <2>2. pools[a].TotalReserves - amount \in Nat
    BY <1>1, <2>1
  <2> QED BY <1>2, <2>1, <2>2 DEF Pool
<1>4. pools' = [pools EXCEPT ![a] = q]
  BY <1>1, <1>2
<1> HIDE DEF q
<1>5. /\ balances' \in [Assets -> [Accounts -> Nat]]
      /\ \A c \in Assets : c # a => Cash(c)' = Cash(c)
      /\ Cash(a)' = Cash(a) - amount \/ (MayBeSwept(a) /\ Cash(a)' = 0)
  <2> DEFINE d == Transfer(balances, a, PalletAccount, TreasuryAccount, amount)
  <2>1. /\ d \in [Assets -> [Accounts -> Nat]]
        /\ \A c \in Assets : c # a => d[c][PalletAccount] = Cash(c)
        /\ \/ d[a][PalletAccount] = Cash(a) - amount
           \/ MayBeSwept(a) /\ d[a][PalletAccount] = 0
    BY <1>1, <1>2, PayOut
  <2> HIDE DEF d
  <2>2. balances' = d
    BY <1>1 DEF d
  <2> QED BY <2>1, <2>2 DEF Cash
<1>6. Underlying(pools[a], Cash(a)) <= Underlying(q, Cash(a)') \/ (MayBeSwept(a) /\ Cash(a)' = 0)
  BY <1>2, <1>3, <1>5 DEF Underlying
<1>7. /\ AccountBorrows' \in [Assets -> [Holders -> [principal : Nat, borrow_index : Nat]]]
      /\ AccountDeposits' \in [Assets -> [Holders -> Deposit_]]
      /\ \A c \in Assets : Vouchers(AccountDeposits'[c]) = Vouchers(AccountDeposits[c])
  BY <1>1 DEF LendInv, TypeOK
<1> DEFINE S == {}
<1>8. accrue_interest(S) = pools
  BY NoAccrual
<1>9. accrue_allowed(S) /\ S \in SUBSET Assets
  BY NoAccrual
<1> HIDE DEF S
<1>10. /\ pools' = [accrue_interest(S) EXCEPT ![a] = q]
       /\ q.TotalSupply = accrue_interest(S)[a].TotalSupply
       /\ q.LastAccrued = accrue_interest(S)[a].LastAccrued
       /\ \/ Underlying(accrue_interest(S)[a], Cash(a)) <= Underlying(q, Cash(a)')
          \/ MayBeSwept(a) /\ Cash(a)' = 0
  BY <1>3, <1>4, <1>6, <1>8
<1> QED BY <1>1, <1>3, <1>5, <1>7, <1>9, <1>10, ValueStep

-----------------------------------------------------------------------------
(* Governance, the oracle and time                                         *)

LEMMA GovernedStep ==
  ASSUME LendInv, UNCHANGED positions,
         markets' \in [Assets -> Market], \A a \in Assets : MarketOK(markets'[a]),
         LiquidationFreeCollaterals' \subseteq Assets, MarketBond' \in [Assets -> SUBSET Assets],
         price' \in [Assets -> Nat], now' \in 1..larger(1, MaxTime), changes' \in 0..MaxChanges
  PROVE  GoodStep
<1>1. LendInv'
  BY DEF LendInv, TypeOK, SupplyAgrees, MarketsOK, positions
<1>2. \A a \in Assets : KeepsRate(a)
  BY QuietRate DEF positions
<1> QED BY <1>1, <1>2 DEF GoodStep

LEMMA SetMarketStep ==
  ASSUME LendInv, NEW a \in Assets, NEW m \in Market, MarketOK(m), SetMarket(a, m)
  PROVE  GoodStep
<1>1. /\ markets' = [markets EXCEPT ![a] = m] /\ changes < MaxChanges /\ changes' = changes + 1
      /\ UNCHANGED <<positions, LiquidationFreeCollaterals, MarketBond, price, now>>
  BY DEF SetMarket
<1>2. markets' \in [Assets -> Market] /\ \A c \in Assets : MarketOK(markets'[c])
  BY <1>1 DEF LendInv, TypeOK, MarketsOK
<1>3. changes' \in 0..MaxChanges
  BY <1>1, LendMarketsAssumption DEF LendInv, TypeOK
<1> QED BY <1>1, <1>2, <1>3, GovernedStep DEF LendInv, TypeOK

LEMMA ChangeStep ==
  ASSUME LendInv, NEW a \in Assets, Change(a)
  PROVE  GoodStep
<1>1. /\ markets \in [Assets -> Market] /\ markets[a] \in Market /\ MarketOK(markets[a])
      /\ \A m \in MarketUpdates : /\ m \in Market /\ m.jump_utilization \in 1..(PARTS - 1)
                                  /\ m.liquidate_incentive >= ONE
  BY LendMarketsAssumption DEF LendInv, TypeOK, MarketsOK
<1>2. CASE activate_market(a)
  <2>1. /\ markets' = [markets EXCEPT ![a].state = "Active"]
        /\ UNCHANGED <<positions, LiquidationFreeCollaterals, MarketBond, price, now, changes>>
    BY <1>2 DEF activate_market
  <2> DEFINE m == [markets[a] EXCEPT !.state = "Active"]
  <2>2. m \in Market /\ MarketOK(m)
    BY <1>1 DEF Market, MarketStates, MarketOK, check_model
  <2>3. markets' = [markets EXCEPT ![a] = m]
    BY <1>1, <2>1
  <2> HIDE DEF m
  <2>4. markets' \in [Assets -> Market] /\ \A c \in Assets : MarketOK(markets'[c])
    BY <1>1, <2>2, <2>3 DEF LendInv, MarketsOK
  <2> QED BY <2>1, <2>4, GovernedStep DEF LendInv, TypeOK
<1>3. CASE \E m \in MarketUpdates : update_market(a, m)
  <2>1. PICK m \in MarketUpdates : update_market(a, m)
    BY <1>3
  <2> DEFINE n == [m EXCEPT !.state = markets[a].state,
                    !.base_rate = markets[a].base_rate, !.jump_rate = markets[a].jump_rate,
                    !.full_rate = markets[a].full_rate,
                    !.jump_utilization = markets[a].jump_utilization]
  <2>2. SetMarket(a, n)
    BY <2>1 DEF update_market
  <2>3. n \in Market
    BY <1>1 DEF Market
  <2>4. /\ n.base_rate = markets[a].base_rate /\ n.jump_rate = markets[a].jump_rate
        /\ n.full_rate = markets[a].full_rate
        /\ n.jump_utilization = markets[a].jump_utilization
        /\ n.liquidate_incentive = m.liquidate_incentive
    BY <1>1 DEF Market
  <2> HIDE DEF n
  <2>5. MarketOK(n)
    BY <1>1, <2>1, <2>4 DEF MarketOK, check_model
  <2> QED BY <2>2, <2>3, <2>5, SetMarketStep
<1>4. CASE \E m \in MarketUpdates : update_rate_model(a, m)
  <2>1. PICK m \in MarketUpdates : update_rate_model(a, m)
    BY <1>4
  <2> DEFINE n == [markets[a] EXCEPT !.base_rate = m.base_rate, !.jump_rate = m.jump_rate,
                    !.full_rate = m.full_rate, !.jump_utilization = m.jump_utilization]
  <2>2. SetMarket(a, n) /\ check_model(m)
    BY <2>1 DEF update_rate_model
  <2>3. n \in Market
    BY <1>1 DEF Market
  <2>4. /\ n.base_rate = m.base_rate /\ n.jump_rate = m.jump_rate /\ n.full_rate = m.full_rate
        /\ n.jump_utilization = m.jump_utilization
        /\ n.liquidate_incentive = markets[a].liquidate_incentive
    BY <1>1 DEF Market
  <2> HIDE DEF n
  <2>5. MarketOK(n)
    BY <1>1, <2>1, <2>2, <2>4 DEF MarketOK, check_model
  <2> QED BY <2>2, <2>3, <2>5, SetMarketStep
<1>5. CASE \E m \in MarketUpdates : force_update_market(a, m)
  BY <1>1, <1>5, SetMarketStep DEF force_update_market, MarketOK
<1>6. CASE \E S \in Bonds : add_market_bond(a, S)
  <2>1. PICK S \in Bonds : add_market_bond(a, S)
    BY <1>6
  <2>2. /\ changes < MaxChanges /\ changes' = changes + 1
        /\ MarketBond' = [MarketBond EXCEPT ![a] = S]
        /\ UNCHANGED <<positions, markets, LiquidationFreeCollaterals, price, now>>
    BY <2>1 DEF add_market_bond
  <2>3. MarketBond' \in [Assets -> SUBSET Assets] /\ changes' \in 0..MaxChanges
    BY <2>1, <2>2, LendMarketsAssumption DEF LendInv, TypeOK
  <2> QED BY <2>2, <2>3, GovernedStep DEF LendInv, TypeOK, MarketsOK
<1>7. CASE \E p \in Prices : feed_price(a, p)
  <2>1. PICK p \in Prices : feed_price(a, p)
    BY <1>7
  <2>2. /\ changes < MaxChanges /\ changes' = changes + 1 /\ price' = [price EXCEPT ![a] = p]
        /\ UNCHANGED <<positions, markets, LiquidationFreeCollaterals, MarketBond, now>>
    BY <2>1 DEF feed_price
  <2>3. price' \in [Assets -> Nat] /\ changes' \in 0..MaxChanges
    BY <2>1, <2>2, LendMarketsAssumption DEF LendInv, TypeOK
  <2> QED BY <2>2, <2>3, GovernedStep DEF LendInv, TypeOK, MarketsOK
<1> QED BY <1>2, <1>3, <1>4, <1>5, <1>6, <1>7 DEF Change

LEMMA FreeCollateralStep ==
  ASSUME LendInv, NEW S \in FreeCollaterals, update_liquidation_free_collateral(S)
  PROVE  GoodStep
<1>1. /\ changes < MaxChanges /\ changes' = changes + 1 /\ LiquidationFreeCollaterals' = S
      /\ UNCHANGED <<positions, markets, MarketBond, price, now>>
  BY DEF update_liquidation_free_collateral
<1>2. LiquidationFreeCollaterals' \subseteq Assets /\ changes' \in 0..MaxChanges
  BY <1>1, LendMarketsAssumption DEF LendInv, TypeOK
<1> QED BY <1>1, <1>2, GovernedStep DEF LendInv, TypeOK, MarketsOK

LEMMA TickStep ==
  ASSUME LendInv, NEW seconds \in Ticks, tick(seconds)
  PROVE  GoodStep
<1>1. /\ now + seconds <= MaxTime /\ now' = now + seconds
      /\ UNCHANGED <<positions, markets, LiquidationFreeCollaterals, MarketBond, price, changes>>
  BY DEF tick
<1>2. seconds \in Nat /\ MaxTime \in Nat /\ now \in Nat \ {0}
  BY InvTypes, LendMarketsAssumption
<1>3. now' \in 1..larger(1, MaxTime)
  BY <1>1, <1>2 DEF larger
<1> QED BY <1>1, <1>3, GovernedStep DEF LendInv, TypeOK, MarketsOK

-----------------------------------------------------------------------------
(* The theorems                                                            *)

LEMMA InitInv == Init => LendInv
<1> SUFFICES ASSUME Init PROVE LendInv
  OBVIOUS
<1>1. TypeOK
  <2>1. balances \in [Assets -> [Accounts -> Nat]] /\ markets \in [Assets -> Market]
    BY LendMarketsAssumption DEF Init
  <2>2. pools \in [Assets -> Pool]
    BY LendScaleAssumption DEF Init, Pool
  <2>3. /\ AccountDeposits \in [Assets -> [Holders -> Deposit_]]
        /\ AccountEarned \in [Assets -> [Holders -> Nat]]
    BY DEF Init, Deposit_, NoDeposit
  <2>4. AccountBorrows \in [Assets -> [Holders -> [principal : Nat, borrow_index : Nat]]]
    BY DEF Init, NoBorrow
  <2>5. /\ LiquidationFreeCollaterals \subseteq Assets
        /\ MarketBond \in [Assets -> SUBSET Assets] /\ price \in [Assets -> Nat]
    BY LendMarketsAssumption DEF Init
  <2>6. now \in 1..larger(1, MaxTime) /\ changes \in 0..MaxChanges
    BY LendMarketsAssumption DEF Init, larger
  <2> QED BY <2>1, <2>2, <2>3, <2>4, <2>5, <2>6 DEF TypeOK
<1>2. SupplyAgrees
  <2>1. SUFFICES ASSUME NEW a \in Assets
                 PROVE  pools[a].TotalSupply =
                          SumFunctionOnSet([u \in Holders |-> AccountDeposits[a][u].voucher_balance], Holders)
    BY DEF SupplyAgrees
  <2> DEFINE f == [u \in Holders |-> AccountDeposits[a][u].voucher_balance]
  <2>2. \A u \in Holders : f[u] = 0
    BY DEF Init, NoDeposit
  <2>3. pools[a].TotalSupply = 0
    BY DEF Init
  <2> HIDE DEF f
  <2>4. SumFunctionOnSet(f, Holders) = 0
    BY <2>2, HoldersFinite, SetSumZero
  <2> QED BY <2>3, <2>4 DEF f
<1>3. MarketsOK
  BY LendMarketsAssumption DEF Init, MarketsOK, MarketOK, ValidMarket
<1> QED BY <1>1, <1>2, <1>3 DEF LendInv

LEMMA NextStep == LendInv /\ Next => GoodStep
<1> SUFFICES ASSUME LendInv, Next PROVE GoodStep
  OBVIOUS
<1>1. /\ Mints \subseteq Nat /\ Redeems \subseteq Nat /\ Borrows \subseteq Nat
      /\ Repayments \subseteq Nat /\ Transfers \subseteq Nat /\ ReserveAmounts \subseteq Nat
      /\ Changed \subseteq Assets
  BY LendMarketsAssumption
<1>2. ASSUME NEW u \in Users, NEW a \in Assets, Call(u, a) PROVE GoodStep
  <2>1. CASE \E n \in Mints : mint(u, a, n)
    BY <1>1, <2>1, MintStep
  <2>2. CASE \E n \in Redeems : redeem(u, a, n)
    BY <1>1, <2>2, RedeemCallsStep
  <2>3. CASE \E n \in Borrows : borrow(u, a, n)
    BY <1>1, <2>3, BorrowStep
  <2>4. CASE \E n \in Transfers, d \in Users : transfer(u, d, a, n)
    BY <1>1, <2>4, TransferStep
  <2>5. CASE \E n \in Repayments : repay_borrow(u, a, n)
    BY <1>1, <2>5, RepayStep DEF repay_borrow
  <2>6. CASE \E n \in Repayments, b \in Users, c \in Assets : liquidate_borrow(u, b, a, n, c)
    BY <1>1, <2>6, LiquidateStep
  <2>7. CASE redeem_all(u, a)
    BY <2>7, RedeemCallsStep
  <2>8. CASE repay_borrow_all(u, a)
    <3> DEFINE P == accrue_interest({a})
    <3>1. repay(u, a, P, current_borrow_balance(P, u, a))
      BY <2>8 DEF repay_borrow_all
    <3>2. P \in [Assets -> Pool]
      BY <3>1, AccrueEffect DEF repay
    <3>3. current_borrow_balance(P, u, a) \in Nat
      BY <3>2, DebtNat, AccountFacts
    <3> QED BY <3>1, <3>3, RepayStep
  <2>9. CASE \E enable \in BOOLEAN : collateral_asset(u, a, enable)
    BY <2>9, CollateralStep
  <2> QED BY <1>2, <2>1, <2>2, <2>3, <2>4, <2>5, <2>6, <2>7, <2>8, <2>9 DEF Call
<1>3. ASSUME NEW a \in Assets, Reserves(a) PROVE GoodStep
  BY <1>1, <1>3, AddReservesStep, ReduceReservesStep, IncentiveStep DEF Reserves
<1>4. ASSUME NEW a \in Changed, Change(a) PROVE GoodStep
  BY <1>1, <1>4, ChangeStep
<1> QED BY <1>2, <1>3, <1>4, FreeCollateralStep, TickStep DEF Next

LEMMA InvAlways == Spec => []LendInv
<1>1. LendInv /\ UNCHANGED vars => LendInv'
  BY DEF LendInv, TypeOK, SupplyAgrees, MarketsOK, vars, governed
<1>2. LendInv /\ [Next]_vars => LendInv'
  BY <1>1, NextStep DEF GoodStep
<1> QED BY <1>2, InitInv, PTL DEF Spec

(* Every storage item keeps its type: no balance, total, debt or deposit   *)
(* is driven below zero, and interest is always a natural number.          *)
THEOREM TypeCorrect == Spec => []TypeOK
<1>1. LendInv => TypeOK
  BY DEF LendInv
<1> QED BY <1>1, InvAlways, PTL

(* Minting, redeeming, transfers of vouchers, to oneself too, and the      *)
(* split of a liquidation between liquidator and incentive account neither *)
(* create nor lose a voucher.                                              *)
THEOREM SupplyExact == Spec => []SupplyAgrees
<1>1. LendInv => SupplyAgrees
  BY DEF LendInv
<1> QED BY <1>1, InvAlways, PTL

(* accrue_interest, do_mint, do_redeem_voucher, the repayments, the        *)
(* liquidation and the reserves never lower what a voucher is worth, but   *)
(* for dust swept from the pallet's account.                               *)
THEOREM RateKeeps == Spec => RateNeverFalls
<1>1. LendInv /\ [Next]_vars => [\A a \in Assets : KeepsRate(a)]_vars
  BY NextStep DEF GoodStep
<1> QED BY <1>1, InvAlways, PTL DEF Spec, RateNeverFalls

-----------------------------------------------------------------------------
(* Borrowing leaves a covered position                                     *)

(* Values of positions are integers, debts and their values naturals.      *)
LEMMA IntMulDiv ==
  ASSUME NEW x \in Int, NEW y \in Int, NEW n \in Nat \ {0}
  PROVE  (x * y) \div n \in Int
<1>1. x * y \in Int
  OBVIOUS
<1> QED BY <1>1, IntDivMonotone

LEMMA ValueTypes ==
  ASSUME LendInv, NEW P \in [Assets -> Pool], NEW u \in Users, NEW c \in Assets
  PROVE  /\ collateral_asset_value(P, u, c) \in Int
         /\ borrowed_value(P, u, c) \in Nat
<1>1. /\ P[c] \in Pool /\ Cash(c) \in Nat /\ u \in Holders
      /\ price[c] \in Nat /\ markets[c].collateral_factor \in Nat
      /\ AccountDeposits[c][u].voucher_balance \in Nat
      /\ ONE \in Nat \ {0} /\ PARTS \in Nat \ {0}
  BY InvTypes, AccountFacts, LendScaleAssumption DEF LendInv, TypeOK, Market, Deposit_, Ratio
<1>2. exchange_rate_stored(P, c) \in Int
  BY <1>1, ExchangeRateType DEF exchange_rate_stored
<1>3. borrowed_value(P, u, c) \in Nat
  BY <1>1, DebtNat, FixedPointNat DEF borrowed_value, get_asset_value
<1> DEFINE n == calc_underlying_amount(AccountDeposits[c][u].voucher_balance,
                                       exchange_rate_stored(P, c))
           m == mul_ceil(markets[c].collateral_factor, n)
<1>4. n \in Int
  <2>1. n = (exchange_rate_stored(P, c) * AccountDeposits[c][u].voucher_balance) \div ONE
    BY DEF calc_underlying_amount, mul_int
  <2>2. AccountDeposits[c][u].voucher_balance \in Int
    BY <1>1
  <2> QED BY <1>1, <1>2, <2>1, <2>2, IntMulDiv
<1> HIDE DEF n
<1>5. m \in Int
  <2>1. markets[c].collateral_factor * n + PARTS - 1 \in Int
    BY <1>1, <1>4
  <2> QED BY <1>1, <2>1, IntDivMonotone DEF mul_ceil
<1> HIDE DEF m
<1>6. collateral_asset_value(P, u, c) = get_asset_value(c, IF pledged(u, c) THEN m ELSE 0)
  BY DEF collateral_asset_value, pledged_value, m, n
<1>7. (IF pledged(u, c) THEN m ELSE 0) \in Int
  BY <1>5
<1>8. collateral_asset_value(P, u, c) \in Int
  BY <1>1, <1>6, <1>7, IntMulDiv DEF get_asset_value, mul_int
<1> QED BY <1>3, <1>8

(* The value of a sum is at most one unit more than the sum of the values. *)
LEMMA ValueOfSum ==
  ASSUME NEW r \in Nat, NEW x \in Nat, NEW y \in Nat
  PROVE  mul_int(r, x + y) <= mul_int(r, x) + mul_int(r, y) + 1
<1> DEFINE p == (r * x) \div ONE
           q == (r * y) \div ONE
           s == (r * (x + y)) \div ONE
<1>1. ONE \in Nat \ {0} /\ r * x \in Nat /\ r * y \in Nat /\ r * (x + y) \in Nat
  BY LendScaleAssumption
<1>2. r * (x + y) = r * x + r * y
  OBVIOUS
<1>3. /\ p \in Nat /\ r * x < p * ONE + ONE
      /\ q \in Nat /\ r * y < q * ONE + ONE
      /\ s \in Nat /\ s * ONE <= r * (x + y)
  BY <1>1, DivBound
<1> HIDE DEF p, q, s
<1>4. /\ p * ONE \in Nat /\ q * ONE \in Nat /\ s * ONE \in Nat
      /\ (p + q + 1) * ONE = p * ONE + q * ONE + ONE
  BY <1>1, <1>3
<1>5. ASSUME p + q + 1 < s PROVE FALSE
  <2>1. (p + q + 1) * ONE + ONE <= s * ONE
    BY <1>1, <1>3, <1>5, MulStrict
  <2> QED BY <1>1, <1>2, <1>3, <1>4, <2>1
<1>6. s <= p + q + 1
  BY <1>3, <1>5
<1> QED BY <1>6 DEF mul_int, p, q, s

(* At the index it was taken at, a debt is worth its principal.            *)
LEMMA FreshDebt ==
  ASSUME NEW n \in Nat, NEW i \in Nat \ {0}
  PROVE  mul_int(div_int(i, i), n) = n
<1>1. ONE \in Nat \ {0}
  BY LendScaleAssumption
<1>2. div_int(i, i) = ONE
  <2>1. i * ONE = ONE * i /\ (ONE * i) \div i = ONE
    BY <1>1
  <2> QED BY <2>1 DEF div_int
<1>3. (ONE * n) = n * ONE /\ (n * ONE) \div ONE = n
  BY <1>1
<1> QED BY <1>2, <1>3 DEF mul_int

(* A borrow as far as positions go: vouchers keep their worth, unless dust *)
(* is swept, and the debt grows by the amount.                             *)
LEMMA BorrowEffect ==
  ASSUME LendInv, NEW u \in Users, NEW a \in Assets, NEW amount \in Nat, borrow(u, a, amount)
  PROVE  LET P == accrue_interest({a})
         IN /\ P \in [Assets -> Pool]
            /\ balances'[a][u] = balances[a][u] + amount
            /\ \/ MayBeSwept(a) /\ Cash(a)' < Cash(a) - amount
               \/ \A c \in Assets : exchange_rate_stored(P, c) = exchange_rate_stored(pools, c)'
            /\ \A c \in Assets : c # a => current_borrow_balance(pools, u, c)'
                                            = current_borrow_balance(P, u, c)
            /\ current_borrow_balance(pools, u, a)' \in Nat
            /\ current_borrow_balance(pools, u, a)' <= current_borrow_balance(P, u, a) + amount
<1> DEFINE P == accrue_interest({a})
           debt == current_borrow_balance(P, u, a)
           d == Transfer(balances, a, PalletAccount, u, amount)
<1>1. /\ accrue_allowed({a}) /\ {a} \in SUBSET Assets
      /\ CanTransfer(balances, a, PalletAccount, u, amount)
      /\ ensure_enough_cash(P, a, amount)
      /\ AccountBorrows' = [AccountBorrows EXCEPT ![a][u] =
                              BorrowSnapshot(debt + amount, P[a].BorrowIndex)]
      /\ pools' = [P EXCEPT ![a].TotalBorrows = @ + amount]
      /\ balances' = d
  BY DEF borrow
<1>2. P \in [Assets -> Pool] /\ P[a] \in Pool
  BY <1>1, AccrueEffect
<1>3. /\ Cash(a) \in Nat /\ u \in Accounts \ {PalletAccount} /\ u \in Holders /\ u \in Accounts
      /\ PalletAccount \in Accounts /\ TreasuryAccount \in Accounts
      /\ u \notin {PalletAccount, TreasuryAccount}
      /\ balances \in [Assets -> [Accounts -> Nat]]
  BY InvTypes, AccountFacts, LendAccountsAssumption DEF LendInv, TypeOK
<1>4. debt \in Nat /\ P[a].BorrowIndex \in Nat /\ P[a].TotalReserves \in Nat
      /\ P[a].TotalBorrows \in Nat
  BY <1>2, <1>3, DebtNat DEF Pool
<1>5. amount <= Cash(a)
  BY <1>1, <1>3, <1>4 DEF ensure_enough_cash
<1> HIDE DEF P, debt
<1>6. d[a][u] = balances[a][u] + amount
  BY <1>1, <1>3, TransferEffect
<1>7. /\ \A c \in Assets : c # a => d[c][PalletAccount] = Cash(c)
      /\ \/ d[a][PalletAccount] = Cash(a) - amount
         \/ MayBeSwept(a) /\ d[a][PalletAccount] = 0
  BY <1>1, <1>3, PayOut
<1> HIDE DEF d
<1>8. /\ \A c \in Assets : c # a => Cash(c)' = Cash(c)
      /\ Cash(a)' = Cash(a) - amount \/ (MayBeSwept(a) /\ Cash(a)' < Cash(a) - amount)
  <2>1. \A c \in Assets : Cash(c)' = d[c][PalletAccount]
    BY <1>1 DEF Cash
  <2> QED BY <1>3, <1>5, <1>7, <2>1
<1>9. /\ \A c \in Assets : c # a => pools'[c] = P[c]
      /\ pools'[a].BorrowIndex = P[a].BorrowIndex
      /\ pools'[a].TotalSupply = P[a].TotalSupply
      /\ pools'[a].TotalBorrows = P[a].TotalBorrows + amount
      /\ pools'[a].TotalReserves = P[a].TotalReserves
  BY <1>1, <1>2 DEF Pool
<1>10. ASSUME Cash(a)' = Cash(a) - amount, NEW c \in Assets
       PROVE  exchange_rate_of(P[c], Cash(c)) = exchange_rate_of(pools'[c], Cash(c)')
  <2>1. CASE c # a
    BY <1>8, <1>9, <2>1
  <2>2. CASE c = a
    <3>1. Underlying(P[a], Cash(a)) = Underlying(pools'[a], Cash(a)')
      BY <1>3, <1>4, <1>9, <1>10 DEF Underlying
    <3> QED BY <1>9, <2>2, <3>1 DEF exchange_rate_of
  <2> QED BY <2>1, <2>2
<1>11. ASSUME NEW c \in Assets, c # a
       PROVE  current_borrow_balance(pools, u, c)' = current_borrow_balance(P, u, c)
  <2>1. AccountBorrows'[c] = AccountBorrows[c]
    BY <1>1, <1>11 DEF LendInv, TypeOK
  <2> QED BY <1>9, <1>11, <2>1 DEF current_borrow_balance
<1>12. /\ current_borrow_balance(pools, u, a)' \in Nat
       /\ current_borrow_balance(pools, u, a)' <= debt + amount
  <2> DEFINE snapshot == AccountBorrows'[a][u]
  <2>1. snapshot = BorrowSnapshot(debt + amount, P[a].BorrowIndex)
    BY <1>1, <1>3 DEF LendInv, TypeOK
  <2> HIDE DEF snapshot
  <2>2. debt + amount \in Nat
    BY <1>4
  <2>3. CASE debt + amount = 0 \/ P[a].BorrowIndex = 0
    <3>1. snapshot.principal = 0 \/ snapshot.borrow_index = 0
      BY <2>1, <2>3 DEF BorrowSnapshot, NoBorrow
    <3>2. current_borrow_balance(pools, u, a)' = 0
      BY <3>1 DEF current_borrow_balance, snapshot
    <3> QED BY <2>2, <3>2
  <2>4. CASE debt + amount # 0 /\ P[a].BorrowIndex # 0
    <3>1. snapshot.principal = debt + amount /\ snapshot.borrow_index = P[a].BorrowIndex
      BY <2>1, <2>4 DEF BorrowSnapshot
    <3>2. current_borrow_balance(pools, u, a)'
            = mul_int(div_int(P[a].BorrowIndex, P[a].BorrowIndex), debt + amount)
      BY <1>9, <2>4, <3>1 DEF current_borrow_balance, snapshot
    <3>3. current_borrow_balance(pools, u, a)' = debt + amount
      BY <1>4, <2>2, <2>4, <3>2, FreshDebt
    <3> QED BY <2>2, <3>3
  <2> QED BY <2>3, <2>4
<1>13. balances'[a][u] = balances[a][u] + amount
  BY <1>1, <1>6
<1>14. \/ MayBeSwept(a) /\ Cash(a)' < Cash(a) - amount
       \/ \A c \in Assets : exchange_rate_stored(P, c) = exchange_rate_stored(pools, c)'
  BY <1>8, <1>10 DEF exchange_rate_stored
<1> QED BY <1>2, <1>11, <1>12, <1>13, <1>14 DEF P, debt

(* The exchange rates of the pools P are those after the step.             *)
RatesKept(P) == \A c \in Assets : exchange_rate_stored(P, c) = exchange_rate_stored(pools, c)'

(* The amounts and values of a borrower's positions before and after.      *)
LEMMA BorrowValues ==
  ASSUME LendInv, NEW u \in Users, NEW a \in Assets, NEW amount \in Nat, borrow(u, a, amount),
         RatesKept(accrue_interest({a})), NEW c \in Assets
  PROVE  LET P == accrue_interest({a})
         IN /\ collateral_asset_value(P, u, c) \in Int /\ borrowed_value(P, u, c) \in Nat
            /\ collateral_asset_value(pools, u, c)' = collateral_asset_value(P, u, c)
            /\ c # a => borrowed_value(pools, u, c)' = borrowed_value(P, u, c)
            /\ borrowed_value(pools, u, a)' \in Nat
            /\ borrowed_value(pools, u, a)' <= borrowed_value(P, u, a) + get_asset_value(a, amount) + 1
            /\ get_asset_value(a, amount) \in Nat
<1> DEFINE P == accrue_interest({a})
<1>1. /\ P \in [Assets -> Pool]
      /\ c # a => current_borrow_balance(pools, u, c)' = current_borrow_balance(P, u, c)
      /\ current_borrow_balance(pools, u, a)' \in Nat
      /\ current_borrow_balance(pools, u, a)' <= current_borrow_balance(P, u, a) + amount
  BY BorrowEffect
<1>0. RatesKept(P)
  OBVIOUS
<1> HIDE DEF P
<1>2. UNCHANGED <<AccountDeposits, markets, price>>
  BY DEF borrow, governed
<1>3. price[a] \in Nat /\ u \in Holders
  BY AccountFacts DEF LendInv, TypeOK
<1>4. current_borrow_balance(P, u, a) \in Nat
  BY <1>1, <1>3, DebtNat
<1>5. /\ collateral_asset_value(P, u, c) \in Int /\ borrowed_value(P, u, c) \in Nat
      /\ collateral_asset_value(pools, u, c)' = collateral_asset_value(P, u, c)
      /\ c # a => borrowed_value(pools, u, c)' = borrowed_value(P, u, c)
  <2>1. collateral_asset_value(pools, u, c)' = collateral_asset_value(P, u, c)
    BY <1>0, <1>2 DEF RatesKept, collateral_asset_value, pledged_value, get_asset_value, pledged
  <2>2. c # a => borrowed_value(pools, u, c)' = borrowed_value(P, u, c)
    BY <1>1, <1>2 DEF borrowed_value, get_asset_value
  <2> QED BY <1>1, <2>1, <2>2, ValueTypes
<1> DEFINE x == current_borrow_balance(P, u, a)
           y == current_borrow_balance(pools, u, a)'
<1>6. borrowed_value(pools, u, a)' = mul_int(price[a], y)
  BY <1>2 DEF borrowed_value, get_asset_value
<1>7. borrowed_value(P, u, a) = mul_int(price[a], x) /\ get_asset_value(a, amount) = mul_int(price[a], amount)
  BY DEF borrowed_value, get_asset_value
<1>8. x \in Nat /\ y \in Nat /\ y <= x + amount
  BY <1>1, <1>4
<1> HIDE DEF x, y
<1>9. mul_int(price[a], y) <= mul_int(price[a], x + amount)
  <2>1. y * price[a] <= (x + amount) * price[a] /\ y * price[a] \in Nat /\ (x + amount) * price[a] \in Nat
    BY <1>3, <1>8, MulMonotone
  <2>2. y * price[a] = price[a] * y /\ (x + amount) * price[a] = price[a] * (x + amount)
    BY <1>3, <1>8
  <2>3. (price[a] * y) \div ONE <= (price[a] * (x + amount)) \div ONE
    BY <2>1, <2>2, DivMonotone, LendScaleAssumption
  <2> QED BY <2>3 DEF mul_int
<1>10. mul_int(price[a], x + amount) <= mul_int(price[a], x) + mul_int(price[a], amount) + 1
  BY <1>3, <1>8, ValueOfSum
<1>11. /\ mul_int(price[a], y) \in Nat /\ mul_int(price[a], x + amount) \in Nat
       /\ mul_int(price[a], x) \in Nat /\ mul_int(price[a], amount) \in Nat
  <2>1. x + amount \in Nat
    BY <1>8
  <2> QED BY <1>3, <1>8, <2>1, FixedPointNat
<1>12. /\ borrowed_value(pools, u, a)' \in Nat /\ get_asset_value(a, amount) \in Nat
       /\ borrowed_value(pools, u, a)' <= borrowed_value(P, u, a) + get_asset_value(a, amount) + 1
  BY <1>6, <1>7, <1>9, <1>10, <1>11
<1> QED BY <1>5, <1>12 DEF P

(* The sums over markets that ensure_liquidity compares, and those of the  *)
(* state after the borrow.                                                 *)
LEMMA BorrowTotals ==
  ASSUME LendInv, NEW u \in Users, NEW a \in Assets, NEW amount \in Nat, borrow(u, a, amount),
         RatesKept(accrue_interest({a}))
  PROVE  LET P == accrue_interest({a}) IN
         /\ total_collateral_value(P, u) \in Int /\ get_lf_base_position(P, u) \in Int
         /\ bonded_value(P, u, a) \in Int /\ total_borrowed_value(P, u) \in Int
         /\ total_collateral_value(pools, u)' = total_collateral_value(P, u)
         /\ get_lf_base_position(pools, u)' = get_lf_base_position(P, u)
         /\ bonded_value(pools, u, a)' = bonded_value(P, u, a)
         /\ total_borrowed_value(pools, u)'
              = total_borrowed_value(P, u) + (borrowed_value(pools, u, a)' - borrowed_value(P, u, a))
<1> DEFINE P == accrue_interest({a})
           f == [c \in Assets |-> collateral_asset_value(P, u, c)]
           g == [c \in Assets |-> collateral_asset_value(pools, u, c)]'
           h == [c \in Assets |-> borrowed_value(P, u, c)]
           k == [c \in Assets |-> borrowed_value(pools, u, c)]'
<1>1. /\ \A c \in Assets :
           /\ collateral_asset_value(P, u, c) \in Int /\ borrowed_value(P, u, c) \in Nat
           /\ collateral_asset_value(pools, u, c)' = collateral_asset_value(P, u, c)
           /\ c # a => borrowed_value(pools, u, c)' = borrowed_value(P, u, c)
      /\ borrowed_value(pools, u, a)' \in Nat
  BY BorrowValues
<1>2. /\ \A c \in Assets : f[c] \in Int /\ h[c] \in Int /\ k[c] \in Int
      /\ f = g /\ h[a] = borrowed_value(P, u, a) /\ k[a] = borrowed_value(pools, u, a)'
      /\ \A c \in Assets : c # a => h[c] = k[c]
  BY <1>1
<1>3. /\ active_markets' = active_markets /\ lf_markets' = lf_markets /\ MarketBond' = MarketBond
      /\ a \in active_markets
  BY DEF borrow, governed, active_markets, lf_markets
<1>4. /\ active_markets \subseteq Assets /\ lf_markets \subseteq Assets /\ MarketBond[a] \subseteq Assets
      /\ IsFiniteSet(active_markets) /\ IsFiniteSet(lf_markets) /\ IsFiniteSet(MarketBond[a])
  <2>1. active_markets \subseteq Assets /\ lf_markets \subseteq Assets
    BY DEF active_markets, lf_markets
  <2>2. MarketBond[a] \subseteq Assets
    BY DEF LendInv, TypeOK
  <2> QED BY <2>1, <2>2, FS_Subset, LendAccountsAssumption
<1>5. /\ total_collateral_value(P, u) = SumFunctionOnSet(f, active_markets)
      /\ total_collateral_value(pools, u)' = SumFunctionOnSet(g, active_markets)
      /\ get_lf_base_position(P, u) = SumFunctionOnSet(f, lf_markets)
      /\ get_lf_base_position(pools, u)' = SumFunctionOnSet(g, lf_markets)
      /\ bonded_value(P, u, a) = SumFunctionOnSet(f, MarketBond[a])
      /\ bonded_value(pools, u, a)' = SumFunctionOnSet(g, MarketBond[a])
  BY <1>3 DEF total_collateral_value, get_lf_base_position, bonded_value
<1>6. /\ total_borrowed_value(P, u) = SumFunctionOnSet(h, active_markets)
      /\ total_borrowed_value(pools, u)' = SumFunctionOnSet(k, active_markets)
  BY <1>3 DEF total_borrowed_value
<1> HIDE DEF f, g, h, k
<1>7. /\ SumFunctionOnSet(f, active_markets) \in Int /\ SumFunctionOnSet(f, lf_markets) \in Int
      /\ SumFunctionOnSet(f, MarketBond[a]) \in Int /\ SumFunctionOnSet(h, active_markets) \in Int
  BY <1>2, <1>4, SetSumInt
<1>8. SumFunctionOnSet(k, active_markets) = SumFunctionOnSet(h, active_markets) + (k[a] - h[a])
  <2>1. \A c \in active_markets : h[c] \in Int /\ k[c] \in Int /\ (c # a => h[c] = k[c])
    BY <1>2, <1>4
  <2> QED BY <1>3, <1>4, <2>1, SetSumUpdate
<1> QED BY <1>2, <1>5, <1>6, <1>7, <1>8

(* The checks of borrow leave the borrower's debts backed.                 *)
LEMMA BorrowBacked ==
  ASSUME LendInv, NEW u \in Users, NEW a \in Assets, NEW amount \in Nat, borrow(u, a, amount),
         get_asset_value(a, amount) > 0
  PROVE  Backed(pools, u, a)' \/ (MayBeSwept(a) /\ Cash(a)' < Cash(a) - amount)
<1> DEFINE P == accrue_interest({a})
           C == total_collateral_value(P, u)
           B == total_borrowed_value(P, u)
           F == get_lf_base_position(P, u)
           D == get_lf_borrowed_value(P, u)
           bond == bonded_value(P, u, a)
           v == get_asset_value(a, amount)
           old == borrowed_value(P, u, a)
           new == borrowed_value(pools, u, a)'
<1> SUFFICES ASSUME ~(MayBeSwept(a) /\ Cash(a)' < Cash(a) - amount) PROVE Backed(pools, u, a)'
  OBVIOUS
<1>1. RatesKept(P)
  BY BorrowEffect DEF RatesKept
<1>2. /\ ensure_liquidity_for_market_bond(P, u, a, v)
      /\ ensure_liquidity(P, u, v, a = LiquidationFreeAssetId)
  BY DEF borrow
<1> HIDE DEF P
<1>3. /\ \A c \in Assets :
           /\ borrowed_value(P, u, c) \in Nat
           /\ c # a => borrowed_value(pools, u, c)' = borrowed_value(P, u, c)
      /\ new \in Nat /\ new <= old + v + 1 /\ v \in Nat /\ old \in Nat
  BY <1>1, BorrowValues DEF P
<1>4. /\ C \in Int /\ F \in Int /\ bond \in Int /\ B \in Int
      /\ total_collateral_value(pools, u)' = C
      /\ get_lf_base_position(pools, u)' = F
      /\ bonded_value(pools, u, a)' = bond
      /\ total_borrowed_value(pools, u)' = B + (new - old)
  BY <1>1, BorrowTotals DEF P
<1>5. LiquidationFreeAssetId \in Assets /\ D = borrowed_value(P, u, LiquidationFreeAssetId)
  BY LendMarketsAssumption DEF get_lf_borrowed_value
<1>6. D \in Nat
  BY <1>3, <1>5
<1>7. bond >= old + v
  BY <1>2 DEF ensure_liquidity_for_market_bond
<1>8. v > 0
  OBVIOUS
<1>9. IF a = LiquidationFreeAssetId
      THEN larger(monus(C, B), monus(F, D)) >= v
      ELSE monus(C, B) >= monus(F, D) + v
  BY <1>2 DEF ensure_liquidity, get_account_liquidity, get_lf_liquidity
<1> DEFINE D2 == get_lf_borrowed_value(pools, u)'
<1>10. /\ a = LiquidationFreeAssetId => D2 = new /\ D = old
       /\ a # LiquidationFreeAssetId => D2 = D
  BY <1>3, <1>5 DEF get_lf_borrowed_value
<1> HIDE DEF C, B, F, D, bond, v, old, new, D2
<1>11. bond + 1 >= new
  BY <1>3, <1>4, <1>7
<1>12. ASSUME a = LiquidationFreeAssetId
       PROVE  F + 1 >= D2 \/ C + 1 >= B + (new - old)
  <2>1. monus(C, B) >= v \/ monus(F, D) >= v
    BY <1>9, <1>12 DEF larger
  <2>2. CASE monus(C, B) >= v
    BY <1>3, <1>4, <1>8, <2>2 DEF monus
  <2>3. CASE monus(F, D) >= v
    BY <1>3, <1>4, <1>6, <1>8, <1>10, <1>12, <2>3 DEF monus
  <2> QED BY <2>1, <2>2, <2>3
<1>13. ASSUME a # LiquidationFreeAssetId
       PROVE  (C - F) + 1 >= (B + (new - old)) - D2 + monus(D2, F)
  <2>1. monus(C, B) >= monus(F, D) + v /\ D2 = D
    BY <1>9, <1>10, <1>13
  <2> QED BY <1>3, <1>4, <1>6, <1>8, <2>1 DEF monus
<1>14. (bonded_value(pools, u, a))' + 1 >= borrowed_value(pools, u, a)'
  BY <1>4, <1>11 DEF new
<1> QED BY <1>4, <1>12, <1>13, <1>14 DEF Backed, Covered, Covers, D2, monus

(* Something an account did not receive has no value.                      *)
LEMMA NoValue ==
  ASSUME LendInv, NEW a \in Assets, NEW n \in Int, get_asset_value(a, n) > 0
  PROVE  n > 0
<1>1. price[a] \in Nat /\ ONE \in Nat \ {0}
  BY LendScaleAssumption DEF LendInv, TypeOK
<1>2. ASSUME n <= 0 PROVE FALSE
  <2>1. price[a] * n <= 0 /\ price[a] * n \in Int
    BY <1>1, <1>2
  <2>2. (price[a] * n) \div ONE <= 0 \div ONE /\ (price[a] * n) \div ONE \in Int
    BY <1>1, <2>1, IntDivMonotone
  <2>3. 0 \div ONE = 0
    BY <1>1
  <2> QED BY <2>2, <2>3 DEF get_asset_value, mul_int
<1> QED BY <1>2

(* Repaying never pays the account whose debt it changes.                  *)
LEMMA RepayerPays ==
  ASSUME LendInv, NEW r \in Users, NEW a \in Assets, NEW n \in Nat,
         CanTransfer(balances, a, r, PalletAccount, n),
         balances' = Transfer(balances, a, r, PalletAccount, n), NEW u \in Users
  PROVE  balances'[a][u] <= balances[a][u] /\ balances'[a][u] \in Nat /\ balances[a][u] \in Nat
<1>1. /\ balances \in [Assets -> [Accounts -> Nat]] /\ PalletAccount \in Accounts
      /\ TreasuryAccount \in Accounts /\ r \in Accounts /\ u \in Accounts
      /\ r \notin {PalletAccount, TreasuryAccount} /\ u \notin {PalletAccount, TreasuryAccount}
      /\ ED[a] \in Nat
  BY AccountFacts, LendAccountsAssumption, LendMarketsAssumption DEF LendInv, TypeOK
<1> DEFINE d == Transfer(balances, a, r, PalletAccount, n)
<1>2. d \in [Assets -> [Accounts -> Nat]] /\ (u # r => d[a][u] = balances[a][u])
  <2>1. d \in [Assets -> [Accounts -> Nat]]
    BY <1>1, TransferEffect
  <2>2. \A x \in Accounts \ {r, PalletAccount, TreasuryAccount} : d[a][x] = balances[a][x]
    BY <1>1, TransferEffect, SMTT(60)
  <2> HIDE DEF d
  <2> QED BY <1>1, <2>1, <2>2
<1>3. d[a][r] = balances[a][r] - n \/ d[a][r] = 0
  BY <1>1, TransferLeaves
<1> HIDE DEF d
<1>4. balances' = d
  BY DEF d
<1> QED BY <1>1, <1>2, <1>3, <1>4

(* The calls that leave every debt alone.                                  *)
LEMMA DebtsUntouched ==
  ASSUME NEW v \in Users, NEW b \in Assets,
         \/ \E n \in Mints : mint(v, b, n)
         \/ \E n \in Redeems : redeem(v, b, n)
         \/ \E n \in Transfers, d \in Users : transfer(v, d, b, n)
         \/ redeem_all(v, b)
         \/ \E enable \in BOOLEAN : collateral_asset(v, b, enable)
  PROVE  AccountBorrows' = AccountBorrows
BY DEF mint, redeem, redeem_all, redeem_vouchers, transfer, collateral_asset

LEMMA OthersUntouched ==
  ASSUME \/ \E b \in Assets : Reserves(b)
         \/ \E b \in Changed : Change(b)
         \/ \E S \in FreeCollaterals : update_liquidation_free_collateral(S)
         \/ \E seconds \in Ticks : tick(seconds)
         \/ UNCHANGED vars
  PROVE  AccountBorrows' = AccountBorrows
<1>1. ASSUME NEW b \in Assets, Reserves(b) PROVE AccountBorrows' = AccountBorrows
  BY <1>1 DEF Reserves, add_reserves, reduce_reserves, reduce_incentive_reserves
<1>2. ASSUME NEW b \in Changed, Change(b) PROVE AccountBorrows' = AccountBorrows
  BY <1>2 DEF Change, activate_market, update_market, update_rate_model, force_update_market,
              SetMarket, add_market_bond, feed_price, positions
<1>3. ASSUME NEW S \in FreeCollaterals, update_liquidation_free_collateral(S)
      PROVE  AccountBorrows' = AccountBorrows
  BY <1>3 DEF update_liquidation_free_collateral, positions
<1>4. ASSUME NEW seconds \in Ticks, tick(seconds) PROVE AccountBorrows' = AccountBorrows
  BY <1>4 DEF tick, positions
<1>5. ASSUME UNCHANGED vars PROVE AccountBorrows' = AccountBorrows
  BY <1>5 DEF vars
<1> QED BY <1>1, <1>2, <1>3, <1>4, <1>5

(* Only a borrow pays an account and changes its debt.                     *)
LEMMA OnlyBorrowPays ==
  ASSUME LendInv, [Next]_vars, NEW u \in Users, NEW a \in Assets,
         balances'[a][u] > balances[a][u], AccountBorrows'[a][u] # AccountBorrows[a][u]
  PROVE  \E n \in Borrows : borrow(u, a, n)
<1>0. /\ AccountBorrows' # AccountBorrows /\ u \in Holders
      /\ Repayments \subseteq Nat
  BY AccountFacts, LendMarketsAssumption
<1>1. ASSUME NEW v \in Users, NEW b \in Assets, Call(v, b)
      PROVE  \E n \in Borrows : borrow(u, a, n)
  <2>1. ASSUME NEW n \in Borrows, borrow(v, b, n) PROVE v = u /\ b = a
    <3>1. \A x, y : (x # b \/ y # v) /\ x \in Assets /\ y \in Holders
             => AccountBorrows'[x][y] = AccountBorrows[x][y]
      BY <2>1 DEF borrow, LendInv, TypeOK
    <3> QED BY <1>0, <3>1
  <2>2. ASSUME NEW P, NEW n \in Nat, repay(v, b, P, n) PROVE FALSE
    <3>1. \A x, y : (x # b \/ y # v) /\ x \in Assets /\ y \in Holders
             => AccountBorrows'[x][y] = AccountBorrows[x][y]
      BY <2>2 DEF repay, LendInv, TypeOK
    <3>2. b = a /\ v = u
      BY <1>0, <3>1
    <3>3. CanTransfer(balances, a, u, PalletAccount, n)
          /\ balances' = Transfer(balances, a, u, PalletAccount, n)
      BY <2>2, <3>2 DEF repay
    <3> QED BY <3>3, RepayerPays
  <2>3. ASSUME NEW n \in Repayments, repay_borrow(v, b, n) PROVE FALSE
    BY <1>0, <2>2, <2>3 DEF repay_borrow
  <2>4. ASSUME repay_borrow_all(v, b) PROVE FALSE
    <3> DEFINE P == accrue_interest({b})
    <3>1. repay(v, b, P, current_borrow_balance(P, v, b))
      BY <2>4 DEF repay_borrow_all
    <3>2. P \in [Assets -> Pool]
      BY <3>1, AccrueEffect DEF repay
    <3>3. current_borrow_balance(P, v, b) \in Nat
      BY <3>2, DebtNat, AccountFacts
    <3> HIDE DEF P
    <3> QED BY <2>2, <3>1, <3>3
  <2>5. ASSUME NEW n \in Repayments, NEW w \in Users, NEW c \in Assets,
               liquidate_borrow(v, w, b, n, c)
        PROVE  FALSE
    <3>1. \A x, y : (x # b \/ y # w) /\ x \in Assets /\ y \in Holders
             => AccountBorrows'[x][y] = AccountBorrows[x][y]
      BY <2>5 DEF liquidate_borrow, LendInv, TypeOK
    <3>2. b = a
      BY <1>0, <3>1
    <3>3. CanTransfer(balances, a, v, PalletAccount, n)
          /\ balances' = Transfer(balances, a, v, PalletAccount, n)
      BY <2>5, <3>2 DEF liquidate_borrow
    <3> QED BY <1>0, <3>3, RepayerPays
  <2> QED BY <1>0, <1>1, <2>1, <2>3, <2>4, <2>5, DebtsUntouched DEF Call
<1> QED BY <1>0, <1>1, OthersUntouched DEF Next

(* A borrow worth anything leaves its borrower's debts backed: the bonded  *)
(* collateral backs the asset's debt, and liquidation-free collateral      *)
(* never backs another asset.  Interest, rounding and the stored rates of  *)
(* the other markets are all counted.                                      *)
THEOREM BorrowsAreCovered == Spec => BorrowCovered
<1> DEFINE A == \A u \in Users, a \in Assets :
       LET received == balances'[a][u] - balances[a][u]
       IN /\ get_asset_value(a, received) > 0
          /\ AccountBorrows'[a][u] # AccountBorrows[a][u]
          => Backed(pools, u, a)' \/ (MayBeSwept(a) /\ Cash(a)' < Cash(a) - received)
<1>1. LendInv /\ LendInv' /\ [Next]_vars => [A]_vars
  <2> SUFFICES ASSUME LendInv, LendInv', [Next]_vars, NEW u \in Users, NEW a \in Assets,
                      get_asset_value(a, balances'[a][u] - balances[a][u]) > 0,
                      AccountBorrows'[a][u] # AccountBorrows[a][u]
               PROVE  \/ Backed(pools, u, a)'
                      \/ MayBeSwept(a) /\ Cash(a)' < Cash(a) - (balances'[a][u] - balances[a][u])
    OBVIOUS
  <2>1. balances[a][u] \in Nat /\ balances'[a][u] \in Nat
    BY AccountFacts DEF LendInv, TypeOK
  <2>2. balances'[a][u] > balances[a][u]
    <3> DEFINE n == balances'[a][u] - balances[a][u]
    <3>1. n \in Int /\ get_asset_value(a, n) > 0
      BY <2>1
    <3> HIDE DEF n
    <3>2. n > 0
      BY <3>1, NoValue
    <3> QED BY <2>1, <3>2 DEF n
  <2>3. PICK amount \in Borrows : borrow(u, a, amount)
    BY <2>2, OnlyBorrowPays
  <2>4. amount \in Nat
    BY <2>3, LendMarketsAssumption
  <2>5. balances'[a][u] = balances[a][u] + amount
    BY <2>3, <2>4, BorrowEffect
  <2>6. balances'[a][u] - balances[a][u] = amount
    BY <2>1, <2>4, <2>5
  <2> QED BY <2>3, <2>4, <2>6, BorrowBacked
<1>2. Spec => []LendInv
  BY InvAlways
<1> QED BY <1>1, <1>2, PTL DEF Spec, BorrowCovered
=============================================================================
