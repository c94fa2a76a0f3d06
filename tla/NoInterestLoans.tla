--------------------------- MODULE NoInterestLoans ---------------------------
(***************************************************************************)
(* The no-interest-loans pallet (src/pallets/no-interest-loans/src/lib.rs).*)
(*                                                                         *)
(* A borrower locks vToken collateral in the pallet's account, is paid a   *)
(* loan out of that account, and gets the collateral back by repaying the  *)
(* amount borrowed.  Staking rewards are credited to the active loans and  *)
(* paid when a loan is repaid or liquidated.                               *)
(*                                                                         *)
(* Every extrinsic runs in a storage layer: it either completes or leaves  *)
(* no trace.  An action is therefore the successful extrinsic, with every  *)
(* early return of the code as a conjunct of its guard; a rejected call is *)
(* a stuttering step.                                                      *)
(***************************************************************************)
EXTENDS Integers, Sequences, NatSums, MultiCurrency

CONSTANTS
  Users,            \* accounts that sign extrinsics
  PalletAccount,    \* Pallet::account_id()
  VTokens,          \* CurrencyId::VToken*, VSToken*: the valid collateral
  OtherCurrencies,  \* every other CurrencyId
  LoanCurrencies,   \* the currencies borrowers ask for
  MaxBalance,       \* u128::MAX
  MaxLoanId,        \* LoanId::MAX (u64 in the runtime)
  MaxUserLoans,     \* the bound of a UserLoans vector (ConstU32<100>)
  Permill,          \* parts of one in a Permill (1_000_000)
  FixedDiv,         \* FixedU128::DIV (10^18)
  LiquidationThreshold, StakingRewardFee,
  InitialBalances,  \* genesis balances
  CollateralAmounts, LoanAmounts,  \* bound: amounts passed to create_loan
  CycleRewards,     \* bound: amounts passed to distribute_cycle_rewards
  FundAmounts,      \* bound: amounts of a transfer into the pallet account
  PriceReports,     \* bound: raw FixedU128 prices of the oracle, or NoPrice
  NoPrice           \* get_price() = None

Currencies == VTokens \cup OtherCurrencies
Accounts == Users \cup {PalletAccount, TreasuryAccount}

ASSUME AccountsAssumption ==
  /\ PalletAccount \notin Users /\ TreasuryAccount \notin Users
  /\ PalletAccount # TreasuryAccount
ASSUME CurrencyAssumption ==
  /\ VTokens \cap OtherCurrencies = {}
  /\ LoanCurrencies \subseteq Currencies
ASSUME WidthAssumption ==
  /\ MaxBalance \in Nat /\ MaxLoanId \in Nat /\ MaxUserLoans \in Nat
  /\ Permill \in Nat \ {0} /\ FixedDiv \in Nat \ {0}
ASSUME ConfigAssumption ==
  /\ LiquidationThreshold \in 0..Permill
  /\ StakingRewardFee \in 0..Permill
ASSUME TokensAssumption ==
  /\ ED \in [Currencies -> Nat]
  /\ TreasuryAccount \in DustWhitelist /\ DustWhitelist \subseteq Accounts
  /\ InitialBalances \in [Currencies -> [Accounts -> 0..MaxBalance]]
ASSUME InputAssumption ==
  /\ CollateralAmounts \subseteq 0..MaxBalance /\ LoanAmounts \subseteq 0..MaxBalance
  /\ CycleRewards \subseteq 0..MaxBalance /\ FundAmounts \subseteq 0..MaxBalance
  /\ PriceReports \subseteq (0..MaxBalance) \cup {NoPrice}
  /\ NoPrice \notin Nat

VARIABLES
  Loans,        \* loan id -> LoanPosition
  UserLoans,    \* account -> its loan ids, oldest first
  NextLoanId,
  LoanRewards,  \* loan id -> rewards credited and not yet claimed
  balances,     \* currency -> account -> free balance (orml-tokens)
  prices        \* currency -> price reported by T::PriceProvider

vars == <<Loans, UserLoans, NextLoanId, LoanRewards, balances, prices>>

LoanStatus == {"Active", "Repaid", "Liquidated"}

\* created_at is written once and never read, so it is left out.
LoanPosition ==
  [borrower : Users,
   collateral_vtoken : VTokens, collateral_amount : 0..MaxBalance,
   loan_currency : Currencies, loan_amount : 0..MaxBalance,
   status : LoanStatus]

-----------------------------------------------------------------------------
(* Balance arithmetic (u128).                                              *)

Saturate(n) == IF n > MaxBalance THEN MaxBalance ELSE n

-----------------------------------------------------------------------------
(* LTV.                                                                    *)

is_valid_vtoken_collateral(currency_id) == currency_id \in VTokens

HasPrice(c) == prices[c] # NoPrice

\* FixedU128::checked_mul_int and FixedU128::reciprocal, both rounding down.
mul_int(price, n) == (price * n) \div FixedDiv
\* Mutant: the reciprocal rounds up.
reciprocalRoundedUp(price) == (FixedDiv * FixedDiv + price - 1) \div price

reciprocal(price) == (FixedDiv * FixedDiv) \div price

\* Mutant: multiplies by the price of the loan currency instead of dividing.
get_collateral_value_multiplied(c, amount, loan_currency) ==
  IF ~HasPrice(c) \/ ~HasPrice(loan_currency) THEN NoPrice
  ELSE mul_int(prices[loan_currency], mul_int(prices[c], amount))

\* get_collateral_value: NoPrice stands for an error result.
get_collateral_value(c, amount, loan_currency) ==
  IF ~HasPrice(c) \/ ~HasPrice(loan_currency) \/ prices[loan_currency] = 0
  THEN NoPrice
  ELSE LET usd == mul_int(prices[c], amount)
           value == mul_int(reciprocal(prices[loan_currency]), usd)
       IN IF usd > MaxBalance \/ value > MaxBalance THEN NoPrice ELSE value

\* Permill::from_rational: rounds down, and is one when q = 0 or p > q.
from_rational(p, q) == IF q = 0 \/ p > q THEN Permill ELSE (p * Permill) \div q

LoanValue(loan) ==
  get_collateral_value(loan.collateral_vtoken, loan.collateral_amount, loan.loan_currency)

calculate_ltv(loan) == from_rational(loan.loan_amount, LoanValue(loan))

\* Mutant: only repaid loans are refused.
IsNotRepaid(id) == Loans[id].status # "Repaid"

IsActive(id) == Loans[id].status = "Active"

is_liquidatable(id) ==
  /\ IsActive(id)
  /\ LoanValue(Loans[id]) # NoPrice
  /\ calculate_ltv(Loans[id]) >= LiquidationThreshold

-----------------------------------------------------------------------------
Init ==
  /\ Loans = [id \in {} |-> 0]
  /\ UserLoans = [u \in Users |-> <<>>]
  /\ NextLoanId = 0
  /\ LoanRewards = [id \in {} |-> 0]
  /\ balances = InitialBalances
  /\ prices \in [Currencies -> PriceReports]

\* The storage map f with key k set to v.
Put(f, k, v) == [x \in DOMAIN f \cup {k} |-> IF x = k THEN v ELSE f[x]]

\* Mutant: a new vector replaces the one the user already has.
PushUserLoanAlone(who, loan_id) == [UserLoans EXCEPT ![who] = <<loan_id>>]

PushUserLoan(who, loan_id) == [UserLoans EXCEPT ![who] = Append(@, loan_id)]

create_loan(who, vtoken_id, collateral_amount, loan_currency, loan_amount) ==
  LET loan_id == NextLoanId
      locked == Transfer(balances, vtoken_id, who, PalletAccount, collateral_amount)
  IN /\ is_valid_vtoken_collateral(vtoken_id)
     /\ CanTransfer(balances, vtoken_id, who, PalletAccount, collateral_amount)
     /\ Len(UserLoans[who]) < MaxUserLoans
     /\ loan_id + 1 <= MaxLoanId
     /\ CanTransfer(locked, loan_currency, PalletAccount, who, loan_amount)
     /\ Loans' = Put(Loans, loan_id,
                     [borrower |-> who,
                      collateral_vtoken |-> vtoken_id,
                      collateral_amount |-> collateral_amount,
                      loan_currency |-> loan_currency,
                      loan_amount |-> loan_amount,
                      status |-> "Active"])
     /\ LoanRewards' = Put(LoanRewards, loan_id, 0)
     /\ UserLoans' = PushUserLoan(who, loan_id)
     /\ NextLoanId' = loan_id + 1
     /\ balances' = Transfer(locked, loan_currency, PalletAccount, who, loan_amount)
     /\ UNCHANGED prices

\* claim_loan_rewards: the balances after the two payments, and when both
\* can be made.  With no rewards it returns before paying anything.
platform_share(rewards) == (rewards * StakingRewardFee) \div Permill

\* Mutant: the loanee is paid the platform's share as well.
PaidAllToLoanee(b, id) ==
  Transfer(b, Loans[id].collateral_vtoken, PalletAccount, Loans[id].borrower, LoanRewards[id])

PaidToLoanee(b, id) ==
  Transfer(b, Loans[id].collateral_vtoken, PalletAccount, Loans[id].borrower,
           LoanRewards[id] - platform_share(LoanRewards[id]))

CanClaim(b, id) ==
  LET v == Loans[id].collateral_vtoken
      share == platform_share(LoanRewards[id])
  IN /\ CanTransfer(b, v, PalletAccount, Loans[id].borrower, LoanRewards[id] - share)
     /\ CanTransfer(PaidToLoanee(b, id), v, PalletAccount, TreasuryAccount, share)

Claim(b, id) ==
  Transfer(PaidToLoanee(b, id), Loans[id].collateral_vtoken, PalletAccount,
           TreasuryAccount, platform_share(LoanRewards[id]))

\* The end of repay_loan and liquidate_loan: the collateral leaves for
\* receiver, the rewards have been claimed and the loan takes its last status.
Settle(b, id, receiver, status) ==
  LET loan == Loans[id]
  IN /\ CanTransfer(b, loan.collateral_vtoken, PalletAccount, receiver, loan.collateral_amount)
     /\ balances' = Transfer(b, loan.collateral_vtoken, PalletAccount, receiver,
                             loan.collateral_amount)
     /\ LoanRewards' = [LoanRewards EXCEPT ![id] = 0]
     /\ Loans' = [Loans EXCEPT ![id].status = status]
     /\ UNCHANGED <<UserLoans, NextLoanId, prices>>

repay_loan(who, id) ==
  LET loan == Loans[id]
      repaid == Transfer(balances, loan.loan_currency, who, PalletAccount, loan.loan_amount)
  IN /\ id \in DOMAIN Loans
     /\ loan.borrower = who
     /\ IsActive(id)
     /\ CanTransfer(balances, loan.loan_currency, who, PalletAccount, loan.loan_amount)
     /\ CanClaim(repaid, id)
     /\ Settle(Claim(repaid, id), id, who, "Repaid")

liquidate_loan(liquidator, id) ==
  LET loan == Loans[id]
      claimed == Claim(balances, id)
  IN /\ id \in DOMAIN Loans
     /\ IsActive(id)
     /\ is_liquidatable(id)
     /\ CanClaim(balances, id)
     /\ CanTransfer(claimed, loan.loan_currency, liquidator, PalletAccount, loan.loan_amount)
     /\ Settle(Transfer(claimed, loan.loan_currency, liquidator, PalletAccount,
                        loan.loan_amount),
               id, liquidator, "Liquidated")

-----------------------------------------------------------------------------
(* distribute_cycle_rewards: any origin, no transfer of tokens.            *)

\* Mutant: settled loans are not filtered out.
all_loans == DOMAIN Loans

active_loans == {id \in DOMAIN Loans : IsActive(id)}

\* What an active loan adds to total_asset_value.
AssetValue == [id \in Nat |->
  IF id \in active_loans
  THEN Saturate(Loans[id].collateral_amount + LoanRewards[id])
  ELSE 0]

\* Iterator::sum on u128 wraps around in a release build.
total_asset_value == SumTo(AssetValue, NextLoanId) % (MaxBalance + 1)

\* Mutant: each share rounds up.
loanee_rewards_rounded_up(cycle_rewards, id) ==
  (Saturate(cycle_rewards * Loans[id].collateral_amount) + total_asset_value - 1)
    \div total_asset_value

loanee_rewards(cycle_rewards, id) ==
  Saturate(cycle_rewards * Loans[id].collateral_amount) \div total_asset_value

\* With total_asset_value = 0 saturating_div panics and the call leaves no trace.
distribute_cycle_rewards(cycle_rewards) ==
  /\ active_loans # {}
  /\ total_asset_value # 0
  /\ LoanRewards' = [id \in DOMAIN LoanRewards |->
                       IF id \in active_loans
                       THEN Saturate(LoanRewards[id] + loanee_rewards(cycle_rewards, id))
                       ELSE LoanRewards[id]]
  /\ UNCHANGED <<Loans, UserLoans, NextLoanId, balances, prices>>

-----------------------------------------------------------------------------
(* The environment: the price oracle, and plain token transfers into the   *)
(* pallet account (nothing in the pallet brings the staking rewards in).   *)

PriceUpdate(c, price) ==
  /\ prices' = [prices EXCEPT ![c] = price]
  /\ UNCHANGED <<Loans, UserLoans, NextLoanId, LoanRewards, balances>>

Fund(who, c, amount) ==
  /\ CanTransfer(balances, c, who, PalletAccount, amount)
  /\ balances' = Transfer(balances, c, who, PalletAccount, amount)
  /\ UNCHANGED <<Loans, UserLoans, NextLoanId, LoanRewards, prices>>

-----------------------------------------------------------------------------
LoanCalls ==
  \/ \E who \in Users, v \in Currencies, c \in LoanCurrencies,
        collateral \in CollateralAmounts, amount \in LoanAmounts :
          create_loan(who, v, collateral, c, amount)
  \/ \E who \in Users, id \in DOMAIN Loans : repay_loan(who, id)
  \/ \E who \in Users, id \in DOMAIN Loans : liquidate_loan(who, id)

Environment ==
  \/ \E c \in Currencies, p \in PriceReports : PriceUpdate(c, p)
  \/ \E who \in Users, c \in Currencies, a \in FundAmounts : Fund(who, c, a)

Next ==
  \/ LoanCalls
  \/ \E r \in CycleRewards : distribute_cycle_rewards(r)
  \/ Environment

Spec == Init /\ [][Next]_vars

(* What the pallet owes in collateral vToken v: collateral to return and   *)
(* rewards to pay out.                                                     *)
OwedBy(v) == [id \in Nat |->
  IF id \in active_loans /\ Loans[id].collateral_vtoken = v
  THEN Loans[id].collateral_amount + LoanRewards[id]
  ELSE 0]

Owed(v) == SumTo(OwedBy(v), NextLoanId)

(* The code credits rewards without moving tokens, so that they can be     *)
(* paid rests on whoever calls distribute_cycle_rewards.  FundedSpec is    *)
(* the pallet under a careful caller: before crediting r, the pallet       *)
(* account holds r more of each locked vToken than it owes.                *)
Funded(r) ==
  /\ SumTo(AssetValue, NextLoanId) <= MaxBalance
  /\ \A id \in active_loans :
       LET v == Loans[id].collateral_vtoken
       IN balances[v][PalletAccount] >= Owed(v) + r

FundedNext ==
  \/ LoanCalls
  \/ \E r \in CycleRewards : Funded(r) /\ distribute_cycle_rewards(r)
  \/ Environment

FundedSpec == Init /\ [][FundedNext]_vars

-----------------------------------------------------------------------------
(* Every storage item holds values of its type, and the maps have exactly  *)
(* the keys below NextLoanId.                                              *)
TypeOK ==
  /\ NextLoanId \in 0..MaxLoanId
  /\ Loans \in [0..(NextLoanId - 1) -> LoanPosition]
  /\ LoanRewards \in [0..(NextLoanId - 1) -> 0..MaxBalance]
  /\ UserLoans \in [Users -> Seq(Nat)]
  /\ balances \in [Currencies -> [Accounts -> Nat]]
  /\ prices \in [Currencies -> PriceReports]

(* UserLoans is an exact index of Loans: a user's vector lists the loans   *)
(* the user borrowed, each once and oldest first, within its bound.        *)
UserLoansIndex ==
  \A u \in Users :
    /\ Len(UserLoans[u]) <= MaxUserLoans
    /\ {UserLoans[u][i] : i \in 1..Len(UserLoans[u])}
         = {id \in DOMAIN Loans : Loans[id].borrower = u}
    /\ \A i, j \in 1..Len(UserLoans[u]) : i < j => UserLoans[u][i] < UserLoans[u][j]

(* A loan that has been repaid or liquidated has no unclaimed rewards:     *)
(* claim_loan_rewards would refuse to pay them out.                        *)
SettledOweNothing ==
  \A id \in DOMAIN Loans : ~IsActive(id) => LoanRewards[id] = 0

(* The pallet account can pay every active loan's collateral and rewards.  *)
Solvency == \A v \in VTokens : balances[v][PalletAccount] >= Owed(v)

(* A borrower who has the amount borrowed can repay: repay_loan has no     *)
(* other way to fail.                                                      *)
Repayable ==
  \A id \in active_loans :
    LET loan == Loans[id]
        who == loan.borrower
        repaid == Transfer(balances, loan.loan_currency, who, PalletAccount, loan.loan_amount)
    IN CanTransfer(balances, loan.loan_currency, who, PalletAccount, loan.loan_amount)
         => /\ CanClaim(repaid, id)
            /\ CanTransfer(Claim(repaid, id), loan.collateral_vtoken, PalletAccount, who,
                           loan.collateral_amount)

(* Rounding in get_collateral_value and from_rational never shelters an    *)
(* unhealthy loan: once debt / value, computed exactly from the prices,    *)
(* reaches the threshold, is_liquidatable says so.                         *)
UnhealthyIsLiquidatable ==
  \A id \in active_loans :
    LET loan == Loans[id]
    IN /\ LoanValue(loan) # NoPrice
       /\ loan.loan_amount * prices[loan.loan_currency] * Permill
            >= LiquidationThreshold * loan.collateral_amount * prices[loan.collateral_vtoken]
       => is_liquidatable(id)

(* A loan's terms never change; an active loan may only become repaid or   *)
(* liquidated, and after that the record is frozen.                        *)
LoansOnlySettle ==
  [][\A id \in DOMAIN Loans :
       /\ id \in DOMAIN Loans'
       /\ \/ Loans'[id] = Loans[id]
          \/ /\ Loans[id].status = "Active"
             /\ Loans'[id].status # "Active"
             /\ Loans'[id] = [Loans[id] EXCEPT !.status = Loans'[id].status]]_vars

(* "Borrower repays EXACTLY what they borrowed": repaying moves precisely  *)
(* loan_amount out, collateral plus the loanee's rewards in, the platform  *)
(* share to the treasury, and touches no other user.  No existential       *)
(* deposits.                                                               *)
RepaidExactly ==
  [][\A id \in active_loans : Loans'[id].status = "Repaid" =>
       LET loan == Loans[id]
           share == platform_share(LoanRewards[id])
           Delta(c, a) == balances'[c][a] - balances[c][a]
           In(c, n) == IF c = loan.collateral_vtoken THEN n ELSE 0
           Out(c, n) == IF c = loan.loan_currency THEN n ELSE 0
       IN \A c \in Currencies :
            /\ Delta(c, loan.borrower)
                 = In(c, loan.collateral_amount + LoanRewards[id] - share)
                   - Out(c, loan.loan_amount)
            /\ Delta(c, TreasuryAccount) = In(c, share)
            /\ \A u \in Users \ {loan.borrower} : Delta(c, u) = 0]_vars

(* A price move in the borrower's favour (collateral up, loan currency     *)
(* down) never makes a healthy loan liquidatable.                          *)
GoodPricesKeepHealthy ==
  [][\A id \in active_loans :
       LET v == Loans[id].collateral_vtoken
           c == Loans[id].loan_currency
       IN /\ Loans'[id] = Loans[id]
          /\ LoanValue(Loans[id]) # NoPrice
          /\ HasPrice(v)' /\ HasPrice(c)'
          /\ prices'[v] >= prices[v] /\ prices'[c] <= prices[c]
          /\ is_liquidatable(id)'
          => is_liquidatable(id)]_vars
=============================================================================
