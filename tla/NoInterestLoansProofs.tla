------------------------ MODULE NoInterestLoansProofs ------------------------
(* Theorems about NoInterestLoans, for every value of its constants.       *)
EXTENDS NoInterestLoans, NatSumsProofs

Balances == [Currencies -> [Accounts -> Nat]]

(* Saturating arithmetic stays within a Balance.                           *)
LEMMA SaturateType ==
  ASSUME NEW n \in Nat
  PROVE  Saturate(n) \in 0..MaxBalance /\ Saturate(n) <= n
BY WidthAssumption DEF Saturate

(* A transfer that orml-tokens accepts leaves every balance a natural.     *)
LEMMA TransferType ==
  ASSUME NEW b \in Balances, NEW c \in Currencies, NEW from \in Accounts,
         NEW to \in Accounts, NEW amount \in Nat,
         CanTransfer(b, c, from, to, amount)
  PROVE  Transfer(b, c, from, to, amount) \in Balances
<1>1. CASE amount = 0
  BY <1>1 DEF Transfer
<1>2. CASE amount # 0
  <2> DEFINE left == b[c][from] - amount
             dust == Dust(c, from, left)
             debited == [b[c] EXCEPT ![from] = left - dust]
             row == Credit(Credit(debited, to, amount), TreasuryAccount, dust)
  <2>1. b[c] \in [Accounts -> Nat]
    BY DEF Balances
  <2>2. left \in Nat
    BY <1>2, <2>1 DEF CanTransfer
  <2>3. dust \in Nat /\ dust <= left
    BY <2>2 DEF Dust
  <2> HIDE DEF left, dust
  <2>4. TreasuryAccount \in Accounts
    BY DEF Accounts
  <2>5. row \in [Accounts -> Nat]
    BY <2>1, <2>2, <2>3, <2>4 DEF Credit
  <2>6. Transfer(b, c, from, to, amount) = [b EXCEPT ![c] = row]
    BY <1>2 DEF Transfer, left, dust
  <2> HIDE DEF row
  <2> QED BY <2>5, <2>6 DEF Balances
<1> QED BY <1>1, <1>2

(* The platform's share is part of the rewards.                            *)
LEMMA ShareType ==
  ASSUME NEW r \in Nat
  PROVE  platform_share(r) \in Nat /\ platform_share(r) <= r /\ r - platform_share(r) \in Nat
<1> DEFINE q == (r * StakingRewardFee) \div Permill
<1>1. r * StakingRewardFee \in Nat /\ r * StakingRewardFee <= r * Permill
  BY WidthAssumption, ConfigAssumption
<1>2. q \in Nat /\ q * Permill <= r * StakingRewardFee
  BY <1>1, DivBound, WidthAssumption
<1> HIDE DEF q
<1>3. q * Permill <= r * Permill
  BY <1>1, <1>2, WidthAssumption
<1>4. q <= r
  <2> SUFFICES ASSUME r + 1 <= q PROVE FALSE
    BY <1>2
  <2>1. (r + 1) * Permill <= q * Permill
    BY <1>2, WidthAssumption
  <2>2. (r + 1) * Permill = r * Permill + Permill
    BY WidthAssumption
  <2>3. r * Permill \in Nat /\ q * Permill \in Nat
    BY <1>2, WidthAssumption
  <2>4. \A x, y \in Nat : x <= y => ~ (y + Permill <= x)
    BY WidthAssumption
  <2> QED BY ONLY <1>3, <2>1, <2>2, <2>3, <2>4
<1> QED BY <1>2, <1>4 DEF platform_share, q

(* The facts about a stored loan that the type invariant gives.            *)
LEMMA LoanFacts ==
  ASSUME TypeOK, NEW id \in DOMAIN Loans
  PROVE  /\ id \in Nat /\ id < NextLoanId
         /\ Loans[id] \in LoanPosition
         /\ LoanRewards[id] \in 0..MaxBalance
         /\ Loans[id].borrower \in Users
         /\ Loans[id].borrower \in Accounts /\ Loans[id].borrower # PalletAccount
         /\ Loans[id].collateral_vtoken \in VTokens
         /\ Loans[id].collateral_vtoken \in Currencies
         /\ Loans[id].collateral_amount \in Nat
         /\ Loans[id].collateral_amount <= MaxBalance
         /\ Loans[id].loan_currency \in Currencies
         /\ Loans[id].loan_amount \in Nat
BY AccountsAssumption DEF TypeOK, LoanPosition, Currencies, Accounts

(* claim_loan_rewards keeps balances well typed.                           *)
LEMMA ClaimType ==
  ASSUME TypeOK, NEW id \in DOMAIN Loans, NEW b \in Balances, CanClaim(b, id)
  PROVE  PaidToLoanee(b, id) \in Balances /\ Claim(b, id) \in Balances
<1> DEFINE v == Loans[id].collateral_vtoken
           r == LoanRewards[id]
<1>1. r \in Nat /\ v \in Currencies /\ Loans[id].borrower \in Accounts
  BY LoanFacts
<1>2. platform_share(r) \in Nat /\ r - platform_share(r) \in Nat
  BY <1>1, ShareType
<1>3. PalletAccount \in Accounts /\ TreasuryAccount \in Accounts
  BY DEF Accounts
<1>4. PaidToLoanee(b, id) \in Balances
  BY <1>1, <1>2, <1>3, TransferType DEF CanClaim, PaidToLoanee
<1>5. Claim(b, id) \in Balances
  BY <1>1, <1>2, <1>3, <1>4, TransferType DEF CanClaim, Claim
<1> QED BY <1>4, <1>5

(* Settling a loan keeps the storage well typed.                           *)
LEMMA SettleType ==
  ASSUME TypeOK, NEW id \in DOMAIN Loans, NEW b \in Balances, NEW receiver \in Users,
         NEW status \in LoanStatus, Settle(b, id, receiver, status)
  PROVE  TypeOK'
<1>1. balances' \in Balances
  <2>1. receiver \in Accounts /\ PalletAccount \in Accounts
    BY DEF Accounts
  <2> QED BY <2>1, LoanFacts, TransferType DEF Settle
<1>2. Loans' \in [0..(NextLoanId - 1) -> LoanPosition]
  BY LoanFacts DEF Settle, TypeOK, LoanPosition
<1>3. LoanRewards' \in [0..(NextLoanId - 1) -> 0..MaxBalance]
  BY WidthAssumption DEF Settle, TypeOK
<1> QED BY <1>1, <1>2, <1>3 DEF Settle, TypeOK, Balances

(* create_loan keeps the storage well typed.                               *)
LEMMA CreateType ==
  ASSUME TypeOK, NEW who \in Users, NEW v \in Currencies, NEW c \in LoanCurrencies,
         NEW collateral \in CollateralAmounts, NEW amount \in LoanAmounts,
         create_loan(who, v, collateral, c, amount)
  PROVE  TypeOK'
<1> DEFINE locked == Transfer(balances, v, who, PalletAccount, collateral)
<1>1. /\ collateral \in Nat /\ amount \in Nat
      /\ collateral \in 0..MaxBalance /\ amount \in 0..MaxBalance /\ c \in Currencies
      /\ who \in Accounts /\ PalletAccount \in Accounts /\ v \in VTokens
  BY InputAssumption, CurrencyAssumption DEF Accounts, create_loan, is_valid_vtoken_collateral
<1>2. NextLoanId \in Nat /\ NextLoanId' = NextLoanId + 1 /\ NextLoanId + 1 <= MaxLoanId
  BY DEF TypeOK, create_loan
<1>3. locked \in Balances
  BY <1>1, TransferType DEF TypeOK, Balances, create_loan
<1> HIDE DEF locked
<1>4. balances' \in Balances
  BY <1>1, <1>3, TransferType DEF create_loan, locked
<1>5. Loans' \in [0..(NextLoanId' - 1) -> LoanPosition]
  <2> DEFINE loan == [borrower |-> who, collateral_vtoken |-> v,
                      collateral_amount |-> collateral, loan_currency |-> c,
                      loan_amount |-> amount, status |-> "Active"]
  <2>1. loan \in LoanPosition
    BY <1>1 DEF LoanPosition, LoanStatus
  <2> HIDE DEF loan
  <2>2. Loans' = Put(Loans, NextLoanId, loan)
    BY DEF create_loan, loan
  <2>3. 0..(NextLoanId' - 1) = 0..(NextLoanId - 1) \cup {NextLoanId}
    BY <1>2
  <2> QED BY <2>1, <2>2, <2>3 DEF Put, TypeOK
<1>6. LoanRewards' \in [0..(NextLoanId' - 1) -> 0..MaxBalance]
  <2>1. 0..(NextLoanId' - 1) = 0..(NextLoanId - 1) \cup {NextLoanId}
    BY <1>2
  <2> QED BY <2>1, WidthAssumption DEF Put, TypeOK, create_loan
<1>7. UserLoans' \in [Users -> Seq(Nat)]
  BY <1>2 DEF create_loan, PushUserLoan, TypeOK
<1> QED BY <1>2, <1>4, <1>5, <1>6, <1>7, WidthAssumption DEF TypeOK, Balances, create_loan

(* repay_loan keeps the storage well typed.                                *)
LEMMA RepayType ==
  ASSUME TypeOK, NEW who \in Users, NEW id \in DOMAIN Loans, repay_loan(who, id)
  PROVE  /\ Transfer(balances, Loans[id].loan_currency, who, PalletAccount, Loans[id].loan_amount)
              \in Balances
         /\ TypeOK'
<1> DEFINE repaid == Transfer(balances, Loans[id].loan_currency, who, PalletAccount,
                              Loans[id].loan_amount)
<1>1. who \in Accounts /\ PalletAccount \in Accounts /\ balances \in Balances
  BY DEF Accounts, TypeOK, Balances
<1>2. repaid \in Balances
  BY <1>1, LoanFacts, TransferType DEF repay_loan
<1>3. CanClaim(repaid, id) /\ Settle(Claim(repaid, id), id, who, "Repaid")
  BY DEF repay_loan
<1> HIDE DEF repaid
<1>4. Claim(repaid, id) \in Balances
  BY <1>2, <1>3, ClaimType
<1>5. TypeOK'
  BY <1>3, <1>4, SettleType DEF LoanStatus
<1> QED BY <1>2, <1>5 DEF repaid

(* liquidate_loan keeps the storage well typed.                            *)
LEMMA LiquidateType ==
  ASSUME TypeOK, NEW who \in Users, NEW id \in DOMAIN Loans, liquidate_loan(who, id)
  PROVE  /\ Claim(balances, id) \in Balances
         /\ Transfer(Claim(balances, id), Loans[id].loan_currency, who, PalletAccount,
                     Loans[id].loan_amount) \in Balances
         /\ TypeOK'
<1> DEFINE claimed == Claim(balances, id)
           paid == Transfer(claimed, Loans[id].loan_currency, who, PalletAccount,
                            Loans[id].loan_amount)
<1>1. who \in Accounts /\ PalletAccount \in Accounts /\ balances \in Balances
  BY DEF Accounts, TypeOK, Balances
<1>2. claimed \in Balances
  BY <1>1, ClaimType DEF liquidate_loan
<1>3. CanTransfer(claimed, Loans[id].loan_currency, who, PalletAccount, Loans[id].loan_amount)
  BY DEF liquidate_loan
<1>4. Settle(paid, id, who, "Liquidated")
  BY DEF liquidate_loan
<1> HIDE DEF claimed
<1>5. paid \in Balances
  BY <1>1, <1>2, <1>3, LoanFacts, TransferType
<1> HIDE DEF paid
<1>6. TypeOK'
  BY <1>4, <1>5, SettleType DEF LoanStatus
<1> QED BY <1>2, <1>5, <1>6 DEF claimed, paid

(* Each term of total_asset_value is a natural number.                     *)
LEMMA AssetValueType ==
  ASSUME TypeOK
  PROVE  AssetValue \in [Nat -> Nat] /\ total_asset_value \in Nat
<1>1. \A id \in active_loans : Saturate(Loans[id].collateral_amount + LoanRewards[id]) \in Nat
  <2> SUFFICES ASSUME NEW id \in active_loans
               PROVE  Saturate(Loans[id].collateral_amount + LoanRewards[id]) \in Nat
    OBVIOUS
  <2>1. Loans[id].collateral_amount \in Nat /\ LoanRewards[id] \in Nat
    BY LoanFacts DEF active_loans
  <2> QED BY <2>1, SaturateType
<1>2. AssetValue \in [Nat -> Nat]
  BY <1>1 DEF AssetValue
<1>3. SumTo(AssetValue, NextLoanId) \in Nat
  <2>1. NextLoanId \in Nat
    BY WidthAssumption DEF TypeOK
  <2> QED BY <1>2, <2>1, SumType
<1>4. total_asset_value \in Nat
  BY <1>3, WidthAssumption DEF total_asset_value
<1> QED BY <1>2, <1>4

(* What one loan is credited: at most its proportional part.               *)
LEMMA CreditType ==
  ASSUME TypeOK, NEW r \in Nat, NEW id \in active_loans, total_asset_value # 0
  PROVE  /\ loanee_rewards(r, id) \in Nat
         /\ loanee_rewards(r, id) * total_asset_value <= r * Loans[id].collateral_amount
<1>1. Loans[id].collateral_amount \in Nat
  BY LoanFacts DEF active_loans
<1>2. r * Loans[id].collateral_amount \in Nat
  BY <1>1
<1> DEFINE s == Saturate(r * Loans[id].collateral_amount)
<1>3. s \in Nat /\ s <= r * Loans[id].collateral_amount
  BY <1>2, SaturateType
<1>4. total_asset_value \in Nat \ {0}
  BY AssetValueType
<1> HIDE DEF s
<1>5. s \div total_asset_value \in Nat /\ (s \div total_asset_value) * total_asset_value <= s
  BY <1>3, <1>4, DivBound
<1>6. \A x, y, z \in Nat : x <= y /\ y <= z => x <= z
  OBVIOUS
<1>7. (s \div total_asset_value) * total_asset_value \in Nat
  BY <1>4, <1>5
<1>8. (s \div total_asset_value) * total_asset_value <= r * Loans[id].collateral_amount
  BY ONLY <1>2, <1>3, <1>5, <1>6, <1>7
<1> QED BY <1>5, <1>8 DEF loanee_rewards, s

(* distribute_cycle_rewards keeps the storage well typed.                  *)
LEMMA DistributeType ==
  ASSUME TypeOK, NEW r \in CycleRewards, distribute_cycle_rewards(r)
  PROVE  TypeOK'
<1>1. r \in Nat
  BY InputAssumption
<1>2. \A id \in active_loans : Saturate(LoanRewards[id] + loanee_rewards(r, id)) \in 0..MaxBalance
  <2> SUFFICES ASSUME NEW id \in active_loans
               PROVE  Saturate(LoanRewards[id] + loanee_rewards(r, id)) \in 0..MaxBalance
    OBVIOUS
  <2>1. LoanRewards[id] \in Nat
    BY LoanFacts DEF active_loans
  <2>2. loanee_rewards(r, id) \in Nat
    BY <1>1, CreditType DEF distribute_cycle_rewards
  <2> QED BY <2>1, <2>2, SaturateType
<1>3. LoanRewards' \in [0..(NextLoanId - 1) -> 0..MaxBalance]
  BY <1>2 DEF distribute_cycle_rewards, TypeOK
<1> QED BY <1>3 DEF distribute_cycle_rewards, TypeOK

(* A transfer into the pallet account keeps balances well typed.           *)
LEMMA FundType ==
  ASSUME TypeOK, NEW who \in Users, NEW c \in Currencies, NEW a \in FundAmounts,
         Fund(who, c, a)
  PROVE  TypeOK'
<1>1. a \in Nat /\ who \in Accounts /\ PalletAccount \in Accounts
  BY InputAssumption DEF Accounts
<1>2. balances' \in Balances
  BY <1>1, TransferType DEF Fund, TypeOK, Balances
<1> QED BY <1>2 DEF Fund, TypeOK, Balances

(* A price update keeps the storage well typed.                            *)
LEMMA PriceUpdateType ==
  ASSUME TypeOK, NEW c \in Currencies, NEW p \in PriceReports, PriceUpdate(c, p)
  PROVE  TypeOK'
BY DEF PriceUpdate, TypeOK

(* No step of the system breaks the type invariant.                        *)
LEMMA TypeOKStep == TypeOK /\ [Next]_vars => TypeOK'
<1> SUFFICES ASSUME TypeOK, [Next]_vars PROVE TypeOK'
  OBVIOUS
<1>1. ASSUME NEW who \in Users, NEW v \in Currencies, NEW c \in LoanCurrencies,
             NEW collateral \in CollateralAmounts, NEW amount \in LoanAmounts,
             create_loan(who, v, collateral, c, amount)
      PROVE  TypeOK'
  BY <1>1, CreateType
<1>2. ASSUME NEW who \in Users, NEW id \in DOMAIN Loans, repay_loan(who, id)
      PROVE  TypeOK'
  BY <1>2, RepayType
<1>3. ASSUME NEW who \in Users, NEW id \in DOMAIN Loans, liquidate_loan(who, id)
      PROVE  TypeOK'
  BY <1>3, LiquidateType
<1>4. ASSUME NEW r \in CycleRewards, distribute_cycle_rewards(r)
      PROVE  TypeOK'
  BY <1>4, DistributeType
<1>5. ASSUME NEW c \in Currencies, NEW p \in PriceReports, PriceUpdate(c, p)
      PROVE  TypeOK'
  BY <1>5, PriceUpdateType
<1>6. ASSUME NEW who \in Users, NEW c \in Currencies, NEW a \in FundAmounts, Fund(who, c, a)
      PROVE  TypeOK'
  BY <1>6, FundType
<1>7. CASE UNCHANGED vars
  BY <1>7 DEF vars, TypeOK
<1> QED BY <1>1, <1>2, <1>3, <1>4, <1>5, <1>6, <1>7 DEF Next, LoanCalls, Environment

(* Every storage item of the pallet keeps its type under every extrinsic   *)
(* and every environment step.                                             *)
THEOREM TypeCorrect == Spec => []TypeOK
<1>1. Init => TypeOK
  BY WidthAssumption, TokensAssumption DEF Init, TypeOK
<1> QED BY <1>1, TypeOKStep, PTL DEF Spec

-----------------------------------------------------------------------------
(* How each call changes the loan records and the rewards.                 *)
LEMMA CreateRecords ==
  ASSUME TypeOK, NEW who \in Users, NEW v \in Currencies, NEW c \in LoanCurrencies,
         NEW collateral \in CollateralAmounts, NEW amount \in LoanAmounts,
         create_loan(who, v, collateral, c, amount)
  PROVE  /\ NextLoanId \notin DOMAIN Loans
         /\ DOMAIN Loans' = DOMAIN Loans \cup {NextLoanId}
         /\ \A id \in DOMAIN Loans : Loans'[id] = Loans[id] /\ LoanRewards'[id] = LoanRewards[id]
         /\ Loans'[NextLoanId].borrower = who
         /\ Loans'[NextLoanId].collateral_vtoken = v
         /\ Loans'[NextLoanId].collateral_amount = collateral
         /\ Loans'[NextLoanId].status = "Active"
         /\ LoanRewards'[NextLoanId] = 0
<1>1. NextLoanId \notin DOMAIN Loans /\ DOMAIN LoanRewards = DOMAIN Loans
  BY WidthAssumption DEF TypeOK
<1> QED BY <1>1 DEF create_loan, Put

(* What settling a loan does to Loans and LoanRewards.                     *)
LEMMA SettleRecords ==
  ASSUME TypeOK, NEW id \in DOMAIN Loans, NEW b, NEW receiver, NEW status,
         Settle(b, id, receiver, status)
  PROVE  /\ DOMAIN Loans' = DOMAIN Loans
         /\ Loans'[id] = [Loans[id] EXCEPT !.status = status]
         /\ Loans'[id].status = status
         /\ Loans'[id].borrower = Loans[id].borrower
         /\ LoanRewards'[id] = 0
         /\ \A i \in DOMAIN Loans \ {id} : Loans'[i] = Loans[i] /\ LoanRewards'[i] = LoanRewards[i]
<1>1. DOMAIN LoanRewards = DOMAIN Loans /\ Loans[id] \in LoanPosition
  BY LoanFacts DEF TypeOK
<1> QED BY <1>1 DEF Settle, LoanPosition

(* Every step of the pallet is one of four kinds as far as the loan        *)
(* records go: a loan is created, one active loan is settled, rewards are  *)
(* credited, or records and rewards are left alone.                        *)
LEMMA StepKinds ==
  ASSUME TypeOK, [Next]_vars
  PROVE  \/ \E who \in Users, v \in Currencies, c \in LoanCurrencies,
              collateral \in CollateralAmounts, amount \in LoanAmounts :
                create_loan(who, v, collateral, c, amount)
         \/ \E id \in active_loans, who \in Users, status \in {"Repaid", "Liquidated"}, b \in Balances :
                Settle(b, id, who, status)
         \/ \E r \in CycleRewards : distribute_cycle_rewards(r)
         \/ UNCHANGED <<Loans, LoanRewards, UserLoans, NextLoanId>>
<1>1. ASSUME NEW who \in Users, NEW id \in DOMAIN Loans, repay_loan(who, id)
      PROVE  /\ id \in active_loans
             /\ \E b \in Balances : Settle(b, id, who, "Repaid")
  <2> DEFINE repaid == Transfer(balances, Loans[id].loan_currency, who, PalletAccount,
                                Loans[id].loan_amount)
  <2>1. repaid \in Balances /\ CanClaim(repaid, id) /\ Settle(Claim(repaid, id), id, who, "Repaid")
    BY <1>1, RepayType DEF repay_loan
  <2> HIDE DEF repaid
  <2>2. Claim(repaid, id) \in Balances
    BY <2>1, ClaimType
  <2> QED BY <1>1, <2>1, <2>2 DEF repay_loan, active_loans
<1>2. ASSUME NEW who \in Users, NEW id \in DOMAIN Loans, liquidate_loan(who, id)
      PROVE  /\ id \in active_loans
             /\ \E b \in Balances : Settle(b, id, who, "Liquidated")
  <2> DEFINE paid == Transfer(Claim(balances, id), Loans[id].loan_currency, who, PalletAccount,
                              Loans[id].loan_amount)
  <2>1. paid \in Balances /\ Settle(paid, id, who, "Liquidated")
    BY <1>2, LiquidateType DEF liquidate_loan
  <2> HIDE DEF paid
  <2> QED BY <1>2, <2>1 DEF liquidate_loan, active_loans
<1>3. ASSUME NEW c \in Currencies, NEW p \in PriceReports, PriceUpdate(c, p)
      PROVE  UNCHANGED <<Loans, LoanRewards, UserLoans, NextLoanId>>
  BY <1>3 DEF PriceUpdate
<1>4. ASSUME NEW who \in Users, NEW c \in Currencies, NEW a \in FundAmounts, Fund(who, c, a)
      PROVE  UNCHANGED <<Loans, LoanRewards, UserLoans, NextLoanId>>
  BY <1>4 DEF Fund
<1>5. CASE UNCHANGED vars
  BY <1>5 DEF vars
<1> QED BY <1>1, <1>2, <1>3, <1>4, <1>5 DEF Next, LoanCalls, Environment

-----------------------------------------------------------------------------
(* No step leaves a settled loan with unclaimed rewards.                   *)
LEMMA SettledStep == TypeOK /\ SettledOweNothing /\ [Next]_vars => SettledOweNothing'
<1> SUFFICES ASSUME TypeOK, SettledOweNothing, [Next]_vars,
                    NEW id \in DOMAIN Loans', ~IsActive(id)'
             PROVE  LoanRewards'[id] = 0
  BY DEF SettledOweNothing
<1>1. ASSUME NEW who \in Users, NEW v \in Currencies, NEW c \in LoanCurrencies,
             NEW collateral \in CollateralAmounts, NEW amount \in LoanAmounts,
             create_loan(who, v, collateral, c, amount)
      PROVE  LoanRewards'[id] = 0
  BY <1>1, CreateRecords DEF SettledOweNothing, IsActive
<1>2. ASSUME NEW i \in active_loans, NEW who \in Users, NEW b \in Balances,
             NEW status \in {"Repaid", "Liquidated"}, Settle(b, i, who, status)
      PROVE  LoanRewards'[id] = 0
  <2>1. i \in DOMAIN Loans
    BY DEF active_loans
  <2>2. CASE id = i
    BY <1>2, <2>1, <2>2, SettleRecords
  <2>3. CASE id # i
    <3>1. id \in DOMAIN Loans /\ Loans'[id] = Loans[id] /\ LoanRewards'[id] = LoanRewards[id]
      BY <1>2, <2>1, <2>3, SettleRecords
    <3> QED BY <3>1 DEF SettledOweNothing, IsActive
  <2> QED BY <2>2, <2>3
<1>3. ASSUME NEW r \in CycleRewards, distribute_cycle_rewards(r)
      PROVE  LoanRewards'[id] = 0
  <2>1. Loans' = Loans /\ id \in DOMAIN Loans /\ id \notin active_loans
    BY <1>3 DEF distribute_cycle_rewards, active_loans, IsActive
  <2>2. id \in DOMAIN LoanRewards
    BY <2>1 DEF TypeOK
  <2>3. LoanRewards'[id] = LoanRewards[id]
    BY <1>3, <2>1, <2>2 DEF distribute_cycle_rewards
  <2> QED BY <2>1, <2>3 DEF SettledOweNothing, active_loans
<1>4. CASE UNCHANGED <<Loans, LoanRewards, UserLoans, NextLoanId>>
  BY <1>4 DEF SettledOweNothing, IsActive
<1> QED BY <1>1, <1>2, <1>3, <1>4, StepKinds

(* No settled loan has rewards left unclaimed: nothing the pallet credits  *)
(* is stranded behind the Active check of claim_loan_rewards.              *)
THEOREM SettledLoansOweNothing == Spec => []SettledOweNothing
<1>1. Init => SettledOweNothing
  BY DEF Init, SettledOweNothing
<1> QED BY <1>1, TypeCorrect, SettledStep, PTL DEF Spec

(* A loan's terms are fixed when it is created, and it is settled at most  *)
(* once.                                                                   *)
THEOREM LoansSettleOnce == Spec => LoansOnlySettle
<1>1. ASSUME TypeOK, [Next]_vars
      PROVE  \A id \in DOMAIN Loans :
               /\ id \in DOMAIN Loans'
               /\ \/ Loans'[id] = Loans[id]
                  \/ /\ Loans[id].status = "Active"
                     /\ Loans'[id].status # "Active"
                     /\ Loans'[id] = [Loans[id] EXCEPT !.status = Loans'[id].status]
  <2> SUFFICES ASSUME NEW id \in DOMAIN Loans
               PROVE  /\ id \in DOMAIN Loans'
                      /\ \/ Loans'[id] = Loans[id]
                         \/ /\ Loans[id].status = "Active"
                            /\ Loans'[id].status # "Active"
                            /\ Loans'[id] = [Loans[id] EXCEPT !.status = Loans'[id].status]
    OBVIOUS
  <2>1. ASSUME NEW who \in Users, NEW v \in Currencies, NEW c \in LoanCurrencies,
               NEW collateral \in CollateralAmounts, NEW amount \in LoanAmounts,
               create_loan(who, v, collateral, c, amount)
        PROVE  id \in DOMAIN Loans' /\ Loans'[id] = Loans[id]
    BY <1>1, <2>1, CreateRecords
  <2>2. ASSUME NEW i \in active_loans, NEW who \in Users, NEW b \in Balances,
               NEW status \in {"Repaid", "Liquidated"}, Settle(b, i, who, status)
        PROVE  /\ id \in DOMAIN Loans'
               /\ \/ Loans'[id] = Loans[id]
                  \/ /\ Loans[id].status = "Active"
                     /\ Loans'[id].status # "Active"
                     /\ Loans'[id] = [Loans[id] EXCEPT !.status = Loans'[id].status]
    <3>1. i \in DOMAIN Loans /\ Loans[i].status = "Active"
      BY DEF active_loans, IsActive
    <3>2. CASE id = i
      <4>1. Loans'[i] = [Loans[i] EXCEPT !.status = status] /\ Loans'[i].status = status
        BY <1>1, <2>2, <3>1, SettleRecords
      <4> QED BY <1>1, <2>2, <3>1, <3>2, <4>1, SettleRecords
    <3>3. CASE id # i
      BY <1>1, <2>2, <3>1, <3>3, SettleRecords
    <3> QED BY <3>2, <3>3
  <2>3. ASSUME NEW r \in CycleRewards, distribute_cycle_rewards(r)
        PROVE  id \in DOMAIN Loans' /\ Loans'[id] = Loans[id]
    BY <2>3 DEF distribute_cycle_rewards
  <2>4. CASE UNCHANGED <<Loans, LoanRewards, UserLoans, NextLoanId>>
    BY <2>4
  <2> QED BY <1>1, <2>1, <2>2, <2>3, <2>4, StepKinds
<1> QED BY <1>1, TypeCorrect, PTL DEF Spec, LoansOnlySettle

-----------------------------------------------------------------------------
(* A new id is larger than every id a user's vector holds, which keeps     *)
(* the vector sorted and free of duplicates.                               *)
LEMMA IndexStep == TypeOK /\ UserLoansIndex /\ [Next]_vars => UserLoansIndex'
<1> SUFFICES ASSUME TypeOK, UserLoansIndex, [Next]_vars, NEW u \in Users
             PROVE  /\ Len(UserLoans'[u]) <= MaxUserLoans
                    /\ {UserLoans'[u][i] : i \in 1..Len(UserLoans'[u])}
                         = {id \in DOMAIN Loans' : Loans'[id].borrower = u}
                    /\ \A i, j \in 1..Len(UserLoans'[u]) :
                         i < j => UserLoans'[u][i] < UserLoans'[u][j]
  BY DEF UserLoansIndex
<1> DEFINE s == UserLoans[u]
           Mine == {id \in DOMAIN Loans : Loans[id].borrower = u}
<1>0. /\ s \in Seq(Nat) /\ Len(s) \in Nat /\ Len(s) <= MaxUserLoans
      /\ {s[i] : i \in 1..Len(s)} = Mine
      /\ \A i, j \in 1..Len(s) : i < j => s[i] < s[j]
  BY DEF TypeOK, UserLoansIndex
<1>1. ASSUME NEW who \in Users, NEW v \in Currencies, NEW c \in LoanCurrencies,
             NEW collateral \in CollateralAmounts, NEW amount \in LoanAmounts,
             create_loan(who, v, collateral, c, amount)
      PROVE  /\ Len(UserLoans'[u]) <= MaxUserLoans
             /\ {UserLoans'[u][i] : i \in 1..Len(UserLoans'[u])}
                  = {id \in DOMAIN Loans' : Loans'[id].borrower = u}
             /\ \A i, j \in 1..Len(UserLoans'[u]) :
                  i < j => UserLoans'[u][i] < UserLoans'[u][j]
  <2>1. /\ NextLoanId \notin DOMAIN Loans
        /\ DOMAIN Loans' = DOMAIN Loans \cup {NextLoanId}
        /\ \A id \in DOMAIN Loans : Loans'[id] = Loans[id]
        /\ Loans'[NextLoanId].borrower = who
    BY <1>1, CreateRecords
  <2>2. CASE u # who
    <3>1. UserLoans'[u] = s
      BY <1>1, <2>2 DEF create_loan, PushUserLoan, TypeOK
    <3>2. {id \in DOMAIN Loans' : Loans'[id].borrower = u} = Mine
      BY <2>1, <2>2
    <3> QED BY <1>0, <3>1, <3>2
  <2>3. CASE u = who
    <3> DEFINE t == Append(s, NextLoanId)
    <3>1. UserLoans'[u] = t /\ Len(s) < MaxUserLoans
      BY <1>1, <2>3 DEF create_loan, PushUserLoan, TypeOK
    <3>2. NextLoanId \in Nat /\ \A id \in DOMAIN Loans : id < NextLoanId
      BY LoanFacts, WidthAssumption DEF TypeOK
    <3>3. /\ Len(t) = Len(s) + 1
          /\ t[Len(s) + 1] = NextLoanId
          /\ \A i \in 1..Len(s) : t[i] = s[i]
      BY <1>0, <3>2
    <3> HIDE DEF t
    <3>4. \A i \in 1..Len(s) : s[i] \in Nat /\ s[i] < NextLoanId
      BY <1>0, <3>2
    <3>5. {t[i] : i \in 1..Len(t)} = Mine \cup {NextLoanId}
      <4>1. 1..Len(t) = 1..Len(s) \cup {Len(s) + 1}
        BY <1>0, <3>3
      <4>2. {t[i] : i \in 1..Len(t)} = {s[i] : i \in 1..Len(s)} \cup {NextLoanId}
        BY <3>3, <4>1
      <4> QED BY <1>0, <4>2
    <3>6. {id \in DOMAIN Loans' : Loans'[id].borrower = u} = Mine \cup {NextLoanId}
      BY <2>1, <2>3
    <3>7. \A i, j \in 1..Len(t) : i < j => t[i] < t[j]
      <4> SUFFICES ASSUME NEW i \in 1..Len(t), NEW j \in 1..Len(t), i < j
                   PROVE  t[i] < t[j]
        OBVIOUS
      <4>1. i \in 1..Len(s) /\ t[i] = s[i]
        BY <1>0, <3>3
      <4>2. CASE j = Len(s) + 1
        BY <3>3, <3>4, <4>1, <4>2
      <4>3. CASE j # Len(s) + 1
        <5>1. j \in 1..Len(s) /\ t[j] = s[j]
          BY <1>0, <3>3, <4>3
        <5> QED BY <1>0, <4>1, <5>1
      <4> QED BY <4>2, <4>3
    <3>8. Len(t) <= MaxUserLoans
      BY <1>0, <3>1, <3>3, WidthAssumption
    <3> QED BY <3>1, <3>5, <3>6, <3>7, <3>8
  <2> QED BY <2>2, <2>3
<1>2. ASSUME NEW k \in active_loans, NEW who \in Users, NEW b \in Balances,
             NEW status \in {"Repaid", "Liquidated"}, Settle(b, k, who, status)
      PROVE  UserLoans' = UserLoans /\ {id \in DOMAIN Loans' : Loans'[id].borrower = u} = Mine
  <2>1. k \in DOMAIN Loans
    BY DEF active_loans
  <2>2. DOMAIN Loans' = DOMAIN Loans /\ \A id \in DOMAIN Loans : Loans'[id].borrower = Loans[id].borrower
    BY <1>2, <2>1, SettleRecords
  <2> QED BY <1>2, <2>2 DEF Settle
<1>3. ASSUME NEW r \in CycleRewards, distribute_cycle_rewards(r)
      PROVE  UserLoans' = UserLoans /\ {id \in DOMAIN Loans' : Loans'[id].borrower = u} = Mine
  BY <1>3 DEF distribute_cycle_rewards
<1>4. CASE UNCHANGED <<Loans, LoanRewards, UserLoans, NextLoanId>>
  BY <1>0, <1>4
<1> QED BY <1>0, <1>1, <1>2, <1>3, <1>4, StepKinds

(* UserLoans is an exact index of Loans.                                   *)
THEOREM UserLoansExact == Spec => []UserLoansIndex
<1>1. Init => UserLoansIndex
  BY WidthAssumption DEF Init, UserLoansIndex
<1> QED BY <1>1, TypeCorrect, IndexStep, PTL DEF Spec

-----------------------------------------------------------------------------
(* The pallet can always pay what it owes, provided that whoever credits   *)
(* rewards has brought them in first (FundedSpec), that loans are not paid *)
(* out in a currency locked as collateral, and that the pallet account is  *)
(* exempt from dust removal.                                               *)

SolventSetting ==
  /\ LoanCurrencies \cap VTokens = {}
  /\ PalletAccount \in DustWhitelist

(* A funded step is a step of the pallet, so FundedSpec inherits TypeOK.   *)
LEMMA FundedIsNext == [FundedNext]_vars => [Next]_vars
BY DEF FundedNext, Next

(* What a transfer does to the pallet account.                             *)
LEMMA PalletOut ==
  ASSUME NEW b \in Balances, NEW c \in Currencies, NEW to \in Accounts \ {PalletAccount},
         NEW amount \in Nat, CanTransfer(b, c, PalletAccount, to, amount),
         PalletAccount \in DustWhitelist
  PROVE  /\ Transfer(b, c, PalletAccount, to, amount)[c][PalletAccount]
              = b[c][PalletAccount] - amount
         /\ \A d \in Currencies \ {c} : Transfer(b, c, PalletAccount, to, amount)[d] = b[d]
<1> PalletAccount \in Accounts /\ b[c] \in [Accounts -> Nat]
  BY DEF Accounts, Balances
<1>1. CASE amount = 0
  BY <1>1 DEF Transfer
<1>2. CASE amount # 0
  <2> DEFINE left == b[c][PalletAccount] - amount
             dust == Dust(c, PalletAccount, left)
             debited == [b[c] EXCEPT ![PalletAccount] = left - dust]
             row == Credit(Credit(debited, to, amount), TreasuryAccount, dust)
  <2>1. dust = 0 /\ left \in Nat
    BY <1>2 DEF Dust, CanTransfer
  <2>2. debited[PalletAccount] = left /\ DOMAIN debited = Accounts
    BY <2>1
  <2>3. Transfer(b, c, PalletAccount, to, amount) = [b EXCEPT ![c] = row]
    BY <1>2 DEF Transfer
  <2> HIDE DEF debited, dust
  <2>4. row[PalletAccount] = left
    BY <2>2, AccountsAssumption DEF Credit
  <2> HIDE DEF row
  <2> QED BY <2>3, <2>4 DEF Balances
<1> QED BY <1>1, <1>2

(* A payment into the pallet account adds the whole amount to it.          *)
LEMMA PalletIn ==
  ASSUME NEW b \in Balances, NEW c \in Currencies, NEW from \in Accounts \ {PalletAccount},
         NEW amount \in Nat, CanTransfer(b, c, from, PalletAccount, amount)
  PROVE  /\ Transfer(b, c, from, PalletAccount, amount)[c][PalletAccount]
              = b[c][PalletAccount] + amount
         /\ \A d \in Currencies \ {c} : Transfer(b, c, from, PalletAccount, amount)[d] = b[d]
<1> PalletAccount \in Accounts /\ b[c] \in [Accounts -> Nat]
  BY DEF Accounts, Balances
<1>1. CASE amount = 0
  BY <1>1 DEF Transfer
<1>2. CASE amount # 0
  <2> DEFINE left == b[c][from] - amount
             dust == Dust(c, from, left)
             debited == [b[c] EXCEPT ![from] = left - dust]
             row == Credit(Credit(debited, PalletAccount, amount), TreasuryAccount, dust)
  <2>1. debited[PalletAccount] = b[c][PalletAccount] /\ DOMAIN debited = Accounts
    OBVIOUS
  <2>2. Transfer(b, c, from, PalletAccount, amount) = [b EXCEPT ![c] = row]
    BY <1>2 DEF Transfer
  <2> HIDE DEF debited, left, dust
  <2>3. row[PalletAccount] = b[c][PalletAccount] + amount
    BY <2>1, AccountsAssumption DEF Credit
  <2> HIDE DEF row
  <2> QED BY <2>2, <2>3 DEF Balances
<1> QED BY <1>1, <1>2

(* What the pallet owes, loan by loan and in all, is a natural number.     *)
LEMMA OwedType ==
  ASSUME TypeOK, NEW v \in VTokens
  PROVE  /\ NextLoanId \in Nat
         /\ OwedBy(v) \in [Nat -> Nat]
         /\ Owed(v) \in Nat
<1>1. NextLoanId \in Nat
  BY WidthAssumption DEF TypeOK
<1>2. \A id \in active_loans : Loans[id].collateral_amount + LoanRewards[id] \in Nat
  <2> SUFFICES ASSUME NEW id \in active_loans
               PROVE  Loans[id].collateral_amount + LoanRewards[id] \in Nat
    OBVIOUS
  <2>1. Loans[id].collateral_amount \in Nat /\ LoanRewards[id] \in Nat
    BY LoanFacts DEF active_loans
  <2> QED BY <2>1
<1>3. OwedBy(v) \in [Nat -> Nat]
  BY <1>2 DEF OwedBy
<1>4. Owed(v) \in Nat
  BY <1>1, <1>3, SumType DEF Owed
<1> QED BY <1>1, <1>3, <1>4

(* The same for all vTokens ...                                            *)
LEMMA OwedByTyped == TypeOK => \A w \in VTokens : OwedBy(w) \in [Nat -> Nat]
BY OwedType

(* ... after a step ...                                                    *)
LEMMA OwedByTypedNext == TypeOK' => (\A w \in VTokens : OwedBy(w) \in [Nat -> Nat])'
BY OwedByTyped, PTL

(* ... for the sum ...                                                     *)
LEMMA OwedTyped == TypeOK => \A w \in VTokens : Owed(w) \in Nat
BY OwedType

(* ... and for the sum after a step.                                       *)
LEMMA OwedTypeNext == TypeOK' => (\A w \in VTokens : Owed(w) \in Nat)'
BY OwedTyped, PTL

-----------------------------------------------------------------------------
(* How each kind of step changes what is owed in a vToken w.               *)
LEMMA OwedCreate ==
  ASSUME TypeOK, TypeOK', NEW who \in Users, NEW v \in Currencies, NEW c \in LoanCurrencies,
         NEW collateral \in CollateralAmounts, NEW amount \in LoanAmounts,
         create_loan(who, v, collateral, c, amount), NEW w \in VTokens
  PROVE  Owed(w)' = Owed(w) + (IF w = v THEN collateral ELSE 0)
<1> DEFINE f == OwedBy(w)
           g == OwedBy(w)'
           n == NextLoanId
<1>1. f \in [Nat -> Nat] /\ n \in Nat
  BY OwedType
<1>2. g \in [Nat -> Nat] /\ NextLoanId' = n + 1
  <2>1. OwedBy(w)' \in [Nat -> Nat]
    BY OwedByTypedNext
  <2> QED BY <2>1 DEF create_loan
<1>3. /\ n \notin DOMAIN Loans
      /\ DOMAIN Loans' = DOMAIN Loans \cup {n}
      /\ \A id \in DOMAIN Loans : Loans'[id] = Loans[id] /\ LoanRewards'[id] = LoanRewards[id]
      /\ Loans'[n].collateral_vtoken = v
      /\ Loans'[n].collateral_amount = collateral
      /\ Loans'[n].status = "Active"
      /\ LoanRewards'[n] = 0
  BY CreateRecords
<1>4. collateral \in Nat
  BY InputAssumption
<1>5. \A i \in Nat : i < n => f[i] = g[i]
  BY <1>1, <1>3 DEF OwedBy, active_loans, IsActive
<1>6. g[n] = IF w = v THEN collateral ELSE 0
  BY <1>1, <1>3, <1>4 DEF OwedBy, active_loans, IsActive
<1>7. Owed(w) = SumTo(f, n) /\ Owed(w)' = SumTo(g, n + 1)
  BY <1>2 DEF Owed
<1> HIDE DEF f, g, n
<1>8. SumTo(g, n + 1) = SumTo(g, n) + g[n]
  BY <1>1, SumSucc
<1>9. SumTo(g, n) = SumTo(f, n)
  BY <1>1, <1>2, <1>5, SumSame
<1> QED BY <1>6, <1>7, <1>8, <1>9

(* Settling a loan cancels its collateral and its rewards, no more and no  *)
(* less, from what the pallet owes.                                        *)
LEMMA OwedSettle ==
  ASSUME TypeOK, TypeOK', NEW id \in active_loans, NEW b \in Balances, NEW receiver \in Users,
         NEW status \in {"Repaid", "Liquidated"}, Settle(b, id, receiver, status),
         NEW w \in VTokens
  PROVE  /\ w = Loans[id].collateral_vtoken =>
              Owed(w)' + Loans[id].collateral_amount + LoanRewards[id] = Owed(w)
         /\ w # Loans[id].collateral_vtoken => Owed(w)' = Owed(w)
<1> DEFINE f == OwedBy(w)
           g == OwedBy(w)'
           n == NextLoanId
<1>1. f \in [Nat -> Nat] /\ n \in Nat
  BY OwedType
<1>2. g \in [Nat -> Nat] /\ NextLoanId' = n
  <2>1. OwedBy(w)' \in [Nat -> Nat]
    BY OwedByTypedNext
  <2> QED BY <2>1 DEF Settle
<1>3. id \in DOMAIN Loans /\ id \in Nat /\ id < n
  BY LoanFacts DEF active_loans
<1>4. /\ DOMAIN Loans' = DOMAIN Loans
      /\ Loans'[id].status = status
      /\ \A i \in DOMAIN Loans \ {id} : Loans'[i] = Loans[i] /\ LoanRewards'[i] = LoanRewards[i]
  <2>1. id \in DOMAIN Loans /\ Settle(b, id, receiver, status) /\ TypeOK
    BY <1>3
  <2>2. DOMAIN Loans' = DOMAIN Loans
    BY <2>1, SettleRecords
  <2>3. Loans'[id].status = status
    BY <2>1, Loans[id] \in LoanPosition, LoanFacts DEF Settle, TypeOK, LoanPosition
  <2>4. \A i \in DOMAIN Loans \ {id} : Loans'[i] = Loans[i] /\ LoanRewards'[i] = LoanRewards[i]
    BY <2>1, SettleRecords
  <2> QED BY <2>2, <2>3, <2>4
<1>5. \A i \in Nat : i < n /\ i # id => f[i] = g[i]
  BY <1>1, <1>4 DEF OwedBy, active_loans, IsActive
<1>6. g[id] = 0
  BY <1>3, <1>4 DEF OwedBy, active_loans, IsActive
<1>7. f[id] = IF w = Loans[id].collateral_vtoken
              THEN Loans[id].collateral_amount + LoanRewards[id] ELSE 0
  BY <1>3 DEF OwedBy
<1>8. Owed(w) = SumTo(f, n) /\ Owed(w)' = SumTo(g, n)
  BY <1>2 DEF Owed
<1>9. Loans[id].collateral_amount \in Nat /\ LoanRewards[id] \in Nat
  BY <1>3, LoanFacts
<1> HIDE DEF f, g, n
<1>10. SumTo(g, n) + f[id] = SumTo(f, n) + g[id]
  BY <1>1, <1>2, <1>3, <1>5, SumUpdate
<1>11. SumTo(g, n) \in Nat /\ SumTo(f, n) \in Nat
  BY <1>1, <1>2, SumType
<1> QED BY <1>6, <1>7, <1>8, <1>9, <1>10, <1>11

(* A funded distribution raises what is owed in w by at most the amount    *)
(* distributed, and only if some active loan is locked in w.               *)
LEMMA OwedDistribute ==
  ASSUME TypeOK, TypeOK', NEW r \in CycleRewards, distribute_cycle_rewards(r), Funded(r),
         NEW w \in VTokens
  PROVE  \/ Owed(w)' = Owed(w)
         \/ /\ Owed(w)' <= Owed(w) + r
            /\ \E id \in active_loans : Loans[id].collateral_vtoken = w
<1> DEFINE n == NextLoanId
           In(i) == i \in active_loans /\ Loans[i].collateral_vtoken = w
           f == OwedBy(w)
           g == OwedBy(w)'
           s == [i \in Nat |-> IF In(i) THEN LoanRewards'[i] - LoanRewards[i] ELSE 0]
           c == [i \in Nat |-> IF In(i) THEN Loans[i].collateral_amount ELSE 0]
           t == total_asset_value
<1>1. f \in [Nat -> Nat] /\ g \in [Nat -> Nat] /\ n \in Nat /\ r \in Nat
  BY OwedType, OwedByTypedNext, InputAssumption
<1>2. Loans' = Loans /\ NextLoanId' = n /\ active_loans' = active_loans
  BY DEF distribute_cycle_rewards, active_loans, IsActive
<1>3. t \in Nat \ {0} /\ t = SumTo(AssetValue, n)
  <2>1. AssetValue \in [Nat -> Nat] /\ total_asset_value \in Nat /\ total_asset_value # 0
    BY AssetValueType DEF distribute_cycle_rewards
  <2>2. SumTo(AssetValue, NextLoanId) \in Nat
    BY <1>1, <2>1, SumType
  <2>3. SumTo(AssetValue, NextLoanId) <= MaxBalance
    BY DEF Funded
  <2>4. total_asset_value = SumTo(AssetValue, NextLoanId)
    BY <2>2, <2>3, WidthAssumption DEF total_asset_value
  <2> QED BY <2>1, <2>4
<1>4. ASSUME NEW i \in active_loans
      PROVE  /\ LoanRewards[i] \in Nat /\ LoanRewards'[i] \in Nat
             /\ LoanRewards'[i] - LoanRewards[i] \in Nat
             /\ (LoanRewards'[i] - LoanRewards[i]) * t <= r * Loans[i].collateral_amount
             /\ Loans[i].collateral_amount \in Nat
             /\ Loans[i].collateral_amount <= AssetValue[i]
             /\ i \in Nat
  <2>1. /\ i \in DOMAIN Loans /\ i \in Nat
        /\ LoanRewards[i] \in 0..MaxBalance /\ i \in DOMAIN LoanRewards
        /\ Loans[i].collateral_amount \in Nat /\ Loans[i].collateral_amount <= MaxBalance
    BY LoanFacts DEF active_loans, TypeOK
  <2>2. LoanRewards'[i] = Saturate(LoanRewards[i] + loanee_rewards(r, i))
    BY <2>1 DEF distribute_cycle_rewards
  <2> DEFINE q == loanee_rewards(r, i)
             d == LoanRewards'[i] - LoanRewards[i]
  <2>3. q \in Nat /\ q * t <= r * Loans[i].collateral_amount
    BY <1>1, CreditType DEF distribute_cycle_rewards
  <2> HIDE DEF q, t
  <2>4. LoanRewards'[i] \in Nat /\ d \in Nat /\ d <= q
    BY <2>1, <2>2, <2>3, WidthAssumption DEF Saturate, q
  <2> HIDE DEF d
  <2>5. d * t <= q * t
    BY <1>3, <2>3, <2>4
  <2>6. d * t \in Nat /\ q * t \in Nat /\ r * Loans[i].collateral_amount \in Nat
    BY <1>1, <1>3, <2>1, <2>3, <2>4
  <2>7. \A x, y, z \in Nat : x <= y /\ y <= z => x <= z
    OBVIOUS
  <2>8. d * t <= r * Loans[i].collateral_amount
    BY ONLY <2>3, <2>5, <2>6, <2>7
  <2>9. Loans[i].collateral_amount <= AssetValue[i]
    BY <2>1, WidthAssumption DEF AssetValue, Saturate
  <2> QED BY <2>1, <2>4, <2>8, <2>9 DEF d
<1>5. AssetValue \in [Nat -> Nat]
  BY AssetValueType
<1>6. s \in [Nat -> Nat] /\ c \in [Nat -> Nat]
  BY <1>4
<1>7. \A i \in Nat : s[i] * t <= r * c[i]
  <2> SUFFICES ASSUME NEW i \in Nat PROVE s[i] * t <= r * c[i]
    OBVIOUS
  <2>1. CASE In(i)
    <3>1. s[i] = LoanRewards'[i] - LoanRewards[i] /\ c[i] = Loans[i].collateral_amount
      BY <2>1
    <3> QED BY <1>4, <2>1, <3>1
  <2>2. CASE ~In(i)
    <3>1. s[i] = 0 /\ c[i] = 0
      BY <2>2
    <3> QED BY <1>1, <1>3, <3>1
  <2> QED BY <2>1, <2>2
<1>8. \A i \in Nat : c[i] <= AssetValue[i]
  <2> SUFFICES ASSUME NEW i \in Nat PROVE c[i] <= AssetValue[i]
    OBVIOUS
  <2>1. CASE In(i)
    BY <1>4, <2>1
  <2>2. CASE ~In(i)
    <3>1. c[i] = 0 /\ AssetValue[i] \in Nat
      BY <1>5, <2>2
    <3> QED BY <3>1
  <2> QED BY <2>1, <2>2
<1>9. \A i \in Nat : g[i] = f[i] + s[i]
  <2> SUFFICES ASSUME NEW i \in Nat PROVE g[i] = f[i] + s[i]
    OBVIOUS
  <2>1. CASE In(i)
    <3>1. /\ g[i] = Loans[i].collateral_amount + LoanRewards'[i]
          /\ f[i] = Loans[i].collateral_amount + LoanRewards[i]
          /\ s[i] = LoanRewards'[i] - LoanRewards[i]
      BY <1>2, <2>1 DEF OwedBy
    <3>2. /\ Loans[i].collateral_amount \in Nat
          /\ LoanRewards[i] \in Nat /\ LoanRewards'[i] \in Nat
      BY <1>4, <2>1
    <3> QED BY <3>1, <3>2
  <2>2. CASE ~In(i)
    BY <1>2, <2>2 DEF OwedBy
  <2> QED BY <2>1, <2>2
<1>10. Owed(w) = SumTo(f, n) /\ Owed(w)' = SumTo(g, n)
  BY <1>2 DEF Owed
<1>11. CASE \E i \in active_loans : Loans[i].collateral_vtoken = w
  <2> HIDE DEF f, g, s, c, t, n, In
  <2>1. SumTo(c, n) <= t
    BY <1>1, <1>3, <1>5, <1>6, <1>8, SumMonotone
  <2>2. SumTo(s, n) <= r
    BY <1>1, <1>3, <1>6, <1>7, <2>1, SumOfShares
  <2>3. SumTo(g, n) = SumTo(f, n) + SumTo(s, n)
    BY <1>1, <1>6, <1>9, SumPlus, ZenonT(60)
  <2>4. SumTo(f, n) \in Nat /\ SumTo(s, n) \in Nat
    BY <1>1, <1>6, SumType
  <2> QED BY <1>1, <1>10, <1>11, <2>2, <2>3, <2>4
<1>12. CASE ~ \E i \in active_loans : Loans[i].collateral_vtoken = w
  <2>1. \A i \in Nat : f[i] = g[i]
    BY <1>2, <1>12 DEF OwedBy
  <2> HIDE DEF f, g, s, c, t, n, In
  <2> QED BY <1>1, <1>10, <2>1, SumSame
<1> QED BY <1>11, <1>12

-----------------------------------------------------------------------------
(* How the payments change the pallet's holding of a vToken w.             *)
LEMMA ClaimPays ==
  ASSUME TypeOK, NEW id \in DOMAIN Loans, NEW b \in Balances, CanClaim(b, id),
         PalletAccount \in DustWhitelist
  PROVE  /\ Claim(b, id)[Loans[id].collateral_vtoken][PalletAccount]
              = b[Loans[id].collateral_vtoken][PalletAccount] - LoanRewards[id]
         /\ \A d \in Currencies \ {Loans[id].collateral_vtoken} : Claim(b, id)[d] = b[d]
<1> DEFINE v == Loans[id].collateral_vtoken
           r == LoanRewards[id]
           p == platform_share(r)
           b1 == PaidToLoanee(b, id)
<1>1. r \in Nat /\ v \in Currencies /\ Loans[id].borrower \in Accounts \ {PalletAccount}
  BY LoanFacts
<1>2. p \in Nat /\ r - p \in Nat
  BY <1>1, ShareType
<1>3. TreasuryAccount \in Accounts \ {PalletAccount}
  BY AccountsAssumption DEF Accounts
<1>4. b1 \in Balances
  BY ClaimType
<1>5. /\ CanTransfer(b, v, PalletAccount, Loans[id].borrower, r - p)
      /\ CanTransfer(b1, v, PalletAccount, TreasuryAccount, p)
  BY DEF CanClaim
<1>6. /\ b1 = Transfer(b, v, PalletAccount, Loans[id].borrower, r - p)
      /\ Claim(b, id) = Transfer(b1, v, PalletAccount, TreasuryAccount, p)
  BY DEF PaidToLoanee, Claim
<1> HIDE DEF b1, p, r, v
<1>7. b1[v][PalletAccount] = b[v][PalletAccount] - (r - p)
      /\ \A d \in Currencies \ {v} : b1[d] = b[d]
  BY <1>1, <1>2, <1>5, <1>6, PalletOut
<1>8. Claim(b, id)[v][PalletAccount] = b1[v][PalletAccount] - p
      /\ \A d \in Currencies \ {v} : Claim(b, id)[d] = b1[d]
  BY <1>1, <1>2, <1>3, <1>4, <1>5, <1>6, PalletOut
<1>9. b[v][PalletAccount] \in Nat
  BY <1>1 DEF Balances, Accounts
<1>10. Claim(b, id)[v][PalletAccount] = b[v][PalletAccount] - r
  BY <1>1, <1>2, <1>7, <1>8, <1>9
<1> QED BY <1>7, <1>8, <1>10 DEF v, r

(* Settling a loan takes exactly its collateral from the pallet account.   *)
LEMMA SettlePays ==
  ASSUME TypeOK, NEW id \in DOMAIN Loans, NEW b \in Balances, NEW receiver \in Users,
         NEW status, Settle(b, id, receiver, status), PalletAccount \in DustWhitelist
  PROVE  /\ balances'[Loans[id].collateral_vtoken][PalletAccount]
              = b[Loans[id].collateral_vtoken][PalletAccount] - Loans[id].collateral_amount
         /\ \A d \in Currencies \ {Loans[id].collateral_vtoken} : balances'[d] = b[d]
<1>1. receiver \in Accounts \ {PalletAccount}
  BY AccountsAssumption DEF Accounts
<1>2. Loans[id].collateral_vtoken \in Currencies /\ Loans[id].collateral_amount \in Nat
  BY LoanFacts
<1> QED BY <1>1, <1>2, PalletOut DEF Settle

(* Money coming in never lowers the pallet's holding of any currency.      *)
LEMMA PaidIn ==
  ASSUME NEW b \in Balances, NEW c \in Currencies, NEW who \in Users, NEW amount \in Nat,
         CanTransfer(b, c, who, PalletAccount, amount), NEW w \in Currencies
  PROVE  /\ b[w][PalletAccount] \in Nat
         /\ Transfer(b, c, who, PalletAccount, amount)[w][PalletAccount] \in Nat
         /\ Transfer(b, c, who, PalletAccount, amount)[w][PalletAccount] >= b[w][PalletAccount]
<1>1. who \in Accounts \ {PalletAccount} /\ PalletAccount \in Accounts
  BY AccountsAssumption DEF Accounts
<1>2. b[w][PalletAccount] \in Nat
  BY <1>1 DEF Balances
<1>3. CASE w = c
  BY <1>1, <1>2, <1>3, PalletIn
<1>4. CASE w # c
  BY <1>1, <1>2, <1>4, PalletIn
<1> QED BY <1>2, <1>3, <1>4

(* repay_loan and liquidate_loan pay out exactly what settling the loan    *)
(* removes from the debt.                                                  *)
LEMMA SettlementPays ==
  ASSUME TypeOK, NEW id \in active_loans, NEW who \in Users, NEW w \in VTokens,
         repay_loan(who, id) \/ liquidate_loan(who, id), PalletAccount \in DustWhitelist
  PROVE  balances'[w][PalletAccount] >=
           balances[w][PalletAccount]
             - (IF w = Loans[id].collateral_vtoken
                THEN Loans[id].collateral_amount + LoanRewards[id] ELSE 0)
<1> DEFINE v == Loans[id].collateral_vtoken
           lc == Loans[id].loan_currency
           la == Loans[id].loan_amount
<1>0. /\ id \in DOMAIN Loans /\ v \in Currencies /\ w \in Currencies
      /\ lc \in Currencies /\ la \in Nat
      /\ Loans[id].collateral_amount \in Nat /\ LoanRewards[id] \in Nat
      /\ balances \in Balances
  BY LoanFacts DEF active_loans, Currencies, TypeOK, Balances
<1>1. balances[w][PalletAccount] \in Nat /\ balances[v][PalletAccount] \in Nat
  BY <1>0 DEF Balances, Accounts
<1>2. CASE repay_loan(who, id)
  <2> DEFINE b1 == Transfer(balances, lc, who, PalletAccount, la)
             b2 == Claim(b1, id)
  <2>1. b1 \in Balances
    BY <1>0, <1>2, RepayType
  <2>2. /\ CanTransfer(balances, lc, who, PalletAccount, la)
        /\ CanClaim(b1, id) /\ Settle(b2, id, who, "Repaid")
    BY <1>2 DEF repay_loan
  <2>3. b1[w][PalletAccount] \in Nat /\ b1[w][PalletAccount] >= balances[w][PalletAccount]
    BY <1>0, <2>2, PaidIn
  <2> HIDE DEF b1
  <2>4. b2 \in Balances
    BY <1>0, <2>1, <2>2, ClaimType
  <2>5. b2[v][PalletAccount] = b1[v][PalletAccount] - LoanRewards[id]
        /\ \A d \in Currencies \ {v} : b2[d] = b1[d]
    BY <1>0, <2>1, <2>2, ClaimPays
  <2> HIDE DEF b2
  <2>6. balances'[v][PalletAccount] = b2[v][PalletAccount] - Loans[id].collateral_amount
        /\ \A d \in Currencies \ {v} : balances'[d] = b2[d]
    BY <1>0, <2>2, <2>4, SettlePays
  <2>7. CASE w = v
    BY <1>0, <1>1, <2>3, <2>5, <2>6, <2>7
  <2>8. CASE w # v
    BY <1>0, <1>1, <2>3, <2>5, <2>6, <2>8
  <2> QED BY <2>7, <2>8
<1>3. CASE liquidate_loan(who, id)
  <2> DEFINE b1 == Claim(balances, id)
             b2 == Transfer(b1, lc, who, PalletAccount, la)
  <2>1. b1 \in Balances /\ b2 \in Balances
    BY <1>0, <1>3, LiquidateType
  <2>2. /\ CanClaim(balances, id)
        /\ CanTransfer(b1, lc, who, PalletAccount, la)
        /\ Settle(b2, id, who, "Liquidated")
    BY <1>3 DEF liquidate_loan
  <2>3. b1[v][PalletAccount] = balances[v][PalletAccount] - LoanRewards[id]
        /\ \A d \in Currencies \ {v} : b1[d] = balances[d]
    BY <1>0, <2>2, ClaimPays
  <2> HIDE DEF b1
  <2>4. /\ b1[w][PalletAccount] \in Nat /\ b2[w][PalletAccount] \in Nat
        /\ b2[w][PalletAccount] >= b1[w][PalletAccount]
    BY <1>0, <2>1, <2>2, PaidIn
  <2> HIDE DEF b2
  <2>6. balances'[v][PalletAccount] = b2[v][PalletAccount] - Loans[id].collateral_amount
        /\ \A d \in Currencies \ {v} : balances'[d] = b2[d]
    BY <1>0, <2>1, <2>2, SettlePays
  <2>7. CASE w = v
    BY <1>0, <1>1, <2>3, <2>4, <2>6, <2>7
  <2>8. CASE w # v
    BY <1>0, <1>1, <2>3, <2>4, <2>6, <2>8
  <2> QED BY <2>7, <2>8
<1> QED BY <1>2, <1>3

-----------------------------------------------------------------------------
(* No funded step makes the pallet insolvent.                              *)
LEMMA SolvencyStep ==
  ASSUME SolventSetting, TypeOK, TypeOK', Solvency, [FundedNext]_vars
  PROVE  Solvency'
<1> SUFFICES ASSUME NEW w \in VTokens
             PROVE  balances'[w][PalletAccount] >= Owed(w)'
  BY DEF Solvency
<1> DEFINE held == balances[w][PalletAccount]
<1>0. /\ w \in Currencies /\ PalletAccount \in Accounts /\ PalletAccount \in DustWhitelist
      /\ balances \in Balances
      /\ held \in Nat /\ Owed(w) \in Nat /\ held >= Owed(w)
  <2>1. w \in Currencies /\ PalletAccount \in Accounts /\ PalletAccount \in DustWhitelist
        /\ balances \in Balances
    BY DEF Currencies, Accounts, SolventSetting, TypeOK, Balances
  <2> QED BY <2>1, OwedType DEF Balances, Solvency
<1>1. ASSUME NEW who \in Users, NEW v \in Currencies, NEW c \in LoanCurrencies,
             NEW collateral \in CollateralAmounts, NEW amount \in LoanAmounts,
             create_loan(who, v, collateral, c, amount)
      PROVE  balances'[w][PalletAccount] >= Owed(w)'
  <2> DEFINE locked == Transfer(balances, v, who, PalletAccount, collateral)
  <2>1. /\ collateral \in Nat /\ amount \in Nat /\ c \in Currencies /\ c # w
        /\ who \in Accounts \ {PalletAccount}
    BY InputAssumption, CurrencyAssumption, AccountsAssumption DEF SolventSetting, Accounts
  <2>2. /\ CanTransfer(balances, v, who, PalletAccount, collateral)
        /\ CanTransfer(locked, c, PalletAccount, who, amount)
        /\ balances' = Transfer(locked, c, PalletAccount, who, amount)
    BY <1>1 DEF create_loan
  <2>3. locked \in Balances
    BY <1>0, <2>1, <2>2, TransferType
  <2>4. locked[w][PalletAccount] = held + (IF w = v THEN collateral ELSE 0)
    <3>1. CASE w = v
      BY <1>0, <2>1, <2>2, <3>1, PalletIn
    <3>2. CASE w # v
      BY <1>0, <2>1, <2>2, <3>2, PalletIn
    <3> QED BY <3>1, <3>2
  <2> HIDE DEF locked
  <2>5. balances'[w] = locked[w]
    BY <1>0, <2>1, <2>2, <2>3, PalletOut
  <2>6. Owed(w)' = Owed(w) + (IF w = v THEN collateral ELSE 0)
    BY <1>1, OwedCreate
  <2> QED BY <1>0, <2>1, <2>4, <2>5, <2>6
<1>2. ASSUME NEW who \in Users, NEW id \in DOMAIN Loans,
             repay_loan(who, id) \/ liquidate_loan(who, id)
      PROVE  balances'[w][PalletAccount] >= Owed(w)'
  <2>1. id \in active_loans
    BY <1>2 DEF repay_loan, liquidate_loan, active_loans
  <2>2. Loans[id].collateral_amount \in Nat /\ LoanRewards[id] \in Nat
    BY LoanFacts
  <2>3. balances'[w][PalletAccount] >=
          held - (IF w = Loans[id].collateral_vtoken
                  THEN Loans[id].collateral_amount + LoanRewards[id] ELSE 0)
    BY <1>0, <1>2, <2>1, SettlementPays
  <2>4. \E b \in Balances, status \in {"Repaid", "Liquidated"} : Settle(b, id, who, status)
    <3>1. CASE repay_loan(who, id)
      <4> DEFINE b1 == Transfer(balances, Loans[id].loan_currency, who, PalletAccount,
                                Loans[id].loan_amount)
      <4>1. b1 \in Balances /\ CanClaim(b1, id) /\ Settle(Claim(b1, id), id, who, "Repaid")
        BY <3>1, RepayType DEF repay_loan
      <4> HIDE DEF b1
      <4>2. Claim(b1, id) \in Balances
        BY <4>1, ClaimType
      <4> QED BY <4>1, <4>2
    <3>2. CASE liquidate_loan(who, id)
      <4> DEFINE b2 == Transfer(Claim(balances, id), Loans[id].loan_currency, who,
                                PalletAccount, Loans[id].loan_amount)
      <4>1. b2 \in Balances /\ Settle(b2, id, who, "Liquidated")
        BY <3>2, LiquidateType DEF liquidate_loan
      <4> HIDE DEF b2
      <4> QED BY <4>1
    <3> QED BY <1>2, <3>1, <3>2
  <2>5. /\ w = Loans[id].collateral_vtoken =>
             Owed(w)' + Loans[id].collateral_amount + LoanRewards[id] = Owed(w)
        /\ w # Loans[id].collateral_vtoken => Owed(w)' = Owed(w)
    BY <2>1, <2>4, OwedSettle
  <2>6. Owed(w)' \in Nat /\ balances'[w][PalletAccount] \in Nat
    BY <1>0, OwedTypeNext DEF TypeOK
  <2> QED BY <1>0, <2>2, <2>3, <2>5, <2>6
<1>3. ASSUME NEW r \in CycleRewards, Funded(r), distribute_cycle_rewards(r)
      PROVE  balances'[w][PalletAccount] >= Owed(w)'
  <2>1. balances' = balances /\ r \in Nat
    BY <1>3, InputAssumption DEF distribute_cycle_rewards
  <2>2. CASE Owed(w)' = Owed(w)
    BY <1>0, <2>1, <2>2
  <2>3. CASE Owed(w)' <= Owed(w) + r /\ \E id \in active_loans : Loans[id].collateral_vtoken = w
    <3>1. held >= Owed(w) + r
      BY <1>3, <2>3 DEF Funded
    <3>2. Owed(w)' \in Nat
      BY OwedTypeNext
    <3> QED BY <1>0, <2>1, <2>3, <3>1, <3>2
  <2> QED BY <1>3, <2>2, <2>3, OwedDistribute
<1>4. ASSUME NEW who \in Users, NEW c \in Currencies, NEW a \in FundAmounts, Fund(who, c, a)
      PROVE  balances'[w][PalletAccount] >= Owed(w)'
  <2>1. a \in Nat /\ CanTransfer(balances, c, who, PalletAccount, a)
        /\ balances' = Transfer(balances, c, who, PalletAccount, a)
    BY <1>4, InputAssumption DEF Fund
  <2>2. balances'[w][PalletAccount] \in Nat /\ balances'[w][PalletAccount] >= held
    BY <1>0, <2>1, PaidIn
  <2>3. Owed(w)' = Owed(w)
    BY <1>4 DEF Fund, Owed, OwedBy, active_loans, IsActive
  <2> QED BY <1>0, <2>2, <2>3
<1>5. ASSUME NEW c \in Currencies, NEW p \in PriceReports, PriceUpdate(c, p)
      PROVE  balances'[w][PalletAccount] >= Owed(w)'
  BY <1>0, <1>5 DEF PriceUpdate, Owed, OwedBy, active_loans, IsActive
<1>6. CASE UNCHANGED vars
  BY <1>0, <1>6 DEF vars, Owed, OwedBy, active_loans, IsActive
<1> QED BY <1>1, <1>2, <1>3, <1>4, <1>5, <1>6 DEF FundedNext, LoanCalls, Environment

(* Under a funded distribution the pallet can always return every          *)
(* borrower's collateral and pay every credited reward.                    *)
THEOREM AlwaysSolvent == SolventSetting => (FundedSpec => []Solvency)
<1> SUFFICES ASSUME SolventSetting PROVE FundedSpec => []Solvency
  OBVIOUS
<1>1. Init => Solvency
  <2> SUFFICES ASSUME Init, NEW w \in VTokens PROVE balances[w][PalletAccount] >= Owed(w)
    BY DEF Solvency
  <2>1. Owed(w) = 0
    BY SumZero DEF Init, Owed
  <2>2. balances[w][PalletAccount] \in Nat
    BY TokensAssumption DEF Init, Currencies, Accounts
  <2> QED BY <2>1, <2>2
<1>2. TypeOK /\ TypeOK' /\ Solvency /\ [FundedNext]_vars => Solvency'
  BY SolvencyStep
<1>3. FundedSpec => []TypeOK
  BY TypeCorrect, FundedIsNext, PTL DEF FundedSpec, Spec
<1> QED BY <1>1, <1>2, <1>3, PTL DEF FundedSpec

-----------------------------------------------------------------------------
(* Where no account can be refused a payment for being below an            *)
(* existential deposit, solvency is all that repaying needs.               *)
NoExistentialDeposits == \A c \in Currencies : ED[c] = 0

(* A solvent pallet can carry out every repayment.                         *)
LEMMA SolventRepays ==
  ASSUME SolventSetting, NoExistentialDeposits, TypeOK, Solvency
  PROVE  Repayable
<1> SUFFICES ASSUME NEW id \in active_loans,
                    CanTransfer(balances, Loans[id].loan_currency, Loans[id].borrower,
                                PalletAccount, Loans[id].loan_amount)
             PROVE  LET b1 == Transfer(balances, Loans[id].loan_currency, Loans[id].borrower,
                                       PalletAccount, Loans[id].loan_amount)
                    IN /\ CanClaim(b1, id)
                       /\ CanTransfer(Claim(b1, id), Loans[id].collateral_vtoken, PalletAccount,
                                      Loans[id].borrower, Loans[id].collateral_amount)
  BY DEF Repayable
<1> DEFINE v == Loans[id].collateral_vtoken
           who == Loans[id].borrower
           coll == Loans[id].collateral_amount
           r == LoanRewards[id]
           p == platform_share(r)
           b1 == Transfer(balances, Loans[id].loan_currency, who, PalletAccount,
                          Loans[id].loan_amount)
           b2 == PaidToLoanee(b1, id)
           b3 == Claim(b1, id)
<1>1. /\ id \in DOMAIN Loans /\ id \in Nat /\ id < NextLoanId
      /\ v \in VTokens /\ v \in Currencies /\ who \in Users
      /\ who \in Accounts \ {PalletAccount}
      /\ coll \in Nat /\ r \in Nat
      /\ Loans[id].loan_currency \in Currencies /\ Loans[id].loan_amount \in Nat
  BY LoanFacts DEF active_loans
<1>2. balances \in Balances /\ PalletAccount \in Accounts /\ PalletAccount \in DustWhitelist
      /\ TreasuryAccount \in Accounts \ {PalletAccount}
  BY AccountsAssumption DEF TypeOK, Balances, Accounts, SolventSetting
<1>3. p \in Nat /\ r - p \in Nat
  BY <1>1, ShareType
<1>4. b1 \in Balances
  BY <1>1, <1>2, TransferType
<1>5. /\ b1[v][PalletAccount] \in Nat
      /\ b1[v][PalletAccount] >= coll + r
  <2>1. OwedBy(v)[id] = coll + r
    BY <1>1 DEF OwedBy
  <2>2. OwedBy(v)[id] <= Owed(v)
    BY <1>1, OwedType, SumTerm DEF Owed
  <2>3. Owed(v) \in Nat /\ balances[v][PalletAccount] >= Owed(v)
    BY <1>1, OwedType DEF Solvency
  <2>4. /\ balances[v][PalletAccount] \in Nat /\ b1[v][PalletAccount] \in Nat
        /\ b1[v][PalletAccount] >= balances[v][PalletAccount]
    BY <1>1, <1>2, PaidIn
  <2> HIDE DEF b1
  <2> QED BY <1>1, <2>1, <2>2, <2>3, <2>4
<1> HIDE DEF b1
<1>6. \A b \in Balances, to \in Accounts, a \in Nat :
         a <= b[v][PalletAccount] => CanTransfer(b, v, PalletAccount, to, a)
  BY <1>1 DEF CanTransfer, Balances, NoExistentialDeposits
<1>7. CanTransfer(b1, v, PalletAccount, who, r - p)
  BY <1>1, <1>3, <1>4, <1>5, <1>6
<1>8. b2 = Transfer(b1, v, PalletAccount, who, r - p)
  BY DEF PaidToLoanee
<1>9. b2 \in Balances /\ b2[v][PalletAccount] = b1[v][PalletAccount] - (r - p)
  BY <1>1, <1>2, <1>3, <1>4, <1>7, <1>8, PalletOut, TransferType
<1> HIDE DEF b2
<1>10. CanTransfer(b2, v, PalletAccount, TreasuryAccount, p)
  BY <1>1, <1>2, <1>3, <1>5, <1>6, <1>9
<1>11. CanClaim(b1, id)
  BY <1>7, <1>10 DEF CanClaim, b2
<1>12. b3 \in Balances /\ b3[v][PalletAccount] = b1[v][PalletAccount] - r
  BY <1>1, <1>2, <1>4, <1>11, ClaimType, ClaimPays
<1> HIDE DEF b3
<1>13. CanTransfer(b3, v, PalletAccount, who, coll)
  BY <1>1, <1>5, <1>6, <1>12
<1> QED BY <1>11, <1>13 DEF b1, b3

(* A borrower who holds the amount borrowed can always repay and get the   *)
(* collateral back.                                                        *)
THEOREM AlwaysRepayable ==
  SolventSetting /\ NoExistentialDeposits => (FundedSpec => []Repayable)
<1> SUFFICES ASSUME SolventSetting, NoExistentialDeposits PROVE FundedSpec => []Repayable
  OBVIOUS
<1>1. TypeOK /\ Solvency => Repayable
  BY SolventRepays
<1>2. FundedSpec => []TypeOK
  BY TypeCorrect, FundedIsNext, PTL DEF FundedSpec, Spec
<1>3. FundedSpec => []Solvency
  BY AlwaysSolvent
<1> QED BY <1>1, <1>2, <1>3, PTL

-----------------------------------------------------------------------------
(* The arithmetic of get_collateral_value and of the loan to value ratio.  *)

(* A factor common to both sides can be cancelled.                         *)
LEMMA MulCancel ==
  ASSUME NEW a \in Nat, NEW b \in Nat, NEW n \in Nat \ {0}, a * n <= b * n
  PROVE  a <= b
<1>1. ASSUME b < a PROVE FALSE
  <2>1. b * n + n <= a * n /\ a * n \in Nat /\ b * n \in Nat
    BY <1>1, MulStrict
  <2> QED BY <2>1
<1> QED BY <1>1

(* A number that fits k times into m is at most the quotient.              *)
LEMMA QuotientAtLeast ==
  ASSUME NEW m \in Nat, NEW n \in Nat \ {0}, NEW k \in Nat, k * n <= m
  PROVE  k <= m \div n
<1> DEFINE q == m \div n
<1>1. q \in Nat /\ m < q * n + n
  BY DivBound
<1> HIDE DEF q
<1>2. ASSUME q < k PROVE FALSE
  <2>1. q * n + n <= k * n /\ k * n \in Nat /\ q * n \in Nat
    BY <1>1, <1>2, MulStrict
  <2> QED BY <1>1, <2>1
<1> QED BY <1>1, <1>2 DEF q

(* A larger divisor gives a smaller quotient.                              *)
LEMMA DivAntitone ==
  ASSUME NEW m \in Nat, NEW n \in Nat \ {0}, NEW k \in Nat \ {0}, n <= k
  PROVE  m \div k <= m \div n
<1> DEFINE q == m \div k
<1>1. q \in Nat /\ q * k <= m
  BY DivBound
<1> HIDE DEF q
<1>2. n * q <= k * q /\ n * q = q * n /\ k * q = q * k /\ q * n \in Nat /\ q * k \in Nat
  BY <1>1, MulMonotone
<1>3. q * n <= m
  BY <1>1, <1>2
<1>4. q <= m \div n
  BY <1>1, <1>3, QuotientAtLeast
<1> QED BY <1>4 DEF q

(* Three roundings down: the value computed for a collateral, at the price *)
(* of the loan currency, is never more than the collateral is worth.       *)
LEMMA ValueRoundsDown ==
  ASSUME NEW worth \in Nat, NEW p \in Nat \ {0}, NEW f \in Nat \ {0}
  PROVE  LET value == (((f * f) \div p) * (worth \div f)) \div f
         IN value \in Nat /\ value * p <= worth
<1> DEFINE rec == (f * f) \div p
           usd == worth \div f
           value == (rec * usd) \div f
<1>1. f * f \in Nat
  OBVIOUS
<1>2. rec \in Nat /\ rec * p <= f * f
  BY <1>1, DivBound
<1>3. usd \in Nat /\ usd * f <= worth
  BY DivBound
<1> HIDE DEF rec, usd
<1>4. rec * usd \in Nat
  BY <1>2, <1>3
<1>5. value \in Nat /\ value * f <= rec * usd
  BY <1>4, DivBound
<1> HIDE DEF value
<1>6. (value * f) * p <= (rec * usd) * p /\ (value * f) * p \in Nat /\ (rec * usd) * p \in Nat
  BY <1>4, <1>5, MulMonotone
<1>7. (rec * p) * usd <= (f * f) * usd /\ (rec * p) * usd \in Nat /\ (f * f) * usd \in Nat
  BY <1>1, <1>2, <1>3, MulMonotone
<1>8. (usd * f) * f <= worth * f /\ (usd * f) * f \in Nat /\ worth * f \in Nat
  BY <1>3, MulMonotone
<1>9. /\ (value * f) * p = (value * p) * f
      /\ (rec * usd) * p = (rec * p) * usd
      /\ (f * f) * usd = (usd * f) * f
  BY <1>2, <1>3, <1>5
<1>10. (value * p) * f <= worth * f
  BY <1>6, <1>7, <1>8, <1>9
<1>11. value * p \in Nat
  BY <1>5
<1>12. value * p <= worth
  BY <1>10, <1>11, MulCancel
<1> QED BY <1>5, <1>12 DEF value, rec, usd

(* Permill::from_rational reaches a threshold its fraction reaches.        *)
LEMMA RationalAtLeast ==
  ASSUME NEW p \in Nat, NEW q \in Nat, NEW t \in 0..Permill, t * q <= p * Permill
  PROVE  from_rational(p, q) >= t
<1>1. CASE q = 0 \/ p > q
  BY <1>1, WidthAssumption DEF from_rational
<1>2. CASE q # 0 /\ ~ (p > q)
  <2>1. p * Permill \in Nat
    BY WidthAssumption
  <2>2. t <= (p * Permill) \div q
    BY <1>2, <2>1, QuotientAtLeast
  <2> QED BY <1>2, <2>1, <2>2, DivBound DEF from_rational
<1> QED BY <1>1, <1>2

(* A reported price is a natural number.                                   *)
LEMMA PriceType ==
  ASSUME TypeOK, NEW c \in Currencies, HasPrice(c)
  PROVE  prices[c] \in Nat
<1>1. prices[c] \in PriceReports /\ prices[c] # NoPrice
  BY DEF TypeOK, HasPrice
<1>2. PriceReports \subseteq (0..MaxBalance) \cup {NoPrice}
  BY InputAssumption
<1>3. 0..MaxBalance \subseteq Nat
  BY WidthAssumption
<1> QED BY <1>1, <1>2, <1>3

(* The value of a loan's collateral, when there is one.                    *)
LEMMA LoanValueIs ==
  ASSUME TypeOK, NEW id \in DOMAIN Loans, LoanValue(Loans[id]) # NoPrice
  PROVE  LET p == prices[Loans[id].loan_currency]
             worth == prices[Loans[id].collateral_vtoken] * Loans[id].collateral_amount
         IN /\ p \in Nat \ {0} /\ prices[Loans[id].collateral_vtoken] \in Nat /\ worth \in Nat
            /\ LoanValue(Loans[id])
                 = (((FixedDiv * FixedDiv) \div p) * (worth \div FixedDiv)) \div FixedDiv
<1> DEFINE v == Loans[id].collateral_vtoken
           c == Loans[id].loan_currency
<1>1. v \in Currencies /\ c \in Currencies /\ Loans[id].collateral_amount \in Nat
  BY LoanFacts
<1>2. HasPrice(v) /\ HasPrice(c) /\ prices[c] # 0
  BY DEF LoanValue, get_collateral_value
<1>3. prices[v] \in Nat /\ prices[c] \in Nat
  BY <1>1, <1>2, PriceType
<1>4. LoanValue(Loans[id])
        = mul_int(reciprocal(prices[c]), mul_int(prices[v], Loans[id].collateral_amount))
  BY DEF LoanValue, get_collateral_value
<1> QED BY <1>1, <1>2, <1>3, <1>4 DEF mul_int, reciprocal

(* A loan whose exact loan to value ratio has reached the threshold is     *)
(* liquidatable.                                                           *)
LEMMA TypedUnhealthy == TypeOK => UnhealthyIsLiquidatable
<1> SUFFICES ASSUME TypeOK, NEW id \in active_loans,
                    LoanValue(Loans[id]) # NoPrice,
                    Loans[id].loan_amount * prices[Loans[id].loan_currency] * Permill
                      >= LiquidationThreshold * Loans[id].collateral_amount
                           * prices[Loans[id].collateral_vtoken]
             PROVE  is_liquidatable(id)
  BY DEF UnhealthyIsLiquidatable
<1> DEFINE p == prices[Loans[id].loan_currency]
           pv == prices[Loans[id].collateral_vtoken]
           coll == Loans[id].collateral_amount
           debt == Loans[id].loan_amount
           t == LiquidationThreshold
           value == LoanValue(Loans[id])
<1>1. id \in DOMAIN Loans /\ coll \in Nat /\ debt \in Nat
  BY LoanFacts DEF active_loans
<1>2. p \in Nat \ {0} /\ pv \in Nat /\ pv * coll \in Nat
  BY <1>1, LoanValueIs
<1>3. value \in Nat /\ value * p <= pv * coll
  BY <1>1, <1>2, LoanValueIs, ValueRoundsDown, WidthAssumption
<1>4. t \in Nat /\ t \in 0..Permill /\ Permill \in Nat
  BY ConfigAssumption, WidthAssumption
<1>5. (debt * p) * Permill >= (t * coll) * pv
  OBVIOUS
<1> HIDE DEF p, pv, coll, debt, t, value
<1>6. (value * p) * t <= (pv * coll) * t /\ (value * p) * t \in Nat /\ (pv * coll) * t \in Nat
  <2>1. value * p \in Nat
    BY <1>2, <1>3
  <2> QED BY <1>2, <1>3, <1>4, <2>1, MulMonotone
<1>7. /\ (value * p) * t = (t * value) * p
      /\ (pv * coll) * t = (t * coll) * pv
      /\ (debt * p) * Permill = (debt * Permill) * p
      /\ (t * value) * p \in Nat /\ (debt * Permill) * p \in Nat
      /\ t * value \in Nat /\ debt * Permill \in Nat
  BY <1>1, <1>2, <1>3, <1>4
<1>8. (t * value) * p <= (debt * Permill) * p
  BY <1>5, <1>6, <1>7
<1>9. t * value <= debt * Permill
  BY <1>2, <1>7, <1>8, MulCancel
<1>10. from_rational(debt, value) >= t
  BY <1>1, <1>3, <1>4, <1>9, RationalAtLeast
<1> QED BY <1>10 DEF is_liquidatable, calculate_ltv, active_loans, debt, value, t

(* Rounding never shelters an unhealthy loan: whenever the exact ratio of  *)
(* debt to collateral value has reached the threshold, liquidate_loan is   *)
(* open to anyone.                                                         *)
THEOREM UnhealthyLoansLiquidatable == Spec => []UnhealthyIsLiquidatable
BY TypeCorrect, TypedUnhealthy, PTL

-----------------------------------------------------------------------------
(* What a collateral worth w is valued at in a currency of price p.        *)
ValueOf(w, p) == (((FixedDiv * FixedDiv) \div p) * (w \div FixedDiv)) \div FixedDiv

(* The value rises with the collateral's price and falls with the loan     *)
(* currency's.                                                             *)
LEMMA ValueMonotone ==
  ASSUME NEW w \in Nat, NEW w2 \in Nat, NEW p \in Nat \ {0}, NEW p2 \in Nat \ {0},
         w <= w2, p2 <= p
  PROVE  ValueOf(w, p) <= ValueOf(w2, p2) /\ ValueOf(w, p) \in Nat /\ ValueOf(w2, p2) \in Nat
<1> DEFINE ff == FixedDiv * FixedDiv
           r1 == ff \div p
           r2 == ff \div p2
           u1 == w \div FixedDiv
           u2 == w2 \div FixedDiv
<1>1. FixedDiv \in Nat \ {0} /\ ff \in Nat
  BY WidthAssumption
<1> HIDE DEF ff
<1>2. r1 \in Nat /\ r2 \in Nat /\ r1 <= r2
  BY <1>1, DivBound, DivAntitone
<1>3. u1 \in Nat /\ u2 \in Nat /\ u1 <= u2
  BY <1>1, DivBound, DivMonotone
<1> HIDE DEF r1, r2, u1, u2
<1>4. r1 * u1 <= r2 * u1 /\ r1 * u1 \in Nat /\ r2 * u1 \in Nat
  BY <1>2, <1>3, MulMonotone
<1>5. u1 * r2 <= u2 * r2 /\ u1 * r2 \in Nat /\ u2 * r2 \in Nat
  BY <1>2, <1>3, MulMonotone
<1>6. u1 * r2 = r2 * u1 /\ u2 * r2 = r2 * u2
  BY <1>2, <1>3
<1>7. r1 * u1 <= r2 * u2 /\ r2 * u2 \in Nat
  BY <1>4, <1>5, <1>6
<1>8. (r1 * u1) \div FixedDiv <= (r2 * u2) \div FixedDiv
  BY <1>1, <1>4, <1>7, DivMonotone
<1>9. (r1 * u1) \div FixedDiv \in Nat /\ (r2 * u2) \div FixedDiv \in Nat
  BY <1>1, <1>4, <1>7, DivBound
<1> QED BY <1>8, <1>9 DEF ValueOf, r1, r2, u1, u2, ff

(* A loan to value ratio falls as the value rises.                         *)
LEMMA RationalAntitone ==
  ASSUME NEW n \in Nat, NEW q \in Nat, NEW q2 \in Nat, q <= q2
  PROVE  from_rational(n, q2) <= from_rational(n, q)
<1>0. Permill \in Nat \ {0} /\ n * Permill \in Nat
  BY WidthAssumption
<1>1. ASSUME NEW k \in Nat \ {0}, n <= k
      PROVE  (n * Permill) \div k \in Nat /\ (n * Permill) \div k <= Permill
  <2>1. n * Permill <= k * Permill /\ k * Permill = Permill * k
    BY <1>0, <1>1, MulMonotone
  <2>2. n * Permill <= Permill * k
    BY <2>1
  <2> QED BY <1>0, <2>2, DivAtMost, DivBound
<1>2. CASE q = 0 \/ n > q
  BY <1>0, <1>1, <1>2 DEF from_rational
<1>3. CASE q # 0 /\ ~ (n > q)
  <2>1. q2 # 0 /\ ~ (n > q2)
    BY <1>3
  <2>2. (n * Permill) \div q2 <= (n * Permill) \div q
    BY <1>0, <1>3, <2>1, DivAntitone
  <2> QED BY <1>3, <2>1, <2>2 DEF from_rational
<1> QED BY <1>2, <1>3

(* The value of every loan that has one, as a function of the two prices.  *)
LoanValuesExact ==
  \A id \in DOMAIN Loans : LoanValue(Loans[id]) # NoPrice =>
    /\ prices[Loans[id].loan_currency] \in Nat \ {0}
    /\ prices[Loans[id].collateral_vtoken] \in Nat
    /\ LoanValue(Loans[id])
         = ValueOf(prices[Loans[id].collateral_vtoken] * Loans[id].collateral_amount,
                   prices[Loans[id].loan_currency])

LEMMA ValuesExact == TypeOK => LoanValuesExact
BY LoanValueIs DEF LoanValuesExact, ValueOf

LEMMA ValuesExactNext == TypeOK' => LoanValuesExact'
BY ValuesExact, PTL

(* A step that moves both prices the borrower's way leaves a healthy loan  *)
(* healthy.                                                                *)
LEMMA GoodPricesStep ==
  ASSUME TypeOK, TypeOK', NEW id \in active_loans,
         Loans'[id] = Loans[id], LoanValue(Loans[id]) # NoPrice,
         prices'[Loans[id].collateral_vtoken] >= prices[Loans[id].collateral_vtoken],
         prices'[Loans[id].loan_currency] <= prices[Loans[id].loan_currency],
         is_liquidatable(id)', NextLoanId <= NextLoanId'
  PROVE  is_liquidatable(id)
<1> DEFINE v == Loans[id].collateral_vtoken
           c == Loans[id].loan_currency
           coll == Loans[id].collateral_amount
           debt == Loans[id].loan_amount
<1>1. id \in DOMAIN Loans /\ id \in DOMAIN Loans' /\ coll \in Nat /\ debt \in Nat
  BY LoanFacts DEF active_loans, TypeOK
<1>2. /\ prices[c] \in Nat \ {0} /\ prices[v] \in Nat
      /\ LoanValue(Loans[id]) = ValueOf(prices[v] * coll, prices[c])
  BY <1>1, ValuesExact DEF LoanValuesExact
<1>3. LoanValue(Loans[id])' # NoPrice /\ from_rational(debt, LoanValue(Loans[id])') >= LiquidationThreshold
  BY DEF is_liquidatable, calculate_ltv
<1>4. /\ prices'[c] \in Nat \ {0} /\ prices'[v] \in Nat
      /\ LoanValue(Loans[id])' = ValueOf(prices'[v] * coll, prices'[c])
  BY <1>1, <1>3, ValuesExactNext DEF LoanValuesExact
<1>5. prices[v] * coll <= prices'[v] * coll /\ prices[v] * coll \in Nat /\ prices'[v] * coll \in Nat
  BY <1>1, <1>2, <1>4, MulMonotone
<1>6. /\ ValueOf(prices[v] * coll, prices[c]) <= ValueOf(prices'[v] * coll, prices'[c])
      /\ ValueOf(prices[v] * coll, prices[c]) \in Nat
      /\ ValueOf(prices'[v] * coll, prices'[c]) \in Nat
  BY <1>2, <1>4, <1>5, ValueMonotone
<1>7. from_rational(debt, ValueOf(prices'[v] * coll, prices'[c]))
        <= from_rational(debt, ValueOf(prices[v] * coll, prices[c]))
  BY <1>1, <1>6, RationalAntitone
<1>8. /\ from_rational(debt, ValueOf(prices'[v] * coll, prices'[c])) \in Int
      /\ from_rational(debt, ValueOf(prices[v] * coll, prices[c])) \in Int
      /\ LiquidationThreshold \in Int
  BY <1>1, <1>6, WidthAssumption, ConfigAssumption, MulMonotone, DivBound DEF from_rational
<1>9. from_rational(debt, LoanValue(Loans[id])) >= LiquidationThreshold
  BY <1>2, <1>3, <1>4, <1>7, <1>8
<1> QED BY <1>9 DEF is_liquidatable, calculate_ltv, active_loans

(* Loan ids are never reused: the counter never goes back.                 *)
LEMMA IdsGrow ==
  ASSUME TypeOK, [Next]_vars
  PROVE  NextLoanId <= NextLoanId'
<1>1. NextLoanId \in Nat
  BY WidthAssumption DEF TypeOK
<1>2. ASSUME NEW who \in Users, NEW v \in Currencies, NEW c \in LoanCurrencies,
             NEW collateral \in CollateralAmounts, NEW amount \in LoanAmounts,
             create_loan(who, v, collateral, c, amount)
      PROVE  NextLoanId' = NextLoanId + 1
  BY <1>2 DEF create_loan
<1>3. ASSUME NEW b, NEW id, NEW who, NEW status, Settle(b, id, who, status)
      PROVE  NextLoanId' = NextLoanId
  BY <1>3 DEF Settle
<1>4. ASSUME NEW r \in CycleRewards, distribute_cycle_rewards(r)
      PROVE  NextLoanId' = NextLoanId
  BY <1>4 DEF distribute_cycle_rewards
<1> QED BY <1>1, <1>2, <1>3, <1>4, StepKinds

(* Prices moving in the borrower's favour never open a healthy loan to     *)
(* liquidation, in spite of the roundings in between.                      *)
THEOREM GoodPricesNeverLiquidate == Spec => GoodPricesKeepHealthy
<1> DEFINE A == \A id \in active_loans :
       LET v == Loans[id].collateral_vtoken
           c == Loans[id].loan_currency
       IN /\ Loans'[id] = Loans[id]
          /\ LoanValue(Loans[id]) # NoPrice
          /\ HasPrice(v)' /\ HasPrice(c)'
          /\ prices'[v] >= prices[v] /\ prices'[c] <= prices[c]
          /\ is_liquidatable(id)'
          => is_liquidatable(id)
<1>1. TypeOK /\ TypeOK' /\ [Next]_vars => [A]_vars
  BY GoodPricesStep, IdsGrow
<1> QED BY <1>1, TypeCorrect, PTL DEF Spec, GoodPricesKeepHealthy

-----------------------------------------------------------------------------
(* What a transfer moves when no remainder can be swept away as dust.      *)
Paid(c, d, yes, amount) == IF c = d /\ yes THEN amount ELSE 0

LEMMA ExactTransfer ==
  ASSUME NoExistentialDeposits, NEW b \in Balances, NEW c \in Currencies,
         NEW from \in Accounts, NEW to \in Accounts, from # to, NEW amount \in Nat,
         CanTransfer(b, c, from, to, amount)
  PROVE  \A d \in Currencies, a \in Accounts :
           /\ b[d][a] \in Nat
           /\ Transfer(b, c, from, to, amount)[d][a]
                = b[d][a] + Paid(c, d, a = to, amount) - Paid(c, d, a = from, amount)
<1>0. \A d \in Currencies : b[d] \in [Accounts -> Nat]
  BY DEF Balances
<1>1. CASE amount = 0
  BY <1>0, <1>1 DEF Transfer, Paid
<1>2. CASE amount # 0
  <2> DEFINE left == b[c][from] - amount
             debited == [b[c] EXCEPT ![from] = left]
             row == [debited EXCEPT ![to] = @ + amount]
             swept == [row EXCEPT ![TreasuryAccount] = @ + 0]
  <2>1. left \in Nat /\ Dust(c, from, left) = 0
    BY <1>0, <1>2 DEF CanTransfer, Dust, NoExistentialDeposits
  <2>2. Transfer(b, c, from, to, amount) = [b EXCEPT ![c] = swept]
    <3>1. left - Dust(c, from, left) = left
      BY <2>1
    <3> QED BY <1>2, <2>1, <3>1 DEF Transfer, Credit
  <2> HIDE DEF left
  <2>3. debited \in [Accounts -> Nat]
    BY <1>0, <2>1
  <2>4. row \in [Accounts -> Nat] /\ swept = row
    BY <2>3 DEF Accounts
  <2>5. /\ row[to] = b[c][to] + amount /\ row[from] = b[c][from] - amount
        /\ \A a \in Accounts \ {from, to} : row[a] = b[c][a]
    BY <1>0, <2>3 DEF left
  <2> HIDE DEF debited, row, swept
  <2>6. Transfer(b, c, from, to, amount)[c] = row
    BY <2>2, <2>4 DEF Balances
  <2>7. \A d \in Currencies : d # c => Transfer(b, c, from, to, amount)[d] = b[d]
    BY <2>2 DEF Balances
  <2> HIDE <2>2
  <2> QED BY <1>0, <2>5, <2>6, <2>7 DEF Paid
<1> QED BY <1>1, <1>2

(* The four payments of repay_loan, seen from an account other than the    *)
(* pallet's.                                                               *)
LEMMA RepayPays ==
  ASSUME NoExistentialDeposits, TypeOK, NEW who \in Users, NEW id \in DOMAIN Loans,
         repay_loan(who, id), NEW d \in Currencies, NEW a \in Accounts \ {PalletAccount}
  PROVE  LET loan == Loans[id]
             share == platform_share(LoanRewards[id])
         IN /\ balances[d][a] \in Nat
            /\ balances'[d][a] - balances[d][a]
                 = Paid(loan.collateral_vtoken, d, a = who,
                        loan.collateral_amount + LoanRewards[id] - share)
                   + Paid(loan.collateral_vtoken, d, a = TreasuryAccount, share)
                   - Paid(loan.loan_currency, d, a = who, loan.loan_amount)
<1> DEFINE v == Loans[id].collateral_vtoken
           c == Loans[id].loan_currency
           coll == Loans[id].collateral_amount
           debt == Loans[id].loan_amount
           r == LoanRewards[id]
           p == platform_share(r)
           b1 == Transfer(balances, c, who, PalletAccount, debt)
           b2 == PaidToLoanee(b1, id)
           b3 == Claim(b1, id)
<1>1. /\ v \in Currencies /\ c \in Currencies /\ coll \in Nat /\ debt \in Nat /\ r \in Nat
      /\ Loans[id].borrower = who
  BY LoanFacts DEF repay_loan
<1>2. p \in Nat /\ r - p \in Nat
  BY <1>1, ShareType
<1>3. /\ who \in Accounts /\ PalletAccount \in Accounts /\ TreasuryAccount \in Accounts
      /\ who # PalletAccount /\ TreasuryAccount # PalletAccount /\ who # TreasuryAccount
      /\ balances \in Balances /\ a \in Accounts /\ a # PalletAccount
  BY AccountsAssumption DEF Accounts, TypeOK, Balances
<1>4. CanTransfer(balances, c, who, PalletAccount, debt) /\ CanClaim(b1, id)
  BY DEF repay_loan
<1>5. b1 \in Balances
  BY <1>1, <1>3, <1>4, TransferType
<1>6. b1[d][a] = balances[d][a] - Paid(c, d, a = who, debt) /\ balances[d][a] \in Nat
  <2>1. /\ balances[d][a] \in Nat
        /\ b1[d][a] = balances[d][a] + Paid(c, d, a = PalletAccount, debt)
                         - Paid(c, d, a = who, debt)
    BY <1>1, <1>3, <1>4, ExactTransfer
  <2> QED BY <1>1, <1>3, <2>1 DEF Paid
<1> HIDE DEF b1
<1>7. /\ CanTransfer(b1, v, PalletAccount, who, r - p)
      /\ b2 = Transfer(b1, v, PalletAccount, who, r - p)
  BY <1>1, <1>4 DEF CanClaim, PaidToLoanee
<1>8. b2 \in Balances /\ b3 \in Balances
  BY <1>4, <1>5, ClaimType
<1>9. b2[d][a] = b1[d][a] + Paid(v, d, a = who, r - p) /\ b1[d][a] \in Nat
  BY <1>1, <1>2, <1>3, <1>5, <1>7, ExactTransfer DEF Paid
<1>10. /\ CanTransfer(b2, v, PalletAccount, TreasuryAccount, p)
       /\ b3 = Transfer(b2, v, PalletAccount, TreasuryAccount, p)
  BY <1>4 DEF CanClaim, Claim
<1> HIDE DEF b2
<1>11. b3[d][a] = b2[d][a] + Paid(v, d, a = TreasuryAccount, p) /\ b2[d][a] \in Nat
  BY <1>1, <1>2, <1>3, <1>8, <1>10, ExactTransfer DEF Paid
<1>12. Settle(b3, id, who, "Repaid")
  BY DEF repay_loan, b1
<1> HIDE DEF b3
<1>13. balances'[d][a] = b3[d][a] + Paid(v, d, a = who, coll) /\ b3[d][a] \in Nat
  <2>1. CanTransfer(b3, v, PalletAccount, who, coll)
        /\ balances' = Transfer(b3, v, PalletAccount, who, coll)
    BY <1>12 DEF Settle
  <2> QED BY <1>1, <1>3, <1>8, <2>1, ExactTransfer DEF Paid
<1> HIDE DEF v, c, coll, debt, r, p
<1>14. balances'[d][a] - balances[d][a]
         = Paid(v, d, a = who, coll + r - p) + Paid(v, d, a = TreasuryAccount, p)
           - Paid(c, d, a = who, debt)
  BY <1>1, <1>2, <1>3, <1>6, <1>9, <1>11, <1>13 DEF Paid
<1> QED BY <1>6, <1>14 DEF v, c, coll, debt, r, p

(* Only repay_loan marks a loan repaid.                                    *)
LEMMA OnlyRepayRepays ==
  ASSUME TypeOK, [Next]_vars, NEW id \in active_loans, Loans'[id].status = "Repaid"
  PROVE  id \in DOMAIN Loans /\ repay_loan(Loans[id].borrower, id) /\ Loans[id].borrower \in Users
<1>0. id \in DOMAIN Loans /\ Loans[id].status = "Active" /\ Loans[id].borrower \in Users
  BY LoanFacts DEF active_loans, IsActive
<1>1. ASSUME NEW who \in Users, NEW v \in Currencies, NEW c \in LoanCurrencies,
             NEW collateral \in CollateralAmounts, NEW amount \in LoanAmounts,
             create_loan(who, v, collateral, c, amount)
      PROVE  FALSE
  BY <1>0, <1>1, CreateRecords
<1>2. ASSUME NEW who \in Users, NEW i \in DOMAIN Loans, repay_loan(who, i)
      PROVE  i = id /\ who = Loans[id].borrower
  <2> DEFINE repaid == Transfer(balances, Loans[i].loan_currency, who, PalletAccount,
                                Loans[i].loan_amount)
  <2>1. Settle(Claim(repaid, i), i, who, "Repaid") /\ Loans[i].borrower = who
    BY <1>2 DEF repay_loan
  <2> HIDE DEF repaid
  <2> QED BY <1>0, <2>1 DEF Settle, TypeOK
<1>3. ASSUME NEW who \in Users, NEW i \in DOMAIN Loans, liquidate_loan(who, i)
      PROVE  FALSE
  <2> DEFINE paid == Transfer(Claim(balances, i), Loans[i].loan_currency, who, PalletAccount,
                              Loans[i].loan_amount)
  <2>1. Settle(paid, i, who, "Liquidated")
    BY <1>3 DEF liquidate_loan
  <2> HIDE DEF paid
  <2>2. Loans[i] \in LoanPosition
    BY LoanFacts
  <2> QED BY <1>0, <2>1, <2>2 DEF Settle, TypeOK, LoanPosition
<1>4. ASSUME Loans' = Loans PROVE FALSE
  BY <1>0, <1>4
<1>5. ASSUME NEW r \in CycleRewards, distribute_cycle_rewards(r) PROVE FALSE
  BY <1>4, <1>5 DEF distribute_cycle_rewards
<1>6. ASSUME Environment \/ UNCHANGED vars PROVE FALSE
  BY <1>4, <1>6 DEF Environment, PriceUpdate, Fund, vars
<1> QED BY <1>0, <1>1, <1>2, <1>3, <1>5, <1>6 DEF Next, LoanCalls

(* A borrower repays exactly what was borrowed, and gets back exactly the  *)
(* collateral and the loanee's part of the rewards; the treasury gets      *)
(* exactly the platform's share, and no other user is touched.             *)
THEOREM RepayIsExact == NoExistentialDeposits => (Spec => RepaidExactly)
<1> DEFINE A == \A id \in active_loans : Loans'[id].status = "Repaid" =>
       LET loan == Loans[id]
           share == platform_share(LoanRewards[id])
           Delta(c, a) == balances'[c][a] - balances[c][a]
           In(c, n) == IF c = loan.collateral_vtoken THEN n ELSE 0
           Out(c, n) == IF c = loan.loan_currency THEN n ELSE 0
       IN \A c \in Currencies :
            /\ Delta(c, loan.borrower)
                 = In(c, loan.collateral_amount + LoanRewards[id] - share)
                   - Out(c, loan.loan_amount)
            /\ Delta(c, TreasuryAccount) = In(c, share)
            /\ \A u \in Users \ {loan.borrower} : Delta(c, u) = 0
<1> SUFFICES ASSUME NoExistentialDeposits PROVE Spec => RepaidExactly
  OBVIOUS
<1>1. TypeOK /\ [Next]_vars => [A]_vars
  <2> SUFFICES ASSUME TypeOK, [Next]_vars, NEW id \in active_loans, Loans'[id].status = "Repaid",
                      NEW c \in Currencies
               PROVE  LET loan == Loans[id]
                          share == platform_share(LoanRewards[id])
                          Delta(a) == balances'[c][a] - balances[c][a]
                          In(n) == IF c = loan.collateral_vtoken THEN n ELSE 0
                          Out(n) == IF c = loan.loan_currency THEN n ELSE 0
                      IN /\ Delta(loan.borrower)
                              = In(loan.collateral_amount + LoanRewards[id] - share)
                                - Out(loan.loan_amount)
                         /\ Delta(TreasuryAccount) = In(share)
                         /\ \A u \in Users \ {loan.borrower} : Delta(u) = 0
    OBVIOUS
  <2> DEFINE who == Loans[id].borrower
             n1 == Loans[id].collateral_amount + LoanRewards[id] - platform_share(LoanRewards[id])
             share == platform_share(LoanRewards[id])
             debt == Loans[id].loan_amount
             v == Loans[id].collateral_vtoken
             lc == Loans[id].loan_currency
  <2>1. id \in DOMAIN Loans /\ who \in Users /\ repay_loan(who, id)
    BY OnlyRepayRepays
  <2>2. n1 \in Nat /\ share \in Nat /\ debt \in Nat
    BY <2>1, LoanFacts, ShareType
  <2>3. /\ \A u \in Users : u \in Accounts \ {PalletAccount} /\ u # TreasuryAccount
        /\ TreasuryAccount \in Accounts \ {PalletAccount}
    BY AccountsAssumption DEF Accounts
  <2>4. \A a \in Accounts \ {PalletAccount} :
           balances'[c][a] - balances[c][a]
             = Paid(v, c, a = who, n1) + Paid(v, c, a = TreasuryAccount, share)
               - Paid(lc, c, a = who, debt)
    BY <2>1, RepayPays
  <2> HIDE DEF n1, share, debt, v, lc, who
  <2>5. /\ balances'[c][who] - balances[c][who]
             = (IF c = v THEN n1 ELSE 0) - (IF c = lc THEN debt ELSE 0)
        /\ balances'[c][TreasuryAccount] - balances[c][TreasuryAccount] = (IF c = v THEN share ELSE 0)
        /\ \A u \in Users \ {who} : balances'[c][u] - balances[c][u] = 0
    BY <2>1, <2>2, <2>3, <2>4 DEF Paid
  <2> QED BY <2>5 DEF n1, share, debt, v, lc, who
<1> QED BY <1>1, TypeCorrect, PTL DEF Spec, RepaidExactly
=============================================================================
