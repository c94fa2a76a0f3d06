------------------------- MODULE MultiCurrencyProofs -------------------------
(* What an operation on the token ledger leaves behind, for a ledger b of  *)
(* the currencies C and the accounts A.                                    *)
EXTENDS MultiCurrency, TLAPS

(* Dust is part of what is left on the account.                            *)
LEMMA DustType ==
  ASSUME NEW c, NEW account, NEW left \in Nat
  PROVE  /\ Dust(c, account, left) \in Nat /\ Dust(c, account, left) <= left
         /\ account \in DustWhitelist => Dust(c, account, left) = 0
BY DEF Dust

(* A deposit adds the amount to one balance.                               *)
LEMMA DepositEffect ==
  ASSUME NEW C, NEW A, NEW b \in [C -> [A -> Nat]], NEW c \in C, NEW to \in A,
         NEW amount \in Nat
  PROVE  LET d == Deposit(b, c, to, amount)
         IN /\ d \in [C -> [A -> Nat]]
            /\ \A e \in C : e # c => d[e] = b[e]
            /\ \A a \in A : a # to => d[c][a] = b[c][a]
            /\ d[c][to] = b[c][to] + amount
BY DEF Deposit, Credit

(* A withdrawal takes the amount from one balance, and dust with it unless *)
(* the account is exempt.                                                  *)
LEMMA WithdrawEffect ==
  ASSUME NEW C, NEW A, NEW b \in [C -> [A -> Nat]], NEW c \in C, NEW from \in A,
         NEW amount \in Nat, TreasuryAccount \in A, CanWithdraw(b, c, from, amount)
  PROVE  LET d == Withdraw(b, c, from, amount)
         IN /\ d \in [C -> [A -> Nat]]
            /\ \A e \in C : e # c => d[e] = b[e]
            /\ \A a \in A \ {from, TreasuryAccount} : d[c][a] = b[c][a]
            /\ from # TreasuryAccount /\ from \in DustWhitelist
                 => d[c][from] = b[c][from] - amount
<1>1. CASE amount = 0
  BY <1>1 DEF Withdraw
<1>2. CASE amount # 0
  <2> DEFINE left == b[c][from] - amount
             dust == Dust(c, from, left)
             row == Credit([b[c] EXCEPT ![from] = left - dust], TreasuryAccount, dust)
  <2>1. left \in Nat
    BY DEF CanWithdraw
  <2>2. dust \in Nat /\ dust <= left /\ (from \in DustWhitelist => dust = 0)
    BY <2>1, DustType
  <2>3. Withdraw(b, c, from, amount) = [b EXCEPT ![c] = row]
    BY <1>2 DEF Withdraw
  <2> HIDE DEF dust
  <2>4. /\ row \in [A -> Nat]
        /\ \A a \in A \ {from, TreasuryAccount} : row[a] = b[c][a]
        /\ from # TreasuryAccount /\ from \in DustWhitelist => row[from] = left
    BY <2>1, <2>2 DEF Credit
  <2> HIDE DEF row
  <2> QED BY <2>3, <2>4
<1> QED BY <1>1, <1>2

(* A transfer moves the amount, and dust with it unless the sender is      *)
(* exempt.                                                                 *)
LEMMA TransferEffect ==
  ASSUME NEW C, NEW A, NEW b \in [C -> [A -> Nat]], NEW c \in C, NEW from \in A, NEW to \in A,
         NEW amount \in Nat, TreasuryAccount \in A, CanTransfer(b, c, from, to, amount)
  PROVE  LET d == Transfer(b, c, from, to, amount)
         IN /\ d \in [C -> [A -> Nat]]
            /\ \A e \in C : e # c => d[e] = b[e]
            /\ \A a \in A \ {from, to, TreasuryAccount} : d[c][a] = b[c][a]
            /\ to \notin {from, TreasuryAccount} => d[c][to] = b[c][to] + amount
            /\ from \notin {to, TreasuryAccount} /\ from \in DustWhitelist
                 => d[c][from] = b[c][from] - amount
<1>1. CASE amount = 0
  BY <1>1 DEF Transfer
<1>2. CASE amount # 0
  <2> DEFINE left == b[c][from] - amount
             dust == Dust(c, from, left)
             paid == Credit([b[c] EXCEPT ![from] = left - dust], to, amount)
             row == Credit(paid, TreasuryAccount, dust)
  <2>1. left \in Nat
    BY <1>2 DEF CanTransfer
  <2>2. dust \in Nat /\ dust <= left /\ (from \in DustWhitelist => dust = 0)
    BY <2>1, DustType
  <2>3. Transfer(b, c, from, to, amount) = [b EXCEPT ![c] = row]
    BY <1>2 DEF Transfer
  <2> HIDE DEF dust
  <2>4. /\ paid \in [A -> Nat]
        /\ \A a \in A \ {from, to} : paid[a] = b[c][a]
        /\ to # from => paid[to] = b[c][to] + amount
        /\ from # to /\ from \in DustWhitelist => paid[from] = left
    BY <2>1, <2>2 DEF Credit
  <2> HIDE DEF paid
  <2>5. /\ row \in [A -> Nat]
        /\ \A a \in A \ {TreasuryAccount} : row[a] = paid[a]
    BY <2>2, <2>4 DEF Credit
  <2> HIDE DEF row
  <2> QED BY <2>3, <2>4, <2>5
<1> QED BY <1>1, <1>2

(* What is left of the sender's balance, which below the existential       *)
(* deposit is swept unless the sender is exempt.                           *)
LEMMA TransferLeaves ==
  ASSUME NEW C, NEW A, NEW b \in [C -> [A -> Nat]], NEW c \in C, NEW from \in A, NEW to \in A,
         NEW amount \in Nat, TreasuryAccount \in A, CanTransfer(b, c, from, to, amount),
         from \notin {to, TreasuryAccount}, ED[c] \in Nat
  PROVE  LET left == Transfer(b, c, from, to, amount)[c][from]
         IN \/ left = b[c][from] - amount
            \/ left = 0 /\ from \notin DustWhitelist /\ ED[c] > 0
<1>1. CASE amount = 0
  BY <1>1 DEF Transfer
<1>2. CASE amount # 0
  <2> DEFINE left == b[c][from] - amount
             dust == Dust(c, from, left)
             row == Credit(Credit([b[c] EXCEPT ![from] = left - dust], to, amount),
                           TreasuryAccount, dust)
  <2>1. left \in Nat
    BY <1>2 DEF CanTransfer
  <2>2. \/ dust = 0
        \/ dust = left /\ from \notin DustWhitelist /\ ED[c] > 0
    BY <2>1 DEF Dust
  <2>3. Transfer(b, c, from, to, amount) = [b EXCEPT ![c] = row]
    BY <1>2 DEF Transfer
  <2>4. dust \in Nat
    BY <2>1, <2>2
  <2> HIDE DEF dust
  <2>5. row[from] = left - dust
    BY <2>1, <2>4 DEF Credit
  <2> HIDE DEF row, left
  <2>6. Transfer(b, c, from, to, amount)[c][from] = left - dust
    BY <2>3, <2>5
  <2>7. left - dust = left \/ (left - dust = 0 /\ from \notin DustWhitelist /\ ED[c] > 0)
    BY <2>1, <2>2, <2>4
  <2> QED BY <2>6, <2>7 DEF left
<1> QED BY <1>1, <1>2
=============================================================================
