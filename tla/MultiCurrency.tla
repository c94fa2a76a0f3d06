---------------------------- MODULE MultiCurrency ----------------------------
(***************************************************************************)
(* T::MultiCurrency, the token ledger the pallets work on, as orml-tokens  *)
(* keeps it (external code): balances b map a currency and an account to a *)
(* free balance.  An operation on a zero amount is a no-op, the account    *)
(* paid must end at its existential deposit, the account charged needs the *)
(* amount, and a remainder below its existential deposit is swept to the   *)
(* treasury.  Accounts of the dust whitelist are exempt from both rules.   *)
(***************************************************************************)
EXTENDS Integers

CONSTANTS
  ED,               \* existential deposit of each currency
  DustWhitelist,    \* accounts exempt from dust removal
  TreasuryAccount   \* where dust goes

\* Mutant: the sender's balance is not checked.
CanTransferUnchecked(b, c, from, to, amount) == TRUE

CanTransfer(b, c, from, to, amount) ==
  \/ amount = 0
  \/ /\ amount <= b[c][from]
     /\ b[c][to] + amount >= ED[c] \/ to \in DustWhitelist

Dust(c, account, left) ==
  IF account \in DustWhitelist \/ left >= ED[c] THEN 0 ELSE left

Credit(row, account, amount) == [row EXCEPT ![account] = @ + amount]

Transfer(b, c, from, to, amount) ==
  LET left == b[c][from] - amount
      dust == Dust(c, from, left)
      debited == [b[c] EXCEPT ![from] = left - dust]
  IN IF amount = 0 THEN b
     ELSE [b EXCEPT ![c] = Credit(Credit(debited, to, amount), TreasuryAccount, dust)]

CanDeposit(b, c, to, amount) ==
  amount = 0 \/ b[c][to] + amount >= ED[c] \/ to \in DustWhitelist

Deposit(b, c, to, amount) == [b EXCEPT ![c] = Credit(b[c], to, amount)]

CanWithdraw(b, c, from, amount) == amount <= b[c][from]

Withdraw(b, c, from, amount) ==
  LET left == b[c][from] - amount
      dust == Dust(c, from, left)
      debited == [b[c] EXCEPT ![from] = left - dust]
  IN IF amount = 0 THEN b
     ELSE [b EXCEPT ![c] = Credit(debited, TreasuryAccount, dust)]
=============================================================================
