------------------------- MODULE MCNoInterestLoans -------------------------
(* Small instances of NoInterestLoans for TLC.                             *)
EXTENDS NoInterestLoans, TLC

CONSTANTS alice, bob, pallet, treasury, vdot, vksm, usdc

NoED == [c \in Currencies |-> 0]
AllAccounts == Accounts

\* Like the genesis of mock.rs: users hold vTokens, the pallet the money to lend.
Genesis(userV, userUsdc, palletUsdc) ==
  [c \in Currencies |-> [a \in Accounts |->
     CASE c \in VTokens /\ a \in Users -> userV
       [] c = usdc /\ a \in Users -> userUsdc
       [] c = usdc /\ a = pallet -> palletUsdc
       [] OTHER -> 0]]

Genesis321 == Genesis(3, 2, 2)
GenesisBig == Genesis(7, 4, 11)

UserSymmetry == Permutations(Users)
=============================================================================
