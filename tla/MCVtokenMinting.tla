--------------------------- MODULE MCVtokenMinting ---------------------------
(* Small instances of VtokenMinting for TLC.                               *)
EXTENDS VtokenMinting, TLC

CONSTANTS alice, bob, entrance, fees, treasury, eth, hpeth, veth

ToVeth == [c \in Tokens |-> veth]
OneUnit == [c \in Tokens |-> 1]
NoMinimumMint == [c \in Tokens |-> 0]
OneRedeem == [v \in VTokens |-> 1]
NoED == [c \in Currencies |-> 0]
TwoED == [c \in Currencies |-> IF c \in Tokens THEN 2 ELSE 0]

\* Users hold n of every token, the entrance account nothing.
Genesis(n) ==
  [c \in Currencies |-> [a \in Accounts |-> IF c \in Tokens /\ a \in Users THEN n ELSE 0]]
Genesis3 == Genesis(3)
Genesis2 == Genesis(2)

UserSymmetry == Permutations(Users)
=============================================================================
