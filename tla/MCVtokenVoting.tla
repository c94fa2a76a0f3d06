---------------------------- MODULE MCVtokenVoting ----------------------------
(* Small instances of VtokenVoting for TLC.                                *)
EXTENDS VtokenVoting, TLC

CONSTANTS alice, bob

Standard(side, conviction, balance) ==
  [side |-> side, conviction |-> conviction, abstain |-> 0,
   aye |-> IF side = "aye" THEN balance ELSE 0, nay |-> IF side = "nay" THEN balance ELSE 0]

Split(aye, nay, abstain) ==
  [side |-> "split", conviction |-> 0, aye |-> aye, nay |-> nay, abstain |-> abstain]

SomeVotes == {Standard("aye", 1, 10), Standard("nay", 0, 20), Split(10, 5, 5)}
OneDelegation == {<<1, 10>>}

Twenty == [u \in Users |-> 20]
NoDelegators == <<>>
JustTheCap == [d \in Derivatives |-> VoteCap]

UserSymmetry == Permutations(Users)
=============================================================================
