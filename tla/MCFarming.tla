------------------------------ MODULE MCFarming ------------------------------
(* Instances of Farming for TLC.                                           *)
EXTENDS Farming, TLC

CONSTANTS alice, bob

UserSymmetry == Permutations(Users)

=============================================================================
