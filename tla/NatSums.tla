------------------------------ MODULE NatSums ------------------------------
(* Finite sums of a function over an initial segment 0 .. n-1 of the       *)
(* naturals, written as a recursive function so that the sums can be       *)
(* evaluated by TLC and reasoned about by TLAPS.                           *)
EXTENDS Integers

PartialSums(f) == LET S[i \in Nat] == IF i = 0 THEN 0 ELSE S[i-1] + f[i-1] IN S

SumTo(f, n) == PartialSums(f)[n]
=============================================================================
