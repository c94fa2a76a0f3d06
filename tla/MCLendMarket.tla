---------------------------- MODULE MCLendMarket ----------------------------
(* Small instances of LendMarket for TLC.                                  *)
EXTENDS LendMarket, TLC

CONSTANTS alice, bob, pallet, incentive, treasury, dot, ksm

\* Two vouchers for a unit at first, half of the collateral counts, debts
\* double in a year at full utilisation.
StandardMarket ==
  [state |-> "Active",
   collateral_factor |-> 50, liquidation_threshold |-> 60, reserve_factor |-> 50,
   close_factor |-> 70, liquidate_incentive |-> 1250,
   liquidate_incentive_reserved_factor |-> 50,
   supply_cap |-> 8, borrow_cap |-> 6,
   base_rate |-> 100, jump_rate |-> 300, full_rate |-> 500, jump_utilization |-> 40]
SupervisedMarket ==
  [StandardMarket EXCEPT !.state = "Supervision", !.collateral_factor = 0, !.base_rate = 0]

StandardMarkets == [a \in Assets |-> StandardMarket]
KsmPending == [StandardMarkets EXCEPT ![ksm].state = "Pending"]
Supervised == {SupervisedMarket}

\* Each user holds four of an asset of its own, the treasury one dot.
Genesis ==
  [a \in Assets |-> [u \in Accounts |->
    IF (a = dot /\ u = alice) \/ (a = ksm /\ u = bob) THEN 4
    ELSE IF a = dot /\ u = treasury THEN 1 ELSE 0]]
StartPrices == [a \in Assets |-> IF a = dot THEN 4 * ONE ELSE 8 * ONE]
KsmBond == [a \in Assets |-> IF a = dot THEN {ksm} ELSE {}]
\* What a payment leaves of the pool's dot below two is dust.
DotED == [a \in Assets |-> IF a = dot THEN 2 ELSE 0]
DotBond == {{dot}}
KsmFree == {{ksm}}
=============================================================================
