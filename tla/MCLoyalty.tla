-------------------------------- MODULE MCLoyalty --------------------------------
(* Loyalty on a small instance. The totals stop half a cent below the       *)
(* silver threshold, cross gold and platinum by accumulation, overflow the  *)
(* spend column (5,500 pesos here) and, the last one, the int32 too.        *)
EXTENDS Loyalty

MCTotals == {0, 499996, 1500004, 3000000, 6000000}

MCRedemptions == {0, 499, 1500}

MCMaxSpent == 5500000

===================================================================================
