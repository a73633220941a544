--------------------------- MODULE MCTierAccounting ---------------------------
(***************************************************************************)
(* Small instance of the counters: three tiers, reached beyond one and     *)
(* beyond two units of energy, or one unit later under the other limits;   *)
(* the unit at a price that rises with them.                               *)
(***************************************************************************)
EXTENDS TierAccounting, TLC

MCLimits == {<<1, 2>>, <<2, 3>>}

MCCost(l, u) == l * u

(* Under which every device at rest is in its tier.                        *)
ASSUME MCTiersApart == TiersApart

Symmetry == Permutations(Workers)
=============================================================================
