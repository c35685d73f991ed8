-------------------------- MODULE MCListingBudget ---------------------------
(* Instances of ListingBudget for TLC.                                     *)
EXTENDS ListingBudget, TLC

CONSTANTS t1, t2

Pair == {t1, t2}
PairPermutations == Permutations(Pair)

=============================================================================
