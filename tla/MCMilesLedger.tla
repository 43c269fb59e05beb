--------------------------- MODULE MCMilesLedger ----------------------------
(* Small instances of MilesLedger; the bounds are in the .cfg files.       *)
EXTENDS MilesLedger, TLC

\* Deliveries, redemptions and purchases are alike.
Symmetric == Permutations(Calls) \union Permutations(Redemptions)
=============================================================================
