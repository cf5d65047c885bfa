----------------------------- MODULE MCReadSide -----------------------------
(***************************************************************************)
(* The readers with a small set of DAGs; the refreshes are interchangeable.*)
(***************************************************************************)
EXTENDS ReadSide

RefreshSymmetry == Permutations(Refreshes)
=============================================================================
