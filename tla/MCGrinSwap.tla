----------------------------- MODULE MCGrinSwap -----------------------------
(* GrinSwap for TLC: deposits are interchangeable. *)
EXTENDS GrinSwapRefines, TLC

Symmetry == Permutations(Deposits)
=============================================================================
