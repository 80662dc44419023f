---------------------------- MODULE MCCarContract ----------------------------
(* CarContract for TLC: addresses other than the pool's, and names, are        *)
(* interchangeable.                                                          *)
EXTENDS CarContract, TLC

Interchangeable == Permutations(Address \ {Genesis}) \cup Permutations(Names)
=============================================================================
