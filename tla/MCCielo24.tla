----------------------------- MODULE MCCielo24 -----------------------------
(* Cielo24 for TLC.                                                          *)
EXTENDS Cielo24, TLC

CieloSymmetry == Permutations(Orders) \cup Permutations(Handlers)
=============================================================================
