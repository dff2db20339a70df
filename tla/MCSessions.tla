----------------------------- MODULE MCSessions -----------------------------
(* Sessions instantiated for TLC.                                          *)
EXTENDS Sessions, TLC

ConnSymmetry == Permutations(Conns)
=============================================================================
