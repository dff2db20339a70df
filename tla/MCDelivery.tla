----------------------------- MODULE MCDelivery -----------------------------
(* Delivery for TLC; the other constants get their values in the .cfg      *)
(* files.                                                                  *)
EXTENDS Delivery, TLC

\* Conns are interchangeable in the runs that check no liveness.
ConnSymmetry == Permutations(Conns)

\* The second row is oversized in the one run and delivered in the other.
ClaimsQoss == 1 :> {0, 2} @@ 2 :> {0}
FlowQoss   == 1 :> {1} @@ 2 :> {1, 2}
=============================================================================
