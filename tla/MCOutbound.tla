----------------------------- MODULE MCOutbound -----------------------------
(* Model values and symmetry for the TLC runs of Outbound.                  *)
EXTENDS Outbound, TLC
CONSTANTS m1, w1, w2, c1, c2, r1, r2, o1, o2
WorkerSymmetry == Permutations(Workers)
=============================================================================
