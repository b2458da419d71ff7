----------------------------- MODULE MCSequence -----------------------------
(* Model values and symmetry for the TLC runs of Sequence.                 *)
EXTENDS Sequence, TLC
CONSTANTS s1, s2, r1, r2, w1, w2, u1
MCSequenceOf(r) == s1
RunSymmetry == Permutations(Workers) \cup Permutations(Recipients)
=============================================================================
