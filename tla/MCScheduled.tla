---------------------------- MODULE MCScheduled ----------------------------
(* Model values for the TLC run of Scheduled.                              *)
EXTENDS Scheduled, TLC
CONSTANTS m1, m2, c1, c2, u1, u2
=============================================================================
