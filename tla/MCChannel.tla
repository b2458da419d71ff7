----------------------------- MODULE MCChannel -----------------------------
(* Model values for the TLC run of Channel.                                *)
EXTENDS Channel, TLC
CONSTANTS m1, w1, w2, c1, c2, h1
=============================================================================
