----------------------------- MODULE MCBilling -----------------------------
(* Model values for the TLC run of Billing.                                *)
EXTENDS Billing, TLC
CONSTANTS c1, c2, u1
=============================================================================
