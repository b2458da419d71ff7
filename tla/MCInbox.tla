------------------------------ MODULE MCInbox ------------------------------
(* Model values for the TLC run of Inbox.                                  *)
EXTENDS Inbox, TLC
CONSTANTS m1, m2, r1, w1, w2, u1, h1
=============================================================================
