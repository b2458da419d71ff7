------------------------------ MODULE MCSession ------------------------------
(* Instances of Session for TLC.                                            *)
EXTENDS Session, TLC

CONSTANTS a1, a2, k1, k2

Symmetry == Permutations(Sockets) \cup Permutations(Clients)
=============================================================================
