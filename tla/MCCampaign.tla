----------------------------- MODULE MCCampaign -----------------------------
(* Model values, batches and symmetry for the TLC runs of Campaign.         *)
EXTENDS Campaign, TLC
CONSTANTS c1, c2, r1, r2, u1, u2
MCBatchOf(c) == IF c = c1 THEN 1 ELSE 2
OneBatchOf(c) == 1
Symmetry == Permutations({u1, u2})

\* Either two requests race, or one execution and the receipts of its message:
\* what a receipt has touched is explored no further once there is a second
\* request, a scheduled start, or a message astray, of whose counters
\* CountersHonest says nothing.
Received ==
  \E c \in Contacts :
    msg[c] \in {"delivered", "read"} \/ \E e \in Events : e[2] # 0 /\ ev[c][e] # "off"
OneRace == Received => requests = 1 /\ ~due /\ astray = {}
=============================================================================
