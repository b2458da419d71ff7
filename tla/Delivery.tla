------------------------------ MODULE Delivery ------------------------------
(***************************************************************************)
(* What the messaging engine promises about a message, with no queue,      *)
(* worker or cron in sight: one ledger entry per message.  A message that  *)
(* is recorded as sent is out for good: it is never put back in the queue, *)
(* tried again or given up; a message that was given up stays failed; and  *)
(* only a message in the hands of a worker can become either.              *)
(***************************************************************************)
CONSTANT Messages

VARIABLES
  phase,    \* "none", "queued", "inflight", "out" or "failed"
  recorded  \* the id WhatsApp gave the message is on record

vars == <<phase, recorded>>

Init ==
  /\ phase = [m \in Messages |-> "none"]
  /\ recorded = [m \in Messages |-> FALSE]

Move(m, from, to) ==
  /\ phase[m] = from
  /\ phase' = [phase EXCEPT ![m] = to]

Accept(m) == Move(m, "none", "queued") /\ UNCHANGED recorded
Start(m)  == Move(m, "queued", "inflight") /\ ~recorded[m] /\ UNCHANGED recorded
PutBack(m) == Move(m, "inflight", "queued") /\ ~recorded[m] /\ UNCHANGED recorded
GiveUp(m) == Move(m, "inflight", "failed") /\ UNCHANGED recorded

Deliver(m) ==
  /\ Move(m, "inflight", "out")
  /\ recorded' = [recorded EXCEPT ![m] = TRUE]

Next ==
  \E m \in Messages :
    Accept(m) \/ Start(m) \/ PutBack(m) \/ GiveUp(m) \/ Deliver(m)

Spec == Init /\ [][Next]_vars
=============================================================================
