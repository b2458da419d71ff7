--------------------------- MODULE OutboundProofs ---------------------------
(***************************************************************************)
(* Theorems about the send engine, for any number of messages, workers,    *)
(* crons, receivers, operators and faults: a message whose fate no recovery*)
(* and no fault made uncertain is handed to WhatsApp at most once, has one *)
(* handler at a time, is dead-lettered once and only if WhatsApp does not  *)
(* have it, and stays delivered; and the engine implements the ledger of   *)
(* module Delivery.                                                        *)
(***************************************************************************)
EXTENDS Outbound, TLAPS

LEMMA OfferedType ==
  ASSUME job \in [Messages -> [Keys -> JobState]], NEW m, NEW k
  PROVE  Offered(m, k) \in [Messages -> [Keys -> JobState]]
BY DEF Offered, JobState

\* A worker that is not idle has a message, and moves keep it well-typed.
LEMMA WorkerMoves ==
  ASSUME TypeOK, NEW w \in Workers, wk[w].pc # "idle"
  PROVE  /\ wk[w] \in BusyWorker
         /\ wk[w].m \in Messages /\ wk[w].key \in Keys /\ wk[w].snap \in Nat
BY DEF TypeOK, BusyWorker, IdleWorker

LEMMA ReturnType ==
  ASSUME TypeOK, NEW w \in Workers, NEW jobs \in [Messages -> [Keys -> JobState]],
         Return(w, jobs)
  PROVE  /\ job' \in [Messages -> [Keys -> JobState]]
         /\ wk' \in [Workers -> BusyWorker \cup {IdleWorker}]
BY DEF TypeOK, Return, JobState

LEMMA GotoType ==
  ASSUME TypeOK, NEW w \in Workers, wk[w].pc # "idle", NEW l \in BusyPcs, Goto(w, l)
  PROVE  wk' \in [Workers -> BusyWorker \cup {IdleWorker}]
<1>1. wk[w] \in BusyWorker  BY WorkerMoves
<1>2. [wk[w] EXCEPT !.pc = l] \in BusyWorker  BY <1>1 DEF BusyWorker
<1>3. QED  BY <1>2 DEF Goto, TypeOK

LEMMA DeadLetterType ==
  ASSUME open \in [Messages -> SUBSET Nat], buried \in [Messages -> Nat],
         NEW m \in Messages, CreateDeadLetter(m)
  PROVE  open' \in [Messages -> SUBSET Nat] /\ buried' \in [Messages -> Nat]
<1>1. buried[m] + 1 \in Nat  OBVIOUS
<1>2. open[m] \cup {buried[m] + 1} \in SUBSET Nat  BY <1>1
<1>3. QED  BY <1>1, <1>2 DEF CreateDeadLetter

LEMMA TypeInit == ASSUME OutboundAssumption, Init PROVE TypeOK
BY DEF OutboundAssumption, Init, TypeOK, Status, Keys, JobState, MaxSends

LEMMA WorkerType ==
  ASSUME OutboundAssumption, TypeOK, NEW w \in Workers, WorkerStep(w) \/ WorkerFault(w)
  PROVE  TypeOK'
<1> USE DEF rows, dead, procs, hist
<1>1. wk[w].pc # "idle"
  BY DEF WorkerStep, WorkerFault, Load, Claim, Limit, Postpone, Admit, Refuse, Accepted, Rejected,
         MarkSent, Report, FailRetry, ScheduleRetry, FailFinally, Bury, AckLost, Throw, ThrowAfterSend
<1>2. PICK m \in Messages : m = wk[w].m  BY <1>1, WorkerMoves
<1>3. wk[w] \in BusyWorker /\ wk[w].snap \in Nat /\ wk[w].key \in Keys  BY <1>1, WorkerMoves
<1>4. job \in [Messages -> [Keys -> JobState]] /\ status[m] \in Status /\ retry[m] \in Nat
      /\ wk \in [Workers -> BusyWorker \cup {IdleWorker}] /\ buried[m] \in Nat
  BY DEF TypeOK
<1> DEFINE Busy(x) == x \in BusyWorker
           WType == wk' \in [Workers -> BusyWorker \cup {IdleWorker}]
           JType == job' \in [Messages -> [Keys -> JobState]]
<1>5. ASSUME NEW x \in BusyWorker, wk' = [wk EXCEPT ![w] = x] PROVE WType
  BY <1>4, <1>5
<1>6. CASE Load(w)
  <2>1. [wk[w] EXCEPT !.pc = "claiming", !.snap = retry[m]] \in BusyWorker
    BY <1>3, <1>4 DEF BusyWorker, BusyPcs
  <2>2. CASE Return(w, job)
    <3>1. WType /\ JType  BY <1>4, <2>2, ReturnType
    <3>2. QED  BY <1>6, <3>1 DEF Load, TypeOK
  <2>3. CASE wk' = [wk EXCEPT ![w].pc = "claiming", ![w].snap = retry[m]] /\ UNCHANGED job
    <3>1. wk' = [wk EXCEPT ![w] = [wk[w] EXCEPT !.pc = "claiming", !.snap = retry[m]]]
      BY <2>3, <1>4
    <3>2. WType  BY <1>5, <2>1, <3>1
    <3>3. QED  BY <1>6, <2>3, <3>2 DEF Load, TypeOK
  <2>4. QED  BY <1>2, <1>6, <2>2, <2>3 DEF Load
<1>7. CASE Claim(w)
  <2>1. CASE Return(w, job) /\ UNCHANGED status
    <3>1. WType /\ JType  BY <1>4, <2>1, ReturnType
    <3>2. QED  BY <1>7, <2>1, <3>1 DEF Claim, TypeOK
  <2>2. CASE Goto(w, "claimed") /\ status' = [status EXCEPT ![m] = "PROCESSING"] /\ UNCHANGED job
    <3>1. WType  BY <1>1, <2>2, GotoType DEF BusyPcs
    <3>2. QED  BY <1>7, <2>2, <3>1 DEF Claim, TypeOK, Status
  <2>3. QED  BY <1>2, <1>7, <2>1, <2>2 DEF Claim
<1>8. CASE Limit(w)
  <2>1. WType  BY <1>1, <1>8, GotoType DEF Limit, BusyPcs
  <2>2. QED  BY <1>2, <1>4, <1>8, <2>1 DEF Limit, TypeOK, Status
<1>9. CASE Postpone(w)
  <2>1. Offered(m, <<"delayed", 0>>) \in [Messages -> [Keys -> JobState]]  BY <1>4, OfferedType
  <2>2. WType /\ JType  BY <1>2, <1>9, <2>1, ReturnType DEF Postpone
  <2>3. QED  BY <1>2, <1>4, <1>9, <2>2 DEF Postpone, TypeOK
<1>10. CASE Admit(w)
  <2>1. WType  BY <1>1, <1>10, GotoType DEF Admit, BusyPcs
  <2>2. QED  BY <1>2, <1>4, <1>10, <2>1 DEF Admit, TypeOK
<1>11. CASE Refuse(w)
  <2>1. [wk[w] EXCEPT !.pc = "failing", !.retryable = FALSE] \in BusyWorker
    BY <1>3, <1>4 DEF BusyWorker, BusyPcs
  <2>2. wk' = [wk EXCEPT ![w] = [wk[w] EXCEPT !.pc = "failing", !.retryable = FALSE]]
    BY <1>4, <1>11 DEF Refuse
  <2>3. WType  BY <1>5, <2>1, <2>2
  <2>4. QED  BY <1>2, <1>4, <1>11, <2>3 DEF Refuse, TypeOK
<1>12. CASE Accepted(w)
  <2>1. WType  BY <1>1, <1>12, GotoType DEF Accepted, BusyPcs
  <2>2. QED  BY <1>2, <1>4, <1>12, <2>1 DEF Accepted, TypeOK, Again, MaxSends
<1>13. CASE Rejected(w)
  <2>b. PICK b \in BOOLEAN : wk' = [wk EXCEPT ![w].pc = "failing", ![w].retryable = b]
    BY <1>13 DEF Rejected
  <2>1. [wk[w] EXCEPT !.pc = "failing", !.retryable = b] \in BusyWorker
    BY <1>3, <1>4 DEF BusyWorker, BusyPcs
  <2>2. wk' = [wk EXCEPT ![w] = [wk[w] EXCEPT !.pc = "failing", !.retryable = b]]
    BY <1>4, <1>13, <2>b DEF Rejected
  <2>3. WType  BY <1>5, <2>1, <2>2
  <2>4. UNCHANGED <<rows, dead, job, pending, cr, rx, op, hist>>  BY <1>13 DEF Rejected
  <2>5. QED  BY <2>3, <2>4 DEF TypeOK
<1>14. CASE AckLost(w)
  <2>1. [wk[w] EXCEPT !.pc = "failing", !.retryable = TRUE] \in BusyWorker
    BY <1>3, <1>4 DEF BusyWorker, BusyPcs
  <2>2. wk' = [wk EXCEPT ![w] = [wk[w] EXCEPT !.pc = "failing", !.retryable = TRUE]]
    BY <1>4, <1>14 DEF AckLost
  <2>3. WType  BY <1>5, <2>1, <2>2
  <2>4. sends' \in [Messages -> 0 .. MaxSends]
    BY <1>2, <1>14 DEF AckLost, TypeOK, Again, MaxSends
  <2>5. lapse' \in [Messages -> BOOLEAN] /\ faults' \in Nat
    BY <1>2, <1>14 DEF AckLost, Fault, TypeOK
  <2>6. UNCHANGED <<rows, dead, job, pending, cr, rx, op>>  BY <1>14 DEF AckLost
  <2>7. QED  BY <2>3, <2>4, <2>5, <2>6 DEF TypeOK
<1>15. CASE MarkSent(w)
  <2>1. WType  BY <1>1, <1>15, GotoType DEF MarkSent, BusyPcs
  <2>2. QED  BY <1>2, <1>4, <1>15, <2>1 DEF MarkSent, TypeOK, Status
<1>16. CASE Report(w)
  <2>1. job \in [Messages -> [Keys -> JobState]]  BY <1>4, OfferedType
  <2>2. WType /\ JType  BY <1>2, <1>16, <2>1, ReturnType DEF Report
  <2>3. QED  BY <1>2, <1>4, <1>16, <2>2 DEF Report, TypeOK
<1>17. CASE FailRetry(w)
  <2>1. [wk[w] EXCEPT !.pc = "retrying", !.retryable = FALSE] \in BusyWorker
    BY <1>3, <1>4 DEF BusyWorker, BusyPcs
  <2>2. wk' = [wk EXCEPT ![w] = [wk[w] EXCEPT !.pc = "retrying", !.retryable = FALSE]]
    BY <1>4, <1>17 DEF FailRetry
  <2>3. WType  BY <1>5, <2>1, <2>2
  <2>4. QED  BY <1>2, <1>4, <1>17, <2>3 DEF FailRetry, TypeOK, MarkForRetry, Status
<1>18. CASE ScheduleRetry(w)
  <2>1. Offered(m, <<"retry", wk[w].snap + 1>>) \in [Messages -> [Keys -> JobState]]  BY <1>4, OfferedType
  <2>2. WType /\ JType  BY <1>2, <1>18, <2>1, ReturnType DEF ScheduleRetry
  <2>3. QED  BY <1>2, <1>4, <1>18, <2>2 DEF ScheduleRetry, TypeOK
<1>19. CASE FailFinally(w)
  <2>1. [wk[w] EXCEPT !.pc = "burying", !.snap = 0, !.retryable = FALSE] \in BusyWorker
    BY <1>3, <1>4 DEF BusyWorker, BusyPcs
  <2>2. wk' = [wk EXCEPT ![w] = [wk[w] EXCEPT !.pc = "burying", !.snap = 0, !.retryable = FALSE]]
    BY <1>4, <1>19 DEF FailFinally
  <2>3. WType  BY <1>5, <2>1, <2>2
  <2>4. QED  BY <1>2, <1>4, <1>19, <2>3 DEF FailFinally, TypeOK, MarkFailed, Status
<1>20. CASE Bury(w)
  <2>1. WType /\ JType  BY <1>2, <1>4, <1>20, ReturnType DEF Bury
  <2>2. open' \in [Messages -> SUBSET Nat] /\ buried' \in [Messages -> Nat]
    BY <1>2, <1>20, DeadLetterType DEF Bury, TypeOK
  <2>3. QED  BY <1>20, <2>1, <2>2 DEF Bury, TypeOK
<1>21. CASE ThrowAfterSend(w)
  <2>1. [wk[w] EXCEPT !.pc = "failing", !.retryable = TRUE] \in BusyWorker
    BY <1>3, <1>4 DEF BusyWorker, BusyPcs
  <2>2. wk' = [wk EXCEPT ![w] = [wk[w] EXCEPT !.pc = "failing", !.retryable = TRUE]]
    BY <1>4, <1>21 DEF ThrowAfterSend
  <2>3. WType  BY <1>5, <2>1, <2>2
  <2>4. QED  BY <1>2, <1>4, <1>21, <2>3 DEF ThrowAfterSend, TypeOK, Fault
<1>22. CASE Throw(w)
  <2>1. PICK s \in {"created", "none"} : job' = [job EXCEPT ![m][wk[w].key] = s]
    BY <1>2, <1>22 DEF Throw
  <2>2. JType  BY <1>4, <2>1 DEF JobState
  <2>3. WType  BY <1>4, <1>22 DEF Throw
  <2>4. QED  BY <1>22, <2>2, <2>3 DEF Throw, Fault, TypeOK
<1>23. QED
  BY <1>6, <1>7, <1>8, <1>9, <1>10, <1>11, <1>12, <1>13, <1>14, <1>15, <1>16, <1>17, <1>18, <1>19,
     <1>20, <1>21, <1>22 DEF WorkerStep, WorkerFault

LEMMA CronType ==
  ASSUME OutboundAssumption, TypeOK, NEW c \in Crons,
         \/ \E m \in Messages : FindStale(c, m) \/ FindQueued(c, m)
         \/ CronStep(c) \/ CronThrow(c)
  PROVE  TypeOK'
<1> USE DEF rows, dead, procs, hist
<1>1. /\ cr \in [Crons -> BusyCron \cup {IdleCron}]
      /\ status \in [Messages -> Status] /\ retry \in [Messages -> Nat]
      /\ job \in [Messages -> [Keys -> JobState]]
  BY DEF TypeOK
<1>2. cr[c].pc # "idle" => cr[c] \in BusyCron /\ cr[c].m \in Messages
  BY <1>1 DEF BusyCron, IdleCron
<1>3. ASSUME NEW m \in Messages, FindStale(c, m) PROVE TypeOK'
  <2>1. [pc |-> "stale", m |-> m, snap |-> retry[m]] \in BusyCron  BY <1>1 DEF BusyCron
  <2>2. faults' \in Nat  BY <1>3 DEF FindStale, Fault, TypeOK
  <2>3. QED  BY <1>3, <2>1, <2>2 DEF FindStale, TypeOK
<1>4. ASSUME NEW m \in Messages, FindQueued(c, m) PROVE TypeOK'
  <2>1. [pc |-> "queued", m |-> m, snap |-> 0] \in BusyCron  BY DEF BusyCron
  <2>2. QED  BY <1>4, <2>1 DEF FindQueued, TypeOK
<1>5. ASSUME RecoverRetry(c) PROVE TypeOK'
  <2>1. cr[c].m \in Messages /\ [cr[c] EXCEPT !.pc = "republish"] \in BusyCron
    BY <1>2, <1>5 DEF RecoverRetry, BusyCron
  <2>2. cr' \in [Crons -> BusyCron \cup {IdleCron}]  BY <1>1, <1>5, <2>1 DEF RecoverRetry
  <2>3. QED  BY <1>5, <2>1, <2>2 DEF RecoverRetry, MarkForRetry, Recovering, TypeOK, Status
<1>6. ASSUME RecoverFail(c) PROVE TypeOK'
  <2>1. cr[c].m \in Messages /\ [cr[c] EXCEPT !.pc = "bury"] \in BusyCron
    BY <1>2, <1>6 DEF RecoverFail, BusyCron
  <2>2. cr' \in [Crons -> BusyCron \cup {IdleCron}]  BY <1>1, <1>6, <2>1 DEF RecoverFail
  <2>3. QED  BY <1>6, <2>1, <2>2 DEF RecoverFail, MarkFailed, Recovering, TypeOK, Status
<1>7. ASSUME RecoverPublish(c) \/ RepublishQueued(c) \/ CronThrow(c) PROVE TypeOK'
  <2>1. job' \in [Messages -> [Keys -> JobState]]
    BY <1>1, <1>7, OfferedType DEF RecoverPublish, RepublishQueued, CronThrow
  <2>2. cr' \in [Crons -> BusyCron \cup {IdleCron}]
    BY <1>1, <1>7 DEF RecoverPublish, RepublishQueued, CronThrow
  <2>3. QED  BY <1>7, <2>1, <2>2 DEF RecoverPublish, RepublishQueued, CronThrow, Fault, TypeOK
<1>8. ASSUME RecoverBury(c) PROVE TypeOK'
  <2>1. open' \in [Messages -> SUBSET Nat] /\ buried' \in [Messages -> Nat]
    BY <1>2, <1>8, DeadLetterType DEF RecoverBury, TypeOK
  <2>2. QED  BY <1>8, <2>1 DEF RecoverBury, TypeOK
<1>9. QED  BY <1>3, <1>4, <1>5, <1>6, <1>7, <1>8 DEF CronStep

LEMMA ReceiverType ==
  ASSUME OutboundAssumption, TypeOK, NEW r \in Receivers,
         \/ \E m \in Messages, kind \in Receipts : Receive(r, m, kind)
         \/ ApplyReceipt(r) \/ ReceiptThrow(r)
  PROVE  TypeOK'
<1> USE DEF rows, dead, procs, hist
<1>1. ASSUME NEW m \in Messages, NEW kind \in Receipts, Receive(r, m, kind) PROVE TypeOK'
  <2>1. [pc |-> "apply", m |-> m, kind |-> kind] \in BusyReceiver  BY DEF BusyReceiver, Receipts
  <2>2. QED  BY <1>1, <2>1 DEF Receive, TypeOK
<1>2. ASSUME ApplyReceipt(r) PROVE TypeOK'
  <2>1. rx[r].m \in Messages /\ rx[r].kind \in Status
    BY <1>2 DEF ApplyReceipt, TypeOK, BusyReceiver, IdleReceiver, Status
  <2>2. QED  BY <1>2, <2>1 DEF ApplyReceipt, TypeOK
<1>3. ASSUME ReceiptThrow(r) PROVE TypeOK'
  BY <1>3 DEF ReceiptThrow, Fault, TypeOK
<1>4. QED  BY <1>1, <1>2, <1>3

LEMMA OperatorType ==
  ASSUME OutboundAssumption, TypeOK, NEW o \in Operators,
         \/ \E m \in Messages : \E i \in open[m] : Reprocess(o, m, i)
         \/ OperatorStep(o) \/ OperatorThrow(o)
  PROVE  TypeOK'
<1> USE DEF rows, dead, procs, hist
<1>1. /\ op \in [Operators -> BusyOperator \cup {IdleOperator}]
      /\ job \in [Messages -> [Keys -> JobState]]
      /\ open \in [Messages -> SUBSET Nat]
  BY DEF TypeOK
<1>2. op[o].pc # "idle" => op[o] \in BusyOperator /\ op[o].m \in Messages
  BY <1>1 DEF BusyOperator, IdleOperator
<1>3. ASSUME NEW m \in Messages, NEW i \in open[m], Reprocess(o, m, i) PROVE TypeOK'
  <2>1. [pc |-> "reset", m |-> m, row |-> i] \in BusyOperator  BY <1>1 DEF BusyOperator
  <2>2. QED  BY <1>3, <2>1 DEF Reprocess, TypeOK
<1>4. ASSUME ResetMessage(o) PROVE TypeOK'
  <2>1. op[o].m \in Messages /\ [op[o] EXCEPT !.pc = "publish"] \in BusyOperator
    BY <1>2, <1>4 DEF ResetMessage, BusyOperator
  <2>2. op' \in [Operators -> BusyOperator \cup {IdleOperator}]  BY <1>1, <1>4, <2>1 DEF ResetMessage
  <2>3. QED  BY <1>4, <2>1, <2>2 DEF ResetMessage, TypeOK, Status
<1>5. ASSUME PublishReprocess(o) PROVE TypeOK'
  <2>1. [op[o] EXCEPT !.pc = "mark"] \in BusyOperator
    BY <1>2, <1>5 DEF PublishReprocess, BusyOperator
  <2>2. op' \in [Operators -> BusyOperator \cup {IdleOperator}]
    BY <1>1, <1>5, <2>1 DEF PublishReprocess
  <2>3. job' \in [Messages -> [Keys -> JobState]]  BY <1>1, <1>5, OfferedType DEF PublishReprocess
  <2>4. QED  BY <1>5, <2>2, <2>3 DEF PublishReprocess, TypeOK
<1>6. ASSUME MarkReprocessed(o) PROVE TypeOK'
  BY <1>1, <1>2, <1>6 DEF MarkReprocessed, TypeOK
<1>7. ASSUME OperatorThrow(o) PROVE TypeOK'
  BY <1>1, <1>7 DEF OperatorThrow, Fault, TypeOK
<1>8. QED  BY <1>3, <1>4, <1>5, <1>6, <1>7 DEF OperatorStep

LEMMA QueueType ==
  ASSUME OutboundAssumption, TypeOK, NEW m \in Messages,
         \/ Submit(m) \/ Enqueue(m) \/ RequestThrow(m)
         \/ \E w \in Workers, k \in Keys : Fetch(w, m, k)
         \/ \E k \in Keys : Expire(m, k)
  PROVE  TypeOK'
<1> USE DEF rows, dead, procs, hist
<1>1. job \in [Messages -> [Keys -> JobState]]  BY DEF TypeOK
<1>2. CASE Submit(m)  BY <1>2 DEF Submit, TypeOK, Status
<1>3. CASE Enqueue(m) \/ RequestThrow(m)
  <2>1. job' \in [Messages -> [Keys -> JobState]]
    BY <1>1, <1>3, OfferedType DEF Enqueue, RequestThrow
  <2>2. QED  BY <1>3, <2>1 DEF Enqueue, RequestThrow, Fault, TypeOK
<1>4. ASSUME NEW w \in Workers, NEW k \in Keys, Fetch(w, m, k) PROVE TypeOK'
  <2>1. [IdleWorker EXCEPT !.pc = "loading", !.m = m, !.key = k] \in BusyWorker
    BY DEF IdleWorker, BusyWorker, BusyPcs
  <2>2. job' \in [Messages -> [Keys -> JobState]]  BY <1>1, <1>4 DEF Fetch, JobState
  <2>3. QED  BY <1>4, <2>1, <2>2 DEF Fetch, TypeOK
<1>5. ASSUME NEW k \in Keys, Expire(m, k) PROVE TypeOK'
  <2>1. job' \in [Messages -> [Keys -> JobState]]  BY <1>1, <1>5 DEF Expire, JobState
  <2>2. QED  BY <1>5, <2>1 DEF Expire, TypeOK
<1>6. QED  BY <1>2, <1>3, <1>4, <1>5

\* Every variable keeps its type: the states TLC enumerates for two workers are
\* states of the right shape for any number of them.
THEOREM TypeCorrect == Spec => []TypeOK
<1>1. Init => TypeOK  BY TypeInit, OutboundAssumption
<1>2. TypeOK /\ [Next]_vars => TypeOK'
  <2> SUFFICES ASSUME TypeOK, [Next]_vars PROVE TypeOK'  OBVIOUS
  <2>1. CASE UNCHANGED vars  BY <2>1 DEF vars, rows, dead, procs, hist, TypeOK
  <2>2. CASE Next
    <3>1. CASE Crash  BY <3>1 DEF Crash, Fault, TypeOK, rows, dead, procs, hist
    <3>2. QED
      BY <2>2, <3>1, OutboundAssumption, WorkerType, CronType, ReceiverType, OperatorType, QueueType
      DEF Next
  <2>3. QED  BY <2>1, <2>2
<1>3. QED  BY <1>1, <1>2, PTL DEF Spec

-----------------------------------------------------------------------------
(* The claim is exclusive and the message goes out at most once.  ClaimSound *)
(* is inductive: Sound(m) is stated for a message no fault has touched, and  *)
(* a step that makes its fate uncertain sets lapse in the same step.         *)

\* Sound reads of a message only its row, its holders and its receipts.
LEMMA Unmoved ==
  ASSUME NEW m \in Messages, Sound(m),
         status'[m] = status[m], wa'[m] = wa[m], sends'[m] = sends[m],
         \A r \in Receivers : rx'[r].pc = "apply" /\ rx'[r].m = m => wa[m],
         \A w \in Workers : Holds(w, m)' <=> Holds(w, m),
         \A w \in Workers : Holds(w, m) => (wk'[w].pc = "accepted" <=> wk[w].pc = "accepted")
  PROVE  Sound(m)'
<1>1. (\A v, w \in Workers : Holds(v, m) /\ Holds(w, m) => v = w)'  BY DEF Sound
<1>2. ASSUME NEW w \in Workers, Holds(w, m)'
      PROVE  (status[m] = "PROCESSING" /\ ~wa[m] /\ sends[m] = IF wk[w].pc = "accepted" THEN 1 ELSE 0)'
  <2>1. Holds(w, m)  BY <1>2
  <2>2. QED  BY <2>1 DEF Sound
<1>3. (~Held(m) => sends[m] = IF wa[m] THEN 1 ELSE 0)'  BY DEF Sound, Held
<1>4. (wa[m] => status[m] \in {"SENT", "DELIVERED", "READ"})'  BY DEF Sound
<1>5. QED  BY <1>1, <1>2, <1>3, <1>4 DEF Sound

\* A worker takes a claim nobody has.
LEMMA Taken ==
  ASSUME NEW m \in Messages, NEW w \in Workers, Sound(m), ~Held(m), ~wa[m],
         status'[m] = "PROCESSING", wa'[m] = wa[m], sends'[m] = sends[m], rx' = rx,
         \A v \in Workers \ {w} : Holds(v, m)' <=> Holds(v, m),
         wk'[w].pc # "accepted"
  PROVE  Sound(m)'
BY DEF Sound, Held

\* The holder lets go of its claim.
LEMMA Released ==
  ASSUME NEW m \in Messages, NEW w \in Workers, Sound(m), Holds(w, m),
         ~Holds(w, m)', rx' = rx,
         \A v \in Workers \ {w} : Holds(v, m)' <=> Holds(v, m),
         sends'[m] = sends[m],
         \/ wk[w].pc # "accepted" /\ wa'[m] = wa[m]
         \/ wk[w].pc = "accepted" /\ wa'[m] /\ status'[m] = "SENT"
  PROVE  Sound(m)'
BY DEF Sound, Held

LEMMA SoundInit == ASSUME Init PROVE ClaimSound
BY DEF Init, ClaimSound, Sound, Held, Holds, HoldPcs, IdleWorker, IdleReceiver

LEMMA WorkerSound ==
  ASSUME OutboundAssumption, TypeOK, NEW w \in Workers, WorkerStep(w) \/ WorkerFault(w),
         NEW m \in Messages, ~lapse'[m], ~lapse[m] => Sound(m)
  PROVE  Sound(m)'
<1> USE DEF rows, dead, procs, hist
<1>1. wk[w].pc # "idle"
  BY DEF WorkerStep, WorkerFault, Load, Claim, Limit, Postpone, Admit, Refuse, Accepted, Rejected,
         MarkSent, Report, FailRetry, ScheduleRetry, FailFinally, Bury, AckLost, Throw, ThrowAfterSend
<1>2. wk[w].m \in Messages /\ wk \in [Workers -> BusyWorker \cup {IdleWorker}]
      /\ NoMsg \notin Messages /\ status \in [Messages -> Status]
      /\ wa \in [Messages -> BOOLEAN] /\ sends \in [Messages -> 0 .. MaxSends]
      /\ lapse \in [Messages -> BOOLEAN]
      /\ wk[w] \in BusyWorker
  BY <1>1, WorkerMoves DEF TypeOK, OutboundAssumption
<1>3. UNCHANGED rx /\ \A v \in Workers \ {w} : wk'[v] = wk[v]
  BY <1>2 DEF WorkerStep, WorkerFault, Load, Claim, Limit, Postpone, Admit, Refuse, Accepted, Rejected,
         MarkSent, Report, FailRetry, ScheduleRetry, FailFinally, Bury, AckLost, Throw, ThrowAfterSend,
         Return, Goto
<1>4. \A v \in Workers \ {w} : Holds(v, m)' <=> Holds(v, m)
  BY <1>3 DEF Holds
<1>5. lapse[m] = FALSE
  BY <1>2 DEF WorkerStep, WorkerFault, Load, Claim, Limit, Postpone, Admit, Refuse, Accepted, Rejected,
         MarkSent, Report, FailRetry, ScheduleRetry, FailFinally, Bury, AckLost, Throw, ThrowAfterSend
<1>6. Sound(m)  BY <1>5
<1>7. ASSUME Load(w) \/ Postpone(w) \/ Admit(w) \/ Refuse(w) \/ Rejected(w) \/ Report(w)
             \/ ScheduleRetry(w) \/ Bury(w)
      PROVE  Sound(m)'
  <2>1. Holds(w, m)' <=> Holds(w, m)
    BY <1>2, <1>7 DEF Load, Postpone, Admit, Refuse, Rejected, Report, ScheduleRetry, Bury, Return, Goto,
                      Holds, HoldPcs, IdleWorker, BusyWorker
  <2>2. Holds(w, m) => (wk'[w].pc = "accepted" <=> wk[w].pc = "accepted")
    BY <1>2, <1>7 DEF Load, Postpone, Admit, Refuse, Rejected, Report, ScheduleRetry, Bury, Return, Goto,
                      Holds, HoldPcs, BusyWorker
  <2>3. UNCHANGED <<status, wa, sends>>
    BY <1>7 DEF Load, Postpone, Admit, Refuse, Rejected, Report, ScheduleRetry, Bury
  <2>4. QED  BY <1>3, <1>4, <1>6, <2>1, <2>2, <2>3, Unmoved DEF Sound
<1>8. ASSUME wk[w].m # m PROVE Sound(m)'
  <2>1. ~Holds(w, m)  BY <1>8 DEF Holds
  <2>2. wk'[w].m # m
    BY <1>1, <1>2, <1>8 DEF WorkerStep, WorkerFault, Load, Claim, Limit, Postpone, Admit, Refuse,
       Accepted, Rejected, MarkSent, Report, FailRetry, ScheduleRetry, FailFinally, Bury, AckLost,
       Throw, ThrowAfterSend, Return, Goto, IdleWorker, BusyWorker
  <2>3. status'[m] = status[m] /\ wa'[m] = wa[m] /\ sends'[m] = sends[m]
    BY <1>2, <1>8 DEF WorkerStep, WorkerFault, Load, Claim, Limit, Postpone, Admit, Refuse,
       Accepted, Rejected, MarkSent, Report, FailRetry, ScheduleRetry, FailFinally, Bury, AckLost,
       Throw, ThrowAfterSend, MarkForRetry, MarkFailed
  <2>4. ~Holds(w, m)'  BY <2>2 DEF Holds
  <2>5. QED  BY <1>3, <1>4, <1>6, <2>1, <2>3, <2>4, Unmoved DEF Sound
<1>9. ASSUME wk[w].m = m, Claim(w) PROVE Sound(m)'
  <2>1. CASE Claimable(m)
    <3>1. status'[m] = "PROCESSING" /\ UNCHANGED <<wa, sends>> /\ wk'[w].pc = "claimed"
      BY <1>2, <1>9, <2>1 DEF Claim, Goto, BusyWorker
    <3>2. ~Held(m) /\ ~wa[m]  BY <1>6, <2>1 DEF Claimable, Sound, Held
    <3>3. QED  BY <1>3, <1>4, <1>6, <3>1, <3>2, Taken
  <2>2. CASE ~Claimable(m)
    <3>1. UNCHANGED <<status, wa, sends>> /\ wk'[w] = IdleWorker /\ wk[w].pc = "claiming"
      BY <1>2, <1>9, <2>2 DEF Claim, Return
    <3>2. ~Holds(w, m) /\ ~Holds(w, m)'  BY <3>1 DEF Holds, HoldPcs, IdleWorker
    <3>3. QED  BY <1>3, <1>4, <1>6, <3>1, <3>2, Unmoved DEF Sound
  <2>3. QED  BY <2>1, <2>2
<1>10. ASSUME wk[w].m = m, Limit(w) \/ MarkSent(w) \/ FailRetry(w) \/ FailFinally(w) PROVE Sound(m)'
  <2>1. Holds(w, m) /\ wk'[w].pc \in {"limited", "reporting", "retrying", "burying"}
    BY <1>2, <1>10 DEF Limit, MarkSent, FailRetry, FailFinally, Goto, Holds, HoldPcs, BusyWorker
  <2>2. ~Holds(w, m)'  BY <2>1 DEF Holds, HoldPcs
  <2>3. UNCHANGED sends  BY <1>10 DEF Limit, MarkSent, FailRetry, FailFinally
  <2>4. \/ wk[w].pc # "accepted" /\ wa'[m] = wa[m]
        \/ wk[w].pc = "accepted" /\ wa'[m] /\ status'[m] = "SENT"
    BY <1>2, <1>10 DEF Limit, MarkSent, FailRetry, FailFinally, MarkForRetry, MarkFailed
  <2>5. QED  BY <1>3, <1>4, <1>6, <2>1, <2>2, <2>3, <2>4, Released
<1>11. ASSUME wk[w].m = m, Accepted(w) PROVE Sound(m)'
  <2>1. Holds(w, m) /\ Holds(w, m)' /\ wk[w].pc = "sending" /\ wk'[w].pc = "accepted"
    BY <1>2, <1>11 DEF Accepted, Goto, Holds, HoldPcs
  <2>2. sends[m] = 0  BY <1>6, <2>1 DEF Sound
  <2>3. sends'[m] = 1 /\ UNCHANGED <<status, wa>>
    BY <1>2, <1>11, <2>2 DEF Accepted, Again, MaxSends
  <2>4. QED  BY <1>3, <1>4, <1>6, <2>1, <2>3 DEF Sound, Held
<1>12. ASSUME wk[w].m = m, AckLost(w) \/ ThrowAfterSend(w) PROVE FALSE
  BY <1>2, <1>12 DEF AckLost, ThrowAfterSend
<1>13. ASSUME wk[w].m = m, Throw(w) PROVE Sound(m)'
  <2>1. wk'[w] = IdleWorker /\ UNCHANGED <<status, wa, sends>> /\ wk[w].pc # "accepted"
    BY <1>2, <1>13 DEF Throw
  <2>2. ~Holds(w, m)'  BY <1>2, <2>1 DEF Holds, HoldPcs, IdleWorker
  <2>3. CASE Holds(w, m)  BY <1>3, <1>4, <1>6, <2>1, <2>2, <2>3, Released
  <2>4. CASE ~Holds(w, m)  BY <1>3, <1>4, <1>6, <2>1, <2>2, <2>4, Unmoved DEF Sound
  <2>5. QED  BY <2>3, <2>4
<1>14. QED
  BY <1>7, <1>8, <1>9, <1>10, <1>11, <1>12, <1>13 DEF WorkerStep, WorkerFault

\* The crons write a row only when they find it orphaned, or mark the lapse.
LEMMA CronSound ==
  ASSUME OutboundAssumption, TypeOK, NEW c \in Crons,
         \/ \E n \in Messages : FindStale(c, n) \/ FindQueued(c, n)
         \/ CronStep(c) \/ CronThrow(c),
         NEW m \in Messages, ~lapse'[m], ~lapse[m] => Sound(m)
  PROVE  Sound(m)'
<1> USE DEF rows, dead, procs, hist
<1>1. cr \in [Crons -> BusyCron \cup {IdleCron}] /\ status \in [Messages -> Status]
      /\ lapse \in [Messages -> BOOLEAN]
  BY DEF TypeOK
<1>2. UNCHANGED <<wk, rx, wa, sends>>
  BY DEF FindStale, FindQueued, CronStep, CronThrow, RecoverRetry, RecoverPublish, RecoverFail,
         RecoverBury, RepublishQueued, MarkForRetry, MarkFailed
<1>3. ASSUME RecoverRetry(c) \/ RecoverFail(c), cr[c].m = m PROVE Sound(m)'
  <2>1. ~lapse[m] /\ status[m] = "PROCESSING" /\ ~Held(m)
    BY <1>1, <1>3 DEF RecoverRetry, RecoverFail, Recovering
  <2>2. Sound(m) /\ ~wa[m]  BY <2>1 DEF Sound
  <2>3. QED  BY <1>2, <2>1, <2>2 DEF Sound, Held, Holds
<1>4. ASSUME ~(RecoverRetry(c) \/ RecoverFail(c)) \/ cr[c].m # m PROVE Sound(m)'
  <2>1. status'[m] = status[m] /\ lapse'[m] = lapse[m]
    BY <1>1, <1>4 DEF FindStale, FindQueued, CronStep, CronThrow, RecoverRetry, RecoverPublish,
       RecoverFail, RecoverBury, RepublishQueued, MarkForRetry, MarkFailed, Recovering
  <2>2. QED  BY <1>2, <2>1 DEF Sound, Held, Holds
<1>5. QED  BY <1>3, <1>4

LEMMA ReceiverSound ==
  ASSUME OutboundAssumption, TypeOK, NEW r \in Receivers,
         \/ \E n \in Messages, kind \in Receipts : Receive(r, n, kind)
         \/ ApplyReceipt(r) \/ ReceiptThrow(r),
         NEW m \in Messages, ~lapse'[m], ~lapse[m] => Sound(m)
  PROVE  Sound(m)'
<1> USE DEF rows, dead, procs, hist
<1>1. rx \in [Receivers -> BusyReceiver \cup {IdleReceiver}] /\ status \in [Messages -> Status]
  BY DEF TypeOK
<1>2. UNCHANGED <<wk, wa, sends, lapse>>  BY DEF Receive, ApplyReceipt, ReceiptThrow
<1>3. Sound(m)  BY <1>2
<1>4. \A q \in Receivers : rx'[q].pc = "apply" /\ rx'[q].m = m => wa[m]
  BY <1>1, <1>3 DEF Receive, ApplyReceipt, ReceiptThrow, Sound, IdleReceiver
<1>5. CASE status'[m] = status[m]
  BY <1>2, <1>3, <1>4, <1>5 DEF Sound, Held, Holds
<1>6. CASE status'[m] # status[m]
  <2>1. rx[r].pc = "apply" /\ rx[r].m = m /\ status'[m] \in {"SENT", "DELIVERED", "READ"}
    BY <1>1, <1>6 DEF Receive, ApplyReceipt, ReceiptThrow, BusyReceiver, IdleReceiver
  <2>2. wa[m] /\ ~Held(m)  BY <1>3, <2>1 DEF Sound, Held
  <2>3. QED  BY <1>2, <1>3, <1>4, <2>1, <2>2 DEF Sound, Held, Holds
<1>7. QED  BY <1>5, <1>6

LEMMA OtherSound ==
  ASSUME OutboundAssumption, TypeOK, NEW m \in Messages, ~lapse'[m], ~lapse[m] => Sound(m),
         \/ \E n \in Messages : Submit(n) \/ Enqueue(n) \/ RequestThrow(n)
         \/ \E w \in Workers, n \in Messages, k \in Keys : Fetch(w, n, k)
         \/ \E n \in Messages, k \in Keys : Expire(n, k)
         \/ \E o \in Operators, n \in Messages : \E i \in open[n] : Reprocess(o, n, i)
         \/ \E o \in Operators : OperatorStep(o) \/ OperatorThrow(o)
  PROVE  Sound(m)'
<1> USE DEF rows, dead, procs, hist
<1>1. wk \in [Workers -> BusyWorker \cup {IdleWorker}] /\ status \in [Messages -> Status]
      /\ lapse \in [Messages -> BOOLEAN] /\ op \in [Operators -> BusyOperator \cup {IdleOperator}]
  BY DEF TypeOK
<1>2. UNCHANGED <<rx, wa, sends>>
  BY DEF Submit, Enqueue, RequestThrow, Fetch, Expire, Reprocess, OperatorStep, ResetMessage,
         PublishReprocess, MarkReprocessed, OperatorThrow
<1>3. ASSUME NEW o \in Operators, ResetMessage(o) PROVE Sound(m)'
  <2>1. op[o].m # m  BY <1>1, <1>3 DEF ResetMessage
  <2>2. status'[m] = status[m] /\ lapse'[m] = lapse[m] /\ UNCHANGED wk
    BY <1>1, <1>3, <2>1 DEF ResetMessage
  <2>3. QED  BY <1>2, <2>2 DEF Sound, Held, Holds
<1>4. ASSUME NEW n \in Messages, Submit(n) PROVE Sound(m)'
  <2>1. UNCHANGED <<wk, lapse>>  BY <1>4 DEF Submit
  <2>2. CASE n = m
    <3>1. status[m] = "NONE" /\ status'[m] = "QUEUED"  BY <1>1, <1>4, <2>2 DEF Submit
    <3>2. QED  BY <1>2, <2>1, <3>1 DEF Sound, Held, Holds
  <2>3. CASE n # m
    <3>1. status'[m] = status[m]  BY <1>1, <1>4, <2>3 DEF Submit
    <3>2. QED  BY <1>2, <2>1, <3>1 DEF Sound, Held, Holds
  <2>4. QED  BY <2>2, <2>3
<1>5. ASSUME NEW w \in Workers, NEW n \in Messages, NEW k \in Keys, Fetch(w, n, k) PROVE Sound(m)'
  <2>1. UNCHANGED <<status, lapse>>  BY <1>5 DEF Fetch
  <2>2. wk'[w].pc = "loading" /\ wk[w].pc = "idle" /\ \A v \in Workers \ {w} : wk'[v] = wk[v]
    BY <1>1, <1>5 DEF Fetch, IdleWorker
  <2>3. \A v \in Workers : (Holds(v, m)' <=> Holds(v, m)) /\ (Holds(v, m) => wk'[v] = wk[v])
    BY <2>2 DEF Holds, HoldPcs
  <2>4. QED  BY <1>2, <2>1, <2>3 DEF Sound, Held
<1>6. ASSUME UNCHANGED <<status, wk, lapse>> PROVE Sound(m)'
  BY <1>2, <1>6 DEF Sound, Held, Holds
<1>7. QED
  BY <1>3, <1>4, <1>5, <1>6 DEF Enqueue, RequestThrow, Expire, Reprocess, OperatorStep,
     PublishReprocess, MarkReprocessed, OperatorThrow

LEMMA CrashSound ==
  ASSUME TypeOK, Crash, NEW m \in Messages, ~lapse'[m], ~lapse[m] => Sound(m)
  PROVE  Sound(m)'
<1> USE DEF rows, dead, procs, hist
<1>1. Sound(m) /\ \A w \in Workers : ~(wk[w].m = m /\ wk[w].pc = "accepted")
  BY DEF Crash
<1>2. UNCHANGED <<status, wa, sends>>  BY DEF Crash
<1>3. sends[m] = IF wa[m] THEN 1 ELSE 0
  BY <1>1 DEF Sound, Held, Holds
<1>4. ~Held(m)' /\ \A w \in Workers : ~Holds(w, m)'
  BY DEF Crash, Held, Holds, HoldPcs, IdleWorker
<1>5. \A r \in Receivers : rx'[r].pc # "apply"  BY DEF Crash, IdleReceiver
<1>6. QED  BY <1>1, <1>2, <1>3, <1>4, <1>5 DEF Sound

LEMMA SoundStep ==
  ASSUME OutboundAssumption, TypeOK, ClaimSound, [Next]_vars PROVE ClaimSound'
<1> SUFFICES ASSUME NEW m \in Messages, ~lapse'[m] PROVE Sound(m)'
  BY DEF ClaimSound
<1>1. ~lapse[m] => Sound(m)  BY DEF ClaimSound
<1>2. CASE UNCHANGED vars
  BY <1>1, <1>2 DEF vars, rows, dead, procs, hist, Sound, Held, Holds
<1>3. CASE Next
  BY <1>1, <1>3, WorkerSound, CronSound, ReceiverSound, OtherSound, CrashSound DEF Next
<1>4. QED  BY <1>2, <1>3

THEOREM ClaimCorrect == Spec => []ClaimSound
<1>1. Init => ClaimSound  BY SoundInit
<1>2. TypeOK /\ ClaimSound /\ [Next]_vars => ClaimSound'  BY SoundStep, OutboundAssumption
<1>3. QED  BY <1>1, <1>2, TypeCorrect, PTL DEF Spec

\* Whatever the interleaving, WhatsApp gets a message at most once, unless its
\* fate became uncertain (~lapse excludes a lost answer, a crash between the
\* send and its record, a database error after the send, a recovery on old data
\* and an operator's reset).
THEOREM SentAtMostOnce == Spec => []AtMostOnce
<1>1. TypeOK /\ ClaimSound => AtMostOnce
  <2> SUFFICES ASSUME TypeOK, ClaimSound, NEW m \in Messages, ~lapse[m] PROVE sends[m] <= 1
    BY DEF AtMostOnce
  <2>1. Sound(m)  BY DEF ClaimSound
  <2>2. sends[m] \in {0, 1}  BY <2>1 DEF Sound, Held
  <2>3. QED  BY <2>2
<1>2. QED  BY <1>1, TypeCorrect, ClaimCorrect, PTL

\* Two handlers never work on the same message at the same time, as long as its
\* fate is certain.
THEOREM ClaimIsExclusive == Spec => []ExclusiveClaim
<1>1. ClaimSound => ExclusiveClaim  BY DEF ClaimSound, ExclusiveClaim, Sound, Held
<1>2. QED  BY <1>1, ClaimCorrect, PTL

-----------------------------------------------------------------------------
(* Dead letters.  A message no fault has touched is dead-lettered at most   *)
(* once, and only when WhatsApp does not have it.                           *)

\* An actor that marked m FAILED and has yet to write its dead letter.
WorkerBuries(w, m) == wk[w].pc = "burying" /\ wk[w].m = m
CronBuries(c, m) == cr[c].pc = "bury" /\ cr[c].m = m
Buried(m) ==
  \/ buried[m] # 0
  \/ \E w \in Workers : WorkerBuries(w, m)
  \/ \E c \in Crons : CronBuries(c, m)

\* Only a FAILED message is buried, by one actor, once.
Grave(m) ==
  /\ Buried(m) => status[m] = "FAILED"
  /\ buried[m] <= 1
  /\ \A w \in Workers : WorkerBuries(w, m) => buried[m] = 0
  /\ \A c \in Crons : CronBuries(c, m) => buried[m] = 0
  /\ \A v, w \in Workers : WorkerBuries(v, m) /\ WorkerBuries(w, m) => v = w
  /\ \A c, d \in Crons : CronBuries(c, m) /\ CronBuries(d, m) => c = d
  /\ \A w \in Workers, c \in Crons : ~(WorkerBuries(w, m) /\ CronBuries(c, m))

GraveSound == \A m \in Messages : ~lapse[m] => Grave(m)

\* A step that buries nothing and keeps a FAILED message FAILED.
LEMMA NoBurial ==
  ASSUME NEW m \in Messages, Grave(m),
         status[m] = "FAILED" => status'[m] = "FAILED",
         buried'[m] = buried[m],
         \A w \in Workers : WorkerBuries(w, m)' => WorkerBuries(w, m),
         \A c \in Crons : CronBuries(c, m)' => CronBuries(c, m)
  PROVE  Grave(m)'
BY DEF Grave, Buried

\* A message that is not FAILED is marked FAILED by one actor.
LEMMA FirstBurial ==
  ASSUME NEW m \in Messages, Grave(m), buried[m] \in Nat,
         status[m] # "FAILED", status'[m] = "FAILED", buried'[m] = buried[m],
         \/ \E w \in Workers : /\ \A v \in Workers \ {w} : WorkerBuries(v, m)' => WorkerBuries(v, m)
                               /\ \A c \in Crons : CronBuries(c, m)' => CronBuries(c, m)
         \/ \E c \in Crons : /\ \A d \in Crons \ {c} : CronBuries(d, m)' => CronBuries(d, m)
                             /\ \A w \in Workers : WorkerBuries(w, m)' => WorkerBuries(w, m)
  PROVE  Grave(m)'
BY DEF Grave, Buried

\* The actor writes its dead letter and is done.
LEMMA LastRites ==
  ASSUME NEW m \in Messages, Grave(m), buried[m] \in Nat,
         status'[m] = status[m], buried'[m] = buried[m] + 1,
         \/ \E w \in Workers : /\ WorkerBuries(w, m) /\ ~WorkerBuries(w, m)'
                               /\ \A v \in Workers \ {w} : WorkerBuries(v, m)' => WorkerBuries(v, m)
                               /\ \A c \in Crons : CronBuries(c, m)' => CronBuries(c, m)
         \/ \E c \in Crons : /\ CronBuries(c, m) /\ ~CronBuries(c, m)'
                             /\ \A d \in Crons \ {c} : CronBuries(d, m)' => CronBuries(d, m)
                             /\ \A w \in Workers : WorkerBuries(w, m)' => WorkerBuries(w, m)
  PROVE  Grave(m)'
BY DEF Grave, Buried

LEMMA GraveInit == ASSUME Init PROVE GraveSound
BY DEF Init, GraveSound, Grave, Buried, WorkerBuries, CronBuries, IdleWorker, IdleCron

LEMMA WorkerGrave ==
  ASSUME OutboundAssumption, TypeOK, NEW w \in Workers, WorkerStep(w) \/ WorkerFault(w),
         NEW m \in Messages, ~lapse'[m], ~lapse[m] => Sound(m) /\ Grave(m)
  PROVE  Grave(m)'
<1> USE DEF rows, dead, procs, hist
<1>1. wk[w].pc # "idle"
  BY DEF WorkerStep, WorkerFault, Load, Claim, Limit, Postpone, Admit, Refuse, Accepted, Rejected,
         MarkSent, Report, FailRetry, ScheduleRetry, FailFinally, Bury, AckLost, Throw, ThrowAfterSend
<1>2. /\ wk[w].m \in Messages /\ wk \in [Workers -> BusyWorker \cup {IdleWorker}]
      /\ wk[w] \in BusyWorker /\ status \in [Messages -> Status]
      /\ lapse \in [Messages -> BOOLEAN] /\ buried \in [Messages -> Nat]
  BY <1>1, WorkerMoves DEF TypeOK
<1>3. UNCHANGED cr /\ \A v \in Workers \ {w} : wk'[v] = wk[v]
  BY <1>2 DEF WorkerStep, WorkerFault, Load, Claim, Limit, Postpone, Admit, Refuse, Accepted, Rejected,
         MarkSent, Report, FailRetry, ScheduleRetry, FailFinally, Bury, AckLost, Throw, ThrowAfterSend,
         Return, Goto
<1>4. /\ \A v \in Workers \ {w} : WorkerBuries(v, m)' <=> WorkerBuries(v, m)
      /\ \A c \in Crons : CronBuries(c, m)' <=> CronBuries(c, m)
  BY <1>3 DEF WorkerBuries, CronBuries
<1>5. lapse[m] = FALSE
  BY <1>2 DEF WorkerStep, WorkerFault, Load, Claim, Limit, Postpone, Admit, Refuse, Accepted, Rejected,
         MarkSent, Report, FailRetry, ScheduleRetry, FailFinally, Bury, AckLost, Throw, ThrowAfterSend
<1>6. Sound(m) /\ Grave(m)  BY <1>5
<1>7. ASSUME FailFinally(w), wk[w].m = m PROVE Grave(m)'
  <2>1. Holds(w, m) /\ status'[m] = "FAILED" /\ buried'[m] = buried[m]
    BY <1>2, <1>7 DEF FailFinally, MarkFailed, Holds, HoldPcs
  <2>2. status[m] # "FAILED"  BY <1>6, <2>1 DEF Sound
  <2>3. QED  BY <1>2, <1>4, <1>6, <2>1, <2>2, FirstBurial
<1>8. ASSUME Bury(w), wk[w].m = m PROVE Grave(m)'
  <2>1. WorkerBuries(w, m) /\ ~WorkerBuries(w, m)'
    BY <1>2, <1>8 DEF Bury, Return, IdleWorker, WorkerBuries
  <2>2. status'[m] = status[m] /\ buried'[m] = buried[m] + 1
    BY <1>2, <1>8 DEF Bury, CreateDeadLetter
  <2>3. QED  BY <1>2, <1>4, <1>6, <2>1, <2>2, LastRites
<1>9. ASSUME wk[w].m # m \/ ~(FailFinally(w) \/ Bury(w)) PROVE Grave(m)'
  <2>1. WorkerBuries(w, m)' => WorkerBuries(w, m)
    BY <1>1, <1>2, <1>9 DEF WorkerStep, WorkerFault, Load, Claim, Limit, Postpone, Admit, Refuse,
       Accepted, Rejected, MarkSent, Report, FailRetry, ScheduleRetry, FailFinally, Bury, AckLost,
       Throw, ThrowAfterSend, Return, Goto, IdleWorker, BusyWorker, WorkerBuries
  <2>2. buried'[m] = buried[m]
    BY <1>2, <1>9 DEF WorkerStep, WorkerFault, Load, Claim, Limit, Postpone, Admit, Refuse,
       Accepted, Rejected, MarkSent, Report, FailRetry, ScheduleRetry, FailFinally, Bury, AckLost,
       Throw, ThrowAfterSend, CreateDeadLetter
  <2>3. ASSUME status[m] = "FAILED" PROVE status'[m] = "FAILED"
    <3>1. ~Holds(w, m)  BY <1>6, <2>3 DEF Sound
    <3>2. ~(wk[w].m = m /\ (Limit(w) \/ MarkSent(w) \/ FailRetry(w)))
      BY <3>1 DEF Limit, MarkSent, FailRetry, Holds, HoldPcs
    <3>3. QED
      BY <1>2, <2>3, <3>2 DEF WorkerStep, WorkerFault, Load, Claim, Claimable, Limit, Postpone, Admit,
         Refuse, Accepted, Rejected, MarkSent, Report, FailRetry, ScheduleRetry, FailFinally, Bury,
         AckLost, Throw, ThrowAfterSend, MarkForRetry, MarkFailed
  <2>4. QED  BY <1>4, <1>6, <2>1, <2>2, <2>3, NoBurial
<1>10. QED  BY <1>7, <1>8, <1>9

LEMMA CronGrave ==
  ASSUME OutboundAssumption, TypeOK, NEW c \in Crons,
         \/ \E n \in Messages : FindStale(c, n) \/ FindQueued(c, n)
         \/ CronStep(c) \/ CronThrow(c),
         NEW m \in Messages, ~lapse'[m], ~lapse[m] => Sound(m) /\ Grave(m)
  PROVE  Grave(m)'
<1> USE DEF rows, dead, procs, hist
<1>1. /\ cr \in [Crons -> BusyCron \cup {IdleCron}] /\ status \in [Messages -> Status]
      /\ lapse \in [Messages -> BOOLEAN] /\ buried \in [Messages -> Nat]
  BY DEF TypeOK
<1>2. UNCHANGED wk /\ (\A d \in Crons \ {c} : cr'[d] = cr[d]) /\ ~lapse[m]
  BY <1>1 DEF FindStale, FindQueued, CronStep, CronThrow, RecoverRetry, RecoverPublish, RecoverFail,
     RecoverBury, RepublishQueued, Recovering
<1>3. /\ \A w \in Workers : WorkerBuries(w, m)' <=> WorkerBuries(w, m)
      /\ \A d \in Crons \ {c} : CronBuries(d, m)' <=> CronBuries(d, m)
  BY <1>2 DEF WorkerBuries, CronBuries
<1>4. Sound(m) /\ Grave(m)  BY <1>2
<1>5. ASSUME RecoverFail(c), cr[c].m = m PROVE Grave(m)'
  <2>1. status[m] # "FAILED" /\ status'[m] = "FAILED" /\ buried'[m] = buried[m]
    BY <1>1, <1>5 DEF RecoverFail, Recovering, MarkFailed
  <2>2. QED  BY <1>1, <1>3, <1>4, <2>1, FirstBurial
<1>6. ASSUME RecoverBury(c), cr[c].m = m PROVE Grave(m)'
  <2>1. CronBuries(c, m) /\ ~CronBuries(c, m)'
    BY <1>1, <1>6 DEF RecoverBury, CronBuries, IdleCron
  <2>2. status'[m] = status[m] /\ buried'[m] = buried[m] + 1
    BY <1>1, <1>6 DEF RecoverBury, CreateDeadLetter
  <2>3. QED  BY <1>1, <1>3, <1>4, <2>1, <2>2, LastRites
<1>7. ASSUME cr[c].m # m \/ ~(RecoverFail(c) \/ RecoverBury(c)) PROVE Grave(m)'
  <2>1. CronBuries(c, m)' => CronBuries(c, m)
    BY <1>1, <1>7 DEF FindStale, FindQueued, CronStep, CronThrow, RecoverRetry, RecoverPublish,
       RecoverFail, RecoverBury, RepublishQueued, CronBuries, BusyCron, IdleCron
  <2>2. buried'[m] = buried[m]
    BY <1>1, <1>7 DEF FindStale, FindQueued, CronStep, CronThrow, RecoverRetry, RecoverPublish,
       RecoverFail, RecoverBury, RepublishQueued, CreateDeadLetter
  <2>3. status[m] = "FAILED" => status'[m] = "FAILED"
    BY <1>1, <1>7 DEF FindStale, FindQueued, CronStep, CronThrow, RecoverRetry, RecoverPublish,
       RecoverFail, RecoverBury, RepublishQueued, MarkForRetry, MarkFailed, Recovering
  <2>4. QED  BY <1>3, <1>4, <2>1, <2>2, <2>3, NoBurial
<1>8. QED  BY <1>5, <1>6, <1>7

LEMMA OtherGrave ==
  ASSUME OutboundAssumption, TypeOK, NEW m \in Messages, ~lapse'[m],
         ~lapse[m] => Sound(m) /\ Grave(m),
         \/ \E n \in Messages : Submit(n) \/ Enqueue(n) \/ RequestThrow(n)
         \/ \E w \in Workers, n \in Messages, k \in Keys : Fetch(w, n, k)
         \/ \E n \in Messages, k \in Keys : Expire(n, k)
         \/ \E r \in Receivers, n \in Messages, kind \in Receipts : Receive(r, n, kind)
         \/ \E r \in Receivers : ApplyReceipt(r) \/ ReceiptThrow(r)
         \/ \E o \in Operators, n \in Messages : \E i \in open[n] : Reprocess(o, n, i)
         \/ \E o \in Operators : OperatorStep(o) \/ OperatorThrow(o)
         \/ Crash
  PROVE  Grave(m)'
<1> USE DEF rows, dead, procs, hist
<1>1. /\ wk \in [Workers -> BusyWorker \cup {IdleWorker}] /\ status \in [Messages -> Status]
      /\ lapse \in [Messages -> BOOLEAN] /\ op \in [Operators -> BusyOperator \cup {IdleOperator}]
      /\ rx \in [Receivers -> BusyReceiver \cup {IdleReceiver}]
  BY DEF TypeOK
<1>2. ~lapse[m] /\ UNCHANGED buried
  BY <1>1 DEF Submit, Enqueue, RequestThrow, Fetch, Expire, Receive, ApplyReceipt, ReceiptThrow,
     Reprocess, OperatorStep, ResetMessage, PublishReprocess, MarkReprocessed, OperatorThrow, Crash
<1>3. Sound(m) /\ Grave(m)  BY <1>2
<1>4. /\ \A w \in Workers : WorkerBuries(w, m)' => WorkerBuries(w, m)
      /\ \A c \in Crons : CronBuries(c, m)' => CronBuries(c, m)
  <2>1. CASE UNCHANGED <<wk, cr>>  BY <2>1 DEF WorkerBuries, CronBuries
  <2>2. CASE Crash  BY <2>2 DEF Crash, WorkerBuries, CronBuries, IdleWorker, IdleCron
  <2>3. ASSUME NEW w \in Workers, NEW n \in Messages, NEW k \in Keys, Fetch(w, n, k)
        PROVE  \A v \in Workers : WorkerBuries(v, m)' => WorkerBuries(v, m)
    BY <1>1, <2>3 DEF Fetch, WorkerBuries, IdleWorker
  <2>4. ASSUME NEW w \in Workers, NEW n \in Messages, NEW k \in Keys, Fetch(w, n, k)
        PROVE  \A c \in Crons : CronBuries(c, m)' => CronBuries(c, m)
    BY <2>4 DEF Fetch, CronBuries
  <2>5. QED
    BY <2>1, <2>2, <2>3, <2>4 DEF Submit, Enqueue, RequestThrow, Expire, Receive, ApplyReceipt,
       ReceiptThrow, Reprocess, OperatorStep, ResetMessage, PublishReprocess, MarkReprocessed, OperatorThrow
<1>5. ASSUME status[m] = "FAILED" PROVE status'[m] = "FAILED"
  <2>1. ~wa[m]  BY <1>3, <1>5 DEF Sound
  <2>2. ASSUME NEW r \in Receivers, ApplyReceipt(r) PROVE status'[m] = "FAILED"
    <3>1. rx[r].m # m  BY <1>3, <2>1, <2>2 DEF Sound, ApplyReceipt
    <3>2. QED  BY <1>1, <1>5, <2>2, <3>1 DEF ApplyReceipt
  <2>3. ASSUME NEW o \in Operators, ResetMessage(o) PROVE status'[m] = "FAILED"
    <3>1. op[o].m # m  BY <1>1, <2>3 DEF ResetMessage
    <3>2. QED  BY <1>1, <1>5, <2>3, <3>1 DEF ResetMessage
  <2>4. QED
    BY <1>1, <1>5, <2>2, <2>3 DEF Submit, Enqueue, RequestThrow, Fetch, Expire, Receive,
       ReceiptThrow, Reprocess, OperatorStep, PublishReprocess, MarkReprocessed, OperatorThrow, Crash
<1>6. QED  BY <1>2, <1>3, <1>4, <1>5, NoBurial

LEMMA GraveStep ==
  ASSUME OutboundAssumption, TypeOK, ClaimSound, GraveSound, [Next]_vars PROVE GraveSound'
<1> SUFFICES ASSUME NEW m \in Messages, ~lapse'[m] PROVE Grave(m)'
  BY DEF GraveSound
<1>1. ~lapse[m] => Sound(m) /\ Grave(m)  BY DEF ClaimSound, GraveSound
<1>2. CASE UNCHANGED vars
  BY <1>1, <1>2 DEF vars, rows, dead, procs, hist, Grave, Buried, WorkerBuries, CronBuries
<1>3. CASE Next
  BY <1>1, <1>3, WorkerGrave, CronGrave, OtherGrave DEF Next
<1>4. QED  BY <1>2, <1>3

\* Only a FAILED message is dead-lettered, by one actor, once.
LEMMA GraveCorrect == Spec => []GraveSound
<1>1. Init => GraveSound  BY GraveInit
<1>2. TypeOK /\ ClaimSound /\ GraveSound /\ [Next]_vars => GraveSound'
  BY GraveStep, OutboundAssumption
<1>3. QED  BY <1>1, <1>2, TypeCorrect, ClaimCorrect, PTL DEF Spec

\* No interleaving of workers and crons dead-letters a message twice, or one
\* that WhatsApp has, unless a recovery acted on stale data, the answer to the
\* send was lost, a crash came between the send and its record, a database error
\* between the send and the handler's return, or an operator reset the message.
THEOREM BuriedOnce == Spec => []OneDeadLetter
<1>1. TypeOK /\ ClaimSound /\ GraveSound => OneDeadLetter
  <2> SUFFICES ASSUME TypeOK, ClaimSound, GraveSound, NEW m \in Messages, ~lapse[m]
               PROVE  /\ buried[m] <= 1
                      /\ buried[m] = 1 => sends[m] = 0 /\ status[m] = "FAILED"
    BY DEF OneDeadLetter
  <2>1. Grave(m) /\ Sound(m)  BY DEF ClaimSound, GraveSound
  <2>2. buried[m] = 1 => status[m] = "FAILED"  BY <2>1 DEF Grave, Buried
  <2>3. status[m] = "FAILED" => sends[m] = 0  BY <2>1 DEF Sound, Held
  <2>4. QED  BY <2>1, <2>2, <2>3 DEF Grave
<1>2. QED  BY <1>1, TypeCorrect, ClaimCorrect, GraveCorrect, PTL

-----------------------------------------------------------------------------
(* How a step may write a row.                                             *)
StaleIn(c, m) == cr[c].pc = "stale" /\ cr[c].m = m
ReceiptIn(r, m) == rx[r].pc = "apply" /\ rx[r].m = m
ResetIn(o, m) == op[o].pc = "reset" /\ op[o].m = m

\* The recovery c acts on m, which it found earlier.
Recovers(c, m) == StaleIn(c, m) /\ (RecoverRetry(c) \/ RecoverFail(c))

LetGo(m) == \E w \in Workers : Holds(w, m) /\ ~Holds(w, m)'

Writes(m, x) ==
  \/ status[m] = "NONE" /\ x = "QUEUED"
  \/ /\ status[m] = "QUEUED" /\ x = "PROCESSING"
     /\ \E w \in Workers : \A v \in Workers \ {w} : Holds(v, m)' => Holds(v, m)
  \/ x \in {"QUEUED", "FAILED"} /\ LetGo(m)
  \/ /\ x \in {"QUEUED", "FAILED"}
     /\ \E c \in Crons : Recovers(c, m) /\ ~StaleIn(c, m)'
     /\ status[m] = "PROCESSING" \/ lapse'[m]
  \/ \E r \in Receivers : ReceiptIn(r, m) /\ x = rx[r].kind
  \/ x = "QUEUED" /\ (\E o \in Operators : ResetIn(o, m)) /\ lapse'[m]

RowStep(m, x) ==
  /\ status' = [status EXCEPT ![m] = x]
  /\ \/ wa' = wa /\ Writes(m, x)
     \/ wa' = [wa EXCEPT ![m] = TRUE] /\ x = "SENT" /\ LetGo(m)

\* Every step leaves the rows alone or writes the row of one message.
LEMMA RowSteps ==
  ASSUME OutboundAssumption, TypeOK, [Next]_vars
  PROVE  UNCHANGED <<status, wa>> \/ \E m \in Messages, x \in Status : RowStep(m, x)
<1> USE DEF rows, dead, procs, hist
<1>1. ASSUME NEW m \in Messages, Submit(m) PROVE RowStep(m, "QUEUED")
  BY <1>1 DEF Submit, RowStep, Writes
<1>2. ASSUME NEW w \in Workers, WorkerStep(w) \/ WorkerFault(w)
      PROVE  UNCHANGED <<status, wa>> \/ \E m \in Messages, x \in Status : RowStep(m, x)
  <2>1. wk[w].pc # "idle"
    BY <1>2 DEF WorkerStep, WorkerFault, Load, Claim, Limit, Postpone, Admit, Refuse, Accepted,
       Rejected, MarkSent, Report, FailRetry, ScheduleRetry, FailFinally, Bury, AckLost, Throw,
       ThrowAfterSend
  <2>2. PICK m \in Messages : m = wk[w].m  BY <2>1, WorkerMoves
  <2>a. wk \in [Workers -> BusyWorker \cup {IdleWorker}] /\ wk[w] \in BusyWorker
    BY <2>1, WorkerMoves DEF TypeOK
  <2>3. CASE Claim(w)
    <3>1. \A v \in Workers \ {w} : wk'[v] = wk[v]  BY <2>a, <2>3 DEF Claim, Goto, Return
    <3>2. \A v \in Workers \ {w} : Holds(v, m)' => Holds(v, m)  BY <3>1 DEF Holds
    <3>3. status[m] = "QUEUED" => Writes(m, "PROCESSING")  BY <3>2 DEF Writes
    <3>4. QED  BY <2>2, <2>3, <3>3 DEF Claim, Claimable, RowStep, Status
  <2>b. ASSUME Limit(w) \/ FailRetry(w) \/ FailFinally(w) \/ MarkSent(w) PROVE LetGo(m)
    <3>1. wk[w].pc \in HoldPcs /\ wk'[w].pc \notin HoldPcs
      BY <2>a, <2>b DEF Limit, FailRetry, FailFinally, MarkSent, Goto, HoldPcs, BusyWorker
    <3>2. QED  BY <2>2, <3>1 DEF LetGo, Holds
  <2>4. CASE Limit(w) \/ FailRetry(w)
    <3>1. RowStep(m, "QUEUED")
      BY <2>2, <2>4, <2>b DEF Limit, FailRetry, MarkForRetry, RowStep, Writes
    <3>2. QED  BY <2>2, <3>1 DEF Status
  <2>5. CASE FailFinally(w)
    <3>1. RowStep(m, "FAILED")
      BY <2>2, <2>5, <2>b DEF FailFinally, MarkFailed, RowStep, Writes
    <3>2. QED  BY <2>2, <3>1 DEF Status
  <2>6. CASE MarkSent(w)
    <3>1. RowStep(m, "SENT")
      BY <2>2, <2>6, <2>b DEF MarkSent, RowStep
    <3>2. QED  BY <2>2, <3>1 DEF Status
  <2>7. QED
    BY <1>2, <2>3, <2>4, <2>5, <2>6 DEF WorkerStep, WorkerFault, Load, Postpone, Admit, Refuse,
       Accepted, Rejected, Report, ScheduleRetry, Bury, AckLost, Throw, ThrowAfterSend
<1>3. ASSUME NEW c \in Crons, CronStep(c) \/ CronThrow(c)
      PROVE  UNCHANGED <<status, wa>> \/ \E m \in Messages, x \in Status : RowStep(m, x)
  <2>1. CASE RecoverRetry(c)
    <3>m. PICK m \in Messages : m = cr[c].m
      BY <2>1 DEF RecoverRetry, TypeOK, BusyCron, IdleCron
    <3>1. StaleIn(c, m) /\ ~StaleIn(c, m)'
      BY <2>1, <3>m DEF RecoverRetry, StaleIn, TypeOK
    <3>2. status[m] = "PROCESSING" \/ lapse'[m]
      BY <2>1, <3>m DEF RecoverRetry, Recovering, TypeOK
    <3>3. Writes(m, "QUEUED")  BY <2>1, <3>1, <3>2 DEF Writes, Recovers
    <3>4. RowStep(m, "QUEUED")
      BY <2>1, <3>m, <3>3 DEF RecoverRetry, MarkForRetry, RowStep
    <3>5. QED  BY <3>m, <3>4 DEF Status
  <2>2. CASE RecoverFail(c)
    <3>m. PICK m \in Messages : m = cr[c].m
      BY <2>2 DEF RecoverFail, TypeOK, BusyCron, IdleCron
    <3>1. StaleIn(c, m) /\ ~StaleIn(c, m)'
      BY <2>2, <3>m DEF RecoverFail, StaleIn, TypeOK
    <3>2. status[m] = "PROCESSING" \/ lapse'[m]
      BY <2>2, <3>m DEF RecoverFail, Recovering, TypeOK
    <3>3. Writes(m, "FAILED")  BY <2>2, <3>1, <3>2 DEF Writes, Recovers
    <3>4. RowStep(m, "FAILED")
      BY <2>2, <3>m, <3>3 DEF RecoverFail, MarkFailed, RowStep
    <3>5. QED  BY <3>m, <3>4 DEF Status
  <2>3. QED
    BY <1>3, <2>1, <2>2 DEF CronStep, CronThrow, RecoverPublish, RecoverBury, RepublishQueued
<1>4. ASSUME NEW r \in Receivers, ApplyReceipt(r)
      PROVE  \E m \in Messages, x \in Status : RowStep(m, x)
  <2>1. rx[r].m \in Messages /\ rx[r].kind \in Status
    BY <1>4 DEF ApplyReceipt, TypeOK, BusyReceiver, IdleReceiver, Status
  <2>2. RowStep(rx[r].m, rx[r].kind)
    BY <1>4 DEF ApplyReceipt, RowStep, Writes, ReceiptIn
  <2>3. QED  BY <2>1, <2>2
<1>5. ASSUME NEW o \in Operators, ResetMessage(o)
      PROVE  \E m \in Messages, x \in Status : RowStep(m, x)
  <2>1. op[o].m \in Messages  BY <1>5 DEF ResetMessage, TypeOK, BusyOperator, IdleOperator
  <2>2. lapse'[op[o].m]  BY <1>5, <2>1 DEF ResetMessage, TypeOK
  <2>3. RowStep(op[o].m, "QUEUED")  BY <1>5, <2>2 DEF ResetMessage, RowStep, Writes, ResetIn
  <2>4. QED  BY <2>1, <2>3 DEF Status
<1>6. CASE UNCHANGED vars  BY <1>6 DEF vars
<1>7. QED
  BY <1>1, <1>2, <1>3, <1>4, <1>5, <1>6 DEF Next, Enqueue, RequestThrow, Fetch, Expire, FindStale,
     FindQueued, Receive, ReceiptThrow, Reprocess, OperatorStep, PublishReprocess, MarkReprocessed,
     OperatorThrow, Crash, Status

-----------------------------------------------------------------------------
(* A delivered message stays delivered.                                    *)

\* A request that is about to reset m found a dead letter of it; a receipt
\* under way is news.
Kept(m) ==
  /\ \A o \in Operators : ResetIn(o, m) => buried[m] # 0
  /\ \A r \in Receivers : ReceiptIn(r, m) => rx[r].kind \in {"DELIVERED", "READ"}
  /\ open[m] # {} => buried[m] # 0
KeptSound == \A m \in Messages : ~lapse[m] => Kept(m)

\* What a recovery found is still an orphaned claim, ...
Orphans(m) == \A c \in Crons : StaleIn(c, m) => status[m] = "PROCESSING" /\ ~Held(m)
OrphanSound == \A m \in Messages : ~lapse[m] => Orphans(m)

\* ... when one recovery runs at a time and no handler outlives the threshold.
Punctual == "slow" \notin Faults /\ \A c, d \in Crons : c = d

LEMMA KeptInit == ASSUME Init PROVE KeptSound /\ OrphanSound
BY DEF Init, KeptSound, Kept, OrphanSound, Orphans, StaleIn, ResetIn, ReceiptIn, IdleCron, IdleOperator,
       IdleReceiver

\* Faults are remembered.
LEMMA LapseStays ==
  ASSUME TypeOK, [Next]_vars, NEW m \in Messages, lapse[m] PROVE lapse'[m]
<1> USE DEF rows, dead, procs, hist
<1>1. lapse \in [Messages -> BOOLEAN]  BY DEF TypeOK
<1>2. ASSUME NEW w \in Workers, WorkerStep(w) \/ WorkerFault(w) PROVE lapse'[m]
  BY <1>1, <1>2 DEF WorkerStep, WorkerFault, Load, Claim, Limit, Postpone, Admit, Refuse, Accepted,
     Rejected, MarkSent, Report, FailRetry, ScheduleRetry, FailFinally, Bury, AckLost, Throw,
     ThrowAfterSend
<1>3. ASSUME NEW c \in Crons, CronStep(c) \/ CronThrow(c) PROVE lapse'[m]
  BY <1>1, <1>3 DEF CronStep, CronThrow, RecoverRetry, RecoverFail, Recovering, RecoverPublish,
     RecoverBury, RepublishQueued
<1>4. ASSUME NEW o \in Operators, OperatorStep(o) \/ OperatorThrow(o) PROVE lapse'[m]
  BY <1>1, <1>4 DEF OperatorStep, OperatorThrow, ResetMessage, PublishReprocess, MarkReprocessed
<1>5. CASE Crash  BY <1>5 DEF Crash
<1>6. CASE UNCHANGED vars  BY <1>6 DEF vars
<1>7. QED
  BY <1>2, <1>3, <1>4, <1>5, <1>6 DEF Next, Submit, Enqueue, RequestThrow, Fetch, Expire, FindStale,
     FindQueued, Receive, ApplyReceipt, ReceiptThrow, Reprocess

\* Nobody takes a claim but by moving the row from QUEUED to PROCESSING.
LEMMA NoNewClaim ==
  ASSUME OutboundAssumption, TypeOK, [Next]_vars, NEW m \in Messages,
         ~(status[m] = "QUEUED" /\ status'[m] = "PROCESSING"), NEW w \in Workers, Holds(w, m)',
         \/ "db" \notin Faults
         \/ ~lapse'[m]
  PROVE  Holds(w, m)
<1> USE DEF rows, dead, procs, hist, Holds, HoldPcs
<1>1. wk \in [Workers -> BusyWorker \cup {IdleWorker}] /\ NoMsg \notin Messages
      /\ lapse \in [Messages -> BOOLEAN]
  BY DEF TypeOK, OutboundAssumption
<1>2. ASSUME wk'[w] = wk[w] PROVE Holds(w, m)  BY <1>2
<1>3. ASSUME WorkerStep(w) \/ WorkerFault(w) PROVE Holds(w, m)
  <2>1. wk[w].pc # "idle"
    BY <1>3 DEF WorkerStep, WorkerFault, Load, Claim, Limit, Postpone, Admit, Refuse, Accepted,
       Rejected, MarkSent, Report, FailRetry, ScheduleRetry, FailFinally, Bury, AckLost, Throw,
       ThrowAfterSend
  <2>2. wk[w] \in BusyWorker  BY <2>1, WorkerMoves
  <2>3. CASE Load(w) \/ Postpone(w) \/ Report(w) \/ ScheduleRetry(w) \/ Bury(w) \/ Throw(w)
    BY <1>1, <2>2, <2>3 DEF Load, Postpone, Report, ScheduleRetry, Bury, Throw, Return, IdleWorker,
       BusyWorker
  <2>4. CASE Claim(w)
    <3>1. CASE ~Claimable(wk[w].m)
      BY <1>1, <2>2, <2>4, <3>1 DEF Claim, Return, IdleWorker
    <3>2. CASE Claimable(wk[w].m)
      <4>1. status'[wk[w].m] = "PROCESSING" /\ status[wk[w].m] = "QUEUED" /\ wk'[w].m = wk[w].m
        BY <1>1, <2>2, <2>4, <3>2 DEF Claim, Claimable, Goto, BusyWorker, TypeOK
      <4>2. wk'[w].m = m  OBVIOUS
      <4>3. QED  BY <4>1, <4>2
    <3>3. QED  BY <3>1, <3>2
  <2>5. CASE Limit(w) \/ MarkSent(w) \/ FailRetry(w) \/ FailFinally(w)
    BY <1>1, <2>2, <2>5 DEF Limit, MarkSent, FailRetry, FailFinally, Goto, BusyWorker
  <2>6. CASE Admit(w) \/ Refuse(w) \/ Accepted(w) \/ Rejected(w) \/ AckLost(w)
    BY <1>1, <2>2, <2>6 DEF Admit, Refuse, Accepted, Rejected, AckLost, Goto, BusyWorker
  <2>7. CASE ThrowAfterSend(w)
    BY <1>1, <2>2, <2>7 DEF ThrowAfterSend, Fault, BusyWorker
  <2>8. QED
    BY <1>3, <2>3, <2>4, <2>5, <2>6, <2>7 DEF WorkerStep, WorkerFault
<1>4. ASSUME NEW v \in Workers, v # w, WorkerStep(v) \/ WorkerFault(v) PROVE wk'[w] = wk[w]
  BY <1>1, <1>4 DEF WorkerStep, WorkerFault, Load, Claim, Limit, Postpone, Admit, Refuse, Accepted,
     Rejected, MarkSent, Report, FailRetry, ScheduleRetry, FailFinally, Bury, AckLost, Throw,
     ThrowAfterSend, Return, Goto
<1>5. ASSUME NEW v \in Workers, NEW n \in Messages, NEW k \in Keys, Fetch(v, n, k)
      PROVE  Holds(w, m)
  BY <1>1, <1>5 DEF Fetch, IdleWorker
<1>6. ASSUME Crash PROVE FALSE
  BY <1>1, <1>6 DEF Crash, IdleWorker
<1>7. CASE UNCHANGED vars  BY <1>7 DEF vars
<1>8. QED
  BY <1>2, <1>3, <1>4, <1>5, <1>6, <1>7 DEF Next, Submit, Enqueue, RequestThrow, Expire, FindStale,
     FindQueued, CronStep, CronThrow, RecoverRetry, RecoverPublish, RecoverFail, RecoverBury,
     RepublishQueued, Receive, ApplyReceipt, ReceiptThrow, Reprocess, OperatorStep, OperatorThrow,
     ResetMessage, PublishReprocess, MarkReprocessed

\* The row of an orphaned claim that a recovery found is written by nobody else.
LEMMA StaleRow ==
  ASSUME OutboundAssumption, TypeOK, [Next]_vars, NEW m \in Messages, NEW c \in Crons,
         Sound(m), Orphans(m), StaleIn(c, m), StaleIn(c, m)', ~lapse'[m], Punctual
  PROVE  status'[m] = "PROCESSING"
<1>1. status[m] = "PROCESSING" /\ ~Held(m)  BY DEF Orphans
<1>2. \A r \in Receivers : ~ReceiptIn(r, m)  BY <1>1 DEF Sound, ReceiptIn
<1>3. \A x : ~Writes(m, x)  BY <1>1, <1>2 DEF Writes, Recovers, Punctual, LetGo, Held
<1>4. status \in [Messages -> Status]  BY DEF TypeOK
<1>5. QED  BY <1>1, <1>3, <1>4, RowSteps DEF RowStep, LetGo, Held

\* Who finds a stale message, a dead letter or a receipt, and in which state.
LEMMA Findings ==
  ASSUME OutboundAssumption, TypeOK, [Next]_vars, NEW m \in Messages
  PROVE  /\ \A c \in Crons : StaleIn(c, m)' =>
              \/ StaleIn(c, m)
              \/ status'[m] = "PROCESSING" /\ (Held(m) => "slow" \in Faults) /\ UNCHANGED wk
         /\ \A r \in Receivers : ReceiptIn(r, m)' =>
              \/ ReceiptIn(r, m) /\ rx'[r] = rx[r]
              \/ wa[m] /\ rx'[r].kind \in Receipts /\ ~IsStatusRegression(status[m], rx'[r].kind)
         /\ \A o \in Operators : ResetIn(o, m)' => ResetIn(o, m) \/ open[m] # {}
<1> USE DEF rows, dead, procs, hist
<1>1. /\ cr \in [Crons -> BusyCron \cup {IdleCron}]
      /\ rx \in [Receivers -> BusyReceiver \cup {IdleReceiver}]
      /\ op \in [Operators -> BusyOperator \cup {IdleOperator}]
      /\ NoMsg \notin Messages
  BY DEF TypeOK, OutboundAssumption
<1>2. \A c \in Crons : StaleIn(c, m)' =>
        \/ StaleIn(c, m)
        \/ status'[m] = "PROCESSING" /\ (Held(m) => "slow" \in Faults) /\ UNCHANGED wk
  <2>1. ASSUME NEW c \in Crons, NEW n \in Messages, FindStale(c, n), NEW d \in Crons, StaleIn(d, m)'
        PROVE  \/ StaleIn(d, m)
               \/ status'[m] = "PROCESSING" /\ (Held(m) => "slow" \in Faults) /\ UNCHANGED wk
    BY <1>1, <2>1 DEF FindStale, StaleIn, Fault
  <2>2. ASSUME NEW c \in Crons, NEW n \in Messages, FindQueued(c, n), NEW d \in Crons, StaleIn(d, m)'
        PROVE  StaleIn(d, m)
    BY <1>1, <2>2 DEF FindQueued, StaleIn
  <2>3. ASSUME NEW c \in Crons, CronStep(c) \/ CronThrow(c), NEW d \in Crons, StaleIn(d, m)'
        PROVE  StaleIn(d, m)
    <3>1. d # c => cr'[d] = cr[d]
      BY <1>1, <2>3 DEF CronStep, CronThrow, RecoverRetry, RecoverPublish, RecoverFail, RecoverBury,
         RepublishQueued
    <3>2. cr'[c].pc # "stale"
      BY <1>1, <2>3 DEF CronStep, CronThrow, RecoverRetry, RecoverPublish, RecoverFail, RecoverBury,
         RepublishQueued, BusyCron, IdleCron
    <3>3. QED  BY <2>3, <3>1, <3>2 DEF StaleIn
  <2>4. ASSUME Crash, NEW d \in Crons, StaleIn(d, m)' PROVE FALSE
    BY <2>4 DEF Crash, StaleIn, IdleCron
  <2>5. ASSUME UNCHANGED cr, NEW d \in Crons, StaleIn(d, m)' PROVE StaleIn(d, m)
    BY <2>5 DEF StaleIn
  <2>6. ASSUME NEW w \in Workers, WorkerStep(w) \/ WorkerFault(w) PROVE UNCHANGED cr
    BY <2>6 DEF WorkerStep, WorkerFault, Load, Claim, Limit, Postpone, Admit, Refuse, Accepted,
       Rejected, MarkSent, Report, FailRetry, ScheduleRetry, FailFinally, Bury, AckLost, Throw,
       ThrowAfterSend
  <2>7. QED
    BY <2>1, <2>2, <2>3, <2>4, <2>5, <2>6 DEF Next, vars, Submit, Enqueue, RequestThrow, Fetch, Expire,
       Receive, ApplyReceipt, ReceiptThrow, Reprocess, OperatorStep, OperatorThrow, ResetMessage,
       PublishReprocess, MarkReprocessed
<1>3. \A r \in Receivers : ReceiptIn(r, m)' =>
        \/ ReceiptIn(r, m) /\ rx'[r] = rx[r]
        \/ wa[m] /\ rx'[r].kind \in Receipts /\ ~IsStatusRegression(status[m], rx'[r].kind)
  <2>1. ASSUME NEW q \in Receivers, NEW n \in Messages, NEW kind \in Receipts, Receive(q, n, kind),
               NEW r \in Receivers, ReceiptIn(r, m)'
        PROVE  \/ ReceiptIn(r, m) /\ rx'[r] = rx[r]
               \/ wa[m] /\ rx'[r].kind \in Receipts /\ ~IsStatusRegression(status[m], rx'[r].kind)
    BY <1>1, <2>1 DEF Receive, ReceiptIn
  <2>2. ASSUME NEW q \in Receivers, ApplyReceipt(q) \/ ReceiptThrow(q), NEW r \in Receivers,
               ReceiptIn(r, m)'
        PROVE  ReceiptIn(r, m) /\ rx'[r] = rx[r]
    BY <1>1, <2>2 DEF ApplyReceipt, ReceiptThrow, ReceiptIn, IdleReceiver
  <2>3. ASSUME Crash, NEW r \in Receivers, ReceiptIn(r, m)' PROVE FALSE
    BY <2>3 DEF Crash, ReceiptIn, IdleReceiver
  <2>4. ASSUME UNCHANGED rx, NEW r \in Receivers, ReceiptIn(r, m)'
        PROVE  ReceiptIn(r, m) /\ rx'[r] = rx[r]
    BY <2>4 DEF ReceiptIn
  <2>5. ASSUME NEW w \in Workers, WorkerStep(w) \/ WorkerFault(w) PROVE UNCHANGED rx
    BY <2>5 DEF WorkerStep, WorkerFault, Load, Claim, Limit, Postpone, Admit, Refuse, Accepted,
       Rejected, MarkSent, Report, FailRetry, ScheduleRetry, FailFinally, Bury, AckLost, Throw,
       ThrowAfterSend
  <2>6. QED
    BY <2>1, <2>2, <2>3, <2>4, <2>5 DEF Next, vars, Submit, Enqueue, RequestThrow, Fetch, Expire,
       FindStale, FindQueued, CronStep, CronThrow, RecoverRetry, RecoverPublish, RecoverFail,
       RecoverBury, RepublishQueued, Reprocess, OperatorStep, OperatorThrow, ResetMessage,
       PublishReprocess, MarkReprocessed
<1>4. \A o \in Operators : ResetIn(o, m)' => ResetIn(o, m) \/ open[m] # {}
  <2>1. ASSUME NEW o \in Operators, NEW n \in Messages, NEW i \in open[n], Reprocess(o, n, i),
               NEW q \in Operators, ResetIn(q, m)'
        PROVE  ResetIn(q, m) \/ open[m] # {}
    BY <1>1, <2>1 DEF Reprocess, ResetIn
  <2>2. ASSUME NEW o \in Operators, OperatorStep(o) \/ OperatorThrow(o),
               NEW q \in Operators, ResetIn(q, m)'
        PROVE  ResetIn(q, m)
    <3>1. q # o => op'[q] = op[q]
      BY <1>1, <2>2 DEF OperatorStep, OperatorThrow, ResetMessage, PublishReprocess, MarkReprocessed
    <3>2. op'[o].pc # "reset"
      BY <1>1, <2>2 DEF OperatorStep, OperatorThrow, ResetMessage, PublishReprocess, MarkReprocessed,
         BusyOperator, IdleOperator
    <3>3. QED  BY <2>2, <3>1, <3>2 DEF ResetIn
  <2>3. ASSUME Crash, NEW q \in Operators, ResetIn(q, m)' PROVE FALSE
    BY <2>3 DEF Crash, ResetIn, IdleOperator
  <2>4. ASSUME UNCHANGED op, NEW q \in Operators, ResetIn(q, m)' PROVE ResetIn(q, m)
    BY <2>4 DEF ResetIn
  <2>5. ASSUME NEW w \in Workers, WorkerStep(w) \/ WorkerFault(w) PROVE UNCHANGED op
    BY <2>5 DEF WorkerStep, WorkerFault, Load, Claim, Limit, Postpone, Admit, Refuse, Accepted,
       Rejected, MarkSent, Report, FailRetry, ScheduleRetry, FailFinally, Bury, AckLost, Throw,
       ThrowAfterSend
  <2>6. QED
    BY <2>1, <2>2, <2>3, <2>4, <2>5 DEF Next, vars, Submit, Enqueue, RequestThrow, Fetch, Expire,
       FindStale, FindQueued, CronStep, CronThrow, RecoverRetry, RecoverPublish, RecoverFail,
       RecoverBury, RepublishQueued, Receive, ApplyReceipt, ReceiptThrow
<1>5. QED  BY <1>2, <1>3, <1>4

\* A dead letter is never forgotten, and none is open that was not written.
LEMMA Graves ==
  ASSUME OutboundAssumption, TypeOK, [Next]_vars, NEW m \in Messages, open[m] # {} => buried[m] # 0
  PROVE  /\ buried[m] # 0 => buried'[m] # 0
         /\ open'[m] # {} => buried'[m] # 0
<1> USE DEF rows, dead, procs, hist
<1>1. open \in [Messages -> SUBSET Nat] /\ buried \in [Messages -> Nat]  BY DEF TypeOK
<1>2. ASSUME NEW n, CreateDeadLetter(n)
      PROVE  /\ buried[m] # 0 => buried'[m] # 0
             /\ open'[m] # {} => buried'[m] # 0
  BY <1>1, <1>2 DEF CreateDeadLetter
<1>3. ASSUME NEW o \in Operators, MarkReprocessed(o)
      PROVE  /\ buried[m] # 0 => buried'[m] # 0
             /\ open'[m] # {} => buried'[m] # 0
  BY <1>1, <1>3 DEF MarkReprocessed
<1>4. ASSUME NEW w \in Workers, WorkerStep(w) \/ WorkerFault(w), ~Bury(w) PROVE UNCHANGED dead
  BY <1>4 DEF WorkerStep, WorkerFault, Load, Claim, Limit, Postpone, Admit, Refuse, Accepted,
     Rejected, MarkSent, Report, FailRetry, ScheduleRetry, FailFinally, AckLost, Throw,
     ThrowAfterSend
<1>5. ASSUME NEW w \in Workers, Bury(w) PROVE CreateDeadLetter(wk[w].m)
  BY <1>5 DEF Bury
<1>6. ASSUME NEW c \in Crons, RecoverBury(c) PROVE CreateDeadLetter(cr[c].m)
  BY <1>6 DEF RecoverBury
<1>7. CASE UNCHANGED dead  BY <1>7
<1>8. QED
  BY <1>2, <1>3, <1>4, <1>5, <1>6, <1>7 DEF Next, vars, Submit, Enqueue, RequestThrow, Fetch, Expire,
     FindStale, FindQueued, CronStep, CronThrow, RecoverRetry, RecoverPublish, RecoverFail,
     RepublishQueued, Receive, ApplyReceipt, ReceiptThrow, Reprocess, OperatorStep, OperatorThrow,
     ResetMessage, PublishReprocess, Crash

LEMMA KeptStep ==
  ASSUME OutboundAssumption, TypeOK, ClaimSound, KeptSound, [Next]_vars
  PROVE  KeptSound'
<1> SUFFICES ASSUME NEW m \in Messages, ~lapse'[m] PROVE Kept(m)'  BY DEF KeptSound
<1>1. ~lapse[m]  BY LapseStays
<1>2. Sound(m) /\ Kept(m)  BY <1>1 DEF ClaimSound, KeptSound
<1>3. ASSUME NEW r \in Receivers, ReceiptIn(r, m)' PROVE rx'[r].kind \in {"DELIVERED", "READ"}
  <2>1. CASE ReceiptIn(r, m) /\ rx'[r] = rx[r]  BY <1>2, <2>1 DEF Kept
  <2>2. CASE wa[m] /\ rx'[r].kind \in Receipts /\ ~IsStatusRegression(status[m], rx'[r].kind)
    BY <1>2, <2>2 DEF Sound, Receipts, IsStatusRegression, Rank
  <2>3. QED  BY <1>3, <2>1, <2>2, Findings
<1>4. \A o \in Operators : ResetIn(o, m)' => buried'[m] # 0
  BY <1>2, Findings, Graves DEF Kept
<1>5. open'[m] # {} => buried'[m] # 0  BY <1>2, Graves DEF Kept
<1>6. QED  BY <1>3, <1>4, <1>5 DEF Kept

LEMMA OrphanStep ==
  ASSUME OutboundAssumption, TypeOK, ClaimSound, OrphanSound, [Next]_vars, Punctual
  PROVE  OrphanSound'
<1> SUFFICES ASSUME NEW m \in Messages, ~lapse'[m], NEW c \in Crons, StaleIn(c, m)'
             PROVE  status'[m] = "PROCESSING" /\ ~Held(m)'
  BY DEF OrphanSound, Orphans
<1>1. ~lapse[m]  BY LapseStays
<1>2. Sound(m) /\ Orphans(m)  BY <1>1 DEF ClaimSound, OrphanSound
<1>3. CASE StaleIn(c, m)
  <2>1. status[m] = "PROCESSING" /\ ~Held(m)  BY <1>2, <1>3 DEF Orphans
  <2>2. status'[m] = "PROCESSING"  BY <1>2, <1>3, StaleRow
  <2>3. \A w \in Workers : ~Holds(w, m)'  BY <2>1, NoNewClaim DEF Held
  <2>4. QED  BY <2>2, <2>3 DEF Held
<1>4. CASE status'[m] = "PROCESSING" /\ (Held(m) => "slow" \in Faults) /\ UNCHANGED wk
  BY <1>4 DEF Punctual, Held, Holds
<1>5. QED  BY <1>3, <1>4, Findings

LEMMA KeptCorrect == Spec => []KeptSound
<1>1. TypeOK /\ ClaimSound /\ KeptSound /\ [Next]_vars => KeptSound'
  BY KeptStep, OutboundAssumption
<1>2. QED  BY <1>1, KeptInit, TypeCorrect, ClaimCorrect, PTL DEF Spec

\* A step that writes a delivered message's row writes DELIVERED or READ, or
\* is a recovery that acts on what it found earlier.
LEMMA DeliveredStep ==
  ASSUME OutboundAssumption, TypeOK, ClaimSound, GraveSound, KeptSound, [Next]_vars,
         NEW m \in Messages, ~lapse[m], status[m] \in {"DELIVERED", "READ"}
  PROVE  status'[m] \in {"DELIVERED", "READ"} \/ \E c \in Crons : Recovers(c, m)
<1>1. Sound(m) /\ Grave(m) /\ Kept(m)  BY DEF ClaimSound, GraveSound, KeptSound
<1>2. ~Held(m)  BY <1>1 DEF Sound, Held
<1>3. \A o \in Operators : ~ResetIn(o, m)  BY <1>1 DEF Grave, Buried, Kept
<1>4. \A x : Writes(m, x) =>
        x \in {"DELIVERED", "READ"} \/ \E c \in Crons : Recovers(c, m)
  BY <1>1, <1>2, <1>3 DEF Writes, Kept, LetGo, Held
<1>5. status \in [Messages -> Status]  BY DEF TypeOK
<1>6. QED  BY <1>2, <1>4, <1>5, RowSteps DEF RowStep, LetGo, Held

\* What may take a delivered message back.  As long as its fate is certain (no
\* answer lost, no crash between the send and its record, no database error
\* between the send and the handler's return, no late recovery and no operator's
\* reset so far: ~lapse), only one step can: that of a recovery which acts on a
\* list it read earlier.  No receipt, however it races others, no worker and no
\* operator's reset can.  Of a message whose fate is uncertain nothing is said:
\* the handling of a database error after the send requeues or fails one that
\* is delivered, and a second reset of a dead letter requeues one that was sent
\* since the first.
THEOREM DeliveredUnlessStale ==
  Spec => [][\A m \in Messages :
               /\ ~lapse[m]
               /\ status[m] \in {"DELIVERED", "READ"}
               /\ status'[m] \notin {"DELIVERED", "READ"}
               => \E c \in Crons : Recovers(c, m)]_vars
<1>1. TypeOK /\ ClaimSound /\ GraveSound /\ KeptSound /\ [Next]_vars =>
        [\A m \in Messages :
           /\ ~lapse[m]
           /\ status[m] \in {"DELIVERED", "READ"}
           /\ status'[m] \notin {"DELIVERED", "READ"}
           => \E c \in Crons : Recovers(c, m)]_vars
  BY DeliveredStep, OutboundAssumption
<1>2. QED  BY <1>1, TypeCorrect, ClaimCorrect, GraveCorrect, KeptCorrect, PTL DEF Spec

\* And when one recovery runs at a time and no handler outlives the staleness
\* threshold, a delivered message whose fate is certain stays delivered.
THEOREM DeliveredForGood == Punctual => (Spec => DeliveredStays)
<1> SUFFICES ASSUME Punctual PROVE Spec => DeliveredStays  OBVIOUS
<1>1. Init => OrphanSound  BY KeptInit
<1>2. TypeOK /\ ClaimSound /\ OrphanSound /\ [Next]_vars => OrphanSound'
  BY OrphanStep, OutboundAssumption
<1>3. TypeOK /\ ClaimSound /\ GraveSound /\ KeptSound /\ OrphanSound /\ [Next]_vars =>
        [\A m \in Messages :
           ~lapse[m] /\ status[m] \in {"DELIVERED", "READ"} =>
             status'[m] \in {"DELIVERED", "READ"}]_vars
  BY DeliveredStep, OutboundAssumption DEF OrphanSound, Orphans, Recovers
<1>4. QED
  BY <1>1, <1>2, <1>3, TypeCorrect, ClaimCorrect, GraveCorrect, KeptCorrect, PTL
  DEF Spec, DeliveredStays

-----------------------------------------------------------------------------
(* The engine implements the delivery ledger.                              *)

\* What the ledger needs of a message, whatever hit it: one worker has the
\* claim, the row shows it, and exactly what is recorded is out.
Firm(m) ==
  /\ \A v, w \in Workers : Holds(v, m) /\ Holds(w, m) => v = w
  /\ Held(m) => status[m] = "PROCESSING"
  /\ wa[m] <=> status[m] \in {"SENT", "DELIVERED", "READ"}
  /\ \A r \in Receivers : ReceiptIn(r, m) => wa[m]
  /\ Orphans(m)
AllFirm == \A m \in Messages : Firm(m)

\* What the ledger leaves out: nobody reprocesses a dead letter, recoveries
\* are punctual, and the database answers.
Undisturbed == Operators = {} /\ Punctual /\ "db" \notin Faults

LEMMA FirmInit == ASSUME Init PROVE AllFirm
BY DEF Init, AllFirm, Firm, Orphans, Held, Holds, HoldPcs, StaleIn, ReceiptIn, IdleWorker, IdleCron,
       IdleReceiver

\* How a step may change what Firm says of a message.
LEMMA FirmRow ==
  ASSUME OutboundAssumption, TypeOK, [Next]_vars, NEW m \in Messages, Firm(m), Undisturbed
  PROVE  \/ status'[m] = status[m] /\ wa'[m] = wa[m]
         \/ wa'[m] = wa[m] /\ \E x \in Status : Writes(m, x) /\ status'[m] = x
         \/ wa'[m] /\ status'[m] = "SENT" /\ LetGo(m)
<1>1. status \in [Messages -> Status] /\ wa \in [Messages -> BOOLEAN]  BY DEF TypeOK
<1>2. ASSUME NEW n \in Messages, NEW x \in Status, RowStep(n, x), n # m
      PROVE  status'[m] = status[m] /\ wa'[m] = wa[m]
  BY <1>1, <1>2 DEF RowStep
<1>3. ASSUME NEW x \in Status, RowStep(m, x)
      PROVE  \/ wa'[m] = wa[m] /\ Writes(m, x) /\ status'[m] = x
             \/ wa'[m] /\ status'[m] = "SENT" /\ LetGo(m)
  BY <1>1, <1>3 DEF RowStep
<1>4. QED  BY <1>2, <1>3, RowSteps

LEMMA FirmStep ==
  ASSUME OutboundAssumption, TypeOK, AllFirm, [Next]_vars, Undisturbed PROVE AllFirm'
<1> SUFFICES ASSUME NEW m \in Messages PROVE Firm(m)'  BY DEF AllFirm
<1>1. Firm(m)  BY DEF AllFirm
<1> DEFINE Took == status[m] = "QUEUED" /\ status'[m] = "PROCESSING"
<1>2. ~Took => \A w \in Workers : Holds(w, m)' => Holds(w, m)
  BY NoNewClaim DEF Undisturbed
<1>3. Took => \E w \in Workers : \A v \in Workers \ {w} : Holds(v, m)' => Holds(v, m)
  BY <1>1, FirmRow DEF Writes, Firm, Held, LetGo
<1>4. Took => ~Held(m)  BY <1>1 DEF Firm
<1>5. (\A v, w \in Workers : Holds(v, m) /\ Holds(w, m) => v = w)'
  BY <1>1, <1>2, <1>3, <1>4 DEF Firm, Held
<1>6. LetGo(m) => ~Held(m)'
  BY <1>1, <1>2, <1>4 DEF Firm, Held, LetGo
<1>7. rx \in [Receivers -> BusyReceiver \cup {IdleReceiver}]  BY DEF TypeOK
<1>8. \A r \in Receivers : ReceiptIn(r, m) => rx[r].kind \in {"SENT", "DELIVERED", "READ"} /\ wa[m]
  BY <1>1, <1>7 DEF Firm, ReceiptIn, BusyReceiver, IdleReceiver
<1>9. \A o \in Operators : FALSE  BY DEF Undisturbed
<1>10. wa'[m] <=> status'[m] \in {"SENT", "DELIVERED", "READ"}
  <2>1. CASE status'[m] = status[m] /\ wa'[m] = wa[m]  BY <1>1, <2>1 DEF Firm
  <2>2. ASSUME NEW x \in Status, Writes(m, x), status'[m] = x, wa'[m] = wa[m]
        PROVE  wa'[m] <=> status'[m] \in {"SENT", "DELIVERED", "READ"}
    BY <1>1, <1>8, <1>9, <2>2 DEF Writes, Recovers, Firm, Orphans, LetGo, Held
  <2>3. QED  BY <1>1, <2>1, <2>2, FirmRow
<1>11. Orphans(m)'
  <2> SUFFICES ASSUME NEW c \in Crons, StaleIn(c, m)' PROVE status'[m] = "PROCESSING" /\ ~Held(m)'
    BY DEF Orphans
  <2>1. CASE StaleIn(c, m)
    <3>1. status[m] = "PROCESSING" /\ ~Held(m) /\ ~wa[m]  BY <1>1, <2>1 DEF Firm, Orphans
    <3>2. \A x : ~Writes(m, x)
      BY <1>8, <1>9, <3>1 DEF Writes, Undisturbed, Punctual, LetGo, Held
    <3>3. status'[m] = "PROCESSING"  BY <1>1, <3>1, <3>2, FirmRow DEF LetGo, Held
    <3>4. QED  BY <1>2, <3>1, <3>3 DEF Held
  <2>2. CASE status'[m] = "PROCESSING" /\ (Held(m) => "slow" \in Faults) /\ UNCHANGED wk
    BY <2>2 DEF Undisturbed, Punctual, Held, Holds
  <2>3. QED  BY <2>1, <2>2, Findings
<1>12. Held(m)' => status'[m] = "PROCESSING"
  <2> SUFFICES ASSUME Held(m)', ~Took PROVE status'[m] = "PROCESSING"  OBVIOUS
  <2>1. Held(m)  BY <1>2 DEF Held
  <2>2. status[m] = "PROCESSING" /\ ~wa[m] /\ ~LetGo(m)  BY <1>1, <1>6, <2>1 DEF Firm
  <2>3. \A c \in Crons : ~StaleIn(c, m)  BY <1>1, <2>1 DEF Firm, Orphans
  <2>4. \A x : ~Writes(m, x)  BY <1>8, <1>9, <2>2, <2>3 DEF Writes, Recovers
  <2>5. QED  BY <1>1, <2>2, <2>4, FirmRow
<1>13. \A r \in Receivers : ReceiptIn(r, m)' => wa'[m]
  <2>1. wa[m] => wa'[m]  BY <1>1, FirmRow
  <2>2. QED  BY <1>8, <2>1, Findings
<1>14. QED  BY <1>5, <1>10, <1>11, <1>12, <1>13 DEF Firm

\* The phase of the one message whose row a step writes.
PhaseOf(x) ==
  CASE x = "NONE" -> "none" [] x = "QUEUED" -> "queued" [] x = "PROCESSING" -> "inflight"
    [] x = "FAILED" -> "failed" [] OTHER -> "out"

LEMMA PhaseStep ==
  ASSUME TypeOK, NEW m \in Messages, NEW x \in Status, status' = [status EXCEPT ![m] = x]
  PROVE  [n \in Messages |-> Phase(n)]' =
           [[n \in Messages |-> Phase(n)] EXCEPT ![m] = PhaseOf(x)]
<1>1. status \in [Messages -> Status]  BY DEF TypeOK
<1>2. Phase(m)' = PhaseOf(x)  BY <1>1 DEF Phase, PhaseOf
<1>3. \A n \in Messages \ {m} : Phase(n)' = Phase(n)  BY <1>1 DEF Phase
<1>4. QED  BY <1>2, <1>3

\* A row that is written moves its ledger entry along, or not at all.
LEMMA LedgerRow ==
  ASSUME OutboundAssumption, TypeOK, AllFirm, Undisturbed,
         NEW m \in Messages, NEW x \in Status, RowStep(m, x)
  PROVE  [Ledger!Next]_(Ledger!vars)
<1> DEFINE P == [n \in Messages |-> Phase(n)]
<1>1. Firm(m)  BY DEF AllFirm
<1>2. P' = [P EXCEPT ![m] = PhaseOf(x)]  BY PhaseStep DEF RowStep
<1>3. P[m] = PhaseOf(status[m]) /\ status[m] \in Status  BY DEF Phase, PhaseOf, TypeOK
<1>4. rx \in [Receivers -> BusyReceiver \cup {IdleReceiver}] /\ \A o \in Operators : FALSE
  BY DEF TypeOK, Undisturbed
<1> HIDE DEF P
<1>5. CASE wa' = wa /\ status[m] = "NONE" /\ x = "QUEUED"
  <2>1. Ledger!Accept(m)
    BY <1>2, <1>3, <1>5 DEF Ledger!Accept, Ledger!Move, PhaseOf, P
  <2>2. QED  BY <2>1 DEF Ledger!Next
<1>6. CASE wa' = wa /\ status[m] = "QUEUED" /\ x = "PROCESSING"
  <2>1. Ledger!Start(m)
    BY <1>1, <1>2, <1>3, <1>6 DEF Ledger!Start, Ledger!Move, PhaseOf, P, Firm
  <2>2. QED  BY <2>1 DEF Ledger!Next
<1>7. CASE wa' = wa /\ status[m] = "PROCESSING" /\ x = "QUEUED"
  <2>1. Ledger!PutBack(m)
    BY <1>1, <1>2, <1>3, <1>7 DEF Ledger!PutBack, Ledger!Move, PhaseOf, P, Firm
  <2>2. QED  BY <2>1 DEF Ledger!Next
<1>8. CASE wa' = wa /\ status[m] = "PROCESSING" /\ x = "FAILED"
  <2>1. Ledger!GiveUp(m)
    BY <1>2, <1>3, <1>8 DEF Ledger!GiveUp, Ledger!Move, PhaseOf, P
  <2>2. QED  BY <2>1 DEF Ledger!Next
<1>9. CASE wa' = [wa EXCEPT ![m] = TRUE] /\ x = "SENT" /\ LetGo(m)
  <2>1. status[m] = "PROCESSING"  BY <1>1, <1>9 DEF Firm, LetGo, Held
  <2>2. Ledger!Deliver(m)
    BY <1>2, <1>3, <1>9, <2>1 DEF Ledger!Deliver, Ledger!Move, PhaseOf, P
  <2>3. QED  BY <2>2 DEF Ledger!Next
<1>10. CASE wa' = wa /\ \E r \in Receivers : ReceiptIn(r, m) /\ x = rx[r].kind
  <2>1. x \in {"SENT", "DELIVERED", "READ"} /\ wa[m]
    BY <1>1, <1>4, <1>10 DEF Firm, ReceiptIn, BusyReceiver, IdleReceiver
  <2>2. PhaseOf(x) = "out" /\ PhaseOf(status[m]) = "out"
    BY <1>1, <2>1 DEF Firm, PhaseOf
  <2>3. P' = P  BY <1>2, <1>3, <2>2 DEF P
  <2>4. QED  BY <1>10, <2>3 DEF Ledger!vars, P
<1>11. QED
  BY <1>1, <1>4, <1>5, <1>6, <1>7, <1>8, <1>9, <1>10
  DEF RowStep, Writes, Recovers, LetGo, Held, Firm, Orphans

\* Step by step, the engine with its queue, workers, crons and receipts does to
\* a message only what the ledger allows: one that is recorded as sent is never
\* tried again or given up, and one that was given up stays failed.
THEOREM EngineKeepsLedger == Undisturbed => (Spec => LedgerSpec)
<1> SUFFICES ASSUME Undisturbed PROVE Spec => LedgerSpec  OBVIOUS
<1>1. Init => AllFirm  BY FirmInit
<1>2. TypeOK /\ AllFirm /\ [Next]_vars => AllFirm'  BY FirmStep, OutboundAssumption
<1>3. Init => Ledger!Init
  BY DEF Init, Ledger!Init, Phase
<1>4. TypeOK /\ AllFirm /\ [Next]_vars => [Ledger!Next]_(Ledger!vars)
  <2> SUFFICES ASSUME TypeOK, AllFirm, [Next]_vars PROVE [Ledger!Next]_(Ledger!vars)  OBVIOUS
  <2>1. CASE UNCHANGED <<status, wa>>  BY <2>1 DEF Ledger!vars, Phase
  <2>2. QED  BY <2>1, RowSteps, LedgerRow, OutboundAssumption
<1>5. QED  BY <1>1, <1>2, <1>3, <1>4, TypeCorrect, PTL DEF Spec, LedgerSpec, Ledger!Spec

=============================================================================
