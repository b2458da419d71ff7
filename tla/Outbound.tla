------------------------------ MODULE Outbound ------------------------------
(***************************************************************************)
(* The outbound messaging engine: a message row from the moment the send   *)
(* use case persists it until WhatsApp has it or it is dead-lettered.      *)
(*                                                                         *)
(* The actors interleave at every await of the code: the API request, the  *)
(* pg-boss workers of SendMessageWorker, the two crons of                  *)
(* MessageRecoveryWorker, the handlers of WhatsApp status receipts, and    *)
(* the operators who reprocess dead letters.  One process runs them all,   *)
(* so a crash forgets every actor's progress and keeps the rows and jobs.  *)
(*                                                                         *)
(* Time is abstracted: a delay or a staleness threshold may elapse at any  *)
(* moment; that a handler is still alive when its claim turns stale is the *)
(* fault "slow".                                                           *)
(***************************************************************************)
EXTENDS Naturals, FiniteSets

CONSTANTS
  Messages,    \* message rows
  Workers,     \* concurrent handlers of the send queue (WORKER_CONCURRENCY)
  Crons,       \* recovery-loop iterations that may be under way together
  Receivers,   \* status-receipt handlers that may be under way together
  Operators,   \* reprocess requests that may be under way together
  NoMsg,       \* "no message" in the local state of an idle actor
  MaxRetries,  \* MESSAGING_CONFIG.MAX_RETRY_COUNT
  MaxRows,     \* bound: no reprocess once a message has this many dead letters
  RetryCap,    \* bound: no stale recovery from this retryCount on
  MaxFaults,   \* bound: faults, database errors and lost answers together
  Faults       \* the kinds of fault that may occur

FaultKinds == {"crash",  \* the process dies
               "db",     \* a database call of a worker, cron or request throws
               "receipt",\* a database call of a receipt handler throws
               "ack",    \* WhatsApp accepts a message but the call throws
               "slow"}   \* a handler outlives the staleness threshold

ASSUME OutboundAssumption ==
  /\ NoMsg \notin Messages
  /\ MaxRetries \in Nat \ {0}
  /\ MaxRows \in Nat /\ RetryCap \in Nat /\ MaxFaults \in Nat
  /\ Faults \subseteq FaultKinds

Status == {"NONE", "QUEUED", "PROCESSING", "SENT", "DELIVERED", "READ", "FAILED"}

\* The singletonKeys of the jobs that carry a message: at most one job per
\* (message, key) is waiting or active at any time.
Keys == {<<k, 0>> : k \in {"send", "delayed", "recover", "stale", "reprocess"}}
          \cup {<<"retry", n>> : n \in 1 .. MaxRetries}
NoKey == <<"none", 0>>

VARIABLES
  status,   \* message.status ("NONE": no row yet)
  wa,       \* message.whatsappMessageId is set
  retry,    \* message.retryCount
  open,     \* dead-letter rows of a message with reprocessedAt null
  buried,   \* dead-letter rows ever created for a message
  job,      \* pg-boss: [Messages -> [Keys -> JobState]]
  pending,  \* messages persisted by a request that has not published yet
  wk,       \* local state of each worker
  cr,       \* local state of each recovery iteration
  rx,       \* local state of each receipt handler
  op,       \* local state of each reprocess request
  sends,    \* history: times WhatsApp accepted the message
  lapse,    \* history: a fault made the message's fate uncertain (see below)
  faults    \* history: faults so far

rows  == <<status, wa, retry>>
dead  == <<open, buried>>
procs == <<wk, cr, rx, op>>
hist  == <<sends, lapse, faults>>
vars  == <<rows, dead, job, pending, procs, hist>>

JobState == {"none", "created", "active"}

BusyPcs == {"loading", "claiming", "claimed", "limited", "sending", "accepted",
            "reporting", "failing", "retrying", "burying"}
BusyWorker   == [pc : BusyPcs, m : Messages, key : Keys, snap : Nat, retryable : BOOLEAN]
BusyCron     == [pc : {"stale", "republish", "bury", "queued"}, m : Messages, snap : Nat]
BusyReceiver == [pc : {"apply"}, m : Messages, kind : {"SENT", "DELIVERED", "READ"}]
BusyOperator == [pc : {"reset", "publish", "mark"}, m : Messages, row : Nat]

IdleWorker   == [pc |-> "idle", m |-> NoMsg, key |-> NoKey, snap |-> 0, retryable |-> FALSE]
IdleCron     == [pc |-> "idle", m |-> NoMsg, snap |-> 0]
IdleReceiver == [pc |-> "idle", m |-> NoMsg, kind |-> "SENT"]
IdleOperator == [pc |-> "idle", m |-> NoMsg, row |-> 0]

Init ==
  /\ status = [m \in Messages |-> "NONE"]
  /\ wa = [m \in Messages |-> FALSE]
  /\ retry = [m \in Messages |-> 0]
  /\ open = [m \in Messages |-> {}]
  /\ buried = [m \in Messages |-> 0]
  /\ job = [m \in Messages |-> [k \in Keys |-> "none"]]
  /\ pending = {}
  /\ wk = [w \in Workers |-> IdleWorker]
  /\ cr = [c \in Crons |-> IdleCron]
  /\ rx = [r \in Receivers |-> IdleReceiver]
  /\ op = [o \in Operators |-> IdleOperator]
  /\ sends = [m \in Messages |-> 0]
  /\ lapse = [m \in Messages |-> FALSE]
  /\ faults = 0

-----------------------------------------------------------------------------
(* The queue and the rows                                                  *)

\* boss.send with a singletonKey: no effect while such a job waits or runs.
Offered(m, k) ==
  IF job[m][k] = "none" THEN [job EXCEPT ![m][k] = "created"] ELSE job

\* The history counts to "more than once" (MaxSends) and no further.
MaxSends == 2
Again(n) == IF n < MaxSends THEN n + 1 ELSE n

Fault(kind) ==
  /\ kind \in Faults
  /\ faults < MaxFaults
  /\ faults' = faults + 1

\* A worker that owns the claim on m: it moved m to PROCESSING and has not
\* moved it on yet.
HoldPcs == {"claimed", "sending", "accepted", "failing"}
Holds(w, m) == wk[w].m = m /\ wk[w].pc \in HoldPcs
Held(m) == \E w \in Workers : Holds(w, m)

Goto(w, l) == wk' = [wk EXCEPT ![w].pc = l]

\* The handler returns and pg-boss completes its job; jobs is the queue as the
\* handler leaves it.
Return(w, jobs) ==
  /\ job' = [jobs EXCEPT ![wk[w].m][wk[w].key] = "none"]
  /\ wk' = [wk EXCEPT ![w] = IdleWorker]

MarkForRetry(m) ==
  /\ status' = [status EXCEPT ![m] = "QUEUED"]
  /\ retry' = [retry EXCEPT ![m] = @ + 1]
  /\ UNCHANGED wa

\* Mutation: the status is left as it is.
MarkFailedLess(m) == retry' = [retry EXCEPT ![m] = @ + 1] /\ UNCHANGED <<status, wa>>

MarkFailed(m) ==
  /\ status' = [status EXCEPT ![m] = "FAILED"]
  /\ retry' = [retry EXCEPT ![m] = @ + 1]
  /\ UNCHANGED wa

CreateDeadLetter(m) ==
  /\ buried' = [buried EXCEPT ![m] = @ + 1]
  /\ open' = [open EXCEPT ![m] = @ \cup {buried[m] + 1}]

-----------------------------------------------------------------------------
(* The send request: persist, then publish                                 *)

Submit(m) ==
  /\ status[m] = "NONE"
  /\ status' = [status EXCEPT ![m] = "QUEUED"]
  /\ pending' = pending \cup {m}
  /\ UNCHANGED <<wa, retry, dead, job, procs, hist>>

Enqueue(m) ==
  /\ m \in pending
  /\ pending' = pending \ {m}
  /\ job' = Offered(m, <<"send", 0>>)
  /\ UNCHANGED <<rows, dead, procs, hist>>

\* The request fails in between: the row stays, and nothing was published.
RequestThrow(m) ==
  /\ Fault("db")
  /\ m \in pending
  /\ pending' = pending \ {m}
  /\ UNCHANGED <<rows, dead, job, procs, sends, lapse>>

-----------------------------------------------------------------------------
(* SendMessageWorker                                                       *)

Fetch(w, m, k) ==
  /\ wk[w].pc = "idle"
  /\ job[m][k] = "created"
  /\ job' = [job EXCEPT ![m][k] = "active"]
  /\ wk' = [wk EXCEPT ![w] = [IdleWorker EXCEPT !.pc = "loading", !.m = m, !.key = k]]
  /\ UNCHANGED <<rows, dead, pending, cr, rx, op, hist>>

AlreadyOut(m) == wa[m] \/ status[m] \in {"SENT", "DELIVERED", "READ"}

\* findById, and the skip of a message that is already out.  retryCount is
\* read here, before the claim, and is what the failure path uses later.
Load(w) == LET m == wk[w].m IN
  /\ wk[w].pc = "loading"
  /\ IF AlreadyOut(m)
     THEN Return(w, job)
     ELSE /\ wk' = [wk EXCEPT ![w].pc = "claiming", ![w].snap = retry[m]]
          /\ UNCHANGED job
  /\ UNCHANGED <<rows, dead, pending, cr, rx, op, hist>>

\* Mutations: the claim ignores a claim in place; the claim takes a failed row.
ClaimableTwice(m) == status[m] \in {"QUEUED", "PROCESSING"}
ClaimableFailed(m) == status[m] \in {"QUEUED", "FAILED"}
Claimable(m) == status[m] = "QUEUED"

\* transitionStatus(QUEUED, PROCESSING): the compare-and-set.
Claim(w) == LET m == wk[w].m IN
  /\ wk[w].pc = "claiming"
  /\ IF Claimable(m)
     THEN status' = [status EXCEPT ![m] = "PROCESSING"] /\ Goto(w, "claimed") /\ UNCHANGED job
     ELSE Return(w, job) /\ UNCHANGED status
  /\ UNCHANGED <<wa, retry, dead, pending, cr, rx, op, hist>>

\* Over the rate limit: back to QUEUED without spending a retry, ...
Limit(w) ==
  /\ wk[w].pc = "claimed"
  /\ status' = [status EXCEPT ![wk[w].m] = "QUEUED"]
  /\ Goto(w, "limited")
  /\ UNCHANGED <<wa, retry, dead, job, pending, cr, rx, op, hist>>

\* ... then a delayed job, which is lost when the job under way has its key.
Postpone(w) ==
  /\ wk[w].pc = "limited"
  /\ Return(w, Offered(wk[w].m, <<"delayed", 0>>))
  /\ UNCHANGED <<rows, dead, pending, cr, rx, op, hist>>

Admit(w) ==
  /\ wk[w].pc = "claimed"
  /\ Goto(w, "sending")
  /\ UNCHANGED <<rows, dead, job, pending, cr, rx, op, hist>>

\* The session is not connected, or an interactive message has no payload.
Refuse(w) ==
  /\ wk[w].pc = "sending"
  /\ wk' = [wk EXCEPT ![w].pc = "failing", ![w].retryable = FALSE]
  /\ UNCHANGED <<rows, dead, job, pending, cr, rx, op, hist>>

\* The send call returns an id.
Accepted(w) == LET m == wk[w].m IN
  /\ wk[w].pc = "sending"
  /\ Goto(w, "accepted")
  /\ sends' = [sends EXCEPT ![m] = Again(@)]
  /\ UNCHANGED <<rows, dead, job, pending, cr, rx, op, lapse, faults>>

\* The send call throws, with an error isRetryableError does or does not list.
Rejected(w) ==
  /\ wk[w].pc = "sending"
  /\ \E b \in BOOLEAN : wk' = [wk EXCEPT ![w].pc = "failing", ![w].retryable = b]
  /\ UNCHANGED <<rows, dead, job, pending, cr, rx, op, hist>>

\* WhatsApp has the message but the call throws a retryable error.
AckLost(w) == LET m == wk[w].m IN
  /\ Fault("ack")
  /\ wk[w].pc = "sending"
  /\ wk' = [wk EXCEPT ![w].pc = "failing", ![w].retryable = TRUE]
  /\ sends' = [sends EXCEPT ![m] = Again(@)]
  /\ lapse' = [lapse EXCEPT ![m] = TRUE]
  /\ UNCHANGED <<rows, dead, job, pending, cr, rx, op>>

\* setWhatsAppMessageId: unconditionally SENT.
MarkSent(w) == LET m == wk[w].m IN
  /\ wk[w].pc = "accepted"
  /\ status' = [status EXCEPT ![m] = "SENT"]
  /\ wa' = [wa EXCEPT ![m] = TRUE]
  /\ Goto(w, "reporting")
  /\ UNCHANGED <<retry, dead, job, pending, cr, rx, op, hist>>

\* Event row, WHATSAPP_MESSAGE_SENT, SLA job.
Report(w) ==
  /\ wk[w].pc = "reporting"
  /\ Return(w, job)
  /\ UNCHANGED <<rows, dead, pending, cr, rx, op, hist>>

\* handleFailure decides on the retryCount read by Load.
Retryable(w) == wk[w].retryable /\ wk[w].snap < MaxRetries

FailRetry(w) ==
  /\ wk[w].pc = "failing"
  /\ Retryable(w)
  /\ MarkForRetry(wk[w].m)
  /\ wk' = [wk EXCEPT ![w].pc = "retrying", ![w].retryable = FALSE]
  /\ UNCHANGED <<dead, job, pending, cr, rx, op, hist>>

ScheduleRetry(w) ==
  /\ wk[w].pc = "retrying"
  /\ Return(w, Offered(wk[w].m, <<"retry", wk[w].snap + 1>>))
  /\ UNCHANGED <<rows, dead, pending, cr, rx, op, hist>>

FailFinally(w) ==
  /\ wk[w].pc = "failing"
  /\ ~Retryable(w)
  /\ MarkFailed(wk[w].m)
  /\ wk' = [wk EXCEPT ![w].pc = "burying", ![w].snap = 0, ![w].retryable = FALSE]
  /\ UNCHANGED <<dead, job, pending, cr, rx, op, hist>>

Bury(w) ==
  /\ wk[w].pc = "burying"
  /\ CreateDeadLetter(wk[w].m)
  /\ Return(w, job)
  /\ UNCHANGED <<rows, pending, cr, rx, op, hist>>

\* A database error outside the try block leaves the handler at once, and
\* pg-boss runs the job again unless its retryLimit is reached.
Throw(w) ==
  /\ Fault("db")
  /\ wk[w].pc \in {"loading", "claiming", "claimed", "limited", "failing", "retrying", "burying"}
  /\ \E s \in {"created", "none"} : job' = [job EXCEPT ![wk[w].m][wk[w].key] = s]
  /\ wk' = [wk EXCEPT ![w] = IdleWorker]
  /\ UNCHANGED <<rows, dead, pending, cr, rx, op, sends, lapse>>

\* A database error after the send, inside the try block, is handled as if
\* the send itself had failed.
ThrowAfterSend(w) ==
  /\ Fault("db")
  /\ wk[w].pc \in {"accepted", "reporting"}
  /\ wk' = [wk EXCEPT ![w].pc = "failing", ![w].retryable = TRUE]
  /\ lapse' = [lapse EXCEPT ![wk[w].m] = TRUE]
  /\ UNCHANGED <<rows, dead, job, pending, cr, rx, op, sends>>

\* pg-boss expires an active job whose handler is gone.
Expire(m, k) ==
  /\ job[m][k] = "active"
  /\ \A w \in Workers : ~(wk[w].m = m /\ wk[w].key = k)
  /\ \E s \in {"created", "none"} : job' = [job EXCEPT ![m][k] = s]
  /\ UNCHANGED <<rows, dead, pending, procs, hist>>

-----------------------------------------------------------------------------
(* MessageRecoveryWorker                                                   *)

\* One message of the list found by findStaleProcessingMessages; that its
\* worker is still alive is a fault.
FindStale(c, m) ==
  /\ cr[c].pc = "idle"
  /\ status[m] = "PROCESSING"
  /\ retry[m] < RetryCap
  /\ IF Held(m) THEN Fault("slow") ELSE UNCHANGED faults
  /\ cr' = [cr EXCEPT ![c] = [pc |-> "stale", m |-> m, snap |-> retry[m]]]
  /\ UNCHANGED <<rows, dead, job, pending, wk, rx, op, sends, lapse>>

\* The recovery acts on what it found earlier.  When the message is no longer
\* an orphaned claim, its fate is uncertain from here on.
Recovering(c) == LET m == cr[c].m IN
  lapse' = [lapse EXCEPT ![m] = @ \/ status[m] # "PROCESSING" \/ Held(m)]

RecoverRetry(c) == LET m == cr[c].m IN
  /\ cr[c].pc = "stale"
  /\ cr[c].snap < MaxRetries
  /\ MarkForRetry(m)
  /\ Recovering(c)
  /\ cr' = [cr EXCEPT ![c].pc = "republish"]
  /\ UNCHANGED <<dead, job, pending, wk, rx, op, sends, faults>>

RecoverPublish(c) ==
  /\ cr[c].pc = "republish"
  /\ job' = Offered(cr[c].m, <<"recover", 0>>)
  /\ cr' = [cr EXCEPT ![c] = IdleCron]
  /\ UNCHANGED <<rows, dead, pending, wk, rx, op, hist>>

RecoverFail(c) == LET m == cr[c].m IN
  /\ cr[c].pc = "stale"
  /\ cr[c].snap >= MaxRetries
  /\ MarkFailed(m)
  /\ Recovering(c)
  /\ cr' = [cr EXCEPT ![c].pc = "bury"]
  /\ UNCHANGED <<dead, job, pending, wk, rx, op, sends, faults>>

RecoverBury(c) ==
  /\ cr[c].pc = "bury"
  /\ CreateDeadLetter(cr[c].m)
  /\ cr' = [cr EXCEPT ![c] = IdleCron]
  /\ UNCHANGED <<rows, job, pending, wk, rx, op, hist>>

\* Mutation: only messages that were never scheduled for a retry.
OrphanedNew(m) == status[m] = "QUEUED" /\ retry[m] = 0
Orphaned(m) == status[m] = "QUEUED"

\* recoverStaleQueued: find a message that has been QUEUED for long, ...
FindQueued(c, m) ==
  /\ cr[c].pc = "idle"
  /\ Orphaned(m)
  /\ cr' = [cr EXCEPT ![c] = [pc |-> "queued", m |-> m, snap |-> 0]]
  /\ UNCHANGED <<rows, dead, job, pending, wk, rx, op, hist>>

\* ... and publish a job for it.
RepublishQueued(c) ==
  /\ cr[c].pc = "queued"
  /\ job' = Offered(cr[c].m, <<"stale", 0>>)
  /\ cr' = [cr EXCEPT ![c] = IdleCron]
  /\ UNCHANGED <<rows, dead, pending, wk, rx, op, hist>>

CronThrow(c) ==
  /\ Fault("db")
  /\ cr[c].pc # "idle"
  /\ cr' = [cr EXCEPT ![c] = IdleCron]
  /\ UNCHANGED <<rows, dead, job, pending, wk, rx, op, sends, lapse>>

-----------------------------------------------------------------------------
(* HandleStatusUpdateUseCase                                               *)

Rank(s) == CASE s = "QUEUED" -> 1 [] s = "PROCESSING" -> 2 [] s = "SENT" -> 3
             [] s = "DELIVERED" -> 4 [] s = "READ" -> 5 [] OTHER -> 0

\* Mutation: a receipt is compared with the row that was QUEUED.
IsStatusRegressionNever(current, incoming) == Rank(incoming) = 0

IsStatusRegression(current, incoming) == Rank(current) >= Rank(incoming)

\* The receipts the WhatsApp socket reports.  The handler also knows 'failed',
\* which nothing sends.
Receipts == {"SENT", "DELIVERED", "READ"}

\* Look the message up by its WhatsApp id (a receipt for an unknown id is
\* dropped) and judge the receipt against the status read now.
Receive(r, m, kind) ==
  /\ rx[r].pc = "idle"
  /\ wa[m]
  /\ ~IsStatusRegression(status[m], kind)
  /\ rx' = [rx EXCEPT ![r] = [pc |-> "apply", m |-> m, kind |-> kind]]
  /\ UNCHANGED <<rows, dead, job, pending, wk, cr, op, hist>>

\* The write that follows does not look at the status again.
ApplyReceipt(r) == LET m == rx[r].m IN
  /\ rx[r].pc = "apply"
  /\ status' = [status EXCEPT ![m] = rx[r].kind]
  /\ rx' = [rx EXCEPT ![r] = IdleReceiver]
  /\ UNCHANGED <<wa, retry, dead, job, pending, wk, cr, op, hist>>

ReceiptThrow(r) ==
  /\ Fault("receipt")
  /\ rx[r].pc = "apply"
  /\ rx' = [rx EXCEPT ![r] = IdleReceiver]
  /\ UNCHANGED <<rows, dead, job, pending, wk, cr, op, sends, lapse>>

-----------------------------------------------------------------------------
(* ReprocessDeadLetterUseCase                                              *)

Reprocess(o, m, i) ==
  /\ op[o].pc = "idle"
  /\ i \in open[m]
  /\ buried[m] < MaxRows
  /\ op' = [op EXCEPT ![o] = [pc |-> "reset", m |-> m, row |-> i]]
  /\ UNCHANGED <<rows, dead, job, pending, wk, cr, rx, hist>>

\* updateStatus(QUEUED): no condition on the current status, and the WhatsApp
\* id stays.
ResetMessage(o) == LET m == op[o].m IN
  /\ op[o].pc = "reset"
  /\ status' = [status EXCEPT ![m] = "QUEUED"]
  /\ retry' = [retry EXCEPT ![m] = 0]
  /\ lapse' = [lapse EXCEPT ![m] = TRUE]
  /\ op' = [op EXCEPT ![o].pc = "publish"]
  /\ UNCHANGED <<wa, dead, job, pending, wk, cr, rx, sends, faults>>

PublishReprocess(o) ==
  /\ op[o].pc = "publish"
  /\ job' = Offered(op[o].m, <<"reprocess", 0>>)
  /\ op' = [op EXCEPT ![o].pc = "mark"]
  /\ UNCHANGED <<rows, dead, pending, wk, cr, rx, hist>>

MarkReprocessed(o) ==
  /\ op[o].pc = "mark"
  /\ open' = [open EXCEPT ![op[o].m] = @ \ {op[o].row}]
  /\ op' = [op EXCEPT ![o] = IdleOperator]
  /\ UNCHANGED <<rows, buried, job, pending, wk, cr, rx, hist>>

OperatorThrow(o) ==
  /\ Fault("db")
  /\ op[o].pc # "idle"
  /\ op' = [op EXCEPT ![o] = IdleOperator]
  /\ UNCHANGED <<rows, dead, job, pending, wk, cr, rx, sends, lapse>>

-----------------------------------------------------------------------------
\* The process dies.  A message WhatsApp accepted and nobody recorded yet is
\* from here on in an uncertain state.
Crash ==
  /\ Fault("crash")
  /\ wk' = [w \in Workers |-> IdleWorker]
  /\ cr' = [c \in Crons |-> IdleCron]
  /\ rx' = [r \in Receivers |-> IdleReceiver]
  /\ op' = [o \in Operators |-> IdleOperator]
  /\ pending' = {}
  /\ lapse' = [m \in Messages |->
                 lapse[m] \/ \E w \in Workers : wk[w].m = m /\ wk[w].pc = "accepted"]
  /\ UNCHANGED <<rows, dead, job, sends>>

WorkerStep(w) ==
  \/ Load(w) \/ Claim(w) \/ Limit(w) \/ Postpone(w) \/ Admit(w)
  \/ Refuse(w) \/ Accepted(w) \/ Rejected(w) \/ MarkSent(w) \/ Report(w)
  \/ FailRetry(w) \/ ScheduleRetry(w) \/ FailFinally(w) \/ Bury(w)

WorkerFault(w) == AckLost(w) \/ Throw(w) \/ ThrowAfterSend(w)

CronStep(c) ==
  RecoverRetry(c) \/ RecoverPublish(c) \/ RecoverFail(c) \/ RecoverBury(c) \/ RepublishQueued(c)

OperatorStep(o) == ResetMessage(o) \/ PublishReprocess(o) \/ MarkReprocessed(o)

Next ==
  \/ \E m \in Messages : Submit(m) \/ Enqueue(m) \/ RequestThrow(m)
  \/ \E w \in Workers, m \in Messages, k \in Keys : Fetch(w, m, k)
  \/ \E w \in Workers : WorkerStep(w) \/ WorkerFault(w)
  \/ \E m \in Messages, k \in Keys : Expire(m, k)
  \/ \E c \in Crons, m \in Messages : FindStale(c, m) \/ FindQueued(c, m)
  \/ \E c \in Crons : CronStep(c) \/ CronThrow(c)
  \/ \E r \in Receivers, m \in Messages, kind \in Receipts : Receive(r, m, kind)
  \/ \E r \in Receivers : ApplyReceipt(r) \/ ReceiptThrow(r)
  \/ \E o \in Operators, m \in Messages : \E i \in open[m] : Reprocess(o, m, i)
  \/ \E o \in Operators : OperatorStep(o) \/ OperatorThrow(o)
  \/ Crash

Spec == Init /\ [][Next]_vars

(* Fairness: the Node event loop runs every pending continuation; pg-boss  *)
(* polls, so while jobs of a message wait again and again one of them is   *)
(* fetched, and an orphaned job expires; the crons fire every 30 and 60    *)
(* seconds; a rate window of one minute does not stay full for ever.       *)
Fairness ==
  /\ \A w \in Workers : WF_vars(WorkerStep(w)) /\ SF_vars(Admit(w))
  /\ \A c \in Crons : WF_vars(CronStep(c))
  /\ \A m \in Messages :
       /\ WF_vars(Enqueue(m))
       /\ WF_vars(\E k \in Keys : Expire(m, k))
       /\ SF_vars(\E w \in Workers, k \in Keys : Fetch(w, m, k))
       /\ SF_vars(\E c \in Crons : FindStale(c, m))
       /\ SF_vars(\E c \in Crons : FindQueued(c, m))

FairSpec == Spec /\ Fairness
-----------------------------------------------------------------------------
TypeOK ==
  /\ status \in [Messages -> Status]
  /\ wa \in [Messages -> BOOLEAN]
  /\ retry \in [Messages -> Nat]
  /\ open \in [Messages -> SUBSET Nat]
  /\ buried \in [Messages -> Nat]
  /\ job \in [Messages -> [Keys -> JobState]]
  /\ pending \in SUBSET Messages
  /\ wk \in [Workers -> BusyWorker \cup {IdleWorker}]
  /\ cr \in [Crons -> BusyCron \cup {IdleCron}]
  /\ rx \in [Receivers -> BusyReceiver \cup {IdleReceiver}]
  /\ op \in [Operators -> BusyOperator \cup {IdleOperator}]
  /\ sends \in [Messages -> 0 .. MaxSends]
  /\ lapse \in [Messages -> BOOLEAN]
  /\ faults \in Nat

(* Whatever the interleaving of duplicate jobs, retries, rate-limit        *)
(* requeues, receipts and recoveries, WhatsApp gets a message at most once *)
(* unless its fate became uncertain: the answer was lost, a crash or a     *)
(* database error came after the send, a recovery acted on what was no     *)
(* longer so, or an operator reset it.                                     *)
AtMostOnce == \A m \in Messages : ~lapse[m] => sends[m] <= 1

(* The compare-and-set makes the claim exclusive: two handlers never work  *)
(* on the same message, and the row says PROCESSING as long as one does.   *)
ExclusiveClaim ==
  \A m \in Messages : ~lapse[m] =>
    /\ \A v, w \in Workers : Holds(v, m) /\ Holds(w, m) => v = w
    /\ Held(m) => status[m] = "PROCESSING"

(* What makes both true, as one inductive statement about a message no     *)
(* fault has touched: a claim is held by one worker and shows in the row;  *)
(* WhatsApp has the message exactly when its id is on record or the one    *)
(* holder is about to record it; a recorded message is out; and a receipt  *)
(* under way belongs to a recorded message.                                *)
Sound(m) ==
  /\ \A v, w \in Workers : Holds(v, m) /\ Holds(w, m) => v = w
  /\ \A w \in Workers : Holds(w, m) =>
        /\ status[m] = "PROCESSING"
        /\ ~wa[m]
        /\ sends[m] = IF wk[w].pc = "accepted" THEN 1 ELSE 0
  /\ ~Held(m) => sends[m] = IF wa[m] THEN 1 ELSE 0
  /\ wa[m] => status[m] \in {"SENT", "DELIVERED", "READ"}
  /\ \A r \in Receivers : rx[r].pc = "apply" /\ rx[r].m = m => wa[m]

ClaimSound == \A m \in Messages : ~lapse[m] => Sound(m)

(* A message is dead-lettered at most once in its life, and never after    *)
(* WhatsApp has it, with the exceptions of AtMostOnce.                     *)
OneDeadLetter ==
  \A m \in Messages : ~lapse[m] =>
    /\ buried[m] <= 1
    /\ buried[m] = 1 => sends[m] = 0 /\ status[m] = "FAILED"

(* However many receipts are handled at once, a message that was delivered *)
(* never shows as merely sent again: a handler that raced another may turn *)
(* READ into DELIVERED (it writes a status it decided on earlier), but the *)
(* check against the row stops every receipt that says less than that.     *)
DeliveredStays ==
  [][\A m \in Messages :
       ~lapse[m] /\ status[m] \in {"DELIVERED", "READ"} =>
         status'[m] \in {"DELIVERED", "READ"}]_vars

(* Every accepted message finally reaches a final status: no interleaving  *)
(* of lost publishes, no-op publishes, rate limits and crashes strands it. *)
Settled(m) == status[m] \in {"SENT", "DELIVERED", "READ", "FAILED"}
Settles == \A m \in Messages : status[m] = "QUEUED" ~> Settled(m)

-----------------------------------------------------------------------------
(* The engine implements the delivery ledger.                              *)
Phase(m) ==
  CASE status[m] = "NONE" -> "none"
    [] status[m] = "QUEUED" -> "queued"
    [] status[m] = "PROCESSING" -> "inflight"
    [] status[m] = "FAILED" -> "failed"
    [] OTHER -> "out"

Ledger == INSTANCE Delivery WITH phase <- [m \in Messages |-> Phase(m)], recorded <- wa
LedgerSpec == Ledger!Spec
=============================================================================
