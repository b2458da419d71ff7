------------------------------ MODULE Channel ------------------------------
(***************************************************************************)
(* Messages on the other channels (Instagram, Telegram, e-mail, ...): the  *)
(* request that queues one, the workers that send it through the channel's *)
(* adapter, and the provider's status updates; and how the recovery crons  *)
(* of the WhatsApp engine, which look at every message row, interfere.     *)
(*                                                                         *)
(* Every await is a point where the actors interleave; a crash forgets     *)
(* their progress and keeps rows and jobs.  Whether the channel is active, *)
(* and what the provider answers, is a choice of the environment.  Delays  *)
(* and the age of a row are abstracted: a row may be found stale at any    *)
(* moment, and that its worker is still alive is a fault.  The channel has *)
(* no WhatsApp session: what its engine adopts, it can only bury, sooner   *)
(* or later: that the engine may first put it off is left out.             *)
(* Operators are left out, too: one who reprocesses a channel's dead letter*)
(* hands the message to the WhatsApp engine, which buries it again.        *)
(***************************************************************************)
EXTENDS Naturals

CONSTANTS
  Messages,     \* messages
  Workers,      \* SendChannelMessageWorker: jobs under way together
  Crons,        \* overlapping runs of MessageRecoveryWorker
  Hooks,        \* status updates under way together
  NoMsg,        \* "no message" in the local state of an actor
  MaxRetries,   \* message.maxRetries
  RetryLimit,   \* pg-boss: how often a job that failed runs again
  MaxFaults,    \* bound: faults in a run
  Faults        \* the kinds of fault that may occur

ASSUME ChannelAssumption ==
  /\ NoMsg \notin Messages
  /\ MaxRetries \in Nat /\ RetryLimit \in Nat /\ MaxFaults \in Nat
  /\ Faults \subseteq {"crash", "db", "ack", "slow"}

Status == {"NONE", "QUEUED", "PROCESSING", "SENT", "DELIVERED", "READ", "FAILED"}
Out == {"SENT", "DELIVERED", "READ"}

VARIABLES
  status,   \* message.status; NONE: no row
  ext,      \* message.externalMessageId is set
  retry,    \* message.retryCount
  dead,     \* dead letters of the message
  job,      \* SEND_CHANNEL_MESSAGE jobs, by singletonKey
  wajob,    \* messages with a SEND_WHATSAPP_MESSAGE job
  rq,       \* messages whose row is created and whose job is not published yet
  wk,       \* local state of each worker
  cr,       \* local state of each cron
  en,       \* local state of the WhatsApp engine
  hk,       \* local state of each status update
  sends,    \* messages handed to the provider, and how often: up to two
  lapse,    \* history: a fault made the fate of a message uncertain
  faults    \* history: faults so far

rows  == <<status, ext, retry>>
procs == <<rq, wk, cr, en, hk>>
hist  == <<sends, lapse, faults>>
vars  == <<rows, dead, job, wajob, procs, hist>>

JobRecord == [state : {"free", "created", "active", "gone"}, tries : 0 .. RetryLimit]
FreeJob == [state |-> "free", tries |-> 0]
NewJob  == [state |-> "created", tries |-> 0]
GoneJob == [state |-> "gone", tries |-> 0]

IdleWorker == [pc |-> "idle", m |-> NoMsg, snap |-> 0]
IdleEngine == [pc |-> "idle", m |-> NoMsg]
IdleHook   == [pc |-> "idle", m |-> NoMsg, kind |-> "NONE"]

Init ==
  /\ status = [m \in Messages |-> "NONE"]
  /\ ext = [m \in Messages |-> FALSE]
  /\ retry = [m \in Messages |-> 0]
  /\ dead = [m \in Messages |-> 0]
  /\ job = [m \in Messages |-> FreeJob]
  /\ wajob = {}
  /\ rq = {}
  /\ wk = [w \in Workers |-> IdleWorker]
  /\ cr = [c \in Crons |-> IdleWorker]
  /\ en = IdleEngine
  /\ hk = [h \in Hooks |-> IdleHook]
  /\ sends = [m \in Messages |-> 0]
  /\ lapse = [m \in Messages |-> FALSE]
  /\ faults = 0

-----------------------------------------------------------------------------
(* Shared steps                                                            *)

Fault(kind) ==
  /\ kind \in Faults
  /\ faults < MaxFaults
  /\ faults' = faults + 1

\* A publication takes no effect while a job with its key waits or runs.
Offered(m) ==
  job' = [job EXCEPT ![m] = IF @.state \in {"created", "active"} THEN @ ELSE NewJob]

\* A handler of the job failed: pg-boss runs it again, or has done so often enough.
AfterFailure(r) ==
  IF r.tries < RetryLimit THEN [r EXCEPT !.state = "created", !.tries = @ + 1] ELSE GoneJob

SetStatus(m, s) == status' = [status EXCEPT ![m] = s]

\* A dead letter is a new row; the history counts to two.
Bury(m) == dead' = [dead EXCEPT ![m] = IF @ < 2 THEN @ + 1 ELSE @]

-----------------------------------------------------------------------------
(* SendChannelMessageUseCase                                               *)

Submit(m) ==
  /\ status[m] = "NONE"
  /\ SetStatus(m, "QUEUED")
  /\ rq' = rq \cup {m}
  /\ UNCHANGED <<ext, retry, dead, job, wajob, wk, cr, en, hk, hist>>

Publish(m) ==
  /\ m \in rq
  /\ Offered(m)
  /\ rq' = rq \ {m}
  /\ UNCHANGED <<rows, dead, wajob, wk, cr, en, hk, hist>>

-----------------------------------------------------------------------------
(* SendChannelMessageWorker                                                *)

Goto(w, l) == wk' = [wk EXCEPT ![w].pc = l]
Done(w) ==
  /\ job' = [job EXCEPT ![wk[w].m] = GoneJob]
  /\ wk' = [wk EXCEPT ![w] = IdleWorker]

\* The message is loaded; what went out already is skipped.
Load(w, m) ==
  /\ wk[w].pc = "idle" /\ job[m].state = "created"
  /\ IF status[m] \in Out
     THEN job' = [job EXCEPT ![m] = GoneJob] /\ UNCHANGED wk
     ELSE /\ job' = [job EXCEPT ![m].state = "active"]
          /\ wk' = [wk EXCEPT ![w] = [pc |-> "claim", m |-> m, snap |-> retry[m]]]
  /\ UNCHANGED <<rows, dead, wajob, rq, cr, en, hk, hist>>

\* Mutation: a message that failed is sent again.
ClaimableFailed(m) == status[m] \in {"QUEUED", "FAILED"}

\* The compare-and-set QUEUED to PROCESSING.
Claimable(m) == status[m] = "QUEUED"

Claim(w) == LET m == wk[w].m IN
  /\ wk[w].pc = "claim"
  /\ IF Claimable(m)
     THEN SetStatus(m, "PROCESSING") /\ Goto(w, "send") /\ UNCHANGED job
     ELSE Done(w) /\ UNCHANGED status
  /\ UNCHANGED <<ext, retry, dead, wajob, rq, cr, en, hk, hist>>

\* The channel is not active: the message fails, and gets no dead letter.
Inactive(w) ==
  /\ wk[w].pc = "send"
  /\ Goto(w, "fail")
  /\ UNCHANGED <<rows, dead, job, wajob, rq, cr, en, hk, hist>>

Counted(m) == sends' = [sends EXCEPT ![m] = IF @ < 2 THEN @ + 1 ELSE @]

Send(w) ==
  /\ wk[w].pc = "send"
  /\ Counted(wk[w].m)
  /\ Goto(w, "mark")
  /\ UNCHANGED <<rows, dead, job, wajob, rq, cr, en, hk, lapse, faults>>

\* The provider refuses: retryable and tries left, or not.
Refused(w) ==
  /\ wk[w].pc = "send"
  /\ \/ wk[w].snap < MaxRetries /\ Goto(w, "requeue")
     \/ Goto(w, "failBury")
  /\ UNCHANGED <<rows, dead, job, wajob, rq, cr, en, hk, hist>>

\* The message goes out and the answer is lost: the adapter reports a failure.
AckLost(w) == LET m == wk[w].m IN
  /\ Fault("ack")
  /\ wk[w].pc = "send"
  /\ Counted(m)
  /\ lapse' = [lapse EXCEPT ![m] = TRUE]
  /\ Goto(w, IF wk[w].snap < MaxRetries THEN "requeue" ELSE "failBury")
  /\ UNCHANGED <<rows, dead, job, wajob, rq, cr, en, hk>>

\* Mutation: the message is not marked.
MarkSentNot(w) == LET m == wk[w].m IN
  /\ wk[w].pc = "mark"
  /\ ext' = [ext EXCEPT ![m] = TRUE]
  /\ Goto(w, "done")
  /\ UNCHANGED <<status, retry, dead, job, wajob, rq, cr, en, hk, hist>>

\* This write and those that follow look at no status.
MarkSent(w) == LET m == wk[w].m IN
  /\ wk[w].pc = "mark"
  /\ SetStatus(m, "SENT")
  /\ ext' = [ext EXCEPT ![m] = TRUE]
  /\ Goto(w, "done")
  /\ UNCHANGED <<retry, dead, job, wajob, rq, cr, en, hk, hist>>

Requeue(w) == LET m == wk[w].m IN
  /\ wk[w].pc = "requeue"
  /\ SetStatus(m, "QUEUED")
  /\ retry' = [retry EXCEPT ![m] = @ + 1]
  /\ Goto(w, "republish")
  /\ UNCHANGED <<ext, dead, job, wajob, rq, cr, en, hk, hist>>

\* publishDelayed under the key of the job that is still running.
Republish(w) ==
  /\ wk[w].pc = "republish"
  /\ Offered(wk[w].m)
  /\ Goto(w, "done")
  /\ UNCHANGED <<rows, dead, wajob, rq, cr, en, hk, hist>>

Finish(w) ==
  /\ wk[w].pc = "done"
  /\ Done(w)
  /\ UNCHANGED <<rows, dead, wajob, rq, cr, en, hk, hist>>

Fail(w) ==
  /\ wk[w].pc \in {"fail", "failBury"}
  /\ SetStatus(wk[w].m, "FAILED")
  /\ Goto(w, IF wk[w].pc = "fail" THEN "done" ELSE "bury")
  /\ UNCHANGED <<ext, retry, dead, job, wajob, rq, cr, en, hk, hist>>

FailBury(w) ==
  /\ wk[w].pc = "bury"
  /\ Bury(wk[w].m)
  /\ Goto(w, "done")
  /\ UNCHANGED <<rows, job, wajob, rq, cr, en, hk, hist>>

\* Nothing is caught: pg-boss runs the job again, and the row stays as it is.
Throw(w) == LET m == wk[w].m IN
  /\ Fault("db")
  /\ wk[w].pc # "idle"
  /\ job' = [job EXCEPT ![m] = AfterFailure(@)]
  /\ lapse' = [lapse EXCEPT ![m] = @ \/ wk[w].pc = "mark"]
  /\ wk' = [wk EXCEPT ![w] = IdleWorker]
  /\ UNCHANGED <<rows, dead, wajob, rq, cr, en, hk, sends>>

WorkerStep(w) ==
  \/ Claim(w) \/ Inactive(w) \/ Send(w) \/ Refused(w) \/ MarkSent(w) \/ Requeue(w)
  \/ Republish(w) \/ Finish(w) \/ Fail(w) \/ FailBury(w)

-----------------------------------------------------------------------------
(* MessageRecoveryWorker and the WhatsApp engine                           *)

Held(m) == (\E w \in Workers : wk[w].m = m /\ wk[w].pc # "claim") \/ en.m = m

\* recoverStaleProcessing: one message of the list.
FindStale(c, m) ==
  /\ cr[c].pc = "idle" /\ status[m] = "PROCESSING"
  /\ IF Held(m) THEN Fault("slow") ELSE UNCHANGED faults
  /\ cr' = [cr EXCEPT ![c] = [pc |-> "stale", m |-> m, snap |-> retry[m]]]
  /\ UNCHANGED <<rows, dead, job, wajob, rq, wk, en, hk, sends, lapse>>

\* What was found may be in other hands by now.
Recovering(m) ==
  lapse' = [lapse EXCEPT ![m] = @ \/ status[m] # "PROCESSING" \/ Held(m)]

Recover(c) == LET m == cr[c].m IN
  /\ cr[c].pc = "stale"
  /\ Recovering(m)
  /\ IF cr[c].snap < MaxRetries
     THEN /\ SetStatus(m, "QUEUED")
          /\ retry' = [retry EXCEPT ![m] = @ + 1]
          /\ cr' = [cr EXCEPT ![c].pc = "adopt"]
     ELSE /\ SetStatus(m, "FAILED")
          /\ cr' = [cr EXCEPT ![c].pc = "bury"]
          /\ UNCHANGED retry
  /\ UNCHANGED <<ext, dead, job, wajob, rq, wk, en, hk, sends, faults>>

RecoverBury(c) ==
  /\ cr[c].pc = "bury"
  /\ Bury(cr[c].m)
  /\ cr' = [cr EXCEPT ![c] = IdleWorker]
  /\ UNCHANGED <<rows, job, wajob, rq, wk, en, hk, hist>>

\* Mutation: only messages that were never scheduled for a retry.
OrphanedNew(m) == status[m] = "QUEUED" /\ retry[m] = 0
Orphaned(m) == status[m] = "QUEUED"

\* recoverStaleQueued asks for no channel.
FindQueued(c, m) ==
  /\ cr[c].pc = "idle" /\ Orphaned(m)
  /\ cr' = [cr EXCEPT ![c] = [pc |-> "adopt", m |-> m, snap |-> 0]]
  /\ UNCHANGED <<rows, dead, job, wajob, rq, wk, en, hk, hist>>

\* Either way the job goes to the WhatsApp engine's queue.
Adopt(c) ==
  /\ cr[c].pc = "adopt"
  /\ wajob' = wajob \cup {cr[c].m}
  /\ cr' = [cr EXCEPT ![c] = IdleWorker]
  /\ UNCHANGED <<rows, dead, job, rq, wk, en, hk, hist>>

CronStep(c) == Recover(c) \/ RecoverBury(c) \/ Adopt(c)

\* Mutation: the status is not compared.
EngineClaimAny(m) ==
  /\ en.pc = "idle" /\ m \in wajob
  /\ wajob' = wajob \ {m}
  /\ SetStatus(m, "PROCESSING") /\ en' = [pc |-> "fail", m |-> m]
  /\ UNCHANGED <<ext, retry, dead, job, rq, wk, cr, hk, hist>>

\* SendMessageWorker: the same compare-and-set ...
EngineClaim(m) ==
  /\ en.pc = "idle" /\ m \in wajob
  /\ wajob' = wajob \ {m}
  /\ IF status[m] = "QUEUED"
     THEN SetStatus(m, "PROCESSING") /\ en' = [pc |-> "fail", m |-> m]
     ELSE UNCHANGED <<status, en>>
  /\ UNCHANGED <<ext, retry, dead, job, rq, wk, cr, hk, hist>>

\* ... then "Session not connected", which is not retried.
EngineFail ==
  /\ en.pc = "fail"
  /\ SetStatus(en.m, "FAILED")
  /\ en' = [en EXCEPT !.pc = "bury"]
  /\ UNCHANGED <<ext, retry, dead, job, wajob, rq, wk, cr, hk, hist>>

EngineBury ==
  /\ en.pc = "bury"
  /\ Bury(en.m)
  /\ en' = IdleEngine
  /\ UNCHANGED <<rows, job, wajob, rq, wk, cr, hk, hist>>

EngineStep == EngineFail \/ EngineBury

-----------------------------------------------------------------------------
(* ChannelWebhookService: status updates                                   *)

Rank(s) == CASE s = "QUEUED" -> 0 [] s = "PROCESSING" -> 1 [] s = "SENT" -> 2
             [] s = "DELIVERED" -> 3 [] s = "READ" -> 4 [] s = "FAILED" -> 5 [] OTHER -> 0

\* The row is found by its external id; an update only moves it forward ...
Receive(h, m, kind) ==
  /\ hk[h].pc = "idle" /\ ext[m]
  /\ kind = "FAILED" \/ Rank(kind) > Rank(status[m])
  /\ hk' = [hk EXCEPT ![h] = [pc |-> "apply", m |-> m, kind |-> kind]]
  /\ UNCHANGED <<rows, dead, job, wajob, rq, wk, cr, en, hist>>

\* ... from the status that was read.
ApplyUpdate(h) ==
  /\ hk[h].pc = "apply"
  /\ SetStatus(hk[h].m, hk[h].kind)
  /\ hk' = [hk EXCEPT ![h] = IdleHook]
  /\ UNCHANGED <<ext, retry, dead, job, wajob, rq, wk, cr, en, hist>>

-----------------------------------------------------------------------------
Crash ==
  /\ Fault("crash")
  /\ job' = [m \in Messages |->
       IF job[m].state = "active" THEN AfterFailure(job[m]) ELSE job[m]]
  /\ lapse' = [m \in Messages |->
       lapse[m] \/ \E w \in Workers : wk[w].m = m /\ wk[w].pc = "mark"]
  /\ rq' = {}
  /\ wk' = [w \in Workers |-> IdleWorker]
  /\ cr' = [c \in Crons |-> IdleWorker]
  /\ en' = IdleEngine
  /\ hk' = [h \in Hooks |-> IdleHook]
  /\ UNCHANGED <<rows, dead, wajob, sends>>

Next ==
  \/ \E m \in Messages : Submit(m) \/ Publish(m) \/ EngineClaim(m)
  \/ \E w \in Workers, m \in Messages : Load(w, m)
  \/ \E w \in Workers : WorkerStep(w) \/ AckLost(w) \/ Throw(w)
  \/ \E c \in Crons, m \in Messages : FindStale(c, m) \/ FindQueued(c, m)
  \/ \E c \in Crons : CronStep(c)
  \/ EngineStep
  \/ \E h \in Hooks, m \in Messages, kind \in {"DELIVERED", "READ", "FAILED"} :
       Receive(h, m, kind)
  \/ \E h \in Hooks : ApplyUpdate(h)
  \/ Crash

Spec == Init /\ [][Next]_vars

(* Fairness: the crons find again and again what is stale, pg-boss fetches *)
(* what waits, and the event loop runs every pending continuation.         *)
Fairness ==
  /\ \A m \in Messages : WF_vars(Publish(m)) /\ SF_vars(EngineClaim(m))
  /\ \A w \in Workers : WF_vars(WorkerStep(w))
  /\ \A c \in Crons : WF_vars(CronStep(c))
  /\ \A m \in Messages : SF_vars(\E c \in Crons : FindQueued(c, m))
  /\ \A m \in Messages : SF_vars(\E c \in Crons : FindStale(c, m))
  /\ WF_vars(EngineStep)

FairSpec == Spec /\ Fairness
-----------------------------------------------------------------------------
TypeOK ==
  /\ status \in [Messages -> Status]
  /\ ext \in [Messages -> BOOLEAN]
  /\ retry \in [Messages -> Nat]
  /\ dead \in [Messages -> 0 .. 2]
  /\ job \in [Messages -> JobRecord]
  /\ wajob \subseteq Messages /\ rq \subseteq Messages
  /\ wk \in [Workers -> [pc : {"idle", "claim", "send", "mark", "requeue", "republish",
                               "fail", "failBury", "bury", "done"},
                         m : Messages \cup {NoMsg}, snap : Nat]]
  /\ cr \in [Crons -> [pc : {"idle", "stale", "adopt", "bury"},
                       m : Messages \cup {NoMsg}, snap : Nat]]
  /\ en \in [pc : {"idle", "fail", "bury"}, m : Messages \cup {NoMsg}]
  /\ hk \in [Hooks -> [pc : {"idle", "apply"}, m : Messages \cup {NoMsg},
                       kind : {"NONE", "DELIVERED", "READ", "FAILED"}]]
  /\ sends \in [Messages -> 0 .. 2]
  /\ lapse \in [Messages -> BOOLEAN]
  /\ faults \in 0 .. MaxFaults

(* A message is handed to the provider once, unless a fault hid that it    *)
(* was: its answer was lost, its worker died between the answer and the    *)
(* note of it, or it was recovered while its worker was alive.             *)
SentOnce == \A m \in Messages : sends[m] > 1 => lapse[m]

(* A message that was handed to the provider is not buried, and so is not  *)
(* offered for reprocessing, under the same condition; and one that is     *)
(* buried is buried once, as long as no operator reprocesses it.           *)
BuriedUnsent ==
  \A m \in Messages : ~ lapse[m] => (dead[m] > 0 => sends[m] = 0) /\ dead[m] <= 1

(* A message that went out does not return to the queue.                   *)
SentStays ==
  [][\A m \in Messages : status[m] \in Out /\ ~ lapse'[m] =>
                           status'[m] \notin {"QUEUED", "PROCESSING"}]_vars

(* Every message comes to an end, though the retry that the worker         *)
(* publishes takes no effect: the crons of the other engine find it.       *)
Settles ==
  \A m \in Messages :
    status[m] \in {"QUEUED", "PROCESSING"} ~> status[m] \in Out \cup {"FAILED"}
=============================================================================
