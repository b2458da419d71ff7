----------------------------- MODULE Scheduled -----------------------------
(***************************************************************************)
(* Scheduled messages: the requests that create, edit and cancel them, the *)
(* cron that looks for due ones every 15 seconds, and the executor that    *)
(* hands each to the send queue, retrying while the session is down.       *)
(*                                                                         *)
(* Every await is a point where the actors interleave; a run of the cron   *)
(* may overlap the one before it, the executor is subscribed without       *)
(* concurrency.  A crash forgets the actors' progress and keeps rows and   *)
(* jobs.  Whether the session is connected is a choice of the environment  *)
(* at the read.  Delays are abstracted: a delayed job may run at once.     *)
(* The row's retryCount and failedReason are only ever displayed and are   *)
(* left out.                                                               *)
(***************************************************************************)
EXTENDS Naturals

CONSTANTS
  Messages,     \* scheduled messages
  Crons,        \* overlapping runs of checkDueMessages
  Users,        \* requests that may be under way together
  NoMsg,        \* "no message" in the local state of an actor
  MaxTime,      \* bound: the clock
  MaxJobs,      \* bound: executor jobs in a run
  MaxRequests,  \* bound: edits and cancels in a run
  MaxRetries,   \* SCHEDULER_CONFIG.MAX_RETRIES
  RetryLimit,   \* pg-boss: how often a job that failed runs again
  MaxFaults,    \* bound: faults in a run
  Faults        \* the kinds of fault that may occur: "crash", "db"

ASSUME ScheduledAssumption ==
  /\ NoMsg \notin Messages
  /\ MaxTime \in Nat /\ MaxJobs \in Nat /\ MaxRequests \in Nat
  /\ MaxRetries \in Nat /\ RetryLimit \in Nat /\ MaxFaults \in Nat
  /\ Faults \subseteq {"crash", "db"}

Time == 0 .. MaxTime
Jobs == 1 .. MaxJobs
NoJob == 0

Status == {"NONE", "PENDING", "QUEUED", "SENT", "FAILED", "CANCELLED"}
Final == {"SENT", "FAILED", "CANCELLED"}

VARIABLES
  now,       \* the clock
  status,    \* scheduledMessage.status; NONE: no row
  due,       \* scheduledMessage.scheduledAt
  jobId,     \* scheduledMessage.pgBossJobId
  job,       \* executor jobs
  cr,        \* local state of each run of the cron
  ex,        \* local state of the executor
  us,        \* local state of each request
  requests,  \* requests so far
  sends,     \* history: send jobs published for the message, up to two
  misses,    \* history: failed attempts to hand the message over
  calm,      \* history: it was cancelled while the executor was not at it
  raced,     \* history: it was edited while a run of the cron had it listed
  hit,       \* history: a fault lost its job, or the note that it was sent
  faults     \* history: faults so far

rows  == <<status, due, jobId>>
procs == <<cr, ex, us>>
notes == <<sends, misses, calm, raced, hit>>
vars  == <<now, rows, job, procs, requests, notes, faults>>

LiveJob == [state : {"created", "active"}, m : Messages, n : 0 .. MaxRetries,
            tries : 0 .. RetryLimit]
FreeJob == [state |-> "free", m |-> NoMsg, n |-> 0, tries |-> 0]
GoneJob == [state |-> "gone", m |-> NoMsg, n |-> 0, tries |-> 0]
JobRecord == LiveJob \cup {FreeJob, GoneJob}

IdleCron     == [pc |-> "idle", todo |-> {}, m |-> NoMsg, j |-> NoJob]
IdleExecutor == [pc |-> "idle", m |-> NoMsg, j |-> NoJob, n |-> 0]
IdleUser     == [pc |-> "idle", m |-> NoMsg, seen |-> "NONE", j |-> NoJob, at |-> 0]

Init ==
  /\ now = 0
  /\ status = [m \in Messages |-> "NONE"]
  /\ due = [m \in Messages |-> 0]
  /\ jobId = [m \in Messages |-> NoJob]
  /\ job = [j \in Jobs |-> FreeJob]
  /\ cr = [c \in Crons |-> IdleCron]
  /\ ex = IdleExecutor
  /\ us = [u \in Users |-> IdleUser]
  /\ requests = 0
  /\ sends = [m \in Messages |-> 0]
  /\ misses = [m \in Messages |-> 0]
  /\ calm = [m \in Messages |-> FALSE]
  /\ raced = [m \in Messages |-> FALSE]
  /\ hit = [m \in Messages |-> FALSE]
  /\ faults = 0

-----------------------------------------------------------------------------
(* Shared steps                                                            *)

Fault(kind) ==
  /\ kind \in Faults
  /\ faults < MaxFaults
  /\ faults' = faults + 1

Tick ==
  /\ now < MaxTime
  /\ now' = now + 1
  /\ UNCHANGED <<rows, job, procs, requests, notes, faults>>

\* transitionStatus: the compare-and-set.
Sets(m, from, to) == status' = [status EXCEPT ![m] = IF @ = from THEN to ELSE @]

\* A new job j for attempt n at m.
Enqueued(j, m, n) ==
  /\ job[j].state = "free"
  /\ \A i \in Jobs : i < j => job[i].state # "free"
  /\ job' = [job EXCEPT ![j] = [state |-> "created", m |-> m, n |-> n, tries |-> 0]]

\* Mutation: a failed job is not run again.
AfterFailureLost(r) == IF r.state # "active" THEN r ELSE GoneJob

\* A handler of the job failed: pg-boss runs it again, or has done so often
\* enough.  A job that was cancelled meanwhile stays so.
AfterFailure(r) ==
  CASE r.state # "active" -> r
    [] r.state = "active" /\ r.tries < RetryLimit ->
         [r EXCEPT !.state = "created", !.tries = @ + 1]
    [] OTHER -> GoneJob

\* The history counts to the attempts a message has, and no further.
Miss(m) == misses' = [misses EXCEPT ![m] = IF @ > MaxRetries THEN @ ELSE @ + 1]

Exhausted(j) == job[j].state = "active" /\ job[j].tries = RetryLimit

-----------------------------------------------------------------------------
(* Requests: the three use cases                                           *)

UGoto(u, l) == us' = [us EXCEPT ![u].pc = l]

CreateScheduled(m, t) ==
  /\ status[m] = "NONE"
  /\ t > now
  /\ status' = [status EXCEPT ![m] = "PENDING"]
  /\ due' = [due EXCEPT ![m] = t]
  /\ UNCHANGED <<now, jobId, job, procs, requests, notes, faults>>

\* Load the row: only a PENDING one can be edited, to a time in the future ...
AskUpdate(u, m, t) ==
  /\ us[u].pc = "idle" /\ requests < MaxRequests
  /\ status[m] = "PENDING" /\ t > now
  /\ us' = [us EXCEPT ![u] =
       [pc |-> "update", m |-> m, seen |-> status[m], j |-> NoJob, at |-> t]]
  /\ requests' = requests + 1
  /\ UNCHANGED <<now, rows, job, cr, ex, notes, faults>>

\* Mutation: updatePending does not ask for PENDING.
UpdateAny(u) == LET m == us[u].m IN
  /\ us[u].pc = "update"
  /\ due' = [due EXCEPT ![m] = us[u].at]
  /\ raced' = [raced EXCEPT ![m] = @ \/ \E c \in Crons : m \in cr[c].todo]
  /\ us' = [us EXCEPT ![u] = IdleUser]
  /\ UNCHANGED <<now, status, jobId, job, cr, ex, requests, sends, misses, calm, hit, faults>>

\* ... and updatePending is a compare-and-set of its own.
Update(u) == LET m == us[u].m IN
  /\ us[u].pc = "update"
  /\ IF status[m] = "PENDING"
     THEN /\ due' = [due EXCEPT ![m] = us[u].at]
          /\ raced' = [raced EXCEPT ![m] = @ \/ \E c \in Crons : m \in cr[c].todo]
     ELSE UNCHANGED <<due, raced>>
  /\ us' = [us EXCEPT ![u] = IdleUser]
  /\ UNCHANGED <<now, status, jobId, job, cr, ex, requests, sends, misses, calm, hit, faults>>

\* The row is read with the id of its job.
AskCancel(u, m) ==
  /\ us[u].pc = "idle" /\ requests < MaxRequests
  /\ status[m] \in {"PENDING", "QUEUED"}
  /\ us' = [us EXCEPT ![u] =
       [pc |-> "cancel", m |-> m, seen |-> status[m], j |-> jobId[m], at |-> 0]]
  /\ requests' = requests + 1
  /\ UNCHANGED <<now, rows, job, cr, ex, notes, faults>>

Cancel(u) == LET m == us[u].m IN
  /\ us[u].pc = "cancel"
  /\ Sets(m, us[u].seen, "CANCELLED")
  /\ IF status[m] = us[u].seen
     THEN /\ calm' = [calm EXCEPT ![m] = ex.m # m]
          /\ IF us[u].j = NoJob THEN us' = [us EXCEPT ![u] = IdleUser] ELSE UGoto(u, "unqueue")
     ELSE us' = [us EXCEPT ![u] = IdleUser] /\ UNCHANGED calm
  /\ UNCHANGED <<now, due, jobId, job, cr, ex, requests, sends, misses, raced, hit, faults>>

\* boss.cancel: no effect on a job that is over.
Unqueue(u) == LET j == us[u].j IN
  /\ us[u].pc = "unqueue"
  /\ job' = [job EXCEPT ![j] = GoneJob]
  /\ us' = [us EXCEPT ![u] = IdleUser]
  /\ UNCHANGED <<now, rows, cr, ex, requests, notes, faults>>

\* An error of boss.cancel is caught, any other answers the request with 500.
UserThrow(u) ==
  /\ Fault("db")
  /\ us[u].pc # "idle"
  /\ us' = [us EXCEPT ![u] = IdleUser]
  /\ UNCHANGED <<now, rows, job, cr, ex, requests, notes>>

UserStep(u) == Update(u) \/ Cancel(u) \/ Unqueue(u)

-----------------------------------------------------------------------------
(* ScheduledMessageWorker.checkDueMessages                                 *)

Proceeding(rest) ==
  IF rest = {} THEN IdleCron ELSE [pc |-> "next", todo |-> rest, m |-> NoMsg, j |-> NoJob]

Found == {m \in Messages : status[m] = "PENDING" /\ due[m] <= now}

FindDueMessages(c) ==
  /\ cr[c].pc = "idle"
  /\ Found # {}
  /\ cr' = [cr EXCEPT ![c] = [IdleCron EXCEPT !.pc = "next", !.todo = Found]]
  /\ UNCHANGED <<now, rows, job, ex, us, requests, notes, faults>>

\* The claim: who loses it goes on to the next message.
Take(c, m) == LET rest == cr[c].todo \ {m} IN
  /\ cr[c].pc = "next" /\ m \in cr[c].todo
  /\ Sets(m, "PENDING", "QUEUED")
  /\ cr' = [cr EXCEPT ![c] =
       IF status[m] = "PENDING" THEN [pc |-> "publish", todo |-> rest, m |-> m, j |-> NoJob]
       ELSE Proceeding(rest)]
  /\ UNCHANGED <<now, due, jobId, job, ex, us, requests, notes, faults>>

\* publishOnce under the message's key, which no other job has: a message is
\* QUEUED once.
Publish(c, j) ==
  /\ cr[c].pc = "publish"
  /\ Enqueued(j, cr[c].m, 0)
  /\ cr' = [cr EXCEPT ![c].pc = "record", ![c].j = j]
  /\ UNCHANGED <<now, rows, ex, us, requests, notes, faults>>

UpdatePgBossJobId(c) ==
  /\ cr[c].pc = "record"
  /\ jobId' = [jobId EXCEPT ![cr[c].m] = cr[c].j]
  /\ cr' = [cr EXCEPT ![c] = Proceeding(cr[c].todo)]
  /\ UNCHANGED <<now, status, due, job, ex, us, requests, notes, faults>>

\* One error ends the run: the messages not yet claimed are found again, the
\* one that was claimed and has no job is not.
CronThrow(c) ==
  /\ Fault("db")
  /\ cr[c].pc # "idle"
  /\ cr' = [cr EXCEPT ![c] = IdleCron]
  /\ hit' = IF cr[c].pc = "publish" THEN [hit EXCEPT ![cr[c].m] = TRUE] ELSE hit
  /\ UNCHANGED <<now, rows, job, ex, us, requests, sends, misses, calm, raced>>

CronStep(c) ==
  \/ \E m \in Messages : Take(c, m)
  \/ \E j \in Jobs : Publish(c, j)
  \/ UpdatePgBossJobId(c)

-----------------------------------------------------------------------------
(* ScheduledMessageWorker.handleExecute                                    *)

Goto(l) == ex' = [ex EXCEPT !.pc = l]

\* The handler returns: pg-boss completes the job if it is still active.
Return ==
  /\ ex' = IdleExecutor
  /\ job' = [job EXCEPT ![ex.j] = GoneJob]

Fetch(j) ==
  /\ ex.pc = "idle"
  /\ job[j].state = "created"
  /\ job' = [job EXCEPT ![j].state = "active"]
  /\ ex' = [pc |-> "load", m |-> job[j].m, j |-> j, n |-> job[j].n]
  /\ UNCHANGED <<now, rows, cr, us, requests, notes, faults>>

\* Mutation: only a cancelled message is left alone.
LoadUncancelled ==
  /\ ex.pc = "load"
  /\ IF status[ex.m] = "CANCELLED" THEN Return ELSE Goto("session") /\ UNCHANGED job
  /\ UNCHANGED <<now, rows, cr, us, requests, notes, faults>>

\* Mutation: a cancelled message is executed like a queued one.
LoadCancelled ==
  /\ ex.pc = "load"
  /\ IF status[ex.m] \in {"QUEUED", "CANCELLED"}
     THEN Goto("session") /\ UNCHANGED job ELSE Return
  /\ UNCHANGED <<now, rows, cr, us, requests, notes, faults>>

Load ==
  /\ ex.pc = "load"
  /\ IF status[ex.m] = "QUEUED" THEN Goto("session") /\ UNCHANGED job ELSE Return
  /\ UNCHANGED <<now, rows, cr, us, requests, notes, faults>>

\* Mutation: one attempt too few.
CheckSessionEarly ==
  /\ ex.pc = "session"
  /\ \/ Goto("send") /\ UNCHANGED misses
     \/ /\ Miss(ex.m)
        /\ Goto(IF ex.n + 1 < MaxRetries THEN "delay" ELSE "fail")
  /\ UNCHANGED <<now, rows, job, cr, us, requests, sends, calm, raced, hit, faults>>

CheckSession ==
  /\ ex.pc = "session"
  /\ \/ Goto("send") /\ UNCHANGED misses
     \/ /\ Miss(ex.m)
        /\ Goto(IF ex.n < MaxRetries THEN "delay" ELSE "fail")
  /\ UNCHANGED <<now, rows, job, cr, us, requests, sends, calm, raced, hit, faults>>

\* incrementRetryCount, then a delayed job without a key: pgBossJobId keeps
\* naming the first one.
PublishDelayed(j) ==
  /\ ex.pc = "delay"
  /\ Enqueued(j, ex.m, ex.n + 1)
  /\ Goto("done")
  /\ UNCHANGED <<now, rows, cr, us, requests, notes, faults>>

Done ==
  /\ ex.pc = "done"
  /\ Return
  /\ UNCHANGED <<now, rows, cr, us, requests, notes, faults>>

\* The session never came back: QUEUED to FAILED; the same step of the catch
\* block when the last attempt throws.
Fail ==
  /\ ex.pc \in {"fail", "giveup"}
  /\ Sets(ex.m, "QUEUED", "FAILED")
  /\ Return
  /\ UNCHANGED <<now, due, jobId, cr, us, requests, notes, faults>>

PublishSend ==
  /\ ex.pc = "send"
  /\ sends' = [sends EXCEPT ![ex.m] = IF @ < 2 THEN @ + 1 ELSE @]
  /\ Goto("mark")
  /\ UNCHANGED <<now, rows, job, cr, us, requests, misses, calm, raced, hit, faults>>

MarkSent ==
  /\ ex.pc = "mark"
  /\ Sets(ex.m, "QUEUED", "SENT")
  /\ Return
  /\ UNCHANGED <<now, due, jobId, cr, us, requests, notes, faults>>

\* An error inside the try block: the last attempt gives up; ...
Catch ==
  /\ Fault("db")
  /\ ex.pc \in {"load", "session", "delay", "fail", "send", "mark"}
  /\ Miss(ex.m)
  /\ hit' = [hit EXCEPT ![ex.m] = @ \/ ex.pc = "mark"]
  /\ Goto(IF ex.n < MaxRetries THEN "rethrow" ELSE "giveup")
  /\ UNCHANGED <<now, rows, job, cr, us, requests, sends, calm, raced>>

FailJob ==
  /\ job' = [job EXCEPT ![ex.j] = AfterFailure(@)]
  /\ hit' = [hit EXCEPT ![ex.m] = @ \/ Exhausted(ex.j)]
  /\ ex' = IdleExecutor

\* ... an earlier one throws, and pg-boss runs the job again.  Its data does
\* not count these runs: when they are used up the row is left as it is.
Rethrow ==
  /\ ex.pc = "rethrow"
  /\ FailJob
  /\ UNCHANGED <<now, rows, cr, us, requests, sends, misses, calm, raced, faults>>

\* The catch block fails itself.
GiveUpThrow ==
  /\ Fault("db")
  /\ ex.pc = "giveup"
  /\ FailJob
  /\ UNCHANGED <<now, rows, cr, us, requests, sends, misses, calm, raced>>

ExecutorStep ==
  Load \/ CheckSession \/ (\E j \in Jobs : PublishDelayed(j)) \/ Done \/ Fail
  \/ PublishSend \/ MarkSent \/ Rethrow

-----------------------------------------------------------------------------
\* The process dies and starts again; the executor's job expires and is retried.
Crash ==
  /\ Fault("crash")
  /\ cr' = [c \in Crons |-> IdleCron]
  /\ ex' = IdleExecutor
  /\ us' = [u \in Users |-> IdleUser]
  /\ job' = [j \in Jobs |-> IF j = ex.j THEN AfterFailure(job[j]) ELSE job[j]]
  /\ hit' = [m \in Messages |->
       \/ hit[m]
       \/ \E c \in Crons : cr[c].pc = "publish" /\ cr[c].m = m
       \/ ex.m = m /\ (ex.pc = "mark" \/ Exhausted(ex.j))]
  /\ UNCHANGED <<now, rows, requests, sends, misses, calm, raced>>

Next ==
  \/ Tick
  \/ \E m \in Messages, t \in Time : CreateScheduled(m, t)
  \/ \E u \in Users, m \in Messages, t \in Time : AskUpdate(u, m, t)
  \/ \E u \in Users, m \in Messages : AskCancel(u, m)
  \/ \E u \in Users : UserStep(u) \/ UserThrow(u)
  \/ \E c \in Crons : FindDueMessages(c) \/ CronStep(c) \/ CronThrow(c)
  \/ \E j \in Jobs : Fetch(j)
  \/ ExecutorStep \/ Catch \/ GiveUpThrow
  \/ Crash

Spec == Init /\ [][Next]_vars

(* Fairness: time passes, the cron is started again and again, pg-boss     *)
(* fetches what waits, and the event loop runs every pending continuation. *)
Fairness ==
  /\ WF_vars(Tick)
  /\ \A u \in Users : WF_vars(UserStep(u))
  /\ \A c \in Crons : WF_vars(FindDueMessages(c)) /\ WF_vars(CronStep(c))
  /\ \A j \in Jobs : SF_vars(Fetch(j))
  /\ WF_vars(ExecutorStep)

FairSpec == Spec /\ Fairness
-----------------------------------------------------------------------------
LookingCron == [pc : {"next"}, todo : SUBSET Messages, m : {NoMsg}, j : {NoJob}]
TakingCron  == [pc : {"publish", "record"}, todo : SUBSET Messages, m : Messages,
                j : Jobs \cup {NoJob}]
BusyCron == LookingCron \cup TakingCron
BusyExecutor == [pc : {"load", "session", "delay", "done", "fail", "giveup", "rethrow",
                       "send", "mark"}, m : Messages, j : Jobs, n : 0 .. MaxRetries]
BusyUser == [pc : {"update", "cancel", "unqueue"}, m : Messages, seen : Status,
             j : Jobs \cup {NoJob}, at : Time]

TypeOK ==
  /\ now \in Time
  /\ status \in [Messages -> Status]
  /\ due \in [Messages -> Time]
  /\ jobId \in [Messages -> Jobs \cup {NoJob}]
  /\ job \in [Jobs -> JobRecord]
  /\ cr \in [Crons -> BusyCron \cup {IdleCron}]
  /\ ex \in BusyExecutor \cup {IdleExecutor}
  /\ us \in [Users -> BusyUser \cup {IdleUser}]
  /\ requests \in 0 .. MaxRequests
  /\ sends \in [Messages -> 0 .. 2]
  /\ misses \in [Messages -> 0 .. MaxRetries + 1]
  /\ calm \in [Messages -> BOOLEAN]
  /\ raced \in [Messages -> BOOLEAN]
  /\ hit \in [Messages -> BOOLEAN]
  /\ faults \in 0 .. MaxFaults

(* However often its jobs run, and although a crash can double the chain   *)
(* of retries, a message is handed to the send queue once: a second time   *)
(* only when the first was never noted, because a fault hit the executor   *)
(* between publishing and marking it SENT.                                 *)
SentOnce == \A m \in Messages : sends[m] > 1 => hit[m]

(* A message is never executed before its time, the time of its last edit  *)
(* included, unless that edit came while the cron had it in its list:      *)
(* between the query and the claim the new time is not looked at.          *)
NotEarly ==
  \A m \in Messages : status[m] \in {"QUEUED", "SENT", "FAILED"} => due[m] <= now \/ raced[m]

(* A message cancelled while the executor is not at it is not sent: not by *)
(* the job that waits, not by a retry whose id the row does not know, and  *)
(* not by the cron that has just claimed it.                               *)
CancelHolds == [][\A m \in Messages : calm[m] => sends'[m] = sends[m]]_vars

(* The row says what happened: SENT means it was handed to the send queue, *)
(* FAILED that every attempt was used up.                                  *)
VerdictSound ==
  \A m \in Messages :
    /\ status[m] = "SENT" => sends[m] > 0
    /\ status[m] = "FAILED" => misses[m] > MaxRetries

(* Every message is finally sent, failed or cancelled, unless a fault lost *)
(* its job: the cron publishes after the claim and never looks at a QUEUED *)
(* message again.                                                          *)
Settles == \A m \in Messages : status[m] = "PENDING" ~> status[m] \in Final \/ hit[m]
=============================================================================
