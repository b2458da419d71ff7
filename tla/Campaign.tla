------------------------------ MODULE Campaign ------------------------------
(***************************************************************************)
(* One bulk-messaging campaign: the requests that schedule, execute, pause,*)
(* resume and cancel it, the executor that builds the audience and         *)
(* dispatches batches, the batch workers that create the messages, the     *)
(* event handlers that carry each message's fate back to its recipient and *)
(* complete the campaign, and the scheduler's safety net.                  *)
(*                                                                         *)
(* Every await of the code is a point where the actors interleave.  One    *)
(* process runs them all: a crash forgets their progress, and with it the  *)
(* events under way, and keeps the rows and the jobs.  A message is what   *)
(* module Delivery promises of it: queued until it is out or failed.       *)
(* Delays are abstracted: a delayed batch may run, and a schedule be due,  *)
(* at any moment.  One insert stands for one batch of                      *)
(* recipients.  Fewer faults occur than a job has retries, so a job whose  *)
(* handler throws or dies runs again.                                      *)
(***************************************************************************)
EXTENDS Integers, FiniteSets

CONSTANTS
  Contacts,     \* the org's contacts
  Batches,      \* batch numbers
  BatchOf(_),   \* the batch of a contact
  Runners,      \* concurrent batch handlers (WORKER_CONCURRENCY)
  Users,        \* requests that may be under way together
  Requests,     \* the kinds of request that are made
  OptOuts,      \* contacts that may be deleted or opted out when reached
  Fates,        \* what becomes of messages: "sent", "delivered", "read", "failed"
  NoContact,    \* "no contact" in the local state of a batch handler
  MaxRequests,  \* bound: requests in a run
  MaxReceipts,  \* bound: receipts of one kind for one message at once
  MaxFaults,    \* bound: crashes and database errors together
  Faults        \* the kinds of fault that may occur: "crash", "db"

RequestKinds == {"schedule", "execute", "pause", "resume", "cancel"}

ASSUME CampaignAssumption ==
  /\ Batches \subseteq Nat \ {0}
  /\ \A c \in Contacts : BatchOf(c) \in Batches
  /\ Requests \subseteq RequestKinds
  /\ OptOuts \subseteq Contacts
  /\ Fates \subseteq {"sent", "delivered", "read", "failed"}
  /\ NoContact \notin Contacts
  /\ MaxRequests \in Nat /\ MaxFaults \in 0 .. 3  \* retryLimit: 3
  /\ MaxReceipts \in Nat
  /\ Faults \subseteq {"crash", "db"}

Status == {"DRAFT", "SCHEDULED", "RUNNING", "PAUSED", "COMPLETED", "FAILED", "CANCELLED"}

VALID_TRANSITIONS ==
  [s \in Status |->
     CASE s = "DRAFT" -> {"SCHEDULED", "RUNNING", "CANCELLED"}
       [] s = "SCHEDULED" -> {"RUNNING", "CANCELLED"}
       [] s = "RUNNING" -> {"PAUSED", "COMPLETED", "FAILED", "CANCELLED"}
       [] s = "PAUSED" -> {"RUNNING", "CANCELLED"}
       [] OTHER -> {}]

\* NONE: no row.  SKIPPED: by a pause or cancel; INVALID: skipped because the
\* contact is gone or opted out, which a resume leaves alone.
RecipientStatus ==
  {"NONE", "PENDING", "QUEUED", "SENT", "DELIVERED", "FAILED", "SKIPPED", "INVALID"}

\* The singletonKeys of executor jobs; a resume has one of its own, named
\* here after the number of the request.
ExecKey == <<"exec", 0>>
ScheduledKey == <<"scheduled", 0>>
Keys == {ExecKey, ScheduledKey} \cup {"resume"} \X (1 .. MaxRequests)
JobState == {"none", "created", "active"}

Kinds == {"SENT", "DELIVERED", "READ", "FAILED", "DEAD"}

\* An event, and where it comes from: 0 is the sender, other numbers are the
\* receipts of a kind that are handled at the same time.
Events == Kinds \X (0 .. MaxReceipts)

VARIABLES
  status,    \* campaign.status
  rcp,       \* recipient.status
  linked,    \* recipient.messageId is set
  msg,       \* what became of the message with the recipient's idempotency key
  row,       \* that message's status
  sending,   \* the messages whose sender has written SENT and not returned
  astray,    \* history: two receipts at once, or an error after the send
  count,     \* sentCount, deliveredCount, readCount, failedCount
  ejob,      \* executor jobs: [Keys -> JobState]
  flag,      \* data.scheduled of the job with key "exec"
  bjob,      \* batch jobs: [Batches -> JobState]
  check,     \* the job of the scheduler's safety net
  due,       \* campaign.scheduledAt has come
  found,     \* the safety net's handler: "off", or what it found
  ex,        \* the executor (a subscription without concurrency)
  bw,        \* local state of each batch handler
  ev,        \* receipts and event handlers: [Contacts -> [Events -> program counter]]
  us,        \* local state of each request
  requests,  \* requests so far
  audience,  \* history: the audience resolved by the executor
  ran,       \* history: the campaign has been RUNNING
  faults     \* history: faults so far

rows  == <<status, rcp, linked>>
mail  == <<msg, row, sending, astray>>
jobs  == <<ejob, flag, bjob, check, due>>
procs == <<found, ex, bw, ev, us>>
hist  == <<requests, audience, ran, faults>>
vars  == <<rows, mail, count, jobs, procs, hist>>

IdleExecutor == [pc |-> "idle", key |-> ExecKey, scheduled |-> FALSE, todo |-> {}]
IdleRunner   == [pc |-> "idle", batch |-> 0, todo |-> {}, c |-> NoContact]
IdleUser     == [pc |-> "idle", kind |-> "execute", seen |-> "DRAFT", n |-> 0]
QuietEvents  == [c \in Contacts |-> [e \in Events |-> "off"]]

Init ==
  /\ status = "DRAFT"
  /\ rcp = [c \in Contacts |-> "NONE"]
  /\ linked = [c \in Contacts |-> FALSE]
  /\ msg = [c \in Contacts |-> "none"] /\ row = [c \in Contacts |-> "none"]
  /\ sending = {} /\ astray = {}
  /\ count = [sent |-> 0, delivered |-> 0, read |-> 0, failed |-> 0]
  /\ ejob = [k \in Keys |-> "none"]
  /\ flag = FALSE
  /\ bjob = [b \in Batches |-> "none"]
  /\ check = "created"
  /\ due = FALSE
  /\ found = "off"
  /\ ex = IdleExecutor
  /\ bw = [r \in Runners |-> IdleRunner]
  /\ ev = QuietEvents
  /\ us = [u \in Users |-> IdleUser]
  /\ requests = 0 /\ audience = {} /\ ran = FALSE /\ faults = 0

-----------------------------------------------------------------------------
(* Shared steps                                                            *)

Fault(kind) ==
  /\ kind \in Faults
  /\ faults < MaxFaults
  /\ faults' = faults + 1

\* Mutation: the update looks at no status.
SetsAlways(from, to) ==
  /\ status' = to
  /\ ran' = (ran \/ to = "RUNNING")

\* transitionStatus: the compare-and-set.
Sets(from, to) ==
  /\ status' = IF status = from THEN to ELSE status
  /\ ran' = (ran \/ (status = from /\ to = "RUNNING"))

\* boss.send with a singletonKey: no effect while such a job waits or runs.
Offered(state) == IF state = "none" THEN "created" ELSE state

OfferExec(k, scheduled) ==
  /\ ejob' = [ejob EXCEPT ![k] = Offered(@)]
  /\ flag' = IF k = ExecKey /\ ejob[k] = "none" THEN scheduled ELSE flag

MarkPendingAsSkipped ==
  rcp' = [c \in Contacts |-> IF rcp[c] = "PENDING" THEN "SKIPPED" ELSE rcp[c]]

\* Mutation: invalid contacts are tried again.
ResetAllToPending ==
  rcp' = [c \in Contacts |-> IF rcp[c] \in {"SKIPPED", "INVALID"} THEN "PENDING" ELSE rcp[c]]

ResetSkippedToPending ==
  rcp' = [c \in Contacts |-> IF rcp[c] = "SKIPPED" THEN "PENDING" ELSE rcp[c]]

-----------------------------------------------------------------------------
(* Requests: the five use cases                                            *)

Target(kind) ==
  CASE kind = "schedule" -> "SCHEDULED" [] kind = "pause" -> "PAUSED"
    [] kind = "cancel" -> "CANCELLED" [] OTHER -> "RUNNING"

\* The status the compare-and-set expects.
Expected(u) ==
  CASE us[u].kind = "pause" -> "RUNNING" [] us[u].kind = "resume" -> "PAUSED"
    [] OTHER -> us[u].seen

\* Load the campaign and assert the transition.  A resume goes on to reset the
\* skipped recipients before it looks at the status again.
Ask(u, kind) ==
  /\ us[u].pc = "idle"
  /\ requests < MaxRequests
  /\ Target(kind) \in VALID_TRANSITIONS[status]
  /\ kind = "execute" /\ status = "SCHEDULED" => due
  /\ requests' = requests + 1
  /\ us' = [us EXCEPT ![u] = [pc |-> IF kind = "resume" THEN "reset" ELSE "set",
                              kind |-> kind, seen |-> status, n |-> requests']]
  /\ UNCHANGED <<rows, mail, count, jobs, found, ex, bw, ev, audience, ran, faults>>

Reset(u) ==
  /\ us[u].pc = "reset"
  /\ ResetSkippedToPending
  /\ us' = [us EXCEPT ![u].pc = "set"]
  /\ UNCHANGED <<status, linked, mail, count, jobs, found, ex, bw, ev, hist>>

Set(u) ==
  /\ us[u].pc = "set"
  /\ Sets(Expected(u), Target(us[u].kind))
  /\ us' = [us EXCEPT ![u] =
       IF status # Expected(u) THEN IdleUser
       ELSE [@ EXCEPT !.pc = IF us[u].kind \in {"pause", "cancel"} THEN "skip" ELSE "publish"]]
  /\ UNCHANGED <<rcp, linked, mail, count, jobs, found, ex, bw, ev, requests, audience, faults>>

Skip(u) ==
  /\ us[u].pc = "skip"
  /\ MarkPendingAsSkipped
  /\ us' = [us EXCEPT ![u] = IdleUser]
  /\ UNCHANGED <<status, linked, mail, count, jobs, found, ex, bw, ev, hist>>

Publish(u) ==
  /\ us[u].pc = "publish"
  /\ CASE us[u].kind = "schedule" -> OfferExec(ScheduledKey, TRUE)
       [] us[u].kind = "execute" -> OfferExec(ExecKey, FALSE)
       [] OTHER -> OfferExec(<<"resume", us[u].n>>, FALSE)
  /\ us' = [us EXCEPT ![u] = IdleUser]
  /\ UNCHANGED <<rows, mail, count, bjob, check, due, found, ex, bw, ev, hist>>

UserThrow(u) ==
  /\ Fault("db")
  /\ us[u].pc # "idle"
  /\ us' = [us EXCEPT ![u] = IdleUser]
  /\ UNCHANGED <<rows, mail, count, jobs, found, ex, bw, ev, requests, audience, ran>>

UserStep(u) == Reset(u) \/ Set(u) \/ Skip(u) \/ Publish(u)

-----------------------------------------------------------------------------
(* CampaignSchedulerWorker: the safety net                                 *)

FetchCheck ==
  /\ check = "created"
  /\ check' = "active"
  /\ found' = "looking"
  /\ UNCHANGED <<rows, mail, count, ejob, flag, bjob, due, ex, bw, ev, us, hist>>

FindScheduled ==
  /\ found = "looking"
  /\ found' = IF status = "SCHEDULED" /\ due THEN "due" ELSE "none"
  /\ UNCHANGED <<rows, mail, count, jobs, ex, bw, ev, us, hist>>

\* Publish the execution of what was found; scheduleNextCheck, which offers a
\* job with the key of the one under way; and the job completes.
FinishCheck ==
  /\ found \in {"due", "none"}
  /\ IF found = "due" THEN OfferExec(ExecKey, TRUE) ELSE UNCHANGED <<ejob, flag>>
  /\ check' = IF Offered(check) = "active" THEN "none" ELSE "created"
  /\ found' = "off"
  /\ UNCHANGED <<rows, mail, count, bjob, due, ex, bw, ev, us, hist>>

ExpireCheck ==
  /\ check = "active" /\ found = "off"
  /\ check' = "created"
  /\ UNCHANGED <<rows, mail, count, ejob, flag, bjob, due, procs, hist>>

\* The scheduled time comes.
Due ==
  /\ status = "SCHEDULED" /\ ~due
  /\ due' = TRUE
  /\ UNCHANGED <<rows, mail, count, ejob, flag, bjob, check, procs, hist>>

CheckStep == FindScheduled \/ FinishCheck

-----------------------------------------------------------------------------
(* CampaignExecutorWorker                                                  *)

EGoto(l) == ex' = [ex EXCEPT !.pc = l]

\* The handler returns and its job completes.
EReturn ==
  /\ ex' = IdleExecutor
  /\ ejob' = [ejob EXCEPT ![ex.key] = "none"]
  /\ UNCHANGED flag

FetchExec(k) ==
  /\ ex.pc = "idle"
  /\ k = ScheduledKey => due
  /\ ejob[k] = "created"
  /\ ejob' = [ejob EXCEPT ![k] = "active"]
  /\ ex' = [pc |-> "load", key |-> k, todo |-> {},
            scheduled |-> k = ScheduledKey \/ (k = ExecKey /\ flag)]
  /\ UNCHANGED <<rows, mail, count, flag, bjob, check, due, found, bw, ev, us, hist>>

ELoad ==
  /\ ex.pc = "load"
  /\ EGoto(IF ex.scheduled /\ status = "SCHEDULED" THEN "start" ELSE "verify")
  /\ UNCHANGED <<rows, mail, count, jobs, found, bw, ev, us, hist>>

EStart ==
  /\ ex.pc = "start"
  /\ Sets("SCHEDULED", "RUNNING")
  /\ EGoto("verify")
  /\ UNCHANGED <<rcp, linked, mail, count, jobs, found, bw, ev, us, requests, audience, faults>>

EVerify ==
  /\ ex.pc = "verify"
  /\ IF status = "RUNNING" THEN EGoto("pending") /\ UNCHANGED <<ejob, flag>> ELSE EReturn
  /\ UNCHANGED <<rows, mail, count, bjob, check, due, found, bw, ev, us, hist>>

Existing == {c \in Contacts : rcp[c] # "NONE"}
Pending == {c \in Contacts : rcp[c] = "PENDING"}

EPending ==
  /\ ex.pc = "pending"
  /\ EGoto(IF Pending # {} THEN "scan" ELSE "count")
  /\ UNCHANGED <<rows, mail, count, jobs, found, bw, ev, us, hist>>

ECount ==
  /\ ex.pc = "count"
  /\ EGoto(IF Existing = {} THEN "resolve" ELSE "complete")
  /\ UNCHANGED <<rows, mail, count, jobs, found, bw, ev, us, hist>>

\* resolveAudience; an empty audience throws.
EResolve ==
  /\ ex.pc = "resolve"
  /\ \E A \in SUBSET Contacts :
       /\ audience' = A
       /\ ex' = [ex EXCEPT !.pc = IF A = {} THEN "failed" ELSE "insert", !.todo = A]
  /\ UNCHANGED <<rows, mail, count, jobs, found, bw, ev, us, requests, ran, faults>>

\* bulkCreate, one batch at a time, in the order of the batches; duplicates
\* are skipped.
EInsert ==
  /\ ex.pc = "insert"
  /\ \E b \in {BatchOf(c) : c \in ex.todo} :
       LET part == {c \in ex.todo : BatchOf(c) = b} IN
       /\ \A c \in ex.todo : b <= BatchOf(c)
       /\ rcp' = [c \in Contacts |->
                    IF c \in part /\ rcp[c] = "NONE" THEN "PENDING" ELSE rcp[c]]
       /\ ex' = [ex EXCEPT !.todo = @ \ part,
                           !.pc = IF part = ex.todo THEN "scan" ELSE "insert"]
  /\ UNCHANGED <<status, linked, mail, count, jobs, found, bw, ev, us, hist>>

\* The batches that still have PENDING recipients, ...
EScan ==
  /\ ex.pc = "scan"
  /\ IF Pending = {} THEN EReturn
     ELSE ex' = [ex EXCEPT !.pc = "dispatch", !.todo = {BatchOf(c) : c \in Pending}]
          /\ UNCHANGED <<ejob, flag>>
  /\ UNCHANGED <<rows, mail, count, bjob, check, due, found, bw, ev, us, hist>>

\* ... and a job for each; later ones are delayed.
EDispatch ==
  /\ ex.pc = "dispatch"
  /\ \E b \in ex.todo :
       /\ \A d \in ex.todo : b <= d
       /\ bjob' = [bjob EXCEPT ![b] = Offered(@)]
       /\ IF ex.todo = {b} THEN EReturn
          ELSE ex' = [ex EXCEPT !.todo = @ \ {b}] /\ UNCHANGED <<ejob, flag>>
  /\ UNCHANGED <<rows, mail, count, check, due, found, bw, ev, us, hist>>

\* completeCampaign: no look at what the recipients' status is.
EComplete ==
  /\ ex.pc = "complete"
  /\ Sets("RUNNING", "COMPLETED")
  /\ EReturn
  /\ UNCHANGED <<rcp, linked, mail, count, bjob, check, due, found, bw, ev, us,
                 requests, audience, faults>>

\* The catch block.
EFail ==
  /\ ex.pc = "failed"
  /\ Sets("RUNNING", "FAILED")
  /\ EReturn
  /\ UNCHANGED <<rcp, linked, mail, count, bjob, check, due, found, bw, ev, us,
                 requests, audience, faults>>

\* A database error inside the try block ...
ECatch ==
  /\ Fault("db")
  /\ ex.pc \in {"pending", "count", "resolve", "insert", "scan", "dispatch", "complete"}
  /\ EGoto("failed")
  /\ UNCHANGED <<rows, mail, count, jobs, found, bw, ev, us, requests, audience, ran>>

\* ... and outside of it: pg-boss runs the job again.
EThrow ==
  /\ Fault("db")
  /\ ex.pc \in {"load", "start", "verify", "failed"}
  /\ ex' = IdleExecutor
  /\ ejob' = [ejob EXCEPT ![ex.key] = "created"]
  /\ UNCHANGED <<rows, mail, count, flag, bjob, check, due, found, bw, ev, us,
                 requests, audience, ran>>

ExpireExec(k) ==
  /\ ejob[k] = "active" /\ ~(ex.pc # "idle" /\ ex.key = k)
  /\ ejob' = [ejob EXCEPT ![k] = "created"]
  /\ UNCHANGED <<rows, mail, count, flag, bjob, check, due, procs, hist>>

ExecutorStep ==
  \/ ELoad \/ EStart \/ EVerify \/ EPending \/ ECount \/ EResolve
  \/ EInsert \/ EScan \/ EDispatch \/ EComplete \/ EFail

-----------------------------------------------------------------------------
(* CampaignBatchWorker                                                     *)

BGoto(r, l) == bw' = [bw EXCEPT ![r].pc = l]

\* Done with a recipient: the next of the list, or the job completes.
Proceed(r) ==
  LET rest == bw[r].todo \ {bw[r].c} IN
  IF rest = {}
  THEN bw' = [bw EXCEPT ![r] = IdleRunner] /\ bjob' = [bjob EXCEPT ![bw[r].batch] = "none"]
  ELSE /\ bw' = [bw EXCEPT ![r].pc = "next", ![r].todo = rest, ![r].c = NoContact]
       /\ UNCHANGED bjob

FetchBatch(r, b) ==
  /\ bw[r].pc = "idle"
  /\ bjob[b] = "created"
  /\ bjob' = [bjob EXCEPT ![b] = "active"]
  /\ bw' = [bw EXCEPT ![r] = [IdleRunner EXCEPT !.pc = "load", !.batch = b]]
  /\ UNCHANGED <<rows, mail, count, ejob, flag, check, due, found, ex, ev, us, hist>>

\* The campaign is looked at once, before the first recipient.
BLoad(r) ==
  /\ bw[r].pc = "load"
  /\ IF status = "RUNNING" THEN BGoto(r, "list") /\ UNCHANGED bjob ELSE Proceed(r)
  /\ UNCHANGED <<rows, mail, count, ejob, flag, check, due, found, ex, ev, us, hist>>

\* findPendingByBatch: the list the handler works through.
BList(r) == LET list == {c \in Pending : BatchOf(c) = bw[r].batch} IN
  /\ bw[r].pc = "list"
  /\ IF list = {} THEN Proceed(r)
     ELSE bw' = [bw EXCEPT ![r].pc = "next", ![r].todo = list] /\ UNCHANGED bjob
  /\ UNCHANGED <<rows, mail, count, ejob, flag, check, due, found, ex, ev, us, hist>>

\* The contact check: one that is deleted or opted out is skipped.
BCheck(r, c) ==
  /\ bw[r].pc = "next"
  /\ c \in bw[r].todo
  /\ \E l \in {"seek"} \cup (IF c \in OptOuts THEN {"drop"} ELSE {}) :
       bw' = [bw EXCEPT ![r].c = c, ![r].pc = l]
  /\ UNCHANGED <<rows, mail, count, jobs, found, ex, ev, us, hist>>

BDrop(r) ==
  /\ bw[r].pc = "drop"
  /\ rcp' = [rcp EXCEPT ![bw[r].c] = "INVALID"]
  /\ Proceed(r)
  /\ UNCHANGED <<status, linked, mail, count, ejob, flag, check, due, found, ex, ev, us, hist>>

\* Mutation: every recipient is taken for one of an earlier attempt.
BSeekAll(r) ==
  /\ bw[r].pc = "seek"
  /\ BGoto(r, "relink")
  /\ UNCHANGED <<rows, mail, count, jobs, found, ex, ev, us, hist>>

\* findByIdempotencyKey: is there a message from an earlier attempt?
BSeek(r) ==
  /\ bw[r].pc = "seek"
  /\ BGoto(r, IF msg[bw[r].c] = "none" THEN "create" ELSE "relink")
  /\ UNCHANGED <<rows, mail, count, jobs, found, ex, ev, us, hist>>

Becomes(c, fate) == msg' = [msg EXCEPT ![c] = fate] /\ row' = [row EXCEPT ![c] = fate]

\* The idempotency key is unique: a second message makes the insert throw.
BCreate(r) == LET c == bw[r].c IN
  /\ bw[r].pc = "create"
  /\ IF msg[c] = "none"
     THEN Becomes(c, "queued") /\ BGoto(r, "link")
     ELSE BGoto(r, "error") /\ UNCHANGED <<msg, row>>
  /\ UNCHANGED <<rows, sending, astray, count, jobs, found, ex, ev, us, hist>>

Link(c) ==
  /\ rcp' = [rcp EXCEPT ![c] = "QUEUED"]
  /\ linked' = [linked EXCEPT ![c] = TRUE]

BLink(r) ==
  /\ bw[r].pc = "link"
  /\ Link(bw[r].c)
  /\ BGoto(r, "publish")
  /\ UNCHANGED <<status, mail, count, jobs, found, ex, ev, us, hist>>

\* A message of an earlier attempt is linked, whatever became of it.
BRelink(r) ==
  /\ bw[r].pc = "relink"
  /\ Link(bw[r].c)
  /\ Proceed(r)
  /\ UNCHANGED <<status, mail, count, ejob, flag, check, due, found, ex, ev, us, hist>>

\* The send job: from here on a sender may take the message.
BPublish(r) ==
  /\ bw[r].pc = "publish"
  /\ BGoto(r, "touch")
  /\ UNCHANGED <<rows, mail, count, jobs, found, ex, ev, us, hist>>

\* Update the conversation.
BTouch(r) ==
  /\ bw[r].pc = "touch"
  /\ Proceed(r)
  /\ UNCHANGED <<rows, mail, count, ejob, flag, check, due, found, ex, ev, us, hist>>

\* The catch block of a recipient: FAILED, then count it.
BError(r) ==
  /\ bw[r].pc = "error"
  /\ rcp' = [rcp EXCEPT ![bw[r].c] = "FAILED"]
  /\ BGoto(r, "tally")
  /\ UNCHANGED <<status, linked, mail, count, jobs, found, ex, ev, us, hist>>

BTally(r) ==
  /\ bw[r].pc = "tally"
  /\ count' = [count EXCEPT !.failed = @ + 1]
  /\ Proceed(r)
  /\ UNCHANGED <<rows, mail, ejob, flag, check, due, found, ex, ev, us, hist>>

BCatch(r) ==
  /\ Fault("db")
  /\ \/ /\ bw[r].pc \in {"drop", "seek", "relink", "create", "link", "publish", "touch"}
        /\ BGoto(r, "error")
     \/ \E c \in bw[r].todo :
          bw[r].pc = "next" /\ bw' = [bw EXCEPT ![r].pc = "error", ![r].c = c]
  /\ UNCHANGED <<rows, mail, count, jobs, found, ex, ev, us, requests, audience, ran>>

BThrow(r) ==
  /\ Fault("db")
  /\ bw[r].pc \in {"load", "list", "error", "tally"}
  /\ bw' = [bw EXCEPT ![r] = IdleRunner]
  /\ bjob' = [bjob EXCEPT ![bw[r].batch] = "created"]
  /\ UNCHANGED <<rows, mail, count, ejob, flag, check, due, found, ex, ev, us,
                 requests, audience, ran>>

ExpireBatch(b) ==
  /\ bjob[b] = "active"
  /\ \A r \in Runners : bw[r].batch # b
  /\ bjob' = [bjob EXCEPT ![b] = "created"]
  /\ UNCHANGED <<rows, mail, count, ejob, flag, check, due, procs, hist>>

RunnerStep(r) ==
  \/ BLoad(r) \/ BList(r) \/ \E c \in Contacts : BCheck(r, c)
  \/ BDrop(r) \/ BSeek(r) \/ BCreate(r) \/ BLink(r) \/ BRelink(r)
  \/ BPublish(r) \/ BTouch(r) \/ BError(r) \/ BTally(r)

-----------------------------------------------------------------------------
(* The fate of a message, as the send engine reports it                    *)

Emits(c, kinds) ==
  ev' = [ev EXCEPT ![c] = [e \in Events |-> IF e \in kinds \X {0} THEN "find" ELSE @[e]]]

\* A sender takes a message once it was published, or, when the handler that
\* created it is gone, after the recovery cron published it.
Sendable(c) ==
  /\ msg[c] = "queued"
  /\ \A r \in Runners : ~(bw[r].c = c /\ bw[r].pc \in {"link", "publish"})

MessageSent(c) ==
  /\ "sent" \in Fates
  /\ Sendable(c)
  /\ Becomes(c, "sent")
  /\ sending' = sending \cup {c}
  /\ Emits(c, {"SENT"})
  /\ UNCHANGED <<rows, astray, count, jobs, found, ex, bw, us, hist>>

\* Dead-lettered: WHATSAPP_MESSAGE_FAILED, which its handler ignores below
\* three retries, and MESSAGE_DEAD_LETTERED.
Burials == {{"FAILED", "DEAD"}, {"DEAD"}}

MessageFailed(c) ==
  /\ "failed" \in Fates
  /\ Sendable(c)
  /\ Becomes(c, "failed")
  /\ \E kinds \in Burials : Emits(c, kinds)
  /\ UNCHANGED <<rows, sending, astray, count, jobs, found, ex, bw, us, hist>>

\* Dead-lettered by the recovery cron after a crash: no event.
MessageBuried(c) ==
  /\ "crash" \in Faults /\ faults > 0
  /\ msg[c] = "queued"
  /\ Becomes(c, "failed")
  /\ UNCHANGED <<rows, sending, astray, count, jobs, procs, hist>>

\* The same, but the event of the send was not out yet and never will be.
Unsaid(c, kinds) ==
  /\ ev[c][<<"SENT", 0>>] = "find"
  /\ ev' = [ev EXCEPT ![c] = [e \in Events |->
       IF e \in kinds \X {0} THEN "find" ELSE IF e = <<"SENT", 0>> THEN "off" ELSE @[e]]]

\* A database error once SENT is written, before or after its event is out:
\* the sender takes it for a failed send, and the row back.  The next attempt
\* finds the WhatsApp id and does nothing.
SendThrow(c) ==
  /\ Fault("db")
  /\ c \in sending
  /\ sending' = sending \ {c}
  /\ astray' = astray \cup {c}
  /\ \/ row' = [row EXCEPT ![c] = "queued"] /\ (ev' = ev \/ Unsaid(c, {}))
     \/ /\ row' = [row EXCEPT ![c] = "failed"]
        /\ \E kinds \in Burials : Emits(c, kinds) \/ Unsaid(c, kinds)
  /\ UNCHANGED <<rows, msg, count, jobs, found, ex, bw, us, requests, audience, ran>>

Reports == {"SENT", "DELIVERED", "READ"}
Stated(k) == CASE k = "SENT" -> "sent" [] k = "DELIVERED" -> "delivered" [] OTHER -> "read"
Rank == [none |-> 0, queued |-> 0, sent |-> 2, delivered |-> 3, read |-> 4, failed |-> -1]

\* Mutation: a status that is there already is no regression.
IsRegressionOnly(s, k) == Rank[s] > Rank[Stated(k)]
IsRegression(s, k) == Rank[s] >= Rank[Stated(k)]

\* HandleStatusUpdate: a receipt of WhatsApp's for a message that has its id.
\* The row is looked at before the await and written after it (VMark), so two
\* receipts at once can both pass.
Receive(c, e) == LET k == e[1] IN
  /\ k \in Reports /\ Stated(k) \in Fates
  /\ e[2] # 0 /\ ev[c][e] = "off"
  /\ msg[c] \in {"sent", "delivered", "read"}
  /\ ~IsRegression(row[c], k)
  /\ msg' = [msg EXCEPT ![c] = IF Rank[@] < Rank[Stated(k)] THEN Stated(k) ELSE @]
  /\ ev' = [ev EXCEPT ![c][e] = "mark"]
  /\ astray' = IF \E f \in Events : ev[c][f] = "mark" THEN astray \cup {c} ELSE astray
  /\ UNCHANGED <<rows, row, sending, count, jobs, found, ex, bw, us, hist>>

MessageStep(c) ==
  \/ MessageSent(c) \/ MessageFailed(c) \/ MessageBuried(c)
  \/ SendThrow(c) \/ \E e \in Events : Receive(c, e)

-----------------------------------------------------------------------------
(* CampaignEventsHandler                                                   *)

VGoto(c, e, l) == ev' = [ev EXCEPT ![c][e] = l]

Outcome(k) == IF k \in {"FAILED", "DEAD"} THEN "FAILED" ELSE k
Counter(k) ==
  CASE k = "SENT" -> "sent" [] k = "DELIVERED" -> "delivered" [] k = "READ" -> "read"
    [] OTHER -> "failed"

\* A receipt's write; then its event is out.
VMark(c, e) ==
  /\ ev[c][e] = "mark"
  /\ row' = [row EXCEPT ![c] = Stated(e[1])]
  /\ VGoto(c, e, "find")
  /\ UNCHANGED <<rows, msg, sending, astray, count, jobs, found, ex, bw, us, hist>>

\* findByMessageId; only the dead-letter handler looks at the status it finds,
\* and the read handler leaves the status alone.
VFind(c, e) ==
  /\ ev[c][e] = "find"
  /\ VGoto(c, e, CASE ~linked[c] -> "off"
                   [] linked[c] /\ e[1] = "READ" -> "count"
                   [] linked[c] /\ e[1] = "DEAD" /\ rcp[c] = "FAILED" -> "look"
                   [] OTHER -> "write")
  /\ UNCHANGED <<rows, mail, count, jobs, found, ex, bw, us, hist>>

VWrite(c, e) ==
  /\ ev[c][e] = "write"
  /\ rcp' = [rcp EXCEPT ![c] = Outcome(e[1])]
  /\ VGoto(c, e, "count")
  /\ UNCHANGED <<status, linked, mail, count, jobs, found, ex, bw, us, hist>>

VCount(c, e) ==
  /\ ev[c][e] = "count"
  /\ count' = [count EXCEPT ![Counter(e[1])] = @ + 1]
  /\ VGoto(c, e, "look")
  /\ UNCHANGED <<rows, mail, jobs, found, ex, bw, us, hist>>

VLook(c, e) ==
  /\ ev[c][e] = "look"
  /\ VGoto(c, e, IF status = "RUNNING" THEN "tally" ELSE "off")
  /\ UNCHANGED <<rows, mail, count, jobs, found, ex, bw, us, hist>>

\* Mutations: a queued message counts as done; a failed one as open.
OpenPending == {c \in Contacts : rcp[c] = "PENDING"}
OpenFailed == {c \in Contacts : rcp[c] \in {"PENDING", "QUEUED", "FAILED"}}

\* countByStatus: the recipients that keep the campaign from completing.
Open == {c \in Contacts : rcp[c] \in {"PENDING", "QUEUED"}}

VTally(c, e) ==
  /\ ev[c][e] = "tally"
  /\ VGoto(c, e, IF Open = {} THEN "complete" ELSE "off")
  /\ UNCHANGED <<rows, mail, count, jobs, found, ex, bw, us, hist>>

VComplete(c, e) ==
  /\ ev[c][e] = "complete"
  /\ Sets("RUNNING", "COMPLETED")
  /\ VGoto(c, e, "off")
  /\ UNCHANGED <<rcp, linked, mail, count, jobs, found, ex, bw, us, requests, audience, faults>>

HandlerThrow(c, e) ==
  /\ Fault("db")
  /\ ev[c][e] # "off"
  /\ VGoto(c, e, "off")
  /\ UNCHANGED <<rows, mail, count, jobs, found, ex, bw, us, requests, audience, ran>>

HandlerStep(c, e) ==
  \/ VMark(c, e) \/ VFind(c, e) \/ VWrite(c, e) \/ VCount(c, e)
  \/ VLook(c, e) \/ VTally(c, e) \/ VComplete(c, e)

-----------------------------------------------------------------------------
\* The process dies and starts again; the scheduler offers its check.
Crash ==
  /\ Fault("crash")
  /\ found' = "off"
  /\ ex' = IdleExecutor
  /\ bw' = [r \in Runners |-> IdleRunner]
  /\ ev' = QuietEvents /\ sending' = {}
  /\ us' = [u \in Users |-> IdleUser]
  /\ check' = Offered(check)
  /\ UNCHANGED <<rows, msg, row, astray, count, ejob, flag, bjob, due, requests, audience, ran>>

Next ==
  \/ \E u \in Users, kind \in Requests : Ask(u, kind)
  \/ \E u \in Users : UserStep(u) \/ UserThrow(u)
  \/ FetchCheck \/ CheckStep \/ ExpireCheck \/ Due
  \/ \E k \in Keys : FetchExec(k) \/ ExpireExec(k)
  \/ ExecutorStep \/ ECatch \/ EThrow
  \/ \E r \in Runners, b \in Batches : FetchBatch(r, b)
  \/ \E r \in Runners : RunnerStep(r) \/ BCatch(r) \/ BThrow(r)
  \/ \E b \in Batches : ExpireBatch(b)
  \/ \E c \in Contacts : MessageStep(c)
  \/ \E c \in Contacts, e \in Events :
       ev[c][e] # "off" /\ (HandlerStep(c, e) \/ HandlerThrow(c, e))
  \/ Crash

Spec == Init /\ [][Next]_vars

(* Fairness: the event loop runs every pending continuation; pg-boss       *)
(* fetches what waits and expires what is orphaned; the send engine        *)
(* settles every message (Outbound, Settles).  Nobody has to ask anything. *)
Fairness ==
  /\ WF_vars(\E u \in Users : UserStep(u))
  /\ WF_vars(FetchCheck) /\ WF_vars(CheckStep) /\ WF_vars(ExpireCheck) /\ WF_vars(Due)
  /\ WF_vars(ExecutorStep)
  /\ SF_vars(\E k \in Keys : FetchExec(k)) /\ WF_vars(\E k \in Keys : ExpireExec(k))
  /\ WF_vars(\E r \in Runners : RunnerStep(r))
  /\ SF_vars(\E r \in Runners, b \in Batches : FetchBatch(r, b))
  /\ WF_vars(\E b \in Batches : ExpireBatch(b))
  /\ WF_vars(\E c \in Contacts : MessageSent(c) \/ MessageFailed(c))
  /\ WF_vars(\E c \in Contacts, e \in Events : HandlerStep(c, e))

FairSpec == Spec /\ Fairness
-----------------------------------------------------------------------------
Executor == [pc : {"load", "start", "verify", "pending", "count", "resolve", "insert",
                   "scan", "dispatch", "complete", "failed"},
             key : Keys, scheduled : BOOLEAN, todo : SUBSET (Contacts \cup Batches)]
Runner == [pc : {"load", "list", "next", "drop", "seek", "relink", "create", "link",
                 "publish", "touch", "error", "tally"},
           batch : Batches, todo : SUBSET Contacts, c : Contacts \cup {NoContact}]
User == [pc : {"reset", "set", "skip", "publish"}, kind : RequestKinds, seen : Status,
         n : 1 .. MaxRequests]

Fate == {"none", "queued", "sent", "delivered", "read", "failed"}

TypeOK ==
  /\ status \in Status
  /\ rcp \in [Contacts -> RecipientStatus]
  /\ linked \in [Contacts -> BOOLEAN]
  /\ msg \in [Contacts -> Fate] /\ row \in [Contacts -> Fate]
  /\ sending \in SUBSET Contacts /\ astray \in SUBSET Contacts
  /\ count \in [sent : Nat, delivered : Nat, read : Nat, failed : Nat]
  /\ ejob \in [Keys -> JobState]
  /\ flag \in BOOLEAN
  /\ bjob \in [Batches -> JobState]
  /\ check \in JobState
  /\ due \in BOOLEAN
  /\ found \in {"off", "looking", "due", "none"}
  /\ ex \in Executor \cup {IdleExecutor}
  /\ bw \in [Runners -> Runner \cup {IdleRunner}]
  /\ ev \in [Contacts -> [Events ->
             {"off", "mark", "find", "write", "count", "look", "tally", "complete"}]]
  /\ us \in [Users -> User \cup {IdleUser}]
  /\ requests \in 0 .. MaxRequests
  /\ audience \in SUBSET Contacts
  /\ ran \in BOOLEAN
  /\ faults \in 0 .. MaxFaults

(* However requests, delayed jobs, the safety net, batches and events      *)
(* interleave, the status moves only along the edges the state machine     *)
(* lists: no actor overwrites a status it has not seen, and a cancelled,   *)
(* failed or completed campaign stays so.                                  *)
StatusMoves == [][status' # status => status' \in VALID_TRANSITIONS[status]]_vars

(* A recipient's status never claims more than its message's fate: queued  *)
(* means there is a message, sent that WhatsApp has it, delivered that it  *)
(* arrived.  And until the campaign has been RUNNING there is nothing to   *)
(* claim: the execution jobs a schedule leaves behind create no recipient, *)
(* batch or message for a campaign cancelled before its time.              *)
RecipientsHonest ==
  /\ \A c \in Contacts :
       /\ linked[c] => msg[c] # "none"
       /\ rcp[c] = "QUEUED" => linked[c]
       /\ rcp[c] = "SENT" => msg[c] \in {"sent", "delivered", "read"}
       /\ rcp[c] = "DELIVERED" => msg[c] \in {"delivered", "read"}
  /\ ~ran => /\ \A c \in Contacts : rcp[c] = "NONE" /\ msg[c] = "none"
             /\ \A b \in Batches : bjob[b] = "none"

(* The progress counters never run ahead of the messages: repeated and     *)
(* overtaken receipts, crashes and errors count nothing twice, unless two  *)
(* receipts of a message were handled at once or its sender failed after   *)
(* the send: then its receipts pass the look at the row again.             *)
CountersHonest ==
  astray = {} =>
    /\ count.sent <= Cardinality({c \in Contacts : msg[c] \in {"sent", "delivered", "read"}})
    /\ count.delivered <= Cardinality({c \in Contacts : msg[c] \in {"delivered", "read"}})
    /\ count.read <= Cardinality({c \in Contacts : msg[c] = "read"})

(* A contact that was found deleted or opted out is never written to, and  *)
(* never counted as a failure, by a resume or a second execution.          *)
InvalidStays == [][\A c \in Contacts : rcp[c] = "INVALID" => rcp'[c] = "INVALID"]_vars

(* When a campaign is COMPLETED each contact of its audience has a         *)
(* recipient (the batches of inserts were not cut short), and none of them *)
(* is still to be sent or under way: the last event handler, not an        *)
(* earlier one, completes it, whatever the order the events arrive in.     *)
CompletedMeansDone ==
  status = "COMPLETED" =>
    /\ \A c \in audience : rcp[c] # "NONE"
    /\ \A c \in Contacts : rcp[c] \notin {"PENDING", "QUEUED"}

(* A campaign that runs comes to an end, or to a pause.                    *)
Finishes == status = "RUNNING" ~> status # "RUNNING"

=============================================================================
