------------------------------ MODULE Sequence ------------------------------
(***************************************************************************)
(* Drip sequences of one organisation: the requests that start, pause,     *)
(* resume and cancel them, the check that looks for recipients whose next  *)
(* step is due, and the step workers that create a step's message and      *)
(* advance the recipient.                                                  *)
(*                                                                         *)
(* A contact's reply changes none of this: the handler that should send    *)
(* the recipient to another step, or out of the sequence, returns at its   *)
(* first line, because no event it listens to names the contact.  So       *)
(* replies are left out, no recipient is EXITED, and currentStep changes   *)
(* by advancing alone.                                                     *)
(*                                                                         *)
(* Every await is a point where the actors interleave; a crash forgets     *)
(* their progress and keeps rows and jobs.  nextStepAt is abstracted to    *)
(* "none", "wait" (in the future) or "due", and the order by nextStepAt to *)
(* the order in which recipients become due.  A message that was created   *)
(* goes out (module Outbound, Settles), so that creating it stands for     *)
(* sending it.  The sequence's counters are only displayed and left out.   *)
(***************************************************************************)
EXTENDS Naturals, Sequences, SequencesExt

CONSTANTS
  SequenceIds,   \* the organisation's sequences
  Recipients,    \* contacts enrolled in one of them
  SequenceOf(_), \* the sequence of a recipient
  Workers,       \* concurrent step handlers
  Users,         \* requests that may be under way together
  None,          \* "no recipient", "no sequence" in the local state of an actor
  Steps,         \* the number of steps of a sequence
  CheckLimit,    \* recipients a check looks at (100)
  MaxRequests,   \* bound: requests in a run
  MaxFaults,     \* bound: crashes and database errors together
  Faults         \* the kinds of fault that may occur: "crash", "db"

ASSUME SequenceAssumption ==
  /\ \A r \in Recipients : SequenceOf(r) \in SequenceIds
  /\ None \notin Recipients \cup SequenceIds
  /\ Steps \in Nat \ {0}
  /\ CheckLimit \in Nat /\ MaxRequests \in Nat
  /\ MaxFaults \in 0 .. 2   \* retryLimit: 2
  /\ Faults \subseteq {"crash", "db"}

SequenceStatus == {"DRAFT", "ACTIVE", "PAUSED", "CANCELLED"}
RecipientStatus == {"NONE", "ACTIVE", "COMPLETED"}
JobState == {"none", "created", "active"}
Index == 0 .. Steps

VARIABLES
  seq,       \* sequence.status
  rcp,       \* recipient.status; NONE: not enrolled
  cur,       \* recipient.currentStep: the next step to send
  at,        \* recipient.nextStepAt: "none", "wait" or "due"
  line,      \* the due ACTIVE recipients, the most overdue one first
  msg,       \* steps whose message exists, by its idempotency key
  job,       \* step jobs, by their singletonKey: recipient and currentStep
  check,     \* the check's job
  chk,       \* the check's handler: "off", "look", or what is left to publish
  wk,        \* local state of each step handler
  us,        \* local state of each request
  requests,  \* requests so far
  quiet,     \* history: the sequence was stopped while nothing of it was under way
  hit,       \* history: a fault hit a worker between creating and advancing
  faults     \* history: faults so far

rows  == <<seq, rcp, cur, at, line>>
procs == <<chk, wk, us>>
notes == <<quiet, hit>>
vars  == <<rows, msg, job, check, procs, requests, notes, faults>>

IdleCheck   == [pc |-> "off", todo |-> {}]
IdleWorker  == [pc |-> "idle", r |-> None, k |-> 0, n |-> 0]
IdleUser    == [pc |-> "idle", s |-> None, to |-> "DRAFT"]

Init ==
  /\ seq = [s \in SequenceIds |-> "DRAFT"]
  /\ rcp = [r \in Recipients |-> "NONE"]
  /\ cur = [r \in Recipients |-> 0]
  /\ at = [r \in Recipients |-> "none"]
  /\ line = <<>>
  /\ msg = [r \in Recipients |-> {}]
  /\ job = [r \in Recipients |-> [k \in Index |-> "none"]]
  /\ check = "created"
  /\ chk = IdleCheck
  /\ wk = [w \in Workers |-> IdleWorker]
  /\ us = [u \in Users |-> IdleUser]
  /\ requests = 0
  /\ quiet = [s \in SequenceIds |-> FALSE]
  /\ hit = [r \in Recipients |-> FALSE]
  /\ faults = 0

-----------------------------------------------------------------------------
(* Shared steps                                                            *)

Fault(kind) ==
  /\ kind \in Faults
  /\ faults < MaxFaults
  /\ faults' = faults + 1

\* publishOnce: no effect while such a job waits or runs.
Offered(state) == IF state = "none" THEN "created" ELSE state

\* The line holds whom check and workers find: ACTIVE and due, each of them once.
Leaves(r) ==
  IF r \in ToSet(line)
  THEN \E i \in DOMAIN line : line[i] = r /\ line' = RemoveAt(line, i)
  ELSE UNCHANGED line

\* The recipient's next step comes due.
Due(r) ==
  /\ rcp[r] = "ACTIVE" /\ at[r] = "wait"
  /\ at' = [at EXCEPT ![r] = "due"]
  /\ line' = Append(line, r)
  /\ UNCHANGED <<seq, rcp, cur, msg, job, check, procs, requests, notes, faults>>

\* completeRecipient: whatever the status was.
Completes(r) ==
  /\ rcp' = [rcp EXCEPT ![r] = "COMPLETED"]
  /\ at' = [at EXCEPT ![r] = "none"]
  /\ Leaves(r)

\* advanceRecipient: whatever the step was.
MovesTo(r, n, next) ==
  /\ cur' = [cur EXCEPT ![r] = n]
  /\ at' = [at EXCEPT ![r] = next]
  /\ Leaves(r)

-----------------------------------------------------------------------------
(* SequencesController: find, check the status, write it                   *)

Target == [start |-> "ACTIVE", pause |-> "PAUSED", resume |-> "ACTIVE", cancel |-> "CANCELLED"]
From == [start |-> {"DRAFT"}, pause |-> {"ACTIVE"}, resume |-> {"PAUSED"},
         cancel |-> {"DRAFT", "ACTIVE", "PAUSED"}]

Ask(u, s, kind) ==
  /\ us[u].pc = "idle" /\ requests < MaxRequests
  /\ seq[s] \in From[kind]
  /\ us' = [us EXCEPT ![u] = [pc |-> IF kind = "start" THEN "enroll" ELSE "set",
                              s |-> s, to |-> Target[kind]]]
  /\ requests' = requests + 1
  /\ UNCHANGED <<rows, msg, job, check, chk, wk, notes, faults>>

\* bulkEnrollRecipients: those already enrolled are skipped.
Enroll(u) ==
  /\ us[u].pc = "enroll"
  /\ LET new == {r \in Recipients : SequenceOf(r) = us[u].s /\ rcp[r] = "NONE"} IN
     /\ rcp' = [r \in Recipients |-> IF r \in new THEN "ACTIVE" ELSE rcp[r]]
     /\ at' = [r \in Recipients |-> IF r \in new THEN "wait" ELSE at[r]]
  /\ us' = [us EXCEPT ![u].pc = "set"]
  /\ UNCHANGED <<seq, cur, line, msg, job, check, chk, wk, requests, notes, faults>>

\* Nothing of the sequence is queued, listed by the check, or at a worker.
Resting(s) ==
  \A r \in Recipients : SequenceOf(r) = s =>
    /\ \A k \in Index : job[r][k] = "none"
    /\ \A t \in chk.todo : t[1] # r

\* updateStatus: the write does not look at the status again.
SetStatus(u) == LET s == us[u].s IN
  /\ us[u].pc = "set"
  /\ seq' = [seq EXCEPT ![s] = us[u].to]
  /\ quiet' = [quiet EXCEPT ![s] = us[u].to # "ACTIVE" /\ Resting(s)]
  /\ us' = [us EXCEPT ![u] = IdleUser]
  /\ UNCHANGED <<rcp, cur, at, line, msg, job, check, chk, wk, requests, hit, faults>>

UserThrow(u) ==
  /\ Fault("db")
  /\ us[u].pc # "idle"
  /\ us' = [us EXCEPT ![u] = IdleUser]
  /\ UNCHANGED <<rows, msg, job, check, chk, wk, requests, notes>>

UserStep(u) == Enroll(u) \/ SetStatus(u)

-----------------------------------------------------------------------------
(* SequenceStepWorker.checkDueSteps                                        *)

FetchCheck ==
  /\ check = "created" /\ chk.pc = "off"
  /\ check' = "active"
  /\ chk' = [IdleCheck EXCEPT !.pc = "look"]
  /\ UNCHANGED <<rows, msg, job, wk, us, requests, notes, faults>>

\* The first hundred in the line; those of stopped sequences are dropped only
\* afterwards.
Looked == {line[i] : i \in {j \in DOMAIN line : j <= CheckLimit}}

\* Mutation: the sequence's status is not looked at.
EligibleAny == {<<r, cur[r]>> : r \in Looked}
Eligible == {<<r, cur[r]>> : r \in {q \in Looked : seq[SequenceOf(q)] = "ACTIVE"}}

Look ==
  /\ chk.pc = "look"
  /\ chk' = [pc |-> "publish", todo |-> Eligible]
  /\ UNCHANGED <<rows, msg, job, check, wk, us, requests, notes, faults>>

PublishStep(t) ==
  /\ chk.pc = "publish" /\ t \in chk.todo
  /\ job' = [job EXCEPT ![t[1]][t[2]] = Offered(@)]
  /\ chk' = [chk EXCEPT !.todo = @ \ {t}]
  /\ UNCHANGED <<rows, msg, check, wk, us, requests, notes, faults>>

\* The next check has the key of this one and takes effect only once the 30
\* seconds of singletonSeconds that this one was created in are over.
FinishCheck ==
  /\ chk.pc = "publish" /\ chk.todo = {}
  /\ check' \in {"none", "created"}
  /\ chk' = IdleCheck
  /\ UNCHANGED <<rows, msg, job, wk, us, requests, notes, faults>>

\* retryLimit 0: a check that fails is the last one.
CheckThrow ==
  /\ Fault("db")
  /\ chk.pc # "off"
  /\ check' = "none"
  /\ chk' = IdleCheck
  /\ UNCHANGED <<rows, msg, job, wk, us, requests, notes>>

CheckStep == Look \/ (\E t \in chk.todo : PublishStep(t)) \/ FinishCheck

-----------------------------------------------------------------------------
(* SequenceStepWorker.sendStep                                             *)

Goto(w, l) == wk' = [wk EXCEPT ![w].pc = l]

\* The handler returns and its job completes.
Return(w) ==
  /\ wk' = [wk EXCEPT ![w] = IdleWorker]
  /\ job' = [job EXCEPT ![wk[w].r][wk[w].k] = "none"]

Fetch(w, r, k) ==
  /\ wk[w].pc = "idle"
  /\ job[r][k] = "created"
  /\ job' = [job EXCEPT ![r][k] = "active"]
  /\ wk' = [wk EXCEPT ![w] = [pc |-> "load", r |-> r, k |-> k, n |-> 0]]
  /\ UNCHANGED <<rows, msg, check, chk, us, requests, notes, faults>>

\* "Re-fetch recipient": the query returns the organisation's most overdue
\* recipient, and the handler goes on only if it is the one of its job.  The
\* sequence's status is not looked at.  A recipient with no step left would be
\* completed; none is due, because nothing but Advance writes currentStep.
Load(w) == LET r == wk[w].r IN
  /\ wk[w].pc = "load"
  /\ IF line # <<>> /\ Head(line) = r
     THEN /\ wk' = [wk EXCEPT ![w].pc = IF cur[r] < Steps THEN "create" ELSE "complete",
                              ![w].n = cur[r]]
          /\ UNCHANGED job
     ELSE Return(w)
  /\ UNCHANGED <<rows, msg, check, chk, us, requests, notes, faults>>

\* Create the message, the step's row, and the send job.  The idempotency key
\* is unique: when the message exists the insert throws, the catch block logs
\* it, and the job completes.
Create(w) == LET r == wk[w].r IN
  /\ wk[w].pc = "create"
  /\ IF wk[w].n \in msg[r]
     THEN Return(w) /\ UNCHANGED msg
     ELSE /\ msg' = [msg EXCEPT ![r] = @ \cup {wk[w].n}]
          /\ Goto(w, "advance") /\ UNCHANGED job
  /\ UNCHANGED <<rows, check, chk, us, requests, notes, faults>>

\* Mutation: the step index moves on by two.
AdvanceTwo(w) == LET r == wk[w].r n == wk[w].n + 2 IN
  /\ wk[w].pc = "advance"
  /\ MovesTo(r, IF n < Steps THEN n ELSE Steps, IF n < Steps THEN "wait" ELSE "none")
  /\ IF n < Steps THEN Return(w) ELSE Goto(w, "complete") /\ UNCHANGED job
  /\ UNCHANGED <<seq, rcp, msg, check, chk, us, requests, notes, faults>>

\* Mutation: the last step does not complete the recipient.
AdvanceOnly(w) == LET r == wk[w].r n == wk[w].n + 1 IN
  /\ wk[w].pc = "advance"
  /\ MovesTo(r, n, IF n < Steps THEN "wait" ELSE "none")
  /\ Return(w)
  /\ UNCHANGED <<seq, rcp, msg, check, chk, us, requests, notes, faults>>

\* advanceRecipient, to what was loaded plus one.
Advance(w) == LET r == wk[w].r n == wk[w].n + 1 IN
  /\ wk[w].pc = "advance"
  /\ MovesTo(r, n, IF n < Steps THEN "wait" ELSE "none")
  /\ IF n < Steps THEN Return(w) ELSE Goto(w, "complete") /\ UNCHANGED job
  /\ UNCHANGED <<seq, rcp, msg, check, chk, us, requests, notes, faults>>

Complete(w) ==
  /\ wk[w].pc = "complete"
  /\ Completes(wk[w].r)
  /\ Return(w)
  /\ UNCHANGED <<seq, cur, msg, check, chk, us, requests, notes, faults>>

\* The catch-all: an error inside the try block ends the job as done.
Catch(w) ==
  /\ Fault("db")
  /\ wk[w].pc \in {"create", "advance", "complete"}
  /\ hit' = [hit EXCEPT ![wk[w].r] = @ \/ wk[w].pc # "create"]
  /\ Return(w)
  /\ UNCHANGED <<rows, msg, check, chk, us, requests, quiet>>

\* An error outside it: pg-boss runs the job again.
Throw(w) ==
  /\ Fault("db")
  /\ wk[w].pc = "load"
  /\ wk' = [wk EXCEPT ![w] = IdleWorker]
  /\ job' = [job EXCEPT ![wk[w].r][wk[w].k] = "created"]
  /\ UNCHANGED <<rows, msg, check, chk, us, requests, notes>>

WorkerStep(w) == Load(w) \/ Create(w) \/ Advance(w) \/ Complete(w)

-----------------------------------------------------------------------------
\* The process dies and starts again: step jobs expire and are retried, the
\* check that ran is gone, and onModuleInit offers a new one.
Crash ==
  /\ Fault("crash")
  /\ chk' = IdleCheck
  /\ wk' = [w \in Workers |-> IdleWorker]
  /\ us' = [u \in Users |-> IdleUser]
  /\ job' = [r \in Recipients |-> [k \in Index |->
               IF job[r][k] = "active" THEN "created" ELSE job[r][k]]]
  /\ check' = "created"
  /\ hit' = [r \in Recipients |->
               hit[r] \/ \E w \in Workers : wk[w].r = r /\ wk[w].pc \in {"advance", "complete"}]
  /\ UNCHANGED <<rows, msg, requests, quiet>>

Next ==
  \/ \E r \in Recipients : Due(r)
  \/ \E u \in Users, s \in SequenceIds, kind \in DOMAIN From : Ask(u, s, kind)
  \/ \E u \in Users : UserStep(u) \/ UserThrow(u)
  \/ FetchCheck \/ CheckStep \/ CheckThrow
  \/ \E w \in Workers, r \in Recipients, k \in Index : Fetch(w, r, k)
  \/ \E w \in Workers : WorkerStep(w) \/ Catch(w) \/ Throw(w)
  \/ Crash

Spec == Init /\ [][Next]_vars
-----------------------------------------------------------------------------
TypeOK ==
  /\ seq \in [SequenceIds -> SequenceStatus]
  /\ rcp \in [Recipients -> RecipientStatus]
  /\ cur \in [Recipients -> Index]
  /\ at \in [Recipients -> {"none", "wait", "due"}]
  /\ msg \in [Recipients -> SUBSET (0 .. Steps - 1)]
  /\ job \in [Recipients -> [Index -> JobState]]
  /\ check \in JobState
  /\ chk \in [pc : {"off", "look", "publish"}, todo : SUBSET (Recipients \X Index)]
  /\ wk \in [Workers -> [pc : {"load", "create", "advance", "complete"},
                         r : Recipients, k : Index, n : Index] \cup {IdleWorker}]
  /\ us \in [Users -> [pc : {"enroll", "set"}, s : SequenceIds, to : SequenceStatus]
                      \cup {IdleUser}]
  /\ requests \in 0 .. MaxRequests
  /\ quiet \in [SequenceIds -> BOOLEAN]
  /\ hit \in [Recipients -> BOOLEAN]
  /\ faults \in 0 .. MaxFaults

(* No step is passed over: every step before the current one has its       *)
(* message, and COMPLETED means all of them, however many jobs of the      *)
(* recipient run at once.                                                  *)
StepsAccounted ==
  \A r \in Recipients :
    /\ \A k \in 0 .. Steps - 1 : k < cur[r] => k \in msg[r]
    /\ rcp[r] = "COMPLETED" => cur[r] = Steps

(* A sequence that is paused or cancelled while nothing of it is under way *)
(* sends nothing until it is active again, although its recipients stay    *)
(* ACTIVE and due: only the check looks at the sequence's status.          *)
StopHolds ==
  [][\A r \in Recipients : quiet[SequenceOf(r)] => msg'[r] = msg[r]]_vars

(* A recipient is never left where no worker can take it on, with the      *)
(* message of its step sent, or with no step to come, except by a fault    *)
(* between sending and advancing.                                          *)
Stuck(r) ==
  /\ rcp[r] = "ACTIVE"
  /\ cur[r] \in msg[r] \/ at[r] = "none"
  /\ \A w \in Workers : wk[w].r = r => wk[w].pc \notin {"advance", "complete"}
StuckByFault == \A r \in Recipients : Stuck(r) => hit[r]
=============================================================================
