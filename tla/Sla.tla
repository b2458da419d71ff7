-------------------------------- MODULE Sla --------------------------------
(***************************************************************************)
(* First-response tracking of one conversation under one policy: the       *)
(* workers that evaluate inbound messages and replies, the check for       *)
(* breaches that runs every 30 seconds, the escalation of a breach and its *)
(* acknowledgement.                                                        *)
(*                                                                         *)
(* Evaluations run three at a time and in any order, checks and            *)
(* escalations one at a time; every await is a point where they            *)
(* interleave.  An evaluation job is named by the message it is about,     *)
(* which is its singletonKey; the tracking it creates has the idempotency  *)
(* key of that job.  Pauses, business hours and warnings are left out, and *)
(* so are trackings of resolution time: nothing ever creates one.          *)
(* The module is completed by Inbox, which stores the messages.            *)
(***************************************************************************)
EXTENDS Naturals

CONSTANTS
  Messages,     \* inbound messages of the conversation
  Replies,      \* replies sent in it
  Evaluators,   \* evaluations under way together
  Users,        \* acknowledgements under way together
  NoMsg,        \* "no message" in the local state of an actor
  Threshold,    \* policy.thresholdMs, on the clock
  MaxTime,      \* bound: the clock
  RetryLimit,   \* pg-boss: how often a job that failed runs again
  MaxFaults,    \* bound: faults in a run
  Faults        \* the kinds of fault that may occur: "crash", "db"

ASSUME SlaAssumption ==
  /\ Messages \cap Replies = {}
  /\ NoMsg \notin Messages \cup Replies
  /\ Threshold \in Nat /\ MaxTime \in Nat /\ RetryLimit \in Nat /\ MaxFaults \in Nat
  /\ Faults \subseteq {"crash", "db"}

Time == 0 .. MaxTime

VARIABLES
  now,       \* the clock
  job,       \* SLA_EVALUATE jobs, by the message they are about
  at,        \* messageCreatedAt of such a job
  track,     \* slaTracking rows, by the message that started them
  log,       \* slaBreachLog.status, by tracking
  esc,       \* SLA_ESCALATION jobs, by tracking
  ev,        \* local state of each evaluation
  ck,        \* local state of the breach check
  xw,        \* local state of the escalation worker
  us,        \* local state of each acknowledgement
  told,      \* breaches whose escalation was dispatched
  safe,      \* history: trackings answered while no check had them listed
  calm,      \* history: breaches acknowledged while no escalation was at them
  lost,      \* history: trackings whose breach a fault lost
  faults     \* history: faults so far

slaRows  == <<track, log, told>>
slaProcs == <<ev, ck, xw, us>>
slaNotes == <<safe, calm, lost>>
slaVars  == <<now, job, at, slaRows, esc, slaProcs, slaNotes>>

JobRecord == [state : {"free", "created", "active", "gone"}, tries : 0 .. RetryLimit]
FreeJob == [state |-> "free", tries |-> 0]
NewJob  == [state |-> "created", tries |-> 0]
GoneJob == [state |-> "gone", tries |-> 0]

IdleEvaluator == [pc |-> "idle", j |-> NoMsg, t |-> NoMsg]
IdleCheck     == [pc |-> "idle", todo |-> {}, t |-> NoMsg]
Idle          == [pc |-> "idle", t |-> NoMsg]

NoTracking == [s |-> "none", start |-> 0, breached |-> FALSE]

SlaInit ==
  /\ now = 0
  /\ job = [x \in Messages \cup Replies |-> FreeJob]
  /\ at = [x \in Messages \cup Replies |-> 0]
  /\ track = [m \in Messages |-> NoTracking]
  /\ log = [m \in Messages |-> "none"]
  /\ esc = [m \in Messages |-> FreeJob]
  /\ ev = [w \in Evaluators |-> IdleEvaluator]
  /\ ck = IdleCheck /\ xw = Idle
  /\ us = [u \in Users |-> Idle]
  /\ told = {} /\ safe = {} /\ calm = {} /\ lost = {}
  /\ faults = 0

-----------------------------------------------------------------------------
(* Shared steps                                                            *)

Fault(kind) ==
  /\ kind \in Faults
  /\ faults < MaxFaults
  /\ faults' = faults + 1

Tick ==
  /\ now < MaxTime
  /\ now' = now + 1
  /\ UNCHANGED <<job, at, slaRows, esc, slaProcs, slaNotes, faults>>

\* publishOnce of the evaluation of x, for the present moment.
Evaluates(x) ==
  /\ job' = [job EXCEPT ![x] = NewJob]
  /\ at' = [at EXCEPT ![x] = now]

\* Mutation: a failed job is not run again.
AfterFailureLost(r) == GoneJob

\* A handler of the job failed, or died: pg-boss runs it again, or has done so
\* often enough.
AfterFailure(r) ==
  IF r.tries < RetryLimit THEN [r EXCEPT !.state = "created", !.tries = @ + 1] ELSE GoneJob

\* SendMessageWorker: a reply is out, and has its SLA evaluated.
Reply(r) ==
  /\ job[r] = FreeJob
  /\ Evaluates(r)
  /\ UNCHANGED <<now, slaRows, esc, slaProcs, slaNotes, faults>>

-----------------------------------------------------------------------------
(* SlaEvaluateWorker                                                       *)

EFetch(w, j) ==
  /\ ev[w].pc = "idle" /\ job[j].state = "created"
  /\ job' = [job EXCEPT ![j].state = "active"]
  /\ ev' = [ev EXCEPT ![w] = [pc |-> "find", j |-> j, t |-> NoMsg]]
  /\ UNCHANGED <<now, at, slaRows, esc, ck, xw, us, slaNotes, faults>>

EDone(w) ==
  /\ job' = [job EXCEPT ![ev[w].j] = GoneJob]
  /\ ev' = [ev EXCEPT ![w] = IdleEvaluator]

\* findActiveTrackingByConversation: neither answered nor resolved, newest first.
Active == {m \in Messages : track[m].s = "active"}
Newest(m) == m \in Active /\ \A n \in Active : track[n].start <= track[m].start

\* handleInboundMessage: the conversation has a tracking, or gets one.
EFindInbound(w) ==
  /\ ev[w].pc = "find" /\ ev[w].j \in Messages
  /\ IF Active # {} THEN EDone(w) ELSE ev' = [ev EXCEPT ![w].pc = "upsert"] /\ UNCHANGED job
  /\ UNCHANGED <<now, at, slaRows, esc, ck, xw, us, slaNotes, faults>>

\* upsertTracking: what exists under the key stays as it is.
EUpsert(w) ==
  /\ ev[w].pc = "upsert"
  /\ track' = [track EXCEPT ![ev[w].j] =
       IF @.s = "none" THEN [s |-> "active", start |-> at[ev[w].j], breached |-> FALSE] ELSE @]
  /\ EDone(w)
  /\ UNCHANGED <<now, at, log, told, esc, ck, xw, us, slaNotes, faults>>

\* handleOutboundReply: the newest active tracking, if there is one, is answered.
EFindReply(w) ==
  /\ ev[w].pc = "find" /\ ev[w].j \in Replies
  /\ \/ Active = {} /\ EDone(w)
     \/ \E m \in Messages : /\ Newest(m)
                            /\ ev' = [ev EXCEPT ![w].pc = "update", ![w].t = m]
                            /\ UNCHANGED job
  /\ UNCHANGED <<now, at, slaRows, esc, ck, xw, us, slaNotes, faults>>

\* updateTracking: whatever has become of it since it was found.
EUpdate(w) == LET t == ev[w].t IN
  /\ ev[w].pc = "update"
  /\ track' = [track EXCEPT ![t].s = "answered",
                            ![t].breached = at[ev[w].j] > track[t].start + Threshold]
  /\ safe' = IF t \in ck.todo \/ t = ck.t THEN safe ELSE safe \cup {t}
  /\ EDone(w)
  /\ UNCHANGED <<now, at, log, told, esc, ck, xw, us, calm, lost, faults>>

EThrow(w) ==
  /\ Fault("db")
  /\ ev[w].pc # "idle"
  /\ job' = [job EXCEPT ![ev[w].j] = AfterFailure(@)]
  /\ ev' = [ev EXCEPT ![w] = IdleEvaluator]
  /\ UNCHANGED <<now, at, slaRows, esc, ck, xw, us, slaNotes>>

EStep(w) == EFindInbound(w) \/ EUpsert(w) \/ EFindReply(w) \/ EUpdate(w)

-----------------------------------------------------------------------------
(* SlaBreachCheckWorker                                                    *)

\* Mutation: an answered tracking is overdue as well.
OverdueAnswered(m) ==
  /\ track[m].s # "none" /\ ~ track[m].breached
  /\ track[m].start + Threshold <= now

\* findOverdueTrackings.
Overdue(m) ==
  /\ track[m].s = "active" /\ ~ track[m].breached
  /\ track[m].start + Threshold <= now

CheckGoto(l) == ck' = [ck EXCEPT !.pc = l]
CheckProceed == ck' = [ck EXCEPT !.pc = IF ck.todo = {} THEN "idle" ELSE "next", !.t = NoMsg]

CheckFind ==
  /\ ck.pc = "idle"
  /\ \E m \in Messages : Overdue(m)
  /\ ck' = [IdleCheck EXCEPT !.pc = "next", !.todo = {m \in Messages : Overdue(m)}]
  /\ UNCHANGED <<now, job, at, slaRows, esc, ev, xw, us, slaNotes, faults>>

CheckNext(m) ==
  /\ ck.pc = "next" /\ m \in ck.todo
  /\ ck' = [pc |-> "mark", todo |-> ck.todo \ {m}, t |-> m]
  /\ UNCHANGED <<now, job, at, slaRows, esc, ev, xw, us, slaNotes, faults>>

\* The tracking is marked first, ...
CheckMark ==
  /\ ck.pc = "mark"
  /\ track' = [track EXCEPT ![ck.t].breached = TRUE]
  /\ CheckGoto("log")
  /\ UNCHANGED <<now, job, at, log, told, esc, ev, xw, us, slaNotes, faults>>

\* Mutation: the breach is not logged.
CheckLogNot ==
  /\ ck.pc = "log"
  /\ CheckGoto("escalate")
  /\ UNCHANGED <<now, job, at, slaRows, esc, ev, xw, us, slaNotes, faults>>

\* ... then the breach is logged, once per tracking, ...
CheckLog ==
  /\ ck.pc = "log"
  /\ log' = [log EXCEPT ![ck.t] = IF @ = "none" THEN "ACTIVE" ELSE @]
  /\ CheckGoto("escalate")
  /\ UNCHANGED <<now, job, at, track, told, esc, ev, xw, us, slaNotes, faults>>

\* ... and its escalation is queued.
CheckEscalate ==
  /\ ck.pc = "escalate"
  /\ esc' = [esc EXCEPT ![ck.t] = IF @.state \in {"free", "gone"} THEN NewJob ELSE @]
  /\ CheckProceed
  /\ UNCHANGED <<now, job, at, slaRows, ev, xw, us, slaNotes, faults>>

\* A fault here leaves the tracking marked and its breach unlogged, and nobody
\* will find it again.
Loses == IF ck.pc = "log" THEN lost \cup {ck.t} ELSE lost

\* Each tracking is handled in a try block of its own.
CheckThrow ==
  /\ Fault("db")
  /\ ck.pc \in {"mark", "log", "escalate"}
  /\ CheckProceed
  /\ lost' = Loses
  /\ UNCHANGED <<now, job, at, slaRows, esc, ev, xw, us, safe, calm>>

CheckStep ==
  \/ \E m \in Messages : CheckNext(m)
  \/ CheckMark \/ CheckLog \/ CheckEscalate

-----------------------------------------------------------------------------
(* SlaEscalationWorker and AcknowledgeSlaBreachUseCase                     *)

\* Mutation: the breach is not asked whether it is still active.
XFetchAny(t) ==
  /\ xw.pc = "idle" /\ esc[t].state = "created"
  /\ esc' = [esc EXCEPT ![t].state = "active"]
  /\ xw' = [pc |-> "dispatch", t |-> t]
  /\ UNCHANGED <<now, job, at, slaRows, ev, ck, us, slaNotes, faults>>

\* A delay is an earliest moment; the breach has to be ACTIVE then.
XFetch(t) ==
  /\ xw.pc = "idle" /\ esc[t].state = "created"
  /\ IF log[t] = "ACTIVE"
     THEN /\ esc' = [esc EXCEPT ![t].state = "active"]
          /\ xw' = [pc |-> "dispatch", t |-> t]
     ELSE esc' = [esc EXCEPT ![t] = GoneJob] /\ UNCHANGED xw
  /\ UNCHANGED <<now, job, at, slaRows, ev, ck, us, slaNotes, faults>>

XDispatch ==
  /\ xw.pc = "dispatch"
  /\ told' = told \cup {xw.t}
  /\ esc' = [esc EXCEPT ![xw.t] = GoneJob]
  /\ xw' = Idle
  /\ UNCHANGED <<now, job, at, track, log, ev, ck, us, slaNotes, faults>>

XThrow ==
  /\ Fault("db")
  /\ xw.pc = "dispatch"
  /\ esc' = [esc EXCEPT ![xw.t] = AfterFailure(@)]
  /\ xw' = Idle
  /\ UNCHANGED <<now, job, at, slaRows, ev, ck, us, slaNotes>>

AskAcknowledge(u, t) ==
  /\ us[u].pc = "idle" /\ log[t] = "ACTIVE"
  /\ us' = [us EXCEPT ![u] = [pc |-> "acknowledge", t |-> t]]
  /\ UNCHANGED <<now, job, at, slaRows, esc, ev, ck, xw, slaNotes, faults>>

Acknowledge(u) == LET t == us[u].t IN
  /\ us[u].pc = "acknowledge"
  /\ log' = [log EXCEPT ![t] = "ACKNOWLEDGED"]
  /\ calm' = IF xw.t = t THEN calm ELSE calm \cup {t}
  /\ us' = [us EXCEPT ![u] = Idle]
  /\ UNCHANGED <<now, job, at, track, told, esc, ev, ck, xw, safe, lost, faults>>

-----------------------------------------------------------------------------
\* The part of a crash that concerns this module: jobs under way run again.
SlaForgets ==
  /\ job' = [x \in Messages \cup Replies |->
       IF job[x].state = "active" THEN AfterFailure(job[x]) ELSE job[x]]
  /\ esc' = [m \in Messages |->
       IF esc[m].state = "active" THEN AfterFailure(esc[m]) ELSE esc[m]]
  /\ ev' = [w \in Evaluators |-> IdleEvaluator]
  /\ ck' = IdleCheck /\ xw' = Idle
  /\ us' = [u \in Users |-> Idle]
  /\ lost' = Loses
  /\ UNCHANGED <<now, at, slaRows, safe, calm>>

SlaNext ==
  \/ Tick
  \/ \E r \in Replies : Reply(r)
  \/ \E w \in Evaluators, j \in Messages \cup Replies : EFetch(w, j)
  \/ \E w \in Evaluators : EStep(w) \/ EThrow(w)
  \/ CheckFind \/ CheckStep \/ CheckThrow
  \/ \E t \in Messages : XFetch(t)
  \/ XDispatch \/ XThrow
  \/ \E u \in Users, t \in Messages : AskAcknowledge(u, t)
  \/ \E u \in Users : Acknowledge(u)

-----------------------------------------------------------------------------
SlaTypeOK ==
  /\ now \in Time
  /\ job \in [Messages \cup Replies -> JobRecord]
  /\ at \in [Messages \cup Replies -> Time]
  /\ track \in [Messages -> [s : {"none", "active", "answered"}, start : Time,
                             breached : BOOLEAN]]
  /\ log \in [Messages -> {"none", "ACTIVE", "ACKNOWLEDGED"}]
  /\ esc \in [Messages -> JobRecord]
  /\ ev \in [Evaluators -> [pc : {"idle", "find", "upsert", "update"},
                            j : Messages \cup Replies \cup {NoMsg},
                            t : Messages \cup {NoMsg}]]
  /\ ck \in [pc : {"idle", "next", "mark", "log", "escalate"}, todo : SUBSET Messages,
             t : Messages \cup {NoMsg}]
  /\ xw \in [pc : {"idle", "dispatch"}, t : Messages \cup {NoMsg}]
  /\ us \in [Users -> [pc : {"idle", "acknowledge"}, t : Messages \cup {NoMsg}]]
  /\ told \subseteq Messages /\ safe \subseteq Messages
  /\ calm \subseteq Messages /\ lost \subseteq Messages
  /\ faults \in 0 .. MaxFaults

(* A customer who was answered, before a run of the check had listed the   *)
(* tracking as overdue, is never reported as a breach.                     *)
AnsweredHolds ==
  [][\A t \in Messages : t \in safe /\ log[t] = "none" => log'[t] = "none"]_slaVars

(* A breach that is acknowledged before its escalation has read it is      *)
(* never escalated, however often the job is run.                          *)
AcknowledgedHolds ==
  [][\A t \in Messages : t \in calm /\ t \notin told => t \notin told']_slaVars

(* A tracking that stays unanswered past its deadline is reported, unless  *)
(* a fault hit between the mark and the log.                               *)
BreachReported ==
  \A t \in Messages : Overdue(t) ~> log[t] # "none" \/ track[t].s = "answered" \/ t \in lost
=============================================================================
