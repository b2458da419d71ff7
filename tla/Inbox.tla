------------------------------- MODULE Inbox -------------------------------
(***************************************************************************)
(* Inbound messages of one conversation: the socket's handler that queues  *)
(* them, the worker that stores them one at a time, and the first-response *)
(* tracking of module Sla, which each of them may start.                   *)
(*                                                                         *)
(* WhatsApp may deliver a message again.  Every await is a point where the *)
(* actors interleave; a crash forgets their progress and keeps rows and    *)
(* jobs.  A job is named by its singletonKey, the WhatsApp message id: a   *)
(* publication takes no effect while that job waits or runs.  The session  *)
(* and the conversation exist.                                             *)
(***************************************************************************)
EXTENDS Sla, FiniteSets

CONSTANTS
  Handlers,       \* calls of the socket's handler under way together
  MaxDeliveries   \* bound: how often WhatsApp delivers anything

ASSUME InboxAssumption == MaxDeliveries \in Nat

VARIABLES
  deliveries,   \* deliveries so far
  inj,          \* PROCESS_INCOMING_MESSAGE jobs, by WhatsApp message id
  hd,           \* local state of each call of the handler
  iw,           \* local state of the worker
  rows,         \* message rows created for it
  wid,          \* messages whose row has the WhatsApp message id
  unread,       \* conversation.unreadCount
  torn,         \* history: a fault hit between the row and its id
  cut           \* history: a fault hit between the id and the evaluation

inboxVars == <<deliveries, inj, hd, iw, rows, wid, unread, torn, cut>>
vars == <<slaVars, faults, inboxVars>>

Init ==
  /\ SlaInit
  /\ deliveries = 0
  /\ inj = [m \in Messages |-> FreeJob]
  /\ hd = [h \in Handlers |-> Idle]
  /\ iw = Idle
  /\ rows = [m \in Messages |-> 0]
  /\ wid = {}
  /\ unread = 0
  /\ torn = {} /\ cut = {}

-----------------------------------------------------------------------------
(* HandleIncomingMessageUseCase                                            *)

\* findByWhatsAppMessageId: a message that is stored is not queued again.
Deliver(h, m) ==
  /\ hd[h].pc = "idle" /\ deliveries < MaxDeliveries
  /\ deliveries' = deliveries + 1
  /\ hd' = IF m \in wid THEN hd ELSE [hd EXCEPT ![h] = [pc |-> "queue", t |-> m]]
  /\ UNCHANGED <<slaVars, faults, inj, iw, rows, wid, unread, torn, cut>>

\* publishOnce.
Queue(h) == LET m == hd[h].t IN
  /\ hd[h].pc = "queue"
  /\ inj' = [inj EXCEPT ![m] = IF @.state \in {"created", "active"} THEN @ ELSE NewJob]
  /\ hd' = [hd EXCEPT ![h] = Idle]
  /\ UNCHANGED <<slaVars, faults, deliveries, iw, rows, wid, unread, torn, cut>>

-----------------------------------------------------------------------------
(* IncomingMessageWorker                                                   *)

Goto(l) == iw' = [iw EXCEPT !.pc = l]

\* Mutation: what is stored is stored again.
IFetchAgain(m) ==
  /\ iw.pc = "idle" /\ inj[m].state = "created"
  /\ inj' = [inj EXCEPT ![m].state = "active"]
  /\ iw' = [pc |-> "create", t |-> m]
  /\ UNCHANGED <<slaVars, faults, deliveries, hd, rows, wid, unread, torn, cut>>

\* Deduplication by the WhatsApp message id.
IFetch(m) ==
  /\ iw.pc = "idle" /\ inj[m].state = "created"
  /\ IF m \in wid
     THEN inj' = [inj EXCEPT ![m] = GoneJob] /\ UNCHANGED iw
     ELSE inj' = [inj EXCEPT ![m].state = "active"] /\ iw' = [pc |-> "create", t |-> m]
  /\ UNCHANGED <<slaVars, faults, deliveries, hd, rows, wid, unread, torn, cut>>

\* The conversation is found or created and the row is created, without the id ...
ICreate ==
  /\ iw.pc = "create"
  /\ rows' = [rows EXCEPT ![iw.t] = @ + 1]
  /\ Goto("identify")
  /\ UNCHANGED <<slaVars, faults, deliveries, inj, hd, wid, unread, torn, cut>>

\* ... which it gets next: setWhatsAppMessageId.
IIdentify ==
  /\ iw.pc = "identify"
  /\ wid' = wid \cup {iw.t}
  /\ Goto("count")
  /\ UNCHANGED <<slaVars, faults, deliveries, inj, hd, rows, unread, torn, cut>>

\* Mutation: the message is not counted.
ICountNot ==
  /\ iw.pc = "count"
  /\ Goto("evaluate")
  /\ UNCHANGED <<slaVars, faults, deliveries, inj, hd, rows, wid, unread, torn, cut>>

\* The event is recorded and updateLastMessage counts the message as unread.
ICount ==
  /\ iw.pc = "count"
  /\ unread' = unread + 1
  /\ Goto("evaluate")
  /\ UNCHANGED <<slaVars, faults, deliveries, inj, hd, rows, wid, torn, cut>>

\* The evaluation is queued; what follows only tells others and beats the heart.
IEvaluate ==
  /\ iw.pc = "evaluate"
  /\ Evaluates(iw.t)
  /\ inj' = [inj EXCEPT ![iw.t] = GoneJob]
  /\ iw' = Idle
  /\ UNCHANGED <<now, slaRows, esc, slaProcs, slaNotes, faults, deliveries, hd, rows, wid,
                 unread, torn, cut>>

IStep == ICreate \/ IIdentify \/ ICount \/ IEvaluate

\* The attempt at a message fails: the job runs again, and finds the row only if
\* it has its id by then.
IFails ==
  /\ inj' = [m \in Messages |-> IF inj[m].state = "active" THEN AfterFailure(inj[m]) ELSE inj[m]]
  /\ iw' = Idle
  /\ torn' = IF iw.pc = "identify" THEN torn \cup {iw.t} ELSE torn
  /\ cut' = IF iw.pc \in {"count", "evaluate"} THEN cut \cup {iw.t} ELSE cut

IThrow ==
  /\ Fault("db")
  /\ iw.pc # "idle"
  /\ IFails
  /\ UNCHANGED <<slaVars, deliveries, hd, rows, wid, unread>>

-----------------------------------------------------------------------------
Crash ==
  /\ Fault("crash")
  /\ SlaForgets
  /\ IFails
  /\ hd' = [h \in Handlers |-> Idle]
  /\ UNCHANGED <<deliveries, rows, wid, unread>>

Next ==
  \/ SlaNext /\ UNCHANGED inboxVars
  \/ \E h \in Handlers, m \in Messages : Deliver(h, m)
  \/ \E h \in Handlers : Queue(h)
  \/ \E m \in Messages : IFetch(m)
  \/ IStep \/ IThrow
  \/ Crash

Spec == Init /\ [][Next]_vars

(* Fairness: pg-boss fetches what waits, the cron publishes the check      *)
(* again and again, and the event loop runs every pending continuation.    *)
Fairness ==
  /\ \A m \in Messages : SF_vars(IFetch(m))
  /\ WF_vars(IStep)
  /\ WF_vars(CheckFind /\ UNCHANGED inboxVars)
  /\ WF_vars(CheckStep /\ UNCHANGED inboxVars)

FairSpec == Spec /\ Fairness
-----------------------------------------------------------------------------
TypeOK ==
  /\ SlaTypeOK
  /\ deliveries \in 0 .. MaxDeliveries
  /\ inj \in [Messages -> JobRecord]
  /\ hd \in [Handlers -> [pc : {"idle", "queue"}, t : Messages \cup {NoMsg}]]
  /\ iw \in [pc : {"idle", "create", "identify", "count", "evaluate"},
             t : Messages \cup {NoMsg}]
  /\ rows \in [Messages -> Nat]
  /\ wid \subseteq Messages
  /\ unread \in Nat
  /\ torn \subseteq Messages /\ cut \subseteq Messages

(* However often a message is delivered and its job is run, it is stored   *)
(* once, unless a fault hit between the row and its id.                    *)
StoredOnce == \A m \in Messages : rows[m] > 1 => m \in torn

(* Every stored message that the worker has left was counted as unread,    *)
(* exactly once, and had its SLA evaluated, unless a fault hit after its   *)
(* id was set: no later attempt makes up for what that one had left.       *)
Accounted ==
  /\ \A m \in wid \ cut : job[m] # FreeJob \/ iw.t = m
  /\ unread <= Cardinality(wid)
  /\ unread >= Cardinality({m \in wid \ cut : iw.t # m})

(* AC1, "no message is ever lost": a message that was queued is stored, as *)
(* long as its job has attempts left.                                      *)
NeverLost ==
  \A m \in Messages : inj[m].state = "created" ~> m \in wid \/ faults > RetryLimit
=============================================================================
