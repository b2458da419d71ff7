----------------------------- MODULE InboxProofs -----------------------------
(***************************************************************************)
(* Theorems about inbound messages and their first-response tracking, for  *)
(* any number of messages, replies, evaluations, acknowledgements and      *)
(* deliveries, and any faults.                                             *)
(***************************************************************************)
EXTENDS Inbox, FiniteSetTheorems, TLAPS

Things == Messages \cup Replies
EvRecord == [pc : {"idle", "find", "upsert", "update"}, j : Things \cup {NoMsg},
             t : Messages \cup {NoMsg}]
CkRecord == [pc : {"idle", "next", "mark", "log", "escalate"}, todo : SUBSET Messages,
             t : Messages \cup {NoMsg}]
XwRecord == [pc : {"idle", "dispatch"}, t : Messages \cup {NoMsg}]
UsRecord == [pc : {"idle", "acknowledge"}, t : Messages \cup {NoMsg}]
Tracking == [s : {"none", "active", "answered"}, start : Time, breached : BOOLEAN]
HdRecord == [pc : {"idle", "queue"}, t : Messages \cup {NoMsg}]
IwRecord == [pc : {"idle", "create", "identify", "count", "evaluate"}, t : Messages \cup {NoMsg}]

\* An actor that is at work is at something.
AtWork ==
  /\ \A w \in Evaluators :
       /\ ev[w].pc # "idle" => ev[w].j \in Things
       /\ ev[w].pc = "upsert" => ev[w].j \in Messages
       /\ ev[w].pc = "update" => ev[w].t \in Messages
  /\ ck.pc \in {"mark", "log", "escalate"} => ck.t \in Messages
  /\ xw.pc = "dispatch" => xw.t \in Messages
  /\ \A u \in Users : us[u].pc = "acknowledge" => us[u].t \in Messages
  /\ \A h \in Handlers : hd[h].pc = "queue" => hd[h].t \in Messages
  /\ iw.pc # "idle" => iw.t \in Messages

TypeInv == TypeOK /\ AtWork

JobType == job \in [Things -> JobRecord] /\ at \in [Things -> Time]
EvType ==
  /\ ev \in [Evaluators -> EvRecord]
  /\ \A w \in Evaluators :
       /\ ev[w].pc # "idle" => ev[w].j \in Things
       /\ ev[w].pc = "upsert" => ev[w].j \in Messages
       /\ ev[w].pc = "update" => ev[w].t \in Messages
CkType == ck \in CkRecord /\ (ck.pc \in {"mark", "log", "escalate"} => ck.t \in Messages)
XwType == xw \in XwRecord /\ (xw.pc = "dispatch" => xw.t \in Messages)
UsType ==
  /\ us \in [Users -> UsRecord]
  /\ \A u \in Users : us[u].pc = "acknowledge" => us[u].t \in Messages
RowType ==
  /\ track \in [Messages -> Tracking] /\ log \in [Messages -> {"none", "ACTIVE", "ACKNOWLEDGED"}]
  /\ told \subseteq Messages /\ esc \in [Messages -> JobRecord]
NoteType == safe \subseteq Messages /\ calm \subseteq Messages /\ lost \subseteq Messages
InjType == inj \in [Messages -> JobRecord]
WorkType ==
  /\ hd \in [Handlers -> HdRecord] /\ iw \in IwRecord
  /\ \A h \in Handlers : hd[h].pc = "queue" => hd[h].t \in Messages
  /\ iw.pc # "idle" => iw.t \in Messages
StoreType ==
  /\ rows \in [Messages -> Nat] /\ wid \subseteq Messages /\ unread \in Nat
  /\ torn \subseteq Messages /\ cut \subseteq Messages
CountType == now \in Time /\ faults \in 0 .. MaxFaults /\ deliveries \in 0 .. MaxDeliveries

\* The type invariant by parts, and that of the next state.
LEMMA Parts ==
  /\ TypeInv <=> /\ JobType /\ EvType /\ CkType /\ XwType /\ UsType /\ RowType /\ NoteType
                 /\ InjType /\ WorkType /\ StoreType /\ CountType
  /\ TypeInv' <=> /\ JobType' /\ EvType' /\ CkType' /\ XwType' /\ UsType' /\ RowType'
                  /\ NoteType' /\ InjType' /\ WorkType' /\ StoreType' /\ CountType'
<1> USE DEF TypeInv, AtWork, TypeOK, SlaTypeOK, JobType, EvType, CkType, XwType, UsType, RowType,
    NoteType, InjType, WorkType, StoreType, CountType, Things, EvRecord, CkRecord, XwRecord,
    UsRecord, Tracking, HdRecord, IwRecord
<1>1. TypeInv <=> /\ JobType /\ EvType /\ CkType /\ XwType /\ UsType /\ RowType /\ NoteType
                  /\ InjType /\ WorkType /\ StoreType /\ CountType
  OBVIOUS
<1>2. TypeInv' <=> /\ JobType' /\ EvType' /\ CkType' /\ XwType' /\ UsType' /\ RowType'
                   /\ NoteType' /\ InjType' /\ WorkType' /\ StoreType' /\ CountType'
  OBVIOUS
<1>3. QED  BY <1>1, <1>2

LEMMA JobConstants ==
  ASSUME SlaAssumption
  PROVE  FreeJob \in JobRecord /\ NewJob \in JobRecord /\ GoneJob \in JobRecord
BY DEF SlaAssumption, FreeJob, NewJob, GoneJob, JobRecord

LEMMA AfterFailureType ==
  ASSUME SlaAssumption, NEW r \in JobRecord PROVE AfterFailure(r) \in JobRecord
<1>1. CASE r.tries < RetryLimit
  <2>1. r.tries + 1 \in 0 .. RetryLimit  BY <1>1 DEF SlaAssumption, JobRecord
  <2>2. [r EXCEPT !.state = "created", !.tries = r.tries + 1] \in JobRecord
    BY <2>1 DEF JobRecord
  <2>3. QED  BY <1>1, <2>2 DEF AfterFailure
<1>2. QED  BY <1>1, JobConstants DEF AfterFailure

LEMMA TypeInit == ASSUME SlaAssumption, InboxAssumption, Init PROVE TypeInv
<1>1. JobType /\ InjType
  BY JobConstants DEF Init, SlaInit, JobType, InjType, Things, Time, SlaAssumption
<1>2. EvType /\ CkType /\ XwType /\ UsType
  BY DEF Init, SlaInit, EvType, CkType, XwType, UsType, EvRecord, CkRecord, XwRecord, UsRecord,
     IdleEvaluator, IdleCheck, Idle
<1>3. RowType
  BY JobConstants DEF Init, SlaInit, RowType, NoTracking, Tracking, Time, SlaAssumption
<1>4. NoteType /\ WorkType /\ StoreType
  BY DEF Init, SlaInit, NoteType, WorkType, StoreType, HdRecord, IwRecord, Idle
<1>5. CountType
  BY DEF Init, SlaInit, CountType, Time, SlaAssumption, InboxAssumption
<1>6. QED  BY <1>1, <1>2, <1>3, <1>4, <1>5, Parts

\* Setting one job, one evaluation.
LEMMA JobSet ==
  ASSUME JobType, NEW x, NEW r \in JobRecord, job' = [job EXCEPT ![x] = r], UNCHANGED at
  PROVE  JobType'
BY DEF JobType

LEMMA EvSet ==
  ASSUME EvType, NEW w \in Evaluators, NEW x \in EvRecord, ev' = [ev EXCEPT ![w] = x],
         x.pc # "idle" => x.j \in Things,
         x.pc = "upsert" => x.j \in Messages,
         x.pc = "update" => x.t \in Messages
  PROVE  EvType'
BY DEF EvType

LEMMA IdleEv == IdleEvaluator \in EvRecord /\ IdleEvaluator.pc = "idle"
BY DEF EvRecord, IdleEvaluator

LEMMA EvaluatorType ==
  ASSUME SlaAssumption, TypeInv, NEW w \in Evaluators,
         EStep(w) \/ EThrow(w) \/ \E j \in Things : EFetch(w, j)
  PROVE  JobType' /\ EvType' /\ track' \in [Messages -> Tracking] /\ safe' \subseteq Messages
         /\ faults' \in 0 .. MaxFaults
         /\ UNCHANGED <<now, log, told, esc, ck, xw, us, calm, lost>>
<1> USE DEF slaRows, slaNotes
<1>1. JobType /\ EvType /\ RowType /\ NoteType /\ CountType  BY Parts
<1>2. /\ ev \in [Evaluators -> EvRecord] /\ track \in [Messages -> Tracking]
      /\ at \in [Things -> Time] /\ Messages \subseteq Things
  BY <1>1 DEF EvType, RowType, JobType, Things
<1>3. ASSUME EDone(w), UNCHANGED at PROVE JobType' /\ EvType'
  BY <1>1, <1>3, JobConstants, JobSet, IdleEv, EvSet DEF EDone
<1>4. ASSUME NEW j \in Things, EFetch(w, j) PROVE JobType' /\ EvType'
  <2>1. job[j] \in JobRecord  BY <1>1 DEF JobType
  <2>2. [job[j] EXCEPT !.state = "active"] \in JobRecord  BY <2>1 DEF JobRecord
  <2>3. job' = [job EXCEPT ![j] = [job[j] EXCEPT !.state = "active"]]  BY <1>4 DEF EFetch
  <2>4. JobType'  BY <1>1, <1>4, <2>2, <2>3, JobSet DEF EFetch
  <2>5. [pc |-> "find", j |-> j, t |-> NoMsg] \in EvRecord  BY DEF EvRecord
  <2>6. EvType'  BY <1>1, <1>4, <2>5, EvSet DEF EFetch
  <2>7. QED  BY <2>4, <2>6
<1>5. CASE EFindInbound(w)
  <2>1. CASE EDone(w)  BY <1>2, <1>3, <1>5, <2>1, <1>1 DEF EFindInbound, NoteType, CountType
  <2>2. CASE ev' = [ev EXCEPT ![w].pc = "upsert"] /\ UNCHANGED job
    <3>1. [ev[w] EXCEPT !.pc = "upsert"] \in EvRecord  BY <1>2 DEF EvRecord
    <3>2. ev' = [ev EXCEPT ![w] = [ev[w] EXCEPT !.pc = "upsert"]]  BY <2>2
    <3>3. ev[w].j \in Messages /\ ev[w] \in EvRecord  BY <1>2, <1>5 DEF EFindInbound
    <3>4. EvType'
      <4>1. [ev[w] EXCEPT !.pc = "upsert"].j \in Messages
            /\ [ev[w] EXCEPT !.pc = "upsert"].pc = "upsert"
        BY <3>3 DEF EvRecord
      <4>2. QED  BY <1>1, <1>2, <3>1, <3>2, <4>1, EvSet
    <3>5. QED  BY <1>1, <1>2, <1>5, <2>2, <3>4 DEF EFindInbound, JobType, NoteType, CountType
  <2>3. QED  BY <1>5, <2>1, <2>2 DEF EFindInbound
<1>6. CASE EUpsert(w)
  <2>1. at[ev[w].j] \in Time /\ ev[w].j \in Messages  BY <1>1, <1>2, <1>6 DEF EUpsert, EvType
  <2>2. track' \in [Messages -> Tracking]  BY <1>2, <1>6, <2>1 DEF EUpsert, Tracking
  <2>3. QED  BY <1>1, <1>3, <1>6, <2>2 DEF EUpsert, NoteType, CountType
<1>7. CASE EFindReply(w)
  <2>1. CASE EDone(w)  BY <1>2, <1>3, <1>7, <2>1, <1>1 DEF EFindReply, NoteType, CountType
  <2>2. ASSUME NEW m \in Messages, ev' = [ev EXCEPT ![w].pc = "update", ![w].t = m],
               UNCHANGED job
        PROVE  EvType'
    <3>1. [ev[w] EXCEPT !.pc = "update", !.t = m] \in EvRecord  BY <1>2 DEF EvRecord
    <3>2. ev' = [ev EXCEPT ![w] = [ev[w] EXCEPT !.pc = "update", !.t = m]]
      BY <1>2, <2>2 DEF EvRecord
    <3>3. ev[w].j \in Things /\ ev[w] \in EvRecord  BY <1>1, <1>2, <1>7 DEF EFindReply, EvType
    <3>4. /\ [ev[w] EXCEPT !.pc = "update", !.t = m].j \in Things
          /\ [ev[w] EXCEPT !.pc = "update", !.t = m].t = m
          /\ [ev[w] EXCEPT !.pc = "update", !.t = m].pc = "update"
      BY <3>3 DEF EvRecord
    <3>5. QED  BY <1>1, <3>1, <3>2, <3>4, EvSet
  <2>3. QED
    BY <1>1, <1>2, <1>7, <2>1, <2>2 DEF EFindReply, JobType, NoteType, CountType
<1>8. CASE EUpdate(w)
  <2>1. ev[w].t \in Messages  BY <1>1, <1>8 DEF EUpdate, EvType
  <2>2. track' \in [Messages -> Tracking]
    <3> DEFINE b == at[ev[w].j] > track[ev[w].t].start + Threshold
    <3>1. b \in BOOLEAN  OBVIOUS
    <3>2. [track[ev[w].t] EXCEPT !.s = "answered", !.breached = b] \in Tracking
      BY <1>2, <2>1, <3>1 DEF Tracking
    <3>3. track' = [track EXCEPT ![ev[w].t] =
                      [track[ev[w].t] EXCEPT !.s = "answered", !.breached = b]]
      BY <1>2, <1>8, <2>1 DEF EUpdate, Tracking
    <3>4. QED  BY <1>2, <3>2, <3>3
  <2>3. QED  BY <1>1, <1>3, <1>8, <2>1, <2>2 DEF EUpdate, NoteType, CountType
<1>9. CASE EThrow(w)
  <2>1. ev[w].j \in Things  BY <1>1, <1>9 DEF EThrow, EvType
  <2>2. AfterFailure(job[ev[w].j]) \in JobRecord  BY <1>1, <2>1, AfterFailureType DEF JobType
  <2>3. JobType'  BY <1>1, <1>9, <2>2, JobSet DEF EThrow
  <2>4. EvType'  BY <1>1, <1>9, IdleEv, EvSet DEF EThrow
  <2>5. faults' \in 0 .. MaxFaults  BY <1>1, <1>9 DEF EThrow, Fault, CountType, SlaAssumption
  <2>6. QED  BY <1>1, <1>2, <1>9, <2>3, <2>4, <2>5 DEF EThrow, NoteType
<1>10. QED
  BY <1>1, <1>2, <1>4, <1>5, <1>6, <1>7, <1>8, <1>9 DEF EStep, EFetch, NoteType, CountType

LEMMA CheckerType ==
  ASSUME SlaAssumption, TypeInv, CheckFind \/ CheckStep \/ CheckThrow
  PROVE  CkType' /\ RowType' /\ NoteType' /\ faults' \in 0 .. MaxFaults
<1> USE DEF slaRows, slaNotes
<1>1. /\ ck \in CkRecord /\ (ck.pc \in {"mark", "log", "escalate"} => ck.t \in Messages)
      /\ RowType /\ NoteType /\ CountType
  BY Parts DEF CkType
<1>2. CkType'
  <2>1. CASE CheckFind  BY <2>1 DEF CheckFind, IdleCheck, CkType, CkRecord
  <2>2. ASSUME NEW m \in Messages, CheckNext(m) PROVE CkType'
    BY <1>1, <2>2 DEF CheckNext, CkType, CkRecord
  <2>3. CASE CheckMark \/ CheckLog
    BY <1>1, <2>3 DEF CheckMark, CheckLog, CheckGoto, CkType, CkRecord
  <2>4. CASE CheckProceed  BY <1>1, <2>4 DEF CheckProceed, CkType, CkRecord
  <2>5. QED  BY <2>1, <2>2, <2>3, <2>4 DEF CheckStep, CheckEscalate, CheckThrow
<1>3. track' \in [Messages -> Tracking]
  <2>1. CASE CheckMark
    <3>1. track' = [track EXCEPT ![ck.t] = [track[ck.t] EXCEPT !.breached = TRUE]]
      BY <2>1 DEF CheckMark
    <3>2. [track[ck.t] EXCEPT !.breached = TRUE] \in Tracking
      BY <1>1, <2>1 DEF CheckMark, RowType, Tracking
    <3>3. QED  BY <1>1, <3>1, <3>2 DEF RowType
  <2>2. QED
    BY <1>1, <2>1 DEF CheckStep, CheckFind, CheckNext, CheckLog, CheckEscalate, CheckThrow, RowType
<1>4. log' \in [Messages -> {"none", "ACTIVE", "ACKNOWLEDGED"}] /\ told' \subseteq Messages
  BY <1>1 DEF CheckStep, CheckFind, CheckNext, CheckMark, CheckLog, CheckEscalate, CheckThrow,
     RowType
<1>5. esc' \in [Messages -> JobRecord]
  BY <1>1, JobConstants DEF CheckStep, CheckFind, CheckNext, CheckMark, CheckLog, CheckEscalate,
     CheckThrow, RowType
<1>6. NoteType' /\ faults' \in 0 .. MaxFaults
  BY <1>1 DEF CheckStep, CheckFind, CheckNext, CheckMark, CheckLog, CheckEscalate, CheckThrow,
     Loses, NoteType, CountType, Fault, SlaAssumption
<1>7. QED  BY <1>2, <1>3, <1>4, <1>5, <1>6 DEF RowType

LEMMA EscalationType ==
  ASSUME SlaAssumption, TypeInv,
         \/ \E t \in Messages : XFetch(t)
         \/ XDispatch \/ XThrow
         \/ \E u \in Users, t \in Messages : AskAcknowledge(u, t)
         \/ \E u \in Users : Acknowledge(u)
  PROVE  XwType' /\ UsType' /\ RowType' /\ NoteType' /\ faults' \in 0 .. MaxFaults
<1> USE DEF slaRows, slaNotes
<1>1. XwType /\ UsType /\ RowType /\ NoteType /\ CountType  BY Parts
<1>2. XwType'
  BY <1>1 DEF XFetch, XDispatch, XThrow, AskAcknowledge, Acknowledge, Idle, XwType, XwRecord
<1>3. UsType'
  BY <1>1 DEF XFetch, XDispatch, XThrow, AskAcknowledge, Acknowledge, Idle, UsType, UsRecord
<1>4. RowType'
  <2>1. ASSUME NEW t \in Messages, XFetch(t) PROVE RowType'
    <3>1. [esc[t] EXCEPT !.state = "active"] \in JobRecord  BY <1>1 DEF RowType, JobRecord
    <3>2. esc' \in {[esc EXCEPT ![t] = [esc[t] EXCEPT !.state = "active"]],
                    [esc EXCEPT ![t] = GoneJob]}
      BY <2>1 DEF XFetch
    <3>3. QED  BY <1>1, <2>1, <3>1, <3>2, JobConstants DEF XFetch, RowType
  <2>2. CASE XDispatch  BY <1>1, <2>2, JobConstants DEF XDispatch, RowType, XwType
  <2>3. CASE XThrow
    <3>1. AfterFailure(esc[xw.t]) \in JobRecord
      BY <1>1, <2>3, AfterFailureType DEF XThrow, XwType, RowType
    <3>2. QED  BY <1>1, <2>3, <3>1 DEF XThrow, RowType
  <2>4. ASSUME NEW u \in Users, NEW t \in Messages, AskAcknowledge(u, t) PROVE RowType'
    BY <1>1, <2>4 DEF AskAcknowledge, RowType
  <2>5. ASSUME NEW u \in Users, Acknowledge(u) PROVE RowType'
    BY <1>1, <2>5 DEF Acknowledge, RowType
  <2>6. QED  BY <2>1, <2>2, <2>3, <2>4, <2>5
<1>5. NoteType' /\ faults' \in 0 .. MaxFaults
  BY <1>1 DEF XFetch, XDispatch, XThrow, AskAcknowledge, Acknowledge, NoteType, UsType, CountType,
     Fault, SlaAssumption
<1>6. QED  BY <1>2, <1>3, <1>4, <1>5

LEMMA EvaluatesType ==
  ASSUME SlaAssumption, TypeInv, NEW x \in Things, Evaluates(x) PROVE JobType'
BY Parts, JobConstants DEF Evaluates, JobType, CountType

LEMMA SlaStepType ==
  ASSUME SlaAssumption, TypeInv, SlaNext, UNCHANGED inboxVars
  PROVE  TypeInv'
<1> USE DEF slaRows, slaProcs, slaNotes
<1>1. /\ JobType /\ EvType /\ CkType /\ XwType /\ UsType /\ RowType /\ NoteType
      /\ InjType /\ WorkType /\ StoreType /\ CountType
  BY Parts
<1>2. InjType' /\ WorkType' /\ StoreType' /\ deliveries' \in 0 .. MaxDeliveries
  BY <1>1 DEF inboxVars, InjType, WorkType, StoreType, CountType
<1>3. CASE Tick
  <2>1. CountType'  BY <1>1, <1>2, <1>3 DEF Tick, CountType, Time, SlaAssumption
  <2>2. QED
    BY <1>1, <1>2, <1>3, <2>1, Parts DEF Tick, JobType, EvType, CkType, XwType, UsType, RowType,
       NoteType
<1>4. ASSUME NEW r \in Replies, Reply(r) PROVE TypeInv'
  <2>1. JobType'  BY <1>4, EvaluatesType DEF Reply, Things
  <2>2. QED
    BY <1>1, <1>2, <1>4, <2>1, Parts DEF Reply, EvType, CkType, XwType, UsType, RowType, NoteType,
       CountType
<1>5. ASSUME NEW w \in Evaluators, EStep(w) \/ EThrow(w) \/ \E j \in Things : EFetch(w, j)
      PROVE  TypeInv'
  <2>1. JobType' /\ EvType' /\ track' \in [Messages -> Tracking] /\ safe' \subseteq Messages
        /\ faults' \in 0 .. MaxFaults
        /\ UNCHANGED <<now, log, told, esc, ck, xw, us, calm, lost>>
    BY <1>5, EvaluatorType
  <2>2. QED
    BY <1>1, <1>2, <2>1, Parts DEF CkType, XwType, UsType, RowType, NoteType, CountType
<1>6. CASE CheckFind \/ CheckStep \/ CheckThrow
  <2>1. UNCHANGED <<now, job, at, ev, xw, us>>
    BY <1>6 DEF CheckFind, CheckStep, CheckNext, CheckMark, CheckLog, CheckEscalate, CheckThrow
  <2>2. QED
    BY <1>1, <1>2, <1>6, <2>1, CheckerType, Parts DEF JobType, EvType, XwType, UsType, CountType
<1>7. CASE \/ \E t \in Messages : XFetch(t)
           \/ XDispatch \/ XThrow
           \/ \E u \in Users, t \in Messages : AskAcknowledge(u, t)
           \/ \E u \in Users : Acknowledge(u)
  <2>1. UNCHANGED <<now, job, at, ev, ck>>
    BY <1>7 DEF XFetch, XDispatch, XThrow, AskAcknowledge, Acknowledge
  <2>2. QED
    BY <1>1, <1>2, <1>7, <2>1, EscalationType, Parts DEF JobType, EvType, CkType, CountType
<1>8. QED  BY <1>3, <1>4, <1>5, <1>6, <1>7 DEF SlaNext, Things

LEMMA InboxStepType ==
  ASSUME SlaAssumption, InboxAssumption, TypeInv,
         \/ \E h \in Handlers, m \in Messages : Deliver(h, m)
         \/ \E h \in Handlers : Queue(h)
         \/ \E m \in Messages : IFetch(m)
         \/ IStep \/ IThrow
  PROVE  TypeInv'
<1> USE DEF slaVars, slaRows, slaProcs, slaNotes
<1>1. /\ JobType /\ EvType /\ CkType /\ XwType /\ UsType /\ RowType /\ NoteType
      /\ InjType /\ WorkType /\ StoreType /\ CountType
  BY Parts
<1>2. EvType' /\ CkType' /\ XwType' /\ UsType' /\ RowType' /\ NoteType'
  <2>1. UNCHANGED <<slaRows, esc, slaProcs, slaNotes>>
    BY DEF Deliver, Queue, IFetch, IStep, ICreate, IIdentify, ICount, IEvaluate, IThrow
  <2>2. QED  BY <1>1, <2>1 DEF EvType, CkType, XwType, UsType, RowType, NoteType
<1>3. JobType'
  <2>1. CASE IEvaluate  BY <1>1, <2>1, EvaluatesType DEF IEvaluate, WorkType, Things
  <2>2. CASE UNCHANGED <<job, at>>  BY <1>1, <2>2 DEF JobType
  <2>3. QED
    BY <2>1, <2>2 DEF Deliver, Queue, IFetch, IStep, ICreate, IIdentify, ICount, IThrow
<1>4. InjType'
  <2>1. ASSUME NEW m \in Messages, IFetch(m) PROVE InjType'
    <3>1. [inj[m] EXCEPT !.state = "active"] \in JobRecord  BY <1>1 DEF InjType, JobRecord
    <3>2. inj' \in {[inj EXCEPT ![m] = [inj[m] EXCEPT !.state = "active"]],
                    [inj EXCEPT ![m] = GoneJob]}
      BY <2>1 DEF IFetch
    <3>3. QED  BY <1>1, <3>1, <3>2, JobConstants DEF InjType
  <2>2. CASE IThrow
    <3>1. \A m \in Messages : AfterFailure(inj[m]) \in JobRecord
      BY <1>1, AfterFailureType DEF InjType
    <3>2. QED  BY <1>1, <2>2, <3>1 DEF IThrow, IFails, InjType
  <2>3. ASSUME NEW h \in Handlers, Queue(h) PROVE InjType'
    BY <1>1, <2>3, JobConstants DEF Queue, InjType
  <2>4. CASE IEvaluate  BY <1>1, <2>4, JobConstants DEF IEvaluate, InjType
  <2>5. CASE UNCHANGED inj  BY <1>1, <2>5 DEF InjType
  <2>6. QED
    BY <2>1, <2>2, <2>3, <2>4, <2>5 DEF Deliver, IStep, ICreate, IIdentify, ICount
<1>5. WorkType'
  <2>1. ASSUME NEW h \in Handlers, NEW m \in Messages, Deliver(h, m) PROVE WorkType'
    BY <1>1, <2>1 DEF Deliver, WorkType, HdRecord
  <2>2. ASSUME NEW h \in Handlers, Queue(h) PROVE WorkType'
    BY <1>1, <2>2 DEF Queue, Idle, WorkType, HdRecord
  <2>3. CASE UNCHANGED hd
    BY <1>1, <2>3 DEF IFetch, IStep, ICreate, IIdentify, ICount, IEvaluate, IThrow, IFails, Goto,
       Idle, Deliver, Queue, WorkType, IwRecord
  <2>4. QED
    BY <2>1, <2>2, <2>3 DEF IFetch, IStep, ICreate, IIdentify, ICount, IEvaluate, IThrow
<1>6. StoreType'
  BY <1>1 DEF Deliver, Queue, IFetch, IStep, ICreate, IIdentify, ICount, IEvaluate, IThrow, IFails,
     StoreType, WorkType
<1>7. CountType'
  BY <1>1 DEF Deliver, Queue, IFetch, IStep, ICreate, IIdentify, ICount, IEvaluate, IThrow, Fault,
     CountType, SlaAssumption, InboxAssumption
<1>8. QED  BY <1>2, <1>3, <1>4, <1>5, <1>6, <1>7, Parts

LEMMA CrashType == ASSUME SlaAssumption, TypeInv, Crash PROVE TypeInv'
<1> USE DEF slaRows
<1>1. /\ JobType /\ RowType /\ NoteType /\ CkType
      /\ InjType /\ WorkType /\ StoreType /\ CountType
  BY Parts
<1>2. JobType' /\ RowType' /\ InjType'
  BY <1>1, AfterFailureType DEF Crash, SlaForgets, IFails, JobType, RowType, InjType, Things
<1>3. EvType' /\ CkType' /\ XwType' /\ UsType' /\ WorkType'
  BY DEF Crash, SlaForgets, IFails, IdleEvaluator, IdleCheck, Idle, EvType, CkType, XwType, UsType,
     WorkType, EvRecord, CkRecord, XwRecord, UsRecord, HdRecord, IwRecord
<1>4. NoteType' /\ StoreType' /\ CountType'
  BY <1>1 DEF Crash, SlaForgets, IFails, Loses, Fault, NoteType, StoreType, CountType, CkType,
     WorkType, SlaAssumption
<1>5. QED  BY <1>2, <1>3, <1>4, Parts

\* No field is ever written with anything but a value of its type, and no
\* actor is at work on nothing.
THEOREM TypeCorrect == Spec => []TypeInv
<1>1. Init => TypeInv  BY TypeInit, SlaAssumption, InboxAssumption
<1>2. TypeInv /\ [Next]_vars => TypeInv'
  <2> SUFFICES ASSUME TypeInv, [Next]_vars PROVE TypeInv'  OBVIOUS
  <2>1. CASE UNCHANGED vars
    BY <2>1 DEF vars, slaVars, slaRows, slaProcs, slaNotes, inboxVars, TypeInv, TypeOK, SlaTypeOK,
       AtWork
  <2>2. CASE Next
    BY <2>2, SlaStepType, InboxStepType, CrashType, SlaAssumption, InboxAssumption DEF Next
  <2>3. QED  BY <2>1, <2>2
<1>3. QED  BY <1>1, <1>2, PTL DEF Spec

-----------------------------------------------------------------------------
(* A message that is being created is not stored yet, and one row of it is  *)
(* the stored one, or the one that is about to get its id.                  *)
Stored ==
  /\ iw.pc = "create" => iw.t \notin wid
  /\ \A m \in Messages \ torn :
       rows[m] <= 1 /\ (rows[m] = 1 => m \in wid \/ (iw.pc = "identify" /\ iw.t = m))

LEMMA StoredStep ==
  ASSUME SlaAssumption, TypeInv, TypeInv', Stored, [Next]_vars PROVE Stored'
<1>1. /\ rows \in [Messages -> Nat] /\ wid \subseteq Messages /\ iw \in IwRecord
      /\ (iw.pc # "idle" => iw.t \in Messages)
  BY Parts DEF StoreType, WorkType
<1>2. CASE UNCHANGED <<iw, rows, wid, torn>>  BY <1>2 DEF Stored
<1>3. ASSUME NEW m \in Messages, IFetch(m) PROVE Stored'
  BY <1>1, <1>3 DEF IFetch, Stored, IwRecord
<1>4. CASE ICreate
  <2>1. iw.t \in Messages /\ iw.t \notin wid  BY <1>1, <1>4 DEF ICreate, Stored
  <2>2. iw.t \in torn \/ rows[iw.t] = 0  BY <1>1, <1>4, <2>1 DEF ICreate, Stored
  <2>3. iw'.pc = "identify" /\ iw'.t = iw.t  BY <1>1, <1>4 DEF ICreate, Goto, IwRecord
  <2>4. ASSUME NEW m \in Messages \ torn
        PROVE  rows'[m] <= 1 /\ (rows'[m] = 1 => m \in wid \/ iw.t = m)
    <3>1. CASE m = iw.t  BY <1>1, <1>4, <2>1, <2>2, <3>1 DEF ICreate
    <3>2. CASE m # iw.t
      <4>1. rows'[m] = rows[m]  BY <1>1, <1>4, <3>2 DEF ICreate
      <4>2. QED  BY <1>4, <4>1 DEF ICreate, Stored
    <3>3. QED  BY <3>1, <3>2
  <2>5. QED  BY <1>4, <2>3, <2>4 DEF ICreate, Stored
<1>5. CASE IIdentify
  BY <1>1, <1>5 DEF IIdentify, Goto, Stored, IwRecord
<1>6. CASE ICount \/ IEvaluate
  BY <1>1, <1>6 DEF ICount, IEvaluate, Goto, Idle, Stored, IwRecord
<1>7. CASE IThrow \/ Crash
  BY <1>1, <1>7 DEF IThrow, Crash, IFails, Idle, Stored, IwRecord
<1>8. CASE SlaNext /\ UNCHANGED inboxVars  BY <1>2, <1>8 DEF inboxVars
<1>9. QED
  BY <1>2, <1>3, <1>4, <1>5, <1>6, <1>7, <1>8 DEF Next, Deliver, Queue, IStep, vars, inboxVars

\* Whatever is delivered and attempted again, a message has one row, unless a
\* fault hit between the creation of the row and the setting of its id.
THEOREM StoredRight == Spec => []StoredOnce
<1>1. Init => Stored  BY DEF Init, Stored, Idle
<1>2. TypeInv /\ TypeInv' /\ Stored /\ [Next]_vars => Stored'  BY StoredStep, SlaAssumption
<1>3. TypeInv /\ Stored => StoredOnce
  <2>1. ASSUME TypeInv, Stored, NEW m \in Messages, rows[m] > 1 PROVE m \in torn
    <3>1. rows[m] \in Nat  BY <2>1, Parts DEF StoreType
    <3>2. QED  BY <2>1, <3>1 DEF Stored
  <2>2. QED  BY <2>1 DEF StoredOnce
<1>4. QED  BY <1>1, <1>2, <1>3, TypeCorrect, PTL DEF Spec

-----------------------------------------------------------------------------
(* An answered tracking stays answered, and no check lists it again.  Only  *)
(* a breach that is logged is ever acknowledged, and one that was, while no *)
(* escalation was at it, is not taken up by one.                            *)
Answered ==
  \A t \in Messages :
    t \in safe /\ log[t] = "none" => track[t].s = "answered" /\ t \notin ck.todo /\ ck.t # t
Asked == \A u \in Users : us[u].pc = "acknowledge" => log[us[u].t] # "none"
Acknowledged == \A t \in Messages : t \in calm => log[t] = "ACKNOWLEDGED" /\ xw.t # t

SlaInv == Answered /\ Asked /\ Acknowledged

\* A step that only moves on what is answered, and leaves the rest alone.
LEMMA Undisturbed ==
  ASSUME SlaInv, UNCHANGED <<log, ck, xw, us, safe, calm>>,
         \A t \in Messages : track[t].s = "answered" => track'[t].s = "answered"
  PROVE  SlaInv'
BY DEF SlaInv, Answered, Asked, Acknowledged

LEMMA EvaluatorKeeps ==
  ASSUME SlaAssumption, TypeInv, SlaInv, NEW w \in Evaluators,
         EStep(w) \/ EThrow(w) \/ \E j \in Things : EFetch(w, j)
  PROVE  SlaInv'
<1> USE DEF slaRows, slaNotes
<1>1. /\ track \in [Messages -> Tracking] /\ ev \in [Evaluators -> EvRecord]
      /\ ev[w].pc = "update" => ev[w].t \in Messages
  BY Parts DEF RowType, EvType
<1>2. CASE EUpdate(w)
  <2> DEFINE u == ev[w].t
  <2>1. u \in Messages /\ UNCHANGED <<log, ck, xw, us, calm>>  BY <1>1, <1>2 DEF EUpdate
  <2>2. track'[u].s = "answered" /\ \A t \in Messages : t # u => track'[t] = track[t]
    BY <1>1, <1>2, <2>1 DEF EUpdate, Tracking
  <2>3. safe' \subseteq safe \cup {u} /\ (u \in ck.todo \/ u = ck.t => safe' = safe)
    BY <1>2 DEF EUpdate
  <2>4. Answered'  BY <2>1, <2>2, <2>3 DEF SlaInv, Answered
  <2>5. QED  BY <2>1, <2>4 DEF SlaInv, Asked, Acknowledged
<1>3. CASE EUpsert(w)
  <2>1. \A t \in Messages : track[t].s = "answered" => track'[t].s = "answered"
    BY <1>1, <1>3 DEF EUpsert
  <2>2. QED  BY <1>3, <2>1, Undisturbed DEF EUpsert
<1>4. QED
  BY <1>2, <1>3, Undisturbed DEF EStep, EFindInbound, EFindReply, EThrow, EFetch

LEMMA CheckerKeeps ==
  ASSUME SlaAssumption, TypeInv, SlaInv, CheckFind \/ CheckStep \/ CheckThrow
  PROVE  SlaInv'
<1> USE DEF slaRows, slaNotes
<1>1. /\ track \in [Messages -> Tracking] /\ ck \in CkRecord
      /\ log \in [Messages -> {"none", "ACTIVE", "ACKNOWLEDGED"}]
      /\ (ck.pc \in {"mark", "log", "escalate"} => ck.t \in Messages)
      /\ NoMsg \notin Messages
  BY Parts DEF RowType, CkType, SlaAssumption
<1>2. UNCHANGED <<xw, us, safe, calm>>
  <2>1. CASE CheckFind \/ CheckThrow  BY <2>1 DEF CheckFind, CheckThrow
  <2>2. CASE CheckStep
    BY <2>2 DEF CheckStep, CheckNext, CheckMark, CheckLog, CheckEscalate
  <2>3. QED  BY <2>1, <2>2
<1>3. CASE CheckFind
  BY <1>2, <1>3, <1>1 DEF CheckFind, Overdue, IdleCheck, SlaInv, Answered, Asked, Acknowledged
<1>4. ASSUME NEW m \in Messages, CheckNext(m) PROVE SlaInv'
  BY <1>2, <1>4 DEF CheckNext, SlaInv, Answered, Asked, Acknowledged
<1>5. CASE CheckMark
  <2>1. /\ UNCHANGED log /\ ck'.todo = ck.todo /\ ck'.t = ck.t
        /\ \A t \in Messages : track'[t].s = track[t].s
    BY <1>1, <1>5 DEF CheckMark, CheckGoto, CkRecord, Tracking
  <2>2. QED  BY <1>2, <2>1 DEF SlaInv, Answered, Asked, Acknowledged
<1>6. CASE CheckLog
  <2>1. /\ UNCHANGED track /\ ck'.todo = ck.todo /\ ck'.t = ck.t
        /\ \A t \in Messages : log'[t] # log[t] => log[t] = "none" /\ log'[t] = "ACTIVE"
    BY <1>1, <1>6 DEF CheckLog, CheckGoto, CkRecord
  <2>2. Answered'  BY <1>2, <2>1 DEF SlaInv, Answered
  <2>3. Asked'
    <3>1. \A u \in Users : us[u].pc = "acknowledge" => us[u].t \in Messages
      BY Parts DEF UsType
    <3>2. QED  BY <1>2, <2>1, <3>1 DEF SlaInv, Asked
  <2>4. Acknowledged'  BY <1>2, <2>1 DEF SlaInv, Acknowledged
  <2>5. QED  BY <2>2, <2>3, <2>4 DEF SlaInv
<1>7. CASE CheckEscalate \/ CheckThrow
  <2>1. /\ UNCHANGED <<track, log>> /\ ck'.todo = ck.todo /\ ck'.t = NoMsg
    BY <1>1, <1>7 DEF CheckEscalate, CheckThrow, CheckProceed, CkRecord
  <2>2. QED  BY <1>1, <1>2, <2>1 DEF SlaInv, Answered, Asked, Acknowledged
<1>8. QED  BY <1>3, <1>4, <1>5, <1>6, <1>7 DEF CheckStep

LEMMA EscalationKeeps ==
  ASSUME SlaAssumption, TypeInv, SlaInv,
         \/ \E t \in Messages : XFetch(t)
         \/ XDispatch \/ XThrow
         \/ \E u \in Users, t \in Messages : AskAcknowledge(u, t)
         \/ \E u \in Users : Acknowledge(u)
  PROVE  SlaInv'
<1> USE DEF slaRows, slaNotes
<1>1. /\ us \in [Users -> UsRecord] /\ NoMsg \notin Messages
      /\ log \in [Messages -> {"none", "ACTIVE", "ACKNOWLEDGED"}]
      /\ \A u \in Users : us[u].pc = "acknowledge" => us[u].t \in Messages
  BY Parts DEF UsType, RowType, SlaAssumption
<1>2. ASSUME NEW t \in Messages, XFetch(t) PROVE SlaInv'
  BY <1>2 DEF XFetch, SlaInv, Answered, Asked, Acknowledged
<1>3. CASE XDispatch \/ XThrow
  BY <1>1, <1>3 DEF XDispatch, XThrow, Idle, SlaInv, Answered, Asked, Acknowledged
<1>4. ASSUME NEW u \in Users, NEW t \in Messages, AskAcknowledge(u, t) PROVE SlaInv'
  <2>1. Asked'  BY <1>1, <1>4 DEF AskAcknowledge, SlaInv, Asked
  <2>2. QED  BY <1>4, <2>1 DEF AskAcknowledge, SlaInv, Answered, Acknowledged
<1>5. ASSUME NEW u \in Users, Acknowledge(u) PROVE SlaInv'
  <2> DEFINE b == us[u].t
  <2>1. b \in Messages /\ log[b] # "none"  BY <1>1, <1>5 DEF Acknowledge, SlaInv, Asked
  <2>2. /\ log' = [log EXCEPT ![b] = "ACKNOWLEDGED"] /\ UNCHANGED <<track, safe, ck, xw>>
        /\ calm' \subseteq calm \cup {b} /\ (xw.t = b => calm' = calm)
        /\ us' = [us EXCEPT ![u] = Idle]
    BY <1>5 DEF Acknowledge
  <2> HIDE DEF b
  <2>3. Answered'  BY <1>1, <2>1, <2>2 DEF SlaInv, Answered
  <2>4. Asked'  BY <1>1, <2>1, <2>2 DEF SlaInv, Asked, Idle
  <2>5. Acknowledged'  BY <1>1, <2>1, <2>2 DEF SlaInv, Acknowledged
  <2>6. QED  BY <2>3, <2>4, <2>5 DEF SlaInv
<1>6. QED  BY <1>2, <1>3, <1>4, <1>5

LEMMA SlaInvStep ==
  ASSUME SlaAssumption, TypeInv, SlaInv, [Next]_vars PROVE SlaInv'
<1>1. CASE UNCHANGED <<slaRows, slaProcs, slaNotes>>
  BY <1>1 DEF slaRows, slaProcs, slaNotes, SlaInv, Answered, Asked, Acknowledged
<1>2. CASE SlaNext
  <2>1. CASE Tick  BY <1>1, <2>1 DEF Tick
  <2>2. ASSUME NEW r \in Replies, Reply(r) PROVE SlaInv'  BY <1>1, <2>2 DEF Reply
  <2>3. QED
    BY <1>2, <2>1, <2>2, EvaluatorKeeps, CheckerKeeps, EscalationKeeps DEF SlaNext, Things
<1>3. CASE Crash
  BY <1>3 DEF Crash, SlaForgets, IdleCheck, Idle, slaRows, SlaInv, Answered, Asked, Acknowledged,
     SlaAssumption
<1>4. QED
  BY <1>1, <1>2, <1>3 DEF Next, Deliver, Queue, IFetch, IStep, ICreate, IIdentify, ICount,
     IEvaluate, IThrow, slaVars, vars

LEMMA SlaInvInit == Init => SlaInv
BY DEF Init, SlaInit, Idle, SlaInv, Answered, Asked, Acknowledged

\* A customer who was answered before a check had listed the tracking is never
\* reported, for any number of trackings, replies and evaluations.
THEOREM AnswersHold == Spec => AnsweredHolds
<1>1. ASSUME TypeInv, SlaInv, [Next]_vars, NEW t \in Messages, t \in safe, log[t] = "none"
      PROVE  log'[t] = "none"
  <2>1. /\ log \in [Messages -> {"none", "ACTIVE", "ACKNOWLEDGED"}] /\ ck.t # t
        /\ \A u \in Users : us[u].pc = "acknowledge" => us[u].t # t
    BY <1>1, Parts DEF RowType, SlaInv, Answered, Asked
  <2>2. CASE CheckLog  BY <1>1, <2>1, <2>2 DEF CheckLog
  <2>3. ASSUME NEW u \in Users, Acknowledge(u) PROVE log'[t] = "none"
    BY <1>1, <2>1, <2>3 DEF Acknowledge
  <2>4. CASE UNCHANGED log  BY <1>1, <2>4
  <2>5. CASE UNCHANGED slaVars  BY <1>1, <2>5 DEF slaVars, slaRows
  <2>6. CASE SlaNext
    <3>1. ASSUME NEW w \in Evaluators, EStep(w) PROVE UNCHANGED log
      BY <3>1 DEF EStep, EFindInbound, EUpsert, EFindReply, EUpdate, slaRows
    <3>2. QED
      BY <2>2, <2>3, <2>4, <2>6, <3>1 DEF SlaNext, Tick, Reply, EFetch, EThrow, CheckFind,
         CheckStep, CheckNext, CheckMark, CheckEscalate, CheckThrow, XFetch, XDispatch, XThrow,
         AskAcknowledge, slaRows
  <2>7. CASE Crash  BY <2>4, <2>7 DEF Crash, SlaForgets, slaRows
  <2>8. CASE IStep
    BY <2>4, <2>5, <2>8 DEF IStep, ICreate, IIdentify, ICount, IEvaluate, slaRows
  <2>9. QED
    BY <1>1, <2>5, <2>6, <2>7, <2>8 DEF Next, Deliver, Queue, IFetch, IThrow, vars
<1>2. TypeInv /\ SlaInv /\ [Next]_vars
        => [\A t \in Messages : t \in safe /\ log[t] = "none" => log'[t] = "none"]_slaVars
  BY <1>1
<1>3. TypeInv /\ SlaInv /\ [Next]_vars => SlaInv'  BY SlaInvStep, SlaAssumption
<1>4. QED  BY <1>2, <1>3, SlaInvInit, TypeCorrect, PTL DEF Spec, AnsweredHolds

\* A breach acknowledged while no escalation was at it is never escalated, for
\* any number of acknowledgements, retries and crashes.
THEOREM AcknowledgementsHold == Spec => AcknowledgedHolds
<1>1. ASSUME TypeInv, SlaInv, [Next]_vars, NEW t \in Messages, t \in calm, t \notin told
      PROVE  t \notin told'
  <2>1. xw.t # t  BY <1>1 DEF SlaInv, Acknowledged
  <2>2. CASE XDispatch  BY <1>1, <2>1, <2>2 DEF XDispatch
  <2>3. CASE UNCHANGED told  BY <1>1, <2>3
  <2>4. CASE UNCHANGED slaVars  BY <1>1, <2>4 DEF slaVars, slaRows
  <2>5. CASE SlaNext
    <3>1. ASSUME NEW w \in Evaluators, EStep(w) PROVE UNCHANGED told
      BY <3>1 DEF EStep, EFindInbound, EUpsert, EFindReply, EUpdate, slaRows
    <3>2. QED
      BY <2>2, <2>3, <2>5, <3>1 DEF SlaNext, Tick, Reply, EFetch, EThrow, CheckFind, CheckStep,
         CheckNext, CheckMark, CheckLog, CheckEscalate, CheckThrow, XFetch, XThrow, AskAcknowledge,
         Acknowledge, slaRows
  <2>6. CASE Crash  BY <2>3, <2>6 DEF Crash, SlaForgets, slaRows
  <2>7. CASE IStep
    BY <2>3, <2>4, <2>7 DEF IStep, ICreate, IIdentify, ICount, IEvaluate, slaRows
  <2>8. QED
    BY <1>1, <2>4, <2>5, <2>6, <2>7 DEF Next, Deliver, Queue, IFetch, IThrow, vars
<1>2. TypeInv /\ SlaInv /\ [Next]_vars
        => [\A t \in Messages : t \in calm /\ t \notin told => t \notin told']_slaVars
  BY <1>1
<1>3. TypeInv /\ SlaInv /\ [Next]_vars => SlaInv'  BY SlaInvStep, SlaAssumption
<1>4. QED  BY <1>2, <1>3, SlaInvInit, TypeCorrect, PTL DEF Spec, AcknowledgedHolds

-----------------------------------------------------------------------------
(* What the worker does for a stored message: one that it has left had its  *)
(* evaluation published, and was counted.                                   *)

\* The stored messages that were counted, or whose count a fault skipped.
Done == {m \in wid : ~(iw.pc = "count" /\ iw.t = m)}

AtNew ==
  /\ iw.pc \in {"create", "identify"} => iw.t \notin wid
  /\ iw.pc \in {"count", "evaluate"} => iw.t \in wid
Evaluated ==
  \A m \in wid \ cut : job[m] # FreeJob \/ (iw.t = m /\ iw.pc \in {"count", "evaluate"})
Tallied == Cardinality(Done \ cut) <= unread /\ unread <= Cardinality(Done)

\* A step elsewhere.  No evaluation job is ever free again.
LEMMA Published ==
  ASSUME SlaAssumption, TypeInv, [Next]_vars, NEW m \in Messages, job[m] # FreeJob
  PROVE  job'[m] # FreeJob
<1> USE DEF slaRows, slaProcs, slaNotes
<1>1. /\ job \in [Things -> JobRecord] /\ m \in Things
      /\ \A w \in Evaluators : ev[w].pc # "idle" => ev[w].j \in Things
  BY Parts DEF JobType, EvType, Things
<1>2. ASSUME NEW x, NEW r, job' = [job EXCEPT ![x] = r], r # FreeJob PROVE job'[m] # FreeJob
  BY <1>1, <1>2
<1>3. NewJob # FreeJob /\ GoneJob # FreeJob  BY DEF NewJob, GoneJob, FreeJob
<1>4. \A r \in JobRecord : AfterFailure(r) # FreeJob /\ [r EXCEPT !.state = "active"] # FreeJob
  BY DEF AfterFailure, JobRecord, FreeJob, GoneJob
<1>5. CASE UNCHANGED job  BY <1>5
<1>6. ASSUME NEW x, Evaluates(x) PROVE job'[m] # FreeJob  BY <1>2, <1>3, <1>6 DEF Evaluates
<1>7. ASSUME NEW w \in Evaluators, NEW j \in Things, EFetch(w, j) PROVE job'[m] # FreeJob
  <2>1. job' = [job EXCEPT ![j] = [job[j] EXCEPT !.state = "active"]]  BY <1>7 DEF EFetch
  <2>2. [job[j] EXCEPT !.state = "active"] # FreeJob  BY <1>1, <1>4
  <2>3. QED  BY <1>2, <2>1, <2>2
<1>8. ASSUME NEW w \in Evaluators, EStep(w) \/ EThrow(w) PROVE job'[m] # FreeJob
  <2>1. EDone(w) => job'[m] # FreeJob  BY <1>2, <1>3 DEF EDone
  <2>2. EThrow(w) => job'[m] # FreeJob
    <3>1. ASSUME EThrow(w)
          PROVE  job' = [job EXCEPT ![ev[w].j] = AfterFailure(job[ev[w].j])]
                 /\ ev[w].j \in Things
      BY <1>1, <3>1 DEF EThrow
    <3>2. QED  BY <1>1, <1>2, <1>4, <3>1
  <2>3. QED
    BY <1>5, <1>8, <2>1, <2>2 DEF EStep, EFindInbound, EUpsert, EFindReply, EUpdate
<1>9. CASE SlaNext
  BY <1>5, <1>6, <1>7, <1>8, <1>9 DEF SlaNext, Tick, Reply, CheckFind, CheckStep, CheckNext,
     CheckMark, CheckLog, CheckEscalate, CheckThrow, XFetch, XDispatch, XThrow, AskAcknowledge,
     Acknowledge, Things
<1>10. CASE IStep
  BY <1>5, <1>6, <1>10 DEF IStep, ICreate, IIdentify, ICount, IEvaluate, slaVars
<1>11. CASE Crash
  <2>1. job'[m] = IF job[m].state = "active" THEN AfterFailure(job[m]) ELSE job[m]
    BY <1>1, <1>11 DEF Crash, SlaForgets, Things
  <2>2. QED  BY <1>1, <1>4, <2>1
<1>12. QED
  BY <1>5, <1>9, <1>10, <1>11 DEF Next, Deliver, Queue, IFetch, IThrow, slaVars, vars

\* What each step leaves behind of the worker's message.
LEMMA WorkStep ==
  ASSUME SlaAssumption, TypeInv, TypeInv', AtNew, Evaluated, [Next]_vars
  PROVE  /\ AtNew' /\ Evaluated'
         /\ \/ /\ unread' = unread /\ Done \subseteq Done'
               /\ (Done \ cut)' \subseteq Done \ cut
            \/ /\ unread' = unread + 1 /\ iw.t \notin Done
               /\ Done' = Done \cup {iw.t} /\ cut' = cut
<1>1. /\ wid \subseteq Messages /\ cut \subseteq Messages /\ iw \in IwRecord
      /\ (iw.pc # "idle" => iw.t \in Messages) /\ NoMsg \notin Messages
      /\ job \in [Things -> JobRecord] /\ Messages \subseteq Things
  BY Parts DEF StoreType, WorkType, JobType, Things, SlaAssumption
<1>2. \A m \in Messages : job[m] # FreeJob => job'[m] # FreeJob  BY Published
<1>3. CASE UNCHANGED <<iw, wid, cut, unread>>
  BY <1>1, <1>2, <1>3 DEF AtNew, Evaluated, Done
<1>4. ASSUME NEW m \in Messages, IFetch(m)
      PROVE  /\ AtNew' /\ Evaluated'
             /\ unread' = unread /\ Done' = Done /\ cut' = cut
  <2>1. CASE UNCHANGED iw  BY <1>1, <1>2, <1>4, <2>1 DEF IFetch, AtNew, Evaluated, Done
  <2>2. CASE m \notin wid /\ iw' = [pc |-> "create", t |-> m]
    <3>1. /\ iw'.pc = "create" /\ iw'.t = m /\ iw.pc = "idle"
          /\ UNCHANGED <<wid, cut, unread>>
      BY <1>4, <2>2 DEF IFetch
    <3>2. QED  BY <1>1, <1>2, <2>2, <3>1 DEF AtNew, Evaluated, Done
  <2>3. QED  BY <1>4, <2>1, <2>2 DEF IFetch
<1>5. CASE ICreate
  <2>1. iw'.pc = "identify" /\ iw'.t = iw.t /\ iw.pc = "create" /\ UNCHANGED <<wid, cut, unread>>
    BY <1>1, <1>5 DEF ICreate, Goto, IwRecord
  <2>2. QED  BY <1>1, <1>2, <2>1 DEF AtNew, Evaluated, Done
<1>6. CASE IIdentify
  <2>1. /\ iw'.pc = "count" /\ iw'.t = iw.t /\ iw.pc = "identify"
        /\ wid' = wid \cup {iw.t} /\ UNCHANGED <<cut, unread>>
    BY <1>1, <1>6 DEF IIdentify, Goto, IwRecord
  <2>2. iw.t \notin wid  BY <2>1 DEF AtNew
  <2>3. Done' = Done  BY <2>1, <2>2 DEF Done
  <2>4. QED  BY <1>1, <1>2, <2>1, <2>3 DEF AtNew, Evaluated
<1>7. CASE ICount
  <2>1. /\ iw'.pc = "evaluate" /\ iw'.t = iw.t /\ iw.pc = "count"
        /\ unread' = unread + 1 /\ UNCHANGED <<wid, cut>>
    BY <1>1, <1>7 DEF ICount, Goto, IwRecord
  <2>2. iw.t \notin Done /\ Done' = Done \cup {iw.t}  BY <2>1 DEF Done, AtNew
  <2>3. QED  BY <1>1, <1>2, <2>1, <2>2 DEF AtNew, Evaluated
<1>8. CASE IEvaluate
  <2>1. /\ iw'.pc = "idle" /\ iw.pc = "evaluate" /\ iw.t \in Messages
        /\ UNCHANGED <<wid, cut, unread>>
    BY <1>1, <1>8 DEF IEvaluate, Idle
  <2>2. job' = [job EXCEPT ![iw.t] = NewJob]  BY <1>8 DEF IEvaluate, Evaluates
  <2>3. job'[iw.t] # FreeJob  BY <1>1, <2>1, <2>2 DEF NewJob, FreeJob
  <2>4. QED  BY <1>1, <1>2, <2>1, <2>3 DEF AtNew, Evaluated, Done
<1>9. CASE IThrow \/ Crash
  <2>1. /\ iw'.pc = "idle" /\ UNCHANGED <<wid, unread>>
        /\ cut' = IF iw.pc \in {"count", "evaluate"} THEN cut \cup {iw.t} ELSE cut
    BY <1>9 DEF IThrow, Crash, IFails, Idle
  <2>2. AtNew' /\ Evaluated'  BY <1>1, <1>2, <2>1 DEF AtNew, Evaluated
  <2>3. Done' = wid  BY <2>1 DEF Done
  <2>4. Done \subseteq Done' /\ (Done \ cut)' \subseteq Done \ cut
    BY <2>1, <2>3 DEF Done
  <2>5. QED  BY <2>1, <2>2, <2>4
<1>10. CASE SlaNext /\ UNCHANGED inboxVars  BY <1>3, <1>10 DEF inboxVars
<1>11. QED
  BY <1>3, <1>4, <1>5, <1>6, <1>7, <1>8, <1>9, <1>10 DEF Next, Deliver, Queue, IStep, vars, inboxVars

LEMMA TallyStep ==
  ASSUME SlaAssumption, IsFiniteSet(Messages), TypeInv, TypeInv', AtNew, Evaluated, Tallied,
         [Next]_vars
  PROVE  Tallied'
<1> DEFINE was == Done  is == Done'  low == Done \ cut  next == (Done \ cut)'
<1>1. /\ was \subseteq Messages /\ is \subseteq Messages /\ low \subseteq was /\ next \subseteq is
      /\ unread \in Nat
  BY Parts DEF StoreType, Done
<1>2. IsFiniteSet(was) /\ IsFiniteSet(is) /\ IsFiniteSet(low) /\ IsFiniteSet(next)
  BY <1>1, FS_Subset
<1>3. /\ Cardinality(was) \in Nat /\ Cardinality(is) \in Nat
      /\ Cardinality(low) \in Nat /\ Cardinality(next) \in Nat
  BY <1>2, FS_CardinalityType
<1>4. Cardinality(low) <= unread /\ unread <= Cardinality(was)  BY DEF Tallied
<1>5. \/ unread' = unread /\ was \subseteq is /\ next \subseteq low
      \/ /\ unread' = unread + 1 /\ iw.t \notin was
         /\ is = was \cup {iw.t} /\ next \subseteq low \cup {iw.t} /\ iw.t \notin low
  BY WorkStep
<1> HIDE DEF was, is, low, next
<1>6. CASE unread' = unread /\ was \subseteq is /\ next \subseteq low
  <2>1. Cardinality(was) <= Cardinality(is) /\ Cardinality(next) <= Cardinality(low)
    BY <1>2, <1>6, FS_Subset
  <2>2. QED  BY <1>1, <1>3, <1>4, <1>6, <2>1 DEF Tallied, is, next
<1>7. CASE /\ unread' = unread + 1 /\ iw.t \notin was
           /\ is = was \cup {iw.t} /\ next \subseteq low \cup {iw.t} /\ iw.t \notin low
  <2>1. Cardinality(is) = Cardinality(was) + 1  BY <1>2, <1>7, FS_AddElement
  <2>2. /\ Cardinality(low \cup {iw.t}) = Cardinality(low) + 1
        /\ IsFiniteSet(low \cup {iw.t})
    BY <1>2, <1>7, FS_AddElement
  <2>3. Cardinality(next) <= Cardinality(low) + 1  BY <1>7, <2>2, FS_Subset
  <2>4. QED  BY <1>1, <1>3, <1>4, <1>7, <2>1, <2>3 DEF Tallied, is, next
<1>8. QED  BY <1>5, <1>6, <1>7

\* Whatever is delivered, attempted and interrupted, a stored message that the
\* worker has left was counted as unread, exactly once, and had its SLA
\* evaluation published, unless a fault hit after its id was set.  The messages
\* of a conversation are finite.
THEOREM AccountedFor == IsFiniteSet(Messages) => (Spec => []Accounted)
<1> SUFFICES ASSUME IsFiniteSet(Messages) PROVE Spec => []Accounted  OBVIOUS
<1>1. Init => AtNew /\ Evaluated /\ Tallied
  <2> SUFFICES ASSUME Init PROVE AtNew /\ Evaluated /\ Tallied  OBVIOUS
  <2>2. AtNew /\ Evaluated  BY DEF Init, Idle, AtNew, Evaluated
  <2>3. Done = {} /\ Done \ cut = {} /\ unread = 0  BY DEF Init, Done
  <2>4. QED  BY <2>2, <2>3, FS_EmptySet DEF Tallied
<1>2. TypeInv /\ TypeInv' /\ AtNew /\ Evaluated /\ Tallied /\ [Next]_vars
        => (AtNew /\ Evaluated /\ Tallied)'
  BY WorkStep, TallyStep, SlaAssumption
<1>3. TypeInv /\ Evaluated /\ Tallied => Accounted
  <2> SUFFICES ASSUME TypeInv, Evaluated, Tallied PROVE Accounted  OBVIOUS
  <2> DEFINE left == {m \in wid \ cut : iw.t # m}  low == Done \ cut  all == Done
  <2>2. /\ left \subseteq low /\ low \subseteq Messages /\ all \subseteq wid /\ wid \subseteq Messages
        /\ unread \in Nat
    BY Parts DEF StoreType, Done
  <2>3. IsFiniteSet(left) /\ IsFiniteSet(low) /\ IsFiniteSet(all) /\ IsFiniteSet(wid)
    BY <2>2, FS_Subset
  <2>4. Cardinality(left) <= Cardinality(low) /\ Cardinality(all) <= Cardinality(wid)
    BY <2>2, <2>3, FS_Subset
  <2>5. /\ Cardinality(left) \in Nat /\ Cardinality(low) \in Nat
        /\ Cardinality(all) \in Nat /\ Cardinality(wid) \in Nat
    BY <2>3, FS_CardinalityType
  <2>6. Cardinality(low) <= unread /\ unread <= Cardinality(all)  BY DEF Tallied
  <2> HIDE DEF left, low, all
  <2>7. unread >= Cardinality(left) /\ unread <= Cardinality(wid)  BY <2>2, <2>4, <2>5, <2>6
  <2>8. QED  BY <2>7 DEF Accounted, Evaluated, left
<1>4. QED  BY <1>1, <1>2, <1>3, TypeCorrect, PTL DEF Spec
=============================================================================
