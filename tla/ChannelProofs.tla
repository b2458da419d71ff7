---------------------------- MODULE ChannelProofs ----------------------------
(***************************************************************************)
(* Theorems about the messages on the other channels, for any number of    *)
(* messages, workers, crons and status updates, and any faults: a message  *)
(* whose fate no fault made uncertain is handed to the provider once, is   *)
(* not buried after that, and does not return to the queue.                *)
(*                                                                         *)
(* Why.  Whoever claimed such a message is the only one that does          *)
(* anything about it: nobody claims a second time while its status is      *)
(* PROCESSING, a recovery that would free it under its holder makes its    *)
(* fate uncertain, and a status update finds it only after its holder      *)
(* noted that it was sent.  Sole says so; Sent says what is known of the   *)
(* row of a message that was handed to the provider.                       *)
(***************************************************************************)
EXTENDS Channel, TLAPS

HoldPcs == {"send", "mark", "requeue", "fail", "failBury"}
WorkPcs == HoldPcs \cup {"claim", "republish", "bury", "done"}
BusyWorker == [pc : WorkPcs, m : Messages, snap : Nat]
BusyCron   == [pc : {"stale", "adopt", "bury"}, m : Messages, snap : Nat]
BusyEngine == [pc : {"fail", "bury"}, m : Messages]
BusyHook   == [pc : {"apply"}, m : Messages, kind : {"DELIVERED", "READ", "FAILED"}]

\* An actor that is at work is at some message.
WkType == wk \in [Workers -> BusyWorker \cup {IdleWorker}]
CrType == cr \in [Crons -> BusyCron \cup {IdleWorker}]
EnType == en \in BusyEngine \cup {IdleEngine}
HkType == hk \in [Hooks -> BusyHook \cup {IdleHook}]
RowType ==
  /\ status \in [Messages -> Status] /\ ext \in [Messages -> BOOLEAN]
  /\ retry \in [Messages -> Nat] /\ dead \in [Messages -> 0 .. 2]
JobType == job \in [Messages -> JobRecord] /\ wajob \subseteq Messages /\ rq \subseteq Messages
HistType ==
  sends \in [Messages -> 0 .. 2] /\ lapse \in [Messages -> BOOLEAN] /\ faults \in 0 .. MaxFaults
TypeInv == WkType /\ CrType /\ EnType /\ HkType /\ RowType /\ JobType /\ HistType

-----------------------------------------------------------------------------
Holds(w, m)  == wk[w].m = m /\ wk[w].pc \in HoldPcs
Buries(w, m) == wk[w].m = m /\ wk[w].pc = "bury"
Tasked(w, m) == Holds(w, m) \/ Buries(w, m)
CronBuries(c, m) == cr[c].pc = "bury" /\ cr[c].m = m

\* A dead letter of m is on its way.
Dying(m) ==
  \/ \E w \in Workers : Buries(w, m)
  \/ en.m = m /\ en.pc = "bury"
  \/ \E c \in Crons : CronBuries(c, m)

\* One actor at a time is in charge of m.
Sole(m) ==
  /\ \A w \in Workers : Holds(w, m) => status[m] = "PROCESSING"
  /\ en.m = m => status[m] = IF en.pc = "fail" THEN "PROCESSING" ELSE "FAILED"
  /\ \A v, w \in Workers : Tasked(v, m) /\ Tasked(w, m) => v = w
  /\ \A c, d \in Crons : CronBuries(c, m) /\ CronBuries(d, m) => c = d
  /\ \A w \in Workers : Tasked(w, m) => en.m # m
  /\ \A w \in Workers, c \in Crons : ~(Tasked(w, m) /\ CronBuries(c, m))
  /\ \A c \in Crons : CronBuries(c, m) => en.m # m
  /\ Dying(m) => status[m] = "FAILED" /\ dead[m] = 0 /\ ~ext[m]

\* What the row says of a message that was handed to the provider.
Sent(m) ==
  /\ sends[m] <= 1
  /\ sends[m] = 1 => ext[m] \/ \E w \in Workers : wk[w].m = m /\ wk[w].pc = "mark"
  /\ ext[m] => status[m] \in Out \cup {"FAILED"}
  /\ status[m] \in Out => ext[m]
  /\ dead[m] > 0 => status[m] = "FAILED" /\ ~ext[m] /\ dead[m] = 1
  /\ \A h \in Hooks : hk[h].pc = "apply" /\ hk[h].m = m => ext[m]
  /\ \A w \in Workers : Holds(w, m) /\ wk[w].pc # "mark" => sends[m] = 0

Sound == \A m \in Messages : ~lapse[m] => Sole(m) /\ Sent(m)

-----------------------------------------------------------------------------
(* Types.                                                                  *)

LEMMA JobConstants ==
  ASSUME ChannelAssumption
  PROVE  FreeJob \in JobRecord /\ NewJob \in JobRecord /\ GoneJob \in JobRecord
BY DEF ChannelAssumption, FreeJob, NewJob, GoneJob, JobRecord

LEMMA AfterFailureType ==
  ASSUME ChannelAssumption, NEW r \in JobRecord PROVE AfterFailure(r) \in JobRecord
<1>1. CASE r.tries < RetryLimit
  <2>1. r.tries + 1 \in 0 .. RetryLimit  BY <1>1 DEF ChannelAssumption, JobRecord
  <2>2. [r EXCEPT !.state = "created", !.tries = r.tries + 1] \in JobRecord
    BY <2>1 DEF JobRecord
  <2>3. QED  BY <1>1, <2>2 DEF AfterFailure
<1>2. QED  BY <1>1, JobConstants DEF AfterFailure

LEMMA OfferedType ==
  ASSUME ChannelAssumption, job \in [Messages -> JobRecord], NEW m, Offered(m)
  PROVE  job' \in [Messages -> JobRecord]
BY JobConstants DEF Offered

\* A worker that is not idle is at a message, and stays well-typed when it goes on.
LEMMA WorkerAt ==
  ASSUME WkType, NEW w \in Workers, wk[w].pc # "idle"
  PROVE  wk[w] \in BusyWorker /\ wk[w].m \in Messages /\ wk[w].snap \in Nat
BY DEF WkType, BusyWorker, IdleWorker

LEMMA GotoType ==
  ASSUME WkType, NEW w \in Workers, wk[w].pc # "idle", NEW l \in WorkPcs, Goto(w, l)
  PROVE  WkType'
<1>1. wk[w] \in BusyWorker  BY WorkerAt
<1>2. [wk[w] EXCEPT !.pc = l] \in BusyWorker  BY <1>1 DEF BusyWorker
<1>3. QED  BY <1>2 DEF Goto, WkType

LEMMA DoneType ==
  ASSUME ChannelAssumption, WkType, JobType, NEW w \in Workers, Done(w)
  PROVE  WkType' /\ job' \in [Messages -> JobRecord]
BY JobConstants DEF Done, WkType, JobType

LEMMA TypeInit == ASSUME ChannelAssumption, Init PROVE TypeInv
BY JobConstants DEF ChannelAssumption, Init, TypeInv, WkType, CrType, EnType, HkType, RowType, JobType,
   HistType, Status

LEMMA WorkerType ==
  ASSUME ChannelAssumption, TypeInv, NEW w \in Workers, WorkerStep(w) \/ AckLost(w) \/ Throw(w)
  PROVE  TypeInv'
<1> USE DEF TypeInv, rows, hist
<1>1. wk[w].pc # "idle"
  BY DEF WorkerStep, Claim, Inactive, Send, Refused, MarkSent, Requeue, Republish, Finish, Fail,
     FailBury, AckLost, Throw
<1>2. PICK m \in Messages : m = wk[w].m  BY <1>1, WorkerAt
<1>3. CASE Claim(w)
  <2>1. CASE SetStatus(m, "PROCESSING") /\ Goto(w, "send") /\ UNCHANGED job
    <3>1. WkType'  BY <1>1, <2>1, GotoType DEF WorkPcs, HoldPcs
    <3>2. QED
      BY <1>3, <2>1, <3>1 DEF Claim, SetStatus, CrType, EnType, HkType, RowType, JobType, HistType,
         Status
  <2>2. CASE Done(w) /\ UNCHANGED status
    <3>1. WkType' /\ job' \in [Messages -> JobRecord]  BY <2>2, DoneType
    <3>2. QED
      BY <1>3, <2>2, <3>1 DEF Claim, CrType, EnType, HkType, RowType, JobType, HistType
  <2>3. QED  BY <1>2, <1>3, <2>1, <2>2 DEF Claim
<1>4. CASE Inactive(w) \/ Refused(w)
  <2>1. WkType'  BY <1>1, <1>4, GotoType DEF Inactive, Refused, WorkPcs, HoldPcs
  <2>2. QED
    BY <1>4, <2>1 DEF Inactive, Refused, CrType, EnType, HkType, RowType, JobType, HistType
<1>5. CASE Send(w) \/ AckLost(w)
  <2>1. WkType'  BY <1>1, <1>5, GotoType DEF Send, AckLost, WorkPcs, HoldPcs
  <2>2. HistType'
    <3>1. sends' \in [Messages -> 0 .. 2]  BY <1>2, <1>5 DEF Send, AckLost, Counted, HistType
    <3>2. lapse' \in [Messages -> BOOLEAN]  BY <1>5 DEF Send, AckLost, HistType
    <3>3. faults' \in 0 .. MaxFaults
      BY <1>5 DEF Send, AckLost, Fault, HistType, ChannelAssumption
    <3>4. QED  BY <3>1, <3>2, <3>3 DEF HistType
  <2>3. QED
    BY <1>5, <2>1, <2>2 DEF Send, AckLost, CrType, EnType, HkType, RowType, JobType
<1>6. CASE MarkSent(w) \/ Fail(w)
  <2>1. WkType'  BY <1>1, <1>6, GotoType DEF MarkSent, Fail, WorkPcs, HoldPcs
  <2>2. RowType'  BY <1>2, <1>6 DEF MarkSent, Fail, SetStatus, RowType, Status
  <2>3. QED
    BY <1>6, <2>1, <2>2 DEF MarkSent, Fail, CrType, EnType, HkType, JobType, HistType
<1>7. CASE Requeue(w) \/ FailBury(w)
  <2>1. WkType'  BY <1>1, <1>7, GotoType DEF Requeue, FailBury, WorkPcs, HoldPcs
  <2>2. RowType'  BY <1>2, <1>7 DEF Requeue, FailBury, SetStatus, Bury, RowType, Status
  <2>3. QED
    BY <1>7, <2>1, <2>2 DEF Requeue, FailBury, CrType, EnType, HkType, JobType, HistType
<1>8. CASE Republish(w)
  <2>1. WkType'  BY <1>1, <1>8, GotoType DEF Republish, WorkPcs
  <2>2. JobType'  BY <1>8, OfferedType DEF Republish, JobType
  <2>3. QED
    BY <1>8, <2>1, <2>2 DEF Republish, CrType, EnType, HkType, RowType, HistType
<1>9. CASE Finish(w)
  <2>1. WkType' /\ job' \in [Messages -> JobRecord]  BY <1>9, DoneType DEF Finish
  <2>2. QED
    BY <1>9, <2>1 DEF Finish, CrType, EnType, HkType, RowType, JobType, HistType
<1>10. CASE Throw(w)
  <2>1. WkType'  BY <1>10 DEF Throw, WkType
  <2>2. AfterFailure(job[m]) \in JobRecord  BY AfterFailureType DEF JobType
  <2>3. job' = [job EXCEPT ![m] = AfterFailure(job[m])]  BY <1>2, <1>10 DEF Throw
  <2>4. JobType'  BY <1>10, <2>2, <2>3 DEF Throw, JobType
  <2>5. HistType'
    <3> DEFINE b == lapse[m] \/ wk[w].pc = "mark"
    <3>1. b \in BOOLEAN  OBVIOUS
    <3>2. lapse' = [lapse EXCEPT ![m] = b]  BY <1>2, <1>10 DEF Throw
    <3>3. lapse' \in [Messages -> BOOLEAN]  BY <3>1, <3>2 DEF HistType
    <3>4. QED  BY <1>10, <3>3 DEF Throw, Fault, HistType, ChannelAssumption
  <2>6. QED  BY <1>10, <2>1, <2>4, <2>5 DEF Throw, CrType, EnType, HkType, RowType
<1>11. QED
  BY <1>3, <1>4, <1>5, <1>6, <1>7, <1>8, <1>9, <1>10 DEF WorkerStep

LEMMA CronType ==
  ASSUME ChannelAssumption, TypeInv, NEW c \in Crons,
         CronStep(c) \/ \E m \in Messages : FindStale(c, m) \/ FindQueued(c, m)
  PROVE  TypeInv'
<1> USE DEF TypeInv, rows, hist
<1>1. ASSUME NEW m \in Messages, FindStale(c, m) PROVE TypeInv'
  <2>1. [pc |-> "stale", m |-> m, snap |-> retry[m]] \in BusyCron  BY DEF BusyCron, RowType
  <2>2. CrType'  BY <1>1, <2>1 DEF FindStale, CrType
  <2>3. HistType'  BY <1>1 DEF FindStale, Fault, HistType, ChannelAssumption
  <2>4. QED  BY <1>1, <2>2, <2>3 DEF FindStale, WkType, EnType, HkType, RowType, JobType
<1>2. ASSUME NEW m \in Messages, FindQueued(c, m) PROVE TypeInv'
  <2>1. [pc |-> "adopt", m |-> m, snap |-> 0] \in BusyCron  BY DEF BusyCron
  <2>2. CrType'  BY <1>2, <2>1 DEF FindQueued, CrType
  <2>3. QED  BY <1>2, <2>2 DEF FindQueued, WkType, EnType, HkType, RowType, JobType, HistType
<1>3. CASE Recover(c)
  <2>1. cr[c] \in BusyCron /\ cr[c].m \in Messages
    BY <1>3 DEF Recover, CrType, BusyCron, IdleWorker
  <2>2. \A l \in {"adopt", "bury"} : [cr[c] EXCEPT !.pc = l] \in BusyCron
    BY <2>1 DEF BusyCron
  <2>3. CrType'  BY <1>3, <2>2 DEF Recover, CrType
  <2>4. RowType'  BY <1>3, <2>1 DEF Recover, SetStatus, RowType, Status
  <2>5. HistType'  BY <1>3, <2>1 DEF Recover, Recovering, HistType
  <2>6. QED  BY <1>3, <2>3, <2>4, <2>5 DEF Recover, WkType, EnType, HkType, JobType
<1>4. CASE RecoverBury(c) \/ Adopt(c)
  <2>1. CrType'  BY <1>4 DEF RecoverBury, Adopt, CrType
  <2>2. cr[c].m \in Messages
    BY <1>4 DEF RecoverBury, Adopt, CrType, BusyCron, IdleWorker
  <2>3. RowType' /\ JobType'
    BY <1>4, <2>2 DEF RecoverBury, Adopt, Bury, RowType, JobType
  <2>4. QED  BY <1>4, <2>1, <2>3 DEF RecoverBury, Adopt, WkType, EnType, HkType, HistType
<1>5. QED  BY <1>1, <1>2, <1>3, <1>4 DEF CronStep

LEMMA TypeStep == ASSUME ChannelAssumption, TypeInv, [Next]_vars PROVE TypeInv'
<1> USE DEF TypeInv, rows, procs, hist
<1>1. ASSUME NEW m \in Messages, Submit(m) PROVE TypeInv'
  BY <1>1 DEF Submit, SetStatus, WkType, CrType, EnType, HkType, RowType, JobType, HistType, Status
<1>2. ASSUME NEW m \in Messages, Publish(m) PROVE TypeInv'
  <2>1. JobType'  BY <1>2, OfferedType DEF Publish, JobType
  <2>2. QED  BY <1>2, <2>1 DEF Publish, WkType, CrType, EnType, HkType, RowType, HistType
<1>3. ASSUME NEW m \in Messages, EngineClaim(m) PROVE TypeInv'
  BY <1>3 DEF EngineClaim, SetStatus, WkType, CrType, EnType, HkType, RowType, JobType, HistType,
     Status, BusyEngine
<1>4. ASSUME NEW w \in Workers, NEW m \in Messages, Load(w, m) PROVE TypeInv'
  <2>1. [pc |-> "claim", m |-> m, snap |-> retry[m]] \in BusyWorker
    BY DEF BusyWorker, WorkPcs, RowType
  <2>2. WkType'  BY <1>4, <2>1 DEF Load, WkType
  <2>3. [job[m] EXCEPT !.state = "active"] \in JobRecord  BY DEF JobType, JobRecord
  <2>4. job' = [job EXCEPT ![m] = GoneJob]
        \/ job' = [job EXCEPT ![m] = [job[m] EXCEPT !.state = "active"]]
    BY <1>4 DEF Load
  <2>5. JobType'  BY <1>4, <2>3, <2>4, JobConstants DEF Load, JobType
  <2>6. QED  BY <1>4, <2>2, <2>5 DEF Load, CrType, EnType, HkType, RowType, HistType
<1>5. CASE EngineStep
  <2>1. EnType'
    <3>1. CASE EngineFail
      <4>1. [en EXCEPT !.pc = "bury"] \in BusyEngine
        BY <3>1 DEF EngineFail, EnType, BusyEngine, IdleEngine
      <4>2. QED  BY <3>1, <4>1 DEF EngineFail, EnType
    <3>2. QED  BY <1>5, <3>1 DEF EngineStep, EngineBury, EnType
  <2>2. en.m \in Messages
    BY <1>5 DEF EngineStep, EngineFail, EngineBury, EnType, BusyEngine, IdleEngine
  <2>3. RowType'
    BY <1>5, <2>2 DEF EngineStep, EngineFail, EngineBury, SetStatus, Bury, RowType, Status
  <2>4. QED
    BY <1>5, <2>1, <2>3 DEF EngineStep, EngineFail, EngineBury, WkType, CrType, HkType, JobType,
       HistType
<1>6. ASSUME NEW h \in Hooks, NEW m \in Messages, NEW kind \in {"DELIVERED", "READ", "FAILED"},
             Receive(h, m, kind)
      PROVE  TypeInv'
  BY <1>6 DEF Receive, WkType, CrType, EnType, HkType, RowType, JobType, HistType, BusyHook
<1>7. ASSUME NEW h \in Hooks, ApplyUpdate(h) PROVE TypeInv'
  <2>1. hk[h].kind \in Status  BY <1>7 DEF ApplyUpdate, HkType, BusyHook, IdleHook, Status
  <2>2. QED
    BY <1>7, <2>1 DEF ApplyUpdate, SetStatus, WkType, CrType, EnType, HkType, RowType, JobType, HistType
<1>8. CASE Crash
  <2>1. JobType'  BY <1>8, AfterFailureType DEF Crash, JobType
  <2>2. HistType'  BY <1>8 DEF Crash, Fault, HistType, ChannelAssumption
  <2>3. QED  BY <1>8, <2>1, <2>2 DEF Crash, WkType, CrType, EnType, HkType, RowType
<1>9. CASE UNCHANGED vars
  BY <1>9 DEF vars, WkType, CrType, EnType, HkType, RowType, JobType, HistType
<1>10. QED
  BY <1>1, <1>2, <1>3, <1>4, <1>5, <1>6, <1>7, <1>8, <1>9, WorkerType, CronType DEF Next

\* Types: every variable keeps to its values, and an actor that is at work is at some message.
THEOREM TypeCorrect == Spec => []TypeInv
<1>1. Init => TypeInv  BY ChannelAssumption, TypeInit
<1>2. TypeInv /\ [Next]_vars => TypeInv'  BY ChannelAssumption, TypeStep
<1>3. QED  BY <1>1, <1>2, PTL DEF Spec

-----------------------------------------------------------------------------
(* One actor in charge.                                                    *)

LEMMA SoundInit == ASSUME ChannelAssumption, Init PROVE Sound
BY DEF ChannelAssumption, Init, Sound, Sole, Sent, Holds, Buries, Tasked, CronBuries, Dying,
   HoldPcs, Out, IdleWorker, IdleEngine, IdleHook

\* Only workers, the engine and the crons matter, and a step of one leaves the others alone.
LEMMA LapseStays ==
  ASSUME TypeInv, [Next]_vars, NEW m \in Messages, lapse[m] PROVE lapse'[m]
<1> USE DEF TypeInv, HistType, hist
<1>1. ASSUME NEW w \in Workers, WorkerStep(w) PROVE lapse'[m]
  BY <1>1 DEF WorkerStep, Claim, Inactive, Send, Refused, MarkSent, Requeue, Republish, Finish, Fail,
     FailBury
<1>2. ASSUME NEW w \in Workers, AckLost(w) PROVE lapse'[m]  BY <1>2 DEF AckLost
<1>3. ASSUME NEW w \in Workers, Throw(w) PROVE lapse'[m]  BY <1>3 DEF Throw
<1>4. ASSUME NEW c \in Crons, CronStep(c) PROVE lapse'[m]
  BY <1>4 DEF CronStep, Recover, Recovering, RecoverBury, Adopt
<1>5. CASE Crash  BY <1>5 DEF Crash
<1>6. CASE UNCHANGED vars  BY <1>6 DEF vars
<1>7. QED
  BY <1>1, <1>2, <1>3, <1>4, <1>5, <1>6 DEF Next, Submit, Publish, EngineClaim, Load, FindStale,
     FindQueued, EngineStep, EngineFail, EngineBury, Receive, ApplyUpdate

LEMMA SoundWorker ==
  ASSUME TypeInv, TypeInv', NEW m \in Messages, Sole(m), Sent(m), ~lapse'[m],
         NEW w \in Workers, WorkerStep(w) \/ AckLost(w) \/ Throw(w)
  PROVE  Sole(m)' /\ Sent(m)'
<1> USE DEF rows, hist
<1>1. wk[w].pc # "idle"
  BY DEF WorkerStep, Claim, Inactive, Send, Refused, MarkSent, Requeue, Republish, Finish, Fail,
     FailBury, AckLost, Throw
<1>2. wk[w] \in BusyWorker /\ wk[w].m \in Messages  BY <1>1, WorkerAt DEF TypeInv
<1>3. \A v \in Workers \ {w} : wk'[v] = wk[v]
  BY DEF WorkerStep, Claim, Inactive, Send, Refused, MarkSent, Requeue, Republish, Finish, Fail,
     FailBury, AckLost, Throw, Goto, Done, TypeInv, WkType
<1>4. UNCHANGED <<cr, en, hk>>
  BY DEF WorkerStep, Claim, Inactive, Send, Refused, MarkSent, Requeue, Republish, Finish, Fail,
     FailBury, AckLost, Throw
<1>5. CASE wk[w].m # m
  <2>1. ~Tasked(w, m) /\ ~Tasked(w, m)' /\ ~(wk'[w].m = m /\ wk'[w].pc \in WorkPcs)
    <3>1. wk'[w] = IdleWorker \/ wk'[w].m = wk[w].m
      BY <1>2 DEF WorkerStep, Claim, Inactive, Send, Refused, MarkSent, Requeue, Republish, Finish,
         Fail, FailBury, AckLost, Throw, Goto, Done, TypeInv, WkType, BusyWorker
    <3>2. QED  BY <1>5, <3>1 DEF Tasked, Holds, Buries, IdleWorker, WorkPcs, HoldPcs
  <2>2. UNCHANGED <<status[m], ext[m], dead[m], sends[m]>>
    BY <1>2, <1>5 DEF WorkerStep, Claim, Inactive, Send, Refused, MarkSent, Requeue, Republish,
       Finish, Fail, FailBury, AckLost, Throw, SetStatus, Counted, Bury, TypeInv, RowType, HistType
  <2>3. QED
    BY <1>3, <1>4, <1>5, <2>1, <2>2 DEF Sole, Sent, Tasked, Holds, Buries, Dying, CronBuries,
       WorkPcs, HoldPcs
<1>6. CASE wk[w].m = m
  <2>1. wk \in [Workers -> BusyWorker \cup {IdleWorker}] /\ status \in [Messages -> Status]
        /\ ext \in [Messages -> BOOLEAN] /\ dead \in [Messages -> 0 .. 2]
        /\ sends \in [Messages -> 0 .. 2] /\ lapse \in [Messages -> BOOLEAN]
    BY DEF TypeInv, WkType, RowType, HistType
  <2> USE DEF Sole, Sent, Tasked, Holds, Buries, Dying, CronBuries, HoldPcs, Out
  <2>2. CASE Claim(w)
    <3>1. CASE Claimable(m)
      <4>1. /\ wk'[w].m = m /\ wk'[w].pc = "send" /\ status'[m] = "PROCESSING"
            /\ status[m] = "QUEUED" /\ UNCHANGED <<ext, dead, sends>>
        BY <1>2, <1>6, <2>1, <2>2, <3>1 DEF Claim, Claimable, Goto, SetStatus, BusyWorker
      <4>2. \A v \in Workers : ~Tasked(v, m)  BY <1>6, <2>2, <4>1 DEF Claim
      <4>3. en.m # m /\ \A c \in Crons : ~CronBuries(c, m)  BY <4>1
      <4>4. sends[m] = 0 /\ ~ext[m] /\ dead[m] = 0  BY <2>1, <4>1, <4>2
      <4>5. Sole(m)'  BY <1>3, <1>4, <4>1, <4>2, <4>3, <4>4
      <4>6. Sent(m)'  BY <1>3, <1>4, <4>1, <4>2, <4>3, <4>4
      <4>7. QED  BY <4>5, <4>6
    <3>2. CASE ~Claimable(m)
      <4>1. wk'[w] = IdleWorker /\ UNCHANGED <<status, ext, dead, sends>>
        BY <1>6, <2>1, <2>2, <3>2 DEF Claim, Done
      <4>2. QED  BY <1>3, <1>4, <1>6, <2>2, <4>1 DEF Claim, IdleWorker
    <3>3. QED  BY <3>1, <3>2
  <2>3. CASE Inactive(w) \/ Refused(w)
    <3>1. /\ wk'[w].m = m /\ wk[w].pc = "send" /\ wk'[w].pc \in {"fail", "failBury", "requeue"}
          /\ UNCHANGED <<status, ext, dead, sends>>
      BY <1>2, <1>6, <2>1, <2>3 DEF Inactive, Refused, Goto, BusyWorker
    <3>2. QED  BY <1>3, <1>4, <1>6, <3>1
  <2>4. CASE Send(w)
    <3>1. /\ wk'[w].m = m /\ wk[w].pc = "send" /\ wk'[w].pc = "mark"
          /\ sends'[m] = (IF sends[m] < 2 THEN sends[m] + 1 ELSE sends[m])
          /\ UNCHANGED <<status, ext, dead>>
      BY <1>2, <1>6, <2>1, <2>4 DEF Send, Counted, Goto, BusyWorker
    <3>2. sends[m] = 0 /\ sends'[m] = 1  BY <1>6, <3>1
    <3>3. Sole(m)'  BY <1>3, <1>4, <1>6, <3>1
    <3>4. Sent(m)'  BY <1>3, <1>4, <1>6, <3>1, <3>2
    <3>5. QED  BY <3>3, <3>4
  <2>5. CASE MarkSent(w)
    <3>1. /\ wk'[w].m = m /\ wk[w].pc = "mark" /\ wk'[w].pc = "done"
          /\ status'[m] = "SENT" /\ ext'[m] /\ UNCHANGED <<dead, sends>>
      BY <1>2, <1>6, <2>1, <2>5 DEF MarkSent, SetStatus, Goto, BusyWorker
    <3>2. Tasked(w, m) /\ ~Tasked(w, m)' /\ status[m] = "PROCESSING"  BY <1>6, <3>1
    <3>3. ~Dying(m) /\ en.m # m  BY <3>2
    <3>4. \A v \in Workers : ~Tasked(v, m)'  BY <1>3, <3>2
    <3>5. Sole(m)'  BY <1>4, <3>3, <3>4
    <3>6. Sent(m)'  BY <1>3, <1>4, <3>1, <3>2, <3>4
    <3>7. QED  BY <3>5, <3>6
  <2>6. CASE Requeue(w)
    <3>1. /\ wk'[w].m = m /\ wk[w].pc = "requeue" /\ wk'[w].pc = "republish"
          /\ status'[m] = "QUEUED" /\ UNCHANGED <<ext, dead, sends>>
      BY <1>2, <1>6, <2>1, <2>6 DEF Requeue, SetStatus, Goto, BusyWorker
    <3>2. Tasked(w, m) /\ ~Tasked(w, m)' /\ status[m] = "PROCESSING" /\ sends[m] = 0  BY <1>6, <3>1
    <3>3. ~Dying(m) /\ en.m # m  BY <3>2
    <3>4. \A v \in Workers : ~Tasked(v, m)'  BY <1>3, <3>2
    <3>5. Sole(m)'  BY <1>4, <3>3, <3>4
    <3>6. Sent(m)'  BY <1>3, <1>4, <3>1, <3>2, <3>4
    <3>7. QED  BY <3>5, <3>6
  <2>7. CASE Republish(w) \/ Finish(w)
    <3>1. /\ ~Tasked(w, m) /\ ~Tasked(w, m)' /\ wk'[w].pc \in {"done", "idle"}
          /\ wk[w].pc # "mark" /\ UNCHANGED <<status, ext, dead, sends>>
      BY <1>2, <1>6, <2>1, <2>7 DEF Republish, Finish, Done, Goto, BusyWorker, IdleWorker
    <3>2. QED  BY <1>3, <1>4, <3>1
  <2>8. CASE Fail(w)
    <3>1. /\ wk'[w].m = m /\ wk[w].pc \in {"fail", "failBury"} /\ wk'[w].pc \in {"done", "bury"}
          /\ status'[m] = "FAILED" /\ UNCHANGED <<ext, dead, sends>>
      BY <1>2, <1>6, <2>1, <2>8 DEF Fail, SetStatus, Goto, BusyWorker
    <3>2. Tasked(w, m) /\ status[m] = "PROCESSING" /\ sends[m] = 0 /\ ~ext[m]
      BY <1>6, <2>1, <3>1
    <3>3. dead[m] = 0 /\ ~Dying(m) /\ en.m # m  BY <2>1, <3>2
    <3>4. \A v \in Workers : Tasked(v, m)' => v = w  BY <1>3, <3>2
    <3>5. Sole(m)'  BY <1>3, <1>4, <3>1, <3>2, <3>3, <3>4
    <3>6. Sent(m)'  BY <1>3, <1>4, <3>1, <3>2, <3>3, <3>4
    <3>7. QED  BY <3>5, <3>6
  <2>9. CASE FailBury(w)
    <3>1. /\ wk'[w].m = m /\ wk[w].pc = "bury" /\ wk'[w].pc = "done"
          /\ dead'[m] = (IF dead[m] < 2 THEN dead[m] + 1 ELSE dead[m])
          /\ UNCHANGED <<status, ext, sends>>
      BY <1>2, <1>6, <2>1, <2>9 DEF FailBury, Bury, Goto, BusyWorker
    <3>2. Tasked(w, m) /\ ~Tasked(w, m)' /\ Dying(m) /\ dead'[m] = 1  BY <1>6, <3>1
    <3>3. (\A v \in Workers : ~Tasked(v, m)') /\ en.m # m /\ \A c \in Crons : ~CronBuries(c, m)
      BY <1>3, <3>2
    <3>4. Sole(m)'  BY <1>4, <3>3
    <3>5. Sent(m)'  BY <1>3, <1>4, <3>1, <3>2, <3>3
    <3>6. QED  BY <3>4, <3>5
  <2>10. CASE AckLost(w)
    <3>1. lapse'[m]  BY <1>6, <2>1, <2>10 DEF AckLost
    <3>2. QED  BY <3>1
  <2>11. CASE Throw(w)
    <3>1. wk[w].pc # "mark"
      <4>1. wk[w].pc = "mark" => lapse'[m]  BY <1>6, <2>1, <2>11 DEF Throw
      <4>2. QED  BY <4>1
    <3>2. wk'[w] = IdleWorker /\ UNCHANGED <<status, ext, dead, sends>>
      BY <2>1, <2>11 DEF Throw
    <3>3. QED  BY <1>3, <1>4, <1>6, <3>1, <3>2 DEF IdleWorker
  <2>12. QED
    BY <2>2, <2>3, <2>4, <2>5, <2>6, <2>7, <2>8, <2>9, <2>10, <2>11 DEF WorkerStep
<1>7. QED  BY <1>5, <1>6

LEMMA SoundCron ==
  ASSUME TypeInv, TypeInv', NEW m \in Messages, Sole(m), Sent(m), ~lapse'[m],
         NEW c \in Crons,
         CronStep(c) \/ \E a \in Messages : FindStale(c, a) \/ FindQueued(c, a)
  PROVE  Sole(m)' /\ Sent(m)'
<1> USE DEF rows, hist
<1>1. UNCHANGED <<wk, en, hk, ext, sends>>
  BY DEF CronStep, Recover, RecoverBury, Adopt, FindStale, FindQueued
<1>2. \A d \in Crons \ {c} : cr'[d] = cr[d]
  BY DEF CronStep, Recover, RecoverBury, Adopt, FindStale, FindQueued, TypeInv, CrType
<1>3. cr \in [Crons -> BusyCron \cup {IdleWorker}] /\ status \in [Messages -> Status]
      /\ ext \in [Messages -> BOOLEAN] /\ dead \in [Messages -> 0 .. 2]
      /\ sends \in [Messages -> 0 .. 2] /\ lapse \in [Messages -> BOOLEAN]
  BY DEF TypeInv, CrType, RowType, HistType
<1>4. ASSUME ~CronBuries(c, m)', UNCHANGED <<status[m], dead[m]>>
      PROVE  Sole(m)' /\ Sent(m)'
  <2>1. \A d \in Crons : CronBuries(d, m)' => CronBuries(d, m)
    BY <1>2, <1>4 DEF CronBuries
  <2>2. Sole(m)'  BY <1>1, <1>4, <2>1 DEF Sole, Tasked, Holds, Buries, Dying
  <2>3. Sent(m)'  BY <1>1, <1>4 DEF Sent, Holds
  <2>4. QED  BY <2>2, <2>3
<1>5. CASE \E a \in Messages : FindStale(c, a) \/ FindQueued(c, a)
  BY <1>3, <1>4, <1>5 DEF FindStale, FindQueued, CronBuries
<1>6. CASE Adopt(c)  BY <1>3, <1>4, <1>6 DEF Adopt, CronBuries, IdleWorker
<1>7. CASE RecoverBury(c)
  <2>1. ~CronBuries(c, m)'  BY <1>3, <1>7 DEF RecoverBury, CronBuries, IdleWorker
  <2>2. CASE cr[c].m # m
    <3>1. UNCHANGED <<status[m], dead[m]>>  BY <1>3, <1>7, <2>2 DEF RecoverBury, Bury
    <3>2. QED  BY <1>4, <2>1, <3>1
  <2>3. CASE cr[c].m = m
    <3>1. CronBuries(c, m) /\ Dying(m)  BY <1>7, <2>3 DEF RecoverBury, CronBuries, Dying
    <3>2. status' = status /\ dead'[m] = 1 /\ status[m] = "FAILED" /\ ~ext[m]
      BY <1>3, <1>7, <2>3, <3>1 DEF RecoverBury, Bury, Sole
    <3>3. (\A d \in Crons : ~CronBuries(d, m)') /\ en.m # m /\ \A w \in Workers : ~Tasked(w, m)
      BY <1>2, <2>1, <3>1 DEF Sole, CronBuries
    <3>4. Sole(m)'  BY <1>1, <3>3 DEF Sole, Tasked, Holds, Buries, Dying
    <3>5. Sent(m)'  BY <1>1, <3>2, <3>3 DEF Sent, Holds, Tasked
    <3>6. QED  BY <3>4, <3>5
  <2>4. QED  BY <2>2, <2>3
<1>8. CASE Recover(c)
  <2>1. cr[c] \in BusyCron /\ cr[c].pc = "stale" /\ cr'[c].m = cr[c].m
        /\ cr'[c].pc \in {"adopt", "bury"} /\ dead' = dead
    BY <1>3, <1>8 DEF Recover, BusyCron, IdleWorker
  <2>2. CASE cr[c].m # m
    <3>1. ~CronBuries(c, m)' /\ UNCHANGED <<status[m], dead[m]>>
      BY <1>3, <1>8, <2>1, <2>2 DEF Recover, SetStatus, CronBuries
    <3>2. QED  BY <1>4, <3>1
  <2>3. CASE cr[c].m = m
    <3>1. status[m] = "PROCESSING" /\ ~Held(m)
      <4>1. status[m] # "PROCESSING" \/ Held(m) => lapse'[m]
        BY <1>3, <1>8, <2>3 DEF Recover, Recovering
      <4>2. QED  BY <4>1
    <3>2. en.m # m /\ \A w \in Workers : wk[w].m = m => wk[w].pc = "claim"
      BY <3>1 DEF Held
    <3>3. \A w \in Workers : ~Tasked(w, m)
      BY <3>2 DEF Tasked, Holds, Buries, HoldPcs
    <3>4. ~ext[m] /\ sends[m] = 0 /\ dead[m] = 0
      BY <1>3, <3>1, <3>2 DEF Sent, Out
    <3>5. \A d \in Crons : ~CronBuries(d, m)  BY <3>1 DEF Sole, Dying
    <3>6. status'[m] \in {"QUEUED", "FAILED"} /\ (CronBuries(c, m)' => status'[m] = "FAILED")
      <4>1. CASE cr[c].snap < MaxRetries
        BY <1>3, <1>8, <2>1, <2>3, <4>1 DEF Recover, SetStatus, CronBuries, BusyCron
      <4>2. CASE ~(cr[c].snap < MaxRetries)
        BY <1>3, <1>8, <2>1, <2>3, <4>2 DEF Recover, SetStatus, CronBuries, BusyCron
      <4>3. QED  BY <4>1, <4>2
    <3>7. \A d \in Crons : CronBuries(d, m)' => d = c  BY <1>2, <3>5 DEF CronBuries
    <3>8. Sole(m)'
      BY <1>1, <2>1, <3>2, <3>3, <3>4, <3>6, <3>7 DEF Sole, Tasked, Holds, Buries, Dying
    <3>9. Sent(m)'
      BY <1>1, <2>1, <3>2, <3>3, <3>4, <3>6 DEF Sent, Holds, Tasked, Out
    <3>10. QED  BY <3>8, <3>9
  <2>4. QED  BY <2>2, <2>3
<1>9. QED  BY <1>5, <1>6, <1>7, <1>8 DEF CronStep

LEMMA SoundStep ==
  ASSUME ChannelAssumption, TypeInv, TypeInv', Sound, [Next]_vars, NEW m \in Messages, ~lapse'[m]
  PROVE  Sole(m)' /\ Sent(m)'
<1> USE DEF rows, procs, hist
<1>1. Sole(m) /\ Sent(m)  BY LapseStays DEF Sound
<1>2. /\ wk \in [Workers -> BusyWorker \cup {IdleWorker}] /\ status \in [Messages -> Status]
      /\ ext \in [Messages -> BOOLEAN] /\ dead \in [Messages -> 0 .. 2]
      /\ sends \in [Messages -> 0 .. 2] /\ lapse \in [Messages -> BOOLEAN]
      /\ en \in BusyEngine \cup {IdleEngine} /\ hk \in [Hooks -> BusyHook \cup {IdleHook}]
      /\ cr \in [Crons -> BusyCron \cup {IdleWorker}]
  BY DEF TypeInv, WkType, CrType, EnType, HkType, RowType, HistType
<1>3. ASSUME UNCHANGED <<wk, cr, en, hk, dead, ext, sends, status[m]>>
      PROVE  Sole(m)' /\ Sent(m)'
  <2>1. Sole(m)'  BY <1>1, <1>3 DEF Sole, Tasked, Holds, Buries, CronBuries, Dying
  <2>2. Sent(m)'  BY <1>1, <1>3 DEF Sent, Holds
  <2>3. QED  BY <2>1, <2>2
<1>4. ASSUME NEW a \in Messages, Submit(a) PROVE Sole(m)' /\ Sent(m)'
  <2>1. CASE a # m
    <3>1. status'[m] = status[m]  BY <1>2, <1>4, <2>1 DEF Submit, SetStatus
    <3>2. QED  BY <1>3, <1>4, <3>1 DEF Submit
  <2>2. CASE a = m
    <3>1. status[m] = "NONE" /\ status'[m] = "QUEUED" /\ UNCHANGED <<wk, cr, en, hk, dead, ext, sends>>
      BY <1>2, <1>4, <2>2 DEF Submit, SetStatus
    <3>2. ~Dying(m) /\ en.m # m /\ \A w \in Workers : ~Tasked(w, m)
      BY <1>1, <3>1 DEF Sole, Tasked, Dying
    <3>3. Sole(m)'  BY <1>1, <3>1, <3>2 DEF Sole, Tasked, Holds, Buries, CronBuries, Dying
    <3>4. Sent(m)'  BY <1>1, <1>2, <3>1, <3>2 DEF Sent, Holds, Tasked, Out
    <3>5. QED  BY <3>3, <3>4
  <2>3. QED  BY <2>1, <2>2
<1>5. ASSUME NEW a \in Messages, Publish(a) PROVE Sole(m)' /\ Sent(m)'
  BY <1>3, <1>5 DEF Publish
<1>6. ASSUME NEW a \in Messages, EngineClaim(a) PROVE Sole(m)' /\ Sent(m)'
  <2>1. CASE status[a] # "QUEUED"  BY <1>3, <1>6, <2>1 DEF EngineClaim
  <2>2. CASE status[a] = "QUEUED"
    <3>1. /\ en.pc = "idle" /\ en'.pc = "fail" /\ en'.m = a /\ status'[a] = "PROCESSING"
          /\ \A b \in Messages \ {a} : status'[b] = status[b]
          /\ UNCHANGED <<wk, cr, hk, dead, ext, sends>>
      BY <1>2, <1>6, <2>2 DEF EngineClaim, SetStatus
    <3>2. en = IdleEngine /\ en.m # m
      BY <1>2, <3>1 DEF BusyEngine, IdleEngine, ChannelAssumption
    <3>3. CASE a # m
      <4>1. status'[m] = status[m] /\ en'.m # m  BY <3>1, <3>3
      <4>2. Sole(m)'
        BY <1>1, <3>1, <3>2, <4>1 DEF Sole, Tasked, Holds, Buries, CronBuries, Dying
      <4>3. Sent(m)'  BY <1>1, <3>1, <4>1 DEF Sent, Holds
      <4>4. QED  BY <4>2, <4>3
    <3>4. CASE a = m
      <4>1. ~Dying(m) /\ \A w \in Workers : ~Tasked(w, m)
        BY <1>1, <2>2, <3>4 DEF Sole, Tasked, Dying
      <4>2. \A w \in Workers : wk[w].m = m => wk[w].pc # "mark"
        BY <4>1 DEF Tasked, Holds, HoldPcs
      <4>3. ~ext[m] /\ sends[m] = 0 /\ dead[m] = 0
        BY <1>1, <1>2, <2>2, <3>4, <4>2 DEF Sent, Out
      <4>4. Sole(m)'
        BY <3>1, <3>4, <4>1 DEF Sole, Tasked, Holds, Buries, CronBuries, Dying
      <4>5. Sent(m)'  BY <1>1, <3>1, <3>4, <4>1, <4>3 DEF Sent, Holds, Tasked, Out
      <4>6. QED  BY <4>4, <4>5
    <3>5. QED  BY <3>3, <3>4
  <2>3. QED  BY <2>1, <2>2
<1>7. ASSUME NEW w \in Workers, NEW a \in Messages, Load(w, a) PROVE Sole(m)' /\ Sent(m)'
  <2>1. CASE UNCHANGED wk  BY <1>3, <1>7, <2>1 DEF Load
  <2>2. CASE wk' = [wk EXCEPT ![w] = [pc |-> "claim", m |-> a, snap |-> retry[a]]]
    <3>1. /\ \A v \in Workers \ {w} : wk'[v] = wk[v]
          /\ wk'[w].pc = "claim" /\ wk[w].pc = "idle"
          /\ UNCHANGED <<cr, en, hk, dead, ext, sends, status>>
      BY <1>2, <1>7, <2>2 DEF Load
    <3>2. Sole(m)'
      BY <1>1, <3>1 DEF Sole, Tasked, Holds, Buries, CronBuries, Dying, HoldPcs
    <3>3. Sent(m)'  BY <1>1, <3>1 DEF Sent, Holds, HoldPcs
    <3>4. QED  BY <3>2, <3>3
  <2>3. QED  BY <1>7, <2>1, <2>2 DEF Load
<1>8. CASE EngineFail
  <2>1. en \in BusyEngine /\ en.pc = "fail" /\ en'.pc = "bury" /\ en'.m = en.m
        /\ status' = [status EXCEPT ![en.m] = "FAILED"]
        /\ UNCHANGED <<wk, cr, hk, dead, ext, sends>>
    BY <1>2, <1>8 DEF EngineFail, SetStatus, BusyEngine, IdleEngine
  <2>2. CASE en.m # m
    <3>1. status'[m] = status[m]  BY <1>2, <2>1, <2>2
    <3>2. Sole(m)'
      BY <1>1, <2>1, <2>2, <3>1 DEF Sole, Tasked, Holds, Buries, CronBuries, Dying
    <3>3. Sent(m)'  BY <1>1, <2>1, <3>1 DEF Sent, Holds
    <3>4. QED  BY <3>2, <3>3
  <2>3. CASE en.m = m
    <3>1. status[m] = "PROCESSING" /\ status'[m] = "FAILED"  BY <1>1, <1>2, <2>1, <2>3 DEF Sole
    <3>2. /\ ~Dying(m) /\ \A w \in Workers : ~Tasked(w, m)
          /\ \A c \in Crons : ~CronBuries(c, m)
      BY <1>1, <2>3, <3>1 DEF Sole, Dying
    <3>3. \A w \in Workers : wk[w].m = m => wk[w].pc # "mark"
      BY <3>2 DEF Tasked, Holds, HoldPcs
    <3>4. ~ext[m] /\ dead[m] = 0 /\ sends[m] = 0  BY <1>1, <1>2, <3>1, <3>3 DEF Sent, Out
    <3>5. Sole(m)'
      BY <2>1, <2>3, <3>1, <3>2, <3>4 DEF Sole, Tasked, Holds, Buries, CronBuries, Dying
    <3>6. Sent(m)'  BY <1>1, <2>1, <3>1, <3>2, <3>4 DEF Sent, Holds, Tasked, Out
    <3>7. QED  BY <3>5, <3>6
  <2>4. QED  BY <2>2, <2>3
<1>9. CASE EngineBury
  <2>1. en \in BusyEngine /\ en.pc = "bury" /\ en' = IdleEngine /\ en'.m # m
        /\ dead' = [dead EXCEPT ![en.m] = IF @ < 2 THEN @ + 1 ELSE @]
        /\ UNCHANGED <<wk, cr, hk, status, ext, sends>>
    BY <1>2, <1>9 DEF EngineBury, Bury, BusyEngine, IdleEngine, ChannelAssumption
  <2>2. CASE en.m # m
    <3>1. dead'[m] = dead[m]  BY <1>2, <2>1, <2>2
    <3>2. Sole(m)'
      BY <1>1, <2>1, <2>2, <3>1 DEF Sole, Tasked, Holds, Buries, CronBuries, Dying
    <3>3. Sent(m)'  BY <1>1, <2>1, <3>1 DEF Sent, Holds
    <3>4. QED  BY <3>2, <3>3
  <2>3. CASE en.m = m
    <3>1. status[m] = "FAILED" /\ dead[m] = 0 /\ ~ext[m]  BY <1>1, <2>1, <2>3 DEF Sole, Dying
    <3>2. dead'[m] = 1  BY <1>2, <2>1, <2>3, <3>1
    <3>3. (\A w \in Workers : ~Tasked(w, m)) /\ \A c \in Crons : ~CronBuries(c, m)
      BY <1>1, <2>3 DEF Sole
    <3>4. Sole(m)'  BY <2>1, <3>3 DEF Sole, Tasked, Holds, Buries, CronBuries, Dying
    <3>5. Sent(m)'  BY <1>1, <2>1, <3>1, <3>2, <3>3 DEF Sent, Holds, Tasked
    <3>6. QED  BY <3>4, <3>5
  <2>4. QED  BY <2>2, <2>3
<1>10. ASSUME NEW h \in Hooks, NEW a \in Messages, NEW kind \in {"DELIVERED", "READ", "FAILED"},
              Receive(h, a, kind)
       PROVE  Sole(m)' /\ Sent(m)'
  <2>1. /\ \A g \in Hooks \ {h} : hk'[g] = hk[g]
        /\ hk'[h].m = a /\ ext[a] /\ UNCHANGED <<wk, cr, en, dead, ext, sends, status>>
    BY <1>2, <1>10 DEF Receive
  <2>2. Sole(m)'  BY <1>1, <2>1 DEF Sole, Tasked, Holds, Buries, CronBuries, Dying
  <2>3. Sent(m)'  BY <1>1, <2>1 DEF Sent, Holds
  <2>4. QED  BY <2>2, <2>3
<1>11. ASSUME NEW h \in Hooks, ApplyUpdate(h) PROVE Sole(m)' /\ Sent(m)'
  <2>1. /\ hk[h] \in BusyHook /\ hk[h].pc = "apply" /\ hk'[h].pc = "idle"
        /\ \A g \in Hooks \ {h} : hk'[g] = hk[g]
        /\ status' = [status EXCEPT ![hk[h].m] = hk[h].kind]
        /\ UNCHANGED <<wk, cr, en, dead, ext, sends>>
    BY <1>2, <1>11 DEF ApplyUpdate, SetStatus, BusyHook, IdleHook
  <2>2. \A g \in Hooks : hk'[g].pc = "apply" => hk'[g] = hk[g]  BY <2>1
  <2>3. CASE hk[h].m # m
    <3>1. status'[m] = status[m]  BY <1>2, <2>1, <2>3
    <3>2. Sole(m)'  BY <1>1, <2>1, <3>1 DEF Sole, Tasked, Holds, Buries, CronBuries, Dying
    <3>3. Sent(m)'  BY <1>1, <2>1, <2>2, <3>1 DEF Sent, Holds
    <3>4. QED  BY <3>2, <3>3
  <2>4. CASE hk[h].m = m
    <3>1. status'[m] \in {"DELIVERED", "READ", "FAILED"}  BY <1>2, <2>1, <2>4 DEF BusyHook
    <3>2. ext[m]  BY <1>1, <2>1, <2>4 DEF Sent
    <3>3. status[m] \in Out \cup {"FAILED"} /\ ~Dying(m) /\ dead[m] = 0
      BY <1>1, <1>2, <3>2 DEF Sent, Sole
    <3>4. \A w \in Workers : ~Tasked(w, m)
      BY <1>1, <3>3 DEF Sole, Tasked, Dying, Out
    <3>5. en.m # m
      BY <1>1, <1>2, <3>3 DEF Sole, Dying, Out, BusyEngine, IdleEngine, ChannelAssumption
    <3>6. Sole(m)'
      BY <2>1, <3>3, <3>4, <3>5 DEF Sole, Tasked, Holds, Buries, CronBuries, Dying
    <3>7. Sent(m)'
      BY <1>1, <2>1, <2>2, <3>1, <3>2, <3>3, <3>4 DEF Sent, Holds, Tasked, Out
    <3>8. QED  BY <3>6, <3>7
  <2>5. QED  BY <2>3, <2>4
<1>12. CASE Crash
  <2>1. /\ \A w \in Workers : wk'[w].pc = "idle"
        /\ \A c \in Crons : cr'[c].pc = "idle"
        /\ \A h \in Hooks : hk'[h].pc = "idle"
        /\ en' = IdleEngine /\ en'.m # m
        /\ UNCHANGED <<status, ext, dead, sends>>
    BY <1>12 DEF Crash, IdleWorker, IdleEngine, IdleHook, ChannelAssumption
  <2>2. \A w \in Workers : ~(wk[w].m = m /\ wk[w].pc = "mark")
    BY <1>12 DEF Crash
  <2>3. Sole(m)'  BY <2>1 DEF Sole, Tasked, Holds, Buries, CronBuries, Dying, HoldPcs
  <2>4. Sent(m)'  BY <1>1, <2>1, <2>2 DEF Sent, Holds, HoldPcs
  <2>5. QED  BY <2>3, <2>4
<1>13. CASE UNCHANGED vars  BY <1>3, <1>13 DEF vars
<1>14. ASSUME NEW w \in Workers, WorkerStep(w) \/ AckLost(w) \/ Throw(w)
       PROVE  Sole(m)' /\ Sent(m)'
  BY <1>1, <1>14, SoundWorker
<1>15. ASSUME NEW c \in Crons,
              CronStep(c) \/ \E a \in Messages : FindStale(c, a) \/ FindQueued(c, a)
       PROVE  Sole(m)' /\ Sent(m)'
  BY <1>1, <1>15, SoundCron
<1>16. QED
  BY <1>4, <1>5, <1>6, <1>7, <1>8, <1>9, <1>10, <1>11, <1>12, <1>13, <1>14, <1>15
     DEF Next, EngineStep

LEMMA SoundNext ==
  ASSUME ChannelAssumption, TypeInv, TypeInv', Sound, [Next]_vars PROVE Sound'
BY SoundStep DEF Sound

LEMMA SoundCorrect == Spec => []Sound
<1>1. Init => Sound  BY ChannelAssumption, SoundInit
<1>2. TypeInv /\ TypeInv' /\ Sound /\ [Next]_vars => Sound'  BY ChannelAssumption, SoundNext
<1>3. QED  BY <1>1, <1>2, TypeCorrect, PTL DEF Spec

-----------------------------------------------------------------------------
\* A message is handed to the provider once, unless a fault hid that it was.
THEOREM OneSend == Spec => []SentOnce
<1>1. TypeInv /\ Sound => SentOnce
  BY DEF TypeInv, HistType, Sound, Sent, SentOnce
<1>2. QED  BY <1>1, TypeCorrect, SoundCorrect, PTL

\* A message that was handed to the provider is not buried, and one that is buried is buried once.
THEOREM NoLiveBurial == Spec => []BuriedUnsent
<1>1. ASSUME TypeInv, Sound, NEW m \in Messages, ~lapse[m]
      PROVE  (dead[m] > 0 => sends[m] = 0) /\ dead[m] <= 1
  <2>1. Sole(m) /\ Sent(m) /\ dead[m] \in 0 .. 2 /\ sends[m] \in 0 .. 2
    BY <1>1 DEF Sound, TypeInv, RowType, HistType
  <2>2. dead[m] > 0 => status[m] = "FAILED" /\ ~ext[m] /\ dead[m] = 1  BY <2>1 DEF Sent
  <2>3. status[m] = "FAILED" => \A w \in Workers : ~(wk[w].m = m /\ wk[w].pc = "mark")
    BY <2>1 DEF Sole, Holds, HoldPcs
  <2>4. QED  BY <2>1, <2>2, <2>3 DEF Sent
<1>2. TypeInv /\ Sound => BuriedUnsent  BY <1>1 DEF BuriedUnsent
<1>3. QED  BY <1>2, TypeCorrect, SoundCorrect, PTL

\* A message that went out does not return to the queue.
THEOREM NoReturn == Spec => SentStays
<1>1. ASSUME TypeInv, TypeInv', Sound, [Next]_vars, NEW m \in Messages,
             status[m] \in Out, ~lapse'[m]
      PROVE  status'[m] \notin {"QUEUED", "PROCESSING"}
  <2>1. Sole(m) /\ Sent(m) /\ ~lapse[m]  BY <1>1, LapseStays DEF Sound
  <2>2. ext[m]  BY <1>1, <2>1 DEF Sent
  <2>3. ext'[m]
    <3> USE DEF rows, procs, hist
    <3>1. ASSUME NEW w \in Workers, WorkerStep(w) \/ AckLost(w) \/ Throw(w) PROVE ext'[m]
      BY <1>1, <2>2, <3>1 DEF WorkerStep, Claim, Inactive, Send, Refused, MarkSent, Requeue,
         Republish, Finish, Fail, FailBury, AckLost, Throw, TypeInv, RowType
    <3>2. CASE UNCHANGED vars  BY <2>2, <3>2 DEF vars
    <3>3. QED
      BY <1>1, <2>2, <3>1, <3>2 DEF Next, Submit, Publish, EngineClaim, Load, FindStale,
         FindQueued, CronStep, Recover, RecoverBury, Adopt, EngineStep, EngineFail, EngineBury,
         Receive, ApplyUpdate, Crash
  <2>4. Sent(m)'  BY <1>1, ChannelAssumption, SoundStep
  <2>5. QED  BY <2>3, <2>4 DEF Sent, Out
<1>2. TypeInv /\ TypeInv' /\ Sound /\ [Next]_vars
        => [\A m \in Messages : status[m] \in Out /\ ~ lapse'[m] =>
                                  status'[m] \notin {"QUEUED", "PROCESSING"}]_vars
  BY <1>1
<1>3. QED  BY <1>2, TypeCorrect, SoundCorrect, PTL DEF Spec, SentStays
=============================================================================
