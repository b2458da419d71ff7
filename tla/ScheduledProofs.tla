-------------------------- MODULE ScheduledProofs --------------------------
(***************************************************************************)
(* Theorems about scheduled messages, for any number of messages, runs of  *)
(* the cron, requests, retries and faults.                                 *)
(***************************************************************************)
EXTENDS Scheduled, TLAPS

CrType == cr \in [Crons -> BusyCron \cup {IdleCron}]
ExType == ex \in BusyExecutor \cup {IdleExecutor}
UsType == us \in [Users -> BusyUser \cup {IdleUser}]
JobType == job \in [Jobs -> JobRecord]
StatusType == status \in [Messages -> Status]

\* An actor that is not idle has a message, and is well-typed.
LEMMA CronBusy ==
  ASSUME TypeOK, NEW c \in Crons, cr[c].pc # "idle"
  PROVE  /\ cr[c] \in BusyCron /\ cr[c].todo \subseteq Messages
         /\ cr[c].j \in Jobs \cup {NoJob}
         /\ cr[c].pc # "next" => cr[c] \in TakingCron /\ cr[c].m \in Messages
BY DEF TypeOK, BusyCron, LookingCron, TakingCron, IdleCron

LEMMA ExecutorBusy ==
  ASSUME TypeOK, ex.pc # "idle"
  PROVE  /\ ex \in BusyExecutor /\ ex.m \in Messages
         /\ ex.j \in Jobs /\ ex.n \in 0 .. MaxRetries
BY DEF TypeOK, BusyExecutor, IdleExecutor

LEMMA UserBusy ==
  ASSUME TypeOK, NEW u \in Users, us[u].pc # "idle"
  PROVE  /\ us[u] \in BusyUser /\ us[u].m \in Messages /\ us[u].seen \in Status
         /\ us[u].j \in Jobs \cup {NoJob} /\ us[u].at \in Time
BY DEF TypeOK, BusyUser, IdleUser

LEMMA CronSet ==
  ASSUME TypeOK, NEW c \in Crons, NEW x \in BusyCron \cup {IdleCron},
         cr' = [cr EXCEPT ![c] = x]
  PROVE  CrType'
BY DEF TypeOK, CrType

LEMMA UserSet ==
  ASSUME TypeOK, NEW u \in Users, NEW x \in BusyUser \cup {IdleUser},
         us' = [us EXCEPT ![u] = x]
  PROVE  UsType'
BY DEF TypeOK, UsType

LEMMA ExecutorGoes ==
  ASSUME TypeOK, ex.pc # "idle",
         NEW l \in {"session", "delay", "done", "fail", "giveup", "rethrow", "send", "mark"},
         Goto(l)
  PROVE  ExType'
BY ExecutorBusy DEF Goto, BusyExecutor, ExType

\* The compare-and-set, and what becomes of a job.
LEMMA SetsType ==
  ASSUME TypeOK, NEW m, NEW from, NEW to \in Status, Sets(m, from, to)
  PROVE  StatusType'
BY DEF TypeOK, Sets, StatusType

LEMMA JobSet ==
  ASSUME TypeOK, NEW j, NEW x \in JobRecord, job' = [job EXCEPT ![j] = x]
  PROVE  JobType'
BY DEF TypeOK, JobType

LEMMA GoneType == GoneJob \in JobRecord /\ FreeJob \in JobRecord
BY DEF JobRecord

LEMMA LiveJobs ==
  ASSUME NEW r \in JobRecord, r.state \in {"created", "active"} PROVE r \in LiveJob
BY DEF JobRecord, FreeJob, GoneJob

LEMMA AfterFailureType ==
  ASSUME ScheduledAssumption, NEW r \in JobRecord
  PROVE  AfterFailure(r) \in JobRecord
<1>1. CASE r.state = "active" /\ r.tries < RetryLimit
  <2>1. r \in LiveJob  BY <1>1, LiveJobs
  <2>2. r.tries + 1 \in 0 .. RetryLimit  BY <1>1, <2>1 DEF ScheduledAssumption, LiveJob
  <2>3. [r EXCEPT !.state = "created", !.tries = r.tries + 1] \in LiveJob
    BY <2>1, <2>2 DEF LiveJob
  <2>4. QED  BY <1>1, <2>3 DEF AfterFailure, JobRecord
<1>2. QED  BY <1>1, GoneType DEF AfterFailure

LEMMA EnqueuedType ==
  ASSUME ScheduledAssumption, TypeOK,
         NEW j \in Jobs, NEW m \in Messages, NEW n \in 0 .. MaxRetries, Enqueued(j, m, n)
  PROVE  JobType'
<1>1. [state |-> "created", m |-> m, n |-> n, tries |-> 0] \in LiveJob
  BY DEF LiveJob, ScheduledAssumption
<1>2. QED  BY <1>1, JobSet DEF Enqueued, JobRecord

LEMMA TypeInit == ASSUME ScheduledAssumption, Init PROVE TypeOK
BY GoneType DEF ScheduledAssumption, Init, TypeOK, Status, Time, Jobs, NoJob

LEMMA UserStepType ==
  ASSUME ScheduledAssumption, TypeOK, NEW u \in Users, UserStep(u)
  PROVE  TypeOK'
<1> USE DEF rows, notes
<1>1. us[u] \in BusyUser /\ us[u].m \in Messages /\ us[u].at \in Time
  BY UserBusy DEF UserStep, Update, Cancel, Unqueue
<1>2. [us[u] EXCEPT !.pc = "unqueue"] \in BusyUser  BY <1>1 DEF BusyUser
<1>3. UsType'
  <2>1. CASE us' = [us EXCEPT ![u] = IdleUser]  BY <2>1, UserSet
  <2>2. CASE UGoto(u, "unqueue")
    <3>1. us' = [us EXCEPT ![u] = [us[u] EXCEPT !.pc = "unqueue"]]  BY <2>2 DEF UGoto
    <3>2. QED  BY <1>2, <3>1, UserSet
  <2>3. QED  BY <2>1, <2>2 DEF UserStep, Update, Cancel, Unqueue
<1>4. CASE Update(u)  BY <1>1, <1>3, <1>4 DEF Update, TypeOK, UsType
<1>5. CASE Cancel(u)
  <2>1. StatusType'  BY <1>5, SetsType DEF Cancel, Status
  <2>2. calm' \in [Messages -> BOOLEAN]  BY <1>5 DEF Cancel, TypeOK
  <2>3. QED  BY <1>3, <1>5, <2>1, <2>2 DEF Cancel, TypeOK, UsType, StatusType
<1>6. CASE Unqueue(u)
  <2>1. JobType'  BY <1>6, GoneType, JobSet DEF Unqueue
  <2>2. QED  BY <1>3, <1>6, <2>1 DEF Unqueue, TypeOK, UsType, JobType
<1>7. QED  BY <1>4, <1>5, <1>6 DEF UserStep

LEMMA RequestType ==
  ASSUME ScheduledAssumption, TypeOK,
         \/ \E m \in Messages, t \in Time : CreateScheduled(m, t)
         \/ \E u \in Users, m \in Messages, t \in Time : AskUpdate(u, m, t)
         \/ \E u \in Users, m \in Messages : AskCancel(u, m)
         \/ \E u \in Users : UserThrow(u)
         \/ Tick
  PROVE  TypeOK'
<1> USE DEF rows, notes, procs
<1>1. ASSUME NEW m \in Messages, NEW t \in Time, CreateScheduled(m, t) PROVE TypeOK'
  BY <1>1 DEF CreateScheduled, TypeOK, Status
<1>2. ASSUME NEW u \in Users, NEW m \in Messages, NEW t \in Time, AskUpdate(u, m, t)
      PROVE  TypeOK'
  <2>1. [pc |-> "update", m |-> m, seen |-> status[m], j |-> NoJob, at |-> t] \in BusyUser
    BY DEF BusyUser, TypeOK, NoJob
  <2>2. UsType'  BY <1>2, <2>1, UserSet DEF AskUpdate
  <2>3. requests' \in 0 .. MaxRequests  BY <1>2 DEF AskUpdate, TypeOK, ScheduledAssumption
  <2>4. QED  BY <1>2, <2>2, <2>3 DEF AskUpdate, TypeOK, UsType
<1>3. ASSUME NEW u \in Users, NEW m \in Messages, AskCancel(u, m) PROVE TypeOK'
  <2>1. [pc |-> "cancel", m |-> m, seen |-> status[m], j |-> jobId[m], at |-> 0] \in BusyUser
    BY DEF BusyUser, TypeOK, Time, ScheduledAssumption
  <2>2. UsType'  BY <1>3, <2>1, UserSet DEF AskCancel
  <2>3. requests' \in 0 .. MaxRequests  BY <1>3 DEF AskCancel, TypeOK, ScheduledAssumption
  <2>4. QED  BY <1>3, <2>2, <2>3 DEF AskCancel, TypeOK, UsType
<1>4. ASSUME NEW u \in Users, UserThrow(u) PROVE TypeOK'
  <2>1. UsType'  BY <1>4, UserSet DEF UserThrow
  <2>2. faults' \in 0 .. MaxFaults  BY <1>4 DEF UserThrow, Fault, TypeOK, ScheduledAssumption
  <2>3. QED  BY <1>4, <2>1, <2>2 DEF UserThrow, TypeOK, UsType
<1>5. CASE Tick
  <2>1. now' \in Time  BY <1>5 DEF Tick, TypeOK, Time, ScheduledAssumption
  <2>2. QED  BY <1>5, <2>1 DEF Tick, TypeOK
<1>6. QED  BY <1>1, <1>2, <1>3, <1>4, <1>5

LEMMA Proceeds ==
  ASSUME NEW rest \in SUBSET Messages PROVE Proceeding(rest) \in BusyCron \cup {IdleCron}
BY DEF Proceeding, BusyCron, LookingCron

LEMMA CronType ==
  ASSUME ScheduledAssumption, TypeOK, NEW c \in Crons,
         FindDueMessages(c) \/ CronStep(c) \/ CronThrow(c)
  PROVE  TypeOK'
<1> USE DEF rows, notes
<1>1. CASE FindDueMessages(c)
  <2>1. [IdleCron EXCEPT !.pc = "next", !.todo = Found] \in BusyCron
    BY DEF IdleCron, BusyCron, LookingCron, Found
  <2>2. CrType'  BY <1>1, <2>1, CronSet DEF FindDueMessages
  <2>3. QED  BY <1>1, <2>2 DEF FindDueMessages, TypeOK, CrType
<1>2. ASSUME NEW m \in Messages, Take(c, m) PROVE TypeOK'
  <2>1. cr[c].todo \subseteq Messages  BY <1>2, CronBusy DEF Take
  <2>2. StatusType'  BY <1>2, SetsType DEF Take, Status
  <2>3. CrType'
    <3>1. [pc |-> "publish", todo |-> cr[c].todo \ {m}, m |-> m, j |-> NoJob] \in BusyCron
      BY <2>1 DEF BusyCron, TakingCron
    <3>2. Proceeding(cr[c].todo \ {m}) \in BusyCron \cup {IdleCron}  BY <2>1, Proceeds
    <3>3. QED  BY <1>2, <3>1, <3>2, CronSet DEF Take
  <2>4. QED  BY <1>2, <2>2, <2>3 DEF Take, TypeOK, StatusType, CrType
<1>3. ASSUME NEW j \in Jobs, Publish(c, j) PROVE TypeOK'
  <2>1. cr[c] \in TakingCron /\ cr[c].m \in Messages  BY <1>3, CronBusy DEF Publish
  <2>2. [cr[c] EXCEPT !.pc = "record", !.j = j] \in BusyCron
    BY <2>1 DEF BusyCron, TakingCron
  <2>3. CrType'  BY <1>3, <2>2, CronSet DEF Publish
  <2>4. JobType'
    <3>1. 0 \in 0 .. MaxRetries  BY DEF ScheduledAssumption
    <3>2. QED  BY <1>3, <2>1, <3>1, EnqueuedType DEF Publish
  <2>5. QED  BY <1>3, <2>3, <2>4 DEF Publish, TypeOK, CrType, JobType
<1>4. CASE UpdatePgBossJobId(c)
  <2>1. cr[c].j \in Jobs \cup {NoJob} /\ cr[c].todo \in SUBSET Messages
    BY <1>4, CronBusy DEF UpdatePgBossJobId
  <2>2. CrType'  BY <1>4, <2>1, Proceeds, CronSet DEF UpdatePgBossJobId
  <2>3. QED  BY <1>4, <2>1, <2>2 DEF UpdatePgBossJobId, TypeOK, CrType
<1>5. CASE CronThrow(c)
  <2>1. CrType'  BY <1>5, CronSet DEF CronThrow
  <2>2. faults' \in 0 .. MaxFaults  BY <1>5 DEF CronThrow, Fault, TypeOK, ScheduledAssumption
  <2>3. hit' \in [Messages -> BOOLEAN]  BY <1>5 DEF CronThrow, TypeOK
  <2>4. QED  BY <1>5, <2>1, <2>2, <2>3 DEF CronThrow, TypeOK, CrType
<1>6. QED  BY <1>1, <1>2, <1>3, <1>4, <1>5 DEF CronStep

LEMMA Returns == ASSUME ScheduledAssumption, TypeOK, Return PROVE ExType' /\ JobType'
<1>1. ExType'  BY DEF Return, ExType
<1>2. JobType'  BY GoneType, JobSet DEF Return
<1>3. QED  BY <1>1, <1>2

LEMMA MissType ==
  ASSUME ScheduledAssumption, TypeOK, NEW m \in Messages, Miss(m)
  PROVE  misses' \in [Messages -> 0 .. MaxRetries + 1]
BY DEF Miss, TypeOK, ScheduledAssumption

\* An attempt that is put off is not the last one.
Delaying == ex.pc = "delay" => ex.n < MaxRetries

LEMMA ExecutorType ==
  ASSUME ScheduledAssumption, TypeOK, Delaying,
         ExecutorStep \/ Catch \/ GiveUpThrow \/ \E j \in Jobs : Fetch(j)
  PROVE  TypeOK'
<1> USE DEF rows, notes
<1>1. ASSUME NEW j \in Jobs, Fetch(j) PROVE TypeOK'
  <2>1. job[j] \in LiveJob  BY <1>1, LiveJobs DEF Fetch, TypeOK
  <2>2. [job[j] EXCEPT !.state = "active"] \in LiveJob  BY <2>1 DEF LiveJob
  <2>3. JobType'  BY <1>1, <2>2, JobSet DEF Fetch, JobRecord
  <2>4. ExType'  BY <1>1, <2>1 DEF Fetch, LiveJob, BusyExecutor, ExType
  <2>5. QED  BY <1>1, <2>3, <2>4 DEF Fetch, TypeOK, ExType, JobType
<1>2. CASE Load
  <2>1. ExType' /\ JobType'
    <3>1. CASE Return  BY <3>1, Returns
    <3>2. CASE Goto("session") /\ UNCHANGED job
      BY <1>2, <3>2, ExecutorGoes DEF Load, TypeOK, JobType
    <3>3. QED  BY <1>2, <3>1, <3>2 DEF Load
  <2>2. QED  BY <1>2, <2>1 DEF Load, TypeOK, ExType, JobType
<1>3. CASE CheckSession
  <2>1. ex.pc # "idle" /\ ex.m \in Messages  BY <1>3, ExecutorBusy DEF CheckSession
  <2>2. ExType'  BY <1>3, <2>1, ExecutorGoes DEF CheckSession
  <2>3. misses' \in [Messages -> 0 .. MaxRetries + 1]
    BY <1>3, <2>1, MissType DEF CheckSession, TypeOK
  <2>4. QED  BY <1>3, <2>2, <2>3 DEF CheckSession, TypeOK, ExType
<1>4. ASSUME NEW j \in Jobs, PublishDelayed(j) PROVE TypeOK'
  <2>1. ex.pc # "idle" /\ ex.m \in Messages  BY <1>4, ExecutorBusy DEF PublishDelayed
  <2>2. ExType'  BY <1>4, <2>1, ExecutorGoes DEF PublishDelayed
  <2>3. JobType'
    <3>1. ex.n + 1 \in 0 .. MaxRetries
      BY <1>4, ExecutorBusy DEF PublishDelayed, Delaying, ScheduledAssumption
    <3>2. QED  BY <1>4, <2>1, <3>1, EnqueuedType DEF PublishDelayed
  <2>4. QED  BY <1>4, <2>2, <2>3 DEF PublishDelayed, TypeOK, ExType, JobType
<1>5. CASE Done
  <2>1. ExType' /\ JobType'  BY <1>5, Returns DEF Done
  <2>2. QED  BY <1>5, <2>1 DEF Done, TypeOK, ExType, JobType
<1>6. CASE Fail
  <2>1. ExType' /\ JobType'  BY <1>6, Returns DEF Fail
  <2>2. StatusType'  BY <1>6, SetsType DEF Fail, Status
  <2>3. QED  BY <1>6, <2>1, <2>2 DEF Fail, TypeOK, ExType, JobType, StatusType
<1>7. CASE PublishSend
  <2>1. ExType'  BY <1>7, ExecutorGoes DEF PublishSend
  <2>2. QED  BY <1>7, <2>1, ExecutorBusy DEF PublishSend, TypeOK, ExType
<1>8. CASE MarkSent
  <2>1. ExType' /\ JobType'  BY <1>8, Returns DEF MarkSent
  <2>2. StatusType'  BY <1>8, SetsType DEF MarkSent, Status
  <2>3. QED  BY <1>8, <2>1, <2>2 DEF MarkSent, TypeOK, ExType, JobType, StatusType
<1>9. CASE Catch
  <2>1. ex.pc # "idle" /\ ex.m \in Messages  BY <1>9, ExecutorBusy DEF Catch
  <2>2. ExType'  BY <1>9, <2>1, ExecutorGoes DEF Catch
  <2>3. misses' \in [Messages -> 0 .. MaxRetries + 1]  BY <1>9, <2>1, MissType DEF Catch
  <2>4. hit' \in [Messages -> BOOLEAN]
    <3>1. (hit[ex.m] \/ ex.pc = "mark") \in BOOLEAN  OBVIOUS
    <3>2. QED  BY <1>9, <3>1 DEF Catch, TypeOK
  <2>5. faults' \in 0 .. MaxFaults  BY <1>9 DEF Catch, Fault, TypeOK, ScheduledAssumption
  <2>6. QED  BY <1>9, <2>2, <2>3, <2>4, <2>5 DEF Catch, TypeOK, ExType
<1>10. CASE Rethrow \/ GiveUpThrow
  <2>1. FailJob /\ ex.pc # "idle"  BY <1>10 DEF Rethrow, GiveUpThrow
  <2>2. ExType'  BY <2>1 DEF FailJob, ExType
  <2>3. JobType'
    <3>1. AfterFailure(job[ex.j]) \in JobRecord
      BY <2>1, ExecutorBusy, AfterFailureType DEF TypeOK
    <3>2. QED  BY <2>1, <3>1, JobSet DEF FailJob
  <2>4. hit' \in [Messages -> BOOLEAN]
    <3>1. (hit[ex.m] \/ Exhausted(ex.j)) \in BOOLEAN  BY DEF Exhausted
    <3>2. QED  BY <2>1, <3>1 DEF FailJob, TypeOK
  <2>5. faults' \in 0 .. MaxFaults
    BY <1>10 DEF Rethrow, GiveUpThrow, Fault, TypeOK, ScheduledAssumption
  <2>6. QED
    BY <1>10, <2>2, <2>3, <2>4, <2>5 DEF Rethrow, GiveUpThrow, TypeOK, ExType, JobType
<1>11. QED
  BY <1>1, <1>2, <1>3, <1>4, <1>5, <1>6, <1>7, <1>8, <1>9, <1>10 DEF ExecutorStep

LEMMA CrashType == ASSUME ScheduledAssumption, TypeOK, Crash PROVE TypeOK'
<1>1. job' \in [Jobs -> JobRecord]  BY AfterFailureType DEF Crash, TypeOK
<1>2. hit' \in [Messages -> BOOLEAN]  BY DEF Crash, TypeOK
<1>3. faults' \in 0 .. MaxFaults  BY DEF Crash, Fault, TypeOK, ScheduledAssumption
<1>4. QED  BY <1>1, <1>2, <1>3 DEF Crash, TypeOK, rows

LEMMA DelayingStep == ASSUME TypeOK, Delaying, [Next]_vars PROVE Delaying'
<1>1. CASE UNCHANGED ex  BY <1>1 DEF Delaying
<1>2. CASE ExecutorStep \/ Catch \/ GiveUpThrow
  BY <1>2, ExecutorBusy DEF ExecutorStep, Load, CheckSession, PublishDelayed, Done, Fail,
     PublishSend, MarkSent, Rethrow, Catch, GiveUpThrow, Goto, Return, FailJob, IdleExecutor,
     Delaying, BusyExecutor
<1>3. ASSUME NEW j \in Jobs, Fetch(j) PROVE Delaying'  BY <1>3 DEF Fetch, Delaying
<1>4. CASE Crash  BY <1>4 DEF Crash, Delaying, IdleExecutor
<1>5. CASE Next /\ ~ (ExecutorStep \/ Catch \/ GiveUpThrow \/ Crash \/ \E j \in Jobs : Fetch(j))
  <2>1. UNCHANGED ex
    BY <1>5 DEF Next, Tick, CreateScheduled, AskUpdate, AskCancel, UserStep, Update, Cancel,
       Unqueue, UserThrow, FindDueMessages, CronStep, Take, Publish, UpdatePgBossJobId, CronThrow,
       procs
  <2>2. QED  BY <1>1, <2>1
<1>6. CASE UNCHANGED vars  BY <1>1, <1>6 DEF vars, procs
<1>7. QED  BY <1>2, <1>3, <1>4, <1>5, <1>6

\* No field is ever written with anything but a value of its type.
THEOREM TypeCorrect == Spec => []TypeOK
<1>1. Init => TypeOK /\ Delaying
  BY TypeInit, ScheduledAssumption DEF Init, Delaying, IdleExecutor
<1>2. TypeOK /\ Delaying /\ [Next]_vars => TypeOK' /\ Delaying'
  <2> SUFFICES ASSUME TypeOK, Delaying, [Next]_vars PROVE TypeOK'  BY DelayingStep
  <2>1. CASE UNCHANGED vars
    BY <2>1 DEF vars, rows, procs, notes, TypeOK
  <2>2. CASE Next
    BY <2>2, ScheduledAssumption, UserStepType, RequestType, CronType, ExecutorType, CrashType
       DEF Next
  <2>3. QED  BY <2>1, <2>2
<1>3. QED  BY <1>1, <1>2, PTL DEF Spec

-----------------------------------------------------------------------------
(* NotEarly: what a run of the cron has listed is due, or was edited since. *)

Listed ==
  \A c \in Crons : \A m \in cr[c].todo :
    status[m] # "NONE" /\ (due[m] <= now \/ raced[m])

LEMMA ListedSets ==
  ASSUME ScheduledAssumption, TypeOK, Listed, NotEarly, [Next]_vars
  PROVE  Listed' /\ NotEarly'
<1> USE DEF rows, procs, notes
<1>1. now \in Nat /\ due \in [Messages -> Nat] /\ status \in [Messages -> Status]
      /\ raced \in [Messages -> BOOLEAN]
  BY DEF TypeOK, Time, ScheduledAssumption
<1>2. \A c \in Crons : cr[c].todo \subseteq Messages
  BY DEF TypeOK, BusyCron, LookingCron, TakingCron, IdleCron
<1>3. CASE Tick
  <2>1. \A m \in Messages : due[m] <= now => due[m] <= now + 1  BY <1>1
  <2>2. QED  BY <1>2, <1>3, <2>1 DEF Tick, Listed, NotEarly
<1>4. ASSUME NEW x \in Messages, NEW t \in Time, CreateScheduled(x, t)
      PROVE  Listed' /\ NotEarly'
  BY <1>1, <1>2, <1>4 DEF CreateScheduled, Listed, NotEarly
<1>5. ASSUME NEW u \in Users, UserStep(u) PROVE Listed' /\ NotEarly'
  <2>1. CASE Update(u)
    <3> DEFINE m == us[u].m
    <3>1. m \in Messages /\ UNCHANGED <<now, status, cr>>  BY <2>1, UserBusy DEF Update
    <3>2. CASE status[m] = "PENDING"
      <4>1. raced'[m] = (raced[m] \/ \E c \in Crons : m \in cr[c].todo)
        BY <1>1, <2>1, <3>1, <3>2 DEF Update
      <4>2. \A c \in Crons : m \in cr[c].todo => raced'[m]  BY <4>1
      <4>3. \A x \in Messages : x # m => due'[x] = due[x] /\ raced'[x] = raced[x]
        BY <1>1, <2>1, <3>1, <3>2 DEF Update
      <4>4. QED  BY <1>2, <3>1, <3>2, <4>2, <4>3 DEF Listed, NotEarly
    <3>3. CASE status[m] # "PENDING"
      <4>1. UNCHANGED <<due, raced>>  BY <2>1, <3>3 DEF Update
      <4>2. QED  BY <3>1, <4>1 DEF Listed, NotEarly
    <3>4. QED  BY <3>2, <3>3
  <2>2. CASE Cancel(u)
    BY <1>1, <1>2, <2>2, UserBusy DEF Cancel, Sets, Listed, NotEarly
  <2>3. CASE Unqueue(u)  BY <2>3 DEF Unqueue, Listed, NotEarly
  <2>4. QED  BY <1>5, <2>1, <2>2, <2>3 DEF UserStep
<1>6. ASSUME NEW c \in Crons, FindDueMessages(c) PROVE Listed' /\ NotEarly'
  BY <1>2, <1>6 DEF FindDueMessages, Found, Listed, NotEarly
<1>7. ASSUME NEW c \in Crons, NEW x \in Messages, Take(c, x) PROVE Listed' /\ NotEarly'
  <2>1. cr'[c].todo = cr[c].todo \ {x} /\ \A d \in Crons : d # c => cr'[d] = cr[d]
    BY <1>7 DEF Take, Proceeding, IdleCron, TypeOK
  <2>2. QED  BY <1>1, <1>2, <1>7, <2>1 DEF Take, Sets, Listed, NotEarly
<1>8. ASSUME NEW c \in Crons,
             \/ \E j \in Jobs : Publish(c, j)
             \/ UpdatePgBossJobId(c)
             \/ CronThrow(c)
      PROVE  Listed' /\ NotEarly'
  <2>1. \A d \in Crons : cr'[d].todo \subseteq cr[d].todo
    <3>1. cr \in [Crons -> BusyCron \cup {IdleCron}]  BY DEF TypeOK
    <3>2. ASSUME NEW j \in Jobs, Publish(c, j) PROVE \A d \in Crons : cr'[d].todo = cr[d].todo
      BY <3>1, <3>2 DEF Publish
    <3>3. CASE UpdatePgBossJobId(c)  BY <3>1, <3>3 DEF UpdatePgBossJobId, Proceeding, IdleCron
    <3>4. CASE CronThrow(c)  BY <3>1, <3>4 DEF CronThrow, IdleCron
    <3>5. QED  BY <1>8, <3>2, <3>3, <3>4
  <2>2. UNCHANGED <<now, status, due, raced>>
    BY <1>8 DEF Publish, UpdatePgBossJobId, CronThrow
  <2>3. QED  BY <2>1, <2>2 DEF Listed, NotEarly
<1>9. CASE Fail \/ MarkSent
  BY <1>1, <1>2, <1>9, ExecutorBusy DEF Fail, MarkSent, Sets, Listed, NotEarly
<1>10. CASE Crash
  BY <1>10 DEF Crash, IdleCron, Listed, NotEarly
<1>11. CASE UNCHANGED <<now, status, due, raced, cr>>  BY <1>11 DEF Listed, NotEarly
<1>12. QED
  BY <1>3, <1>4, <1>5, <1>6, <1>7, <1>8, <1>9, <1>10, <1>11 DEF Next, vars, CronStep,
     ExecutorStep, AskUpdate, AskCancel, UserThrow, Fetch, Load, CheckSession, PublishDelayed,
     Done, PublishSend, Rethrow, Catch, GiveUpThrow

\* No message is executed before the time of its last edit.
THEOREM NeverEarly == Spec => []NotEarly
<1>1. Init => Listed /\ NotEarly  BY DEF Init, IdleCron, Listed, NotEarly
<1>2. TypeOK /\ Listed /\ NotEarly /\ [Next]_vars => Listed' /\ NotEarly'
  BY ListedSets, ScheduledAssumption
<1>3. QED  BY <1>1, <1>2, TypeCorrect, PTL DEF Spec

-----------------------------------------------------------------------------
(* VerdictSound: attempts and hand-overs are counted before they show.     *)

Counted ==
  /\ \A j \in Jobs : job[j].state \in {"created", "active"} => misses[job[j].m] >= job[j].n
  /\ ex.pc # "idle" => misses[ex.m] >= ex.n
  /\ ex.pc \in {"delay", "fail", "giveup"} => misses[ex.m] > ex.n
  /\ ex.pc \in {"fail", "giveup"} => ex.n = MaxRetries
  /\ ex.pc = "mark" => sends[ex.m] > 0

\* A miss counts for the message it is about, and never takes one back.
LEMMA Missed ==
  ASSUME ScheduledAssumption, TypeOK, NEW m \in Messages, Miss(m), NEW n \in 0 .. MaxRetries,
         misses[m] >= n
  PROVE  misses'[m] > n /\ \A x \in Messages : misses'[x] >= misses[x]
<1>1. misses \in [Messages -> Nat]  BY DEF TypeOK, ScheduledAssumption
<1>2. QED  BY <1>1 DEF Miss, ScheduledAssumption

\* A job that is still there after a failure is the same attempt at the same message.
LEMMA Failed ==
  ASSUME NEW r \in JobRecord, AfterFailure(r).state \in {"created", "active"}
  PROVE  /\ r.state \in {"created", "active"}
         /\ AfterFailure(r).m = r.m /\ AfterFailure(r).n = r.n
<1>1. CASE r.state # "active"  BY <1>1 DEF AfterFailure
<1>2. CASE r.state = "active" /\ r.tries < RetryLimit
  BY <1>2, LiveJobs DEF AfterFailure, LiveJob
<1>3. QED  BY <1>1, <1>2 DEF AfterFailure, GoneJob

LEMMA FailedCounts ==
  ASSUME TypeOK, Counted, ex.pc # "idle", FailJob, UNCHANGED <<misses, sends>>
  PROVE  Counted'
<1>1. ex.j \in Jobs  BY ExecutorBusy
<1>2. \A j \in Jobs : job'[j].state \in {"created", "active"} =>
        job[j].state \in {"created", "active"} /\ job'[j].m = job[j].m /\ job'[j].n = job[j].n
  BY <1>1, Failed DEF FailJob, TypeOK
<1>3. ex' = IdleExecutor  BY DEF FailJob
<1>4. QED  BY <1>2, <1>3 DEF IdleExecutor, Counted

LEMMA CountedSets ==
  ASSUME ScheduledAssumption, TypeOK, Counted, VerdictSound, [Next]_vars
  PROVE  Counted' /\ VerdictSound'
<1> USE DEF rows, procs, notes
<1>1. /\ misses \in [Messages -> Nat] /\ MaxRetries \in Nat /\ sends \in [Messages -> Nat]
      /\ \A j \in Jobs : job[j].state \in {"created", "active"} =>
           job[j].m \in Messages /\ job[j].n \in Nat
      /\ status \in [Messages -> Status]
  BY LiveJobs DEF TypeOK, ScheduledAssumption, LiveJob
<1>2. ASSUME NEW x \in Messages, NEW t \in Time, CreateScheduled(x, t)
      PROVE  Counted' /\ VerdictSound'
  BY <1>1, <1>2 DEF CreateScheduled, Counted, VerdictSound
<1>3. ASSUME NEW u \in Users, UserStep(u) PROVE Counted' /\ VerdictSound'
  <2>1. CASE Update(u)  BY <2>1 DEF Update, Counted, VerdictSound
  <2>2. CASE Cancel(u)
    BY <1>1, <2>2, UserBusy DEF Cancel, Sets, Counted, VerdictSound
  <2>3. CASE Unqueue(u)  BY <1>1, <2>3 DEF Unqueue, GoneJob, Counted, VerdictSound, TypeOK
  <2>4. QED  BY <1>3, <2>1, <2>2, <2>3 DEF UserStep
<1>4. ASSUME NEW c \in Crons, CronStep(c) PROVE Counted' /\ VerdictSound'
  <2>1. ASSUME NEW x \in Messages, Take(c, x) PROVE Counted' /\ VerdictSound'
    BY <1>1, <2>1 DEF Take, Sets, Counted, VerdictSound
  <2>2. ASSUME NEW j \in Jobs, Publish(c, j) PROVE Counted' /\ VerdictSound'
    <3>1. cr[c].m \in Messages  BY <2>2, CronBusy DEF Publish
    <3>2. QED  BY <1>1, <2>2, <3>1 DEF Publish, Enqueued, Counted, VerdictSound, TypeOK
  <2>3. CASE UpdatePgBossJobId(c)  BY <2>3 DEF UpdatePgBossJobId, Counted, VerdictSound
  <2>4. QED  BY <1>4, <2>1, <2>2, <2>3 DEF CronStep
<1>5. ASSUME NEW j \in Jobs, Fetch(j) PROVE Counted' /\ VerdictSound'
  BY <1>1, <1>5 DEF Fetch, Counted, VerdictSound, TypeOK
<1>6. CASE ExecutorStep
  <2>1. /\ ex.pc # "idle" /\ ex.m \in Messages
        /\ ex.j \in Jobs /\ ex.n \in Nat /\ ex.n <= MaxRetries
    BY <1>1, <1>6, ExecutorBusy DEF ExecutorStep, Load, CheckSession, PublishDelayed, Done, Fail,
       PublishSend, MarkSent, Rethrow
  <2>2. CASE CheckSession
    <3>1. misses[ex.m] >= ex.n /\ ex.n \in 0 .. MaxRetries
      BY <1>1, <2>1, <2>2 DEF CheckSession, Counted
    <3>2. CASE Goto("send") /\ UNCHANGED misses
      <4>1. ex'.pc = "send" /\ ex'.m = ex.m /\ ex'.n = ex.n
        BY <2>1, <3>2, ExecutorBusy DEF Goto, BusyExecutor
      <4>2. QED  BY <2>1, <2>2, <3>2, <4>1 DEF CheckSession, Counted, VerdictSound
    <3>3. CASE Miss(ex.m) /\ Goto(IF ex.n < MaxRetries THEN "delay" ELSE "fail")
      <4>1. misses'[ex.m] > ex.n /\ \A x \in Messages : misses'[x] >= misses[x]
        BY <2>1, <3>1, <3>3, Missed
      <4>2. /\ ex'.pc \in {"delay", "fail"} /\ ex'.m = ex.m /\ ex'.n = ex.n
            /\ ex'.pc = "fail" => ex.n = MaxRetries
        BY <1>1, <2>1, <3>3, ExecutorBusy DEF Goto, BusyExecutor
      <4>3. \A x \in Messages : misses'[x] \in Nat  BY <1>1, <2>1, <3>3, MissType
      <4>4. Counted'
        BY <1>1, <2>1, <2>2, <4>1, <4>2, <4>3 DEF CheckSession, Counted
      <4>5. VerdictSound'
        BY <1>1, <2>2, <4>1, <4>3 DEF CheckSession, VerdictSound
      <4>6. QED  BY <4>4, <4>5
    <3>4. QED  BY <2>2, <3>2, <3>3 DEF CheckSession
  <2>3. ASSUME NEW j \in Jobs, PublishDelayed(j) PROVE Counted' /\ VerdictSound'
    <3>1. ex'.pc = "done" /\ ex'.m = ex.m /\ ex'.n = ex.n
      BY <2>1, <2>3, ExecutorBusy DEF PublishDelayed, Goto, BusyExecutor
    <3>2. misses[ex.m] >= ex.n + 1  BY <1>1, <2>1, <2>3 DEF PublishDelayed, Counted
    <3>3. QED
      BY <1>1, <2>1, <2>3, <3>1, <3>2 DEF PublishDelayed, Enqueued, Counted, VerdictSound, TypeOK
  <2>4. CASE PublishSend
    <3>1. ex'.pc = "mark" /\ ex'.m = ex.m /\ ex'.n = ex.n
      BY <2>1, <2>4, ExecutorBusy DEF PublishSend, Goto, BusyExecutor
    <3>2. /\ sends' = [sends EXCEPT ![ex.m] = IF @ < 2 THEN @ + 1 ELSE @]
          /\ UNCHANGED <<status, job, misses>>
      BY <2>4 DEF PublishSend
    <3>3. sends'[ex.m] > 0 /\ \A x \in Messages : sends'[x] >= sends[x]
      BY <1>1, <2>1, <3>2
    <3>4. ex.pc = "send"  BY <2>4 DEF PublishSend
    <3>5. \A x \in Messages : sends'[x] \in Nat  BY <1>1, <2>1, <3>2
    <3>6. Counted'  BY <3>1, <3>2, <3>3, <3>4 DEF Counted
    <3>7. VerdictSound'  BY <1>1, <3>2, <3>3, <3>5 DEF VerdictSound
    <3>8. QED  BY <3>6, <3>7
  <2>5. CASE Load \/ Done
    <3>1. CASE Return
      BY <1>1, <2>1, <2>5, <3>1 DEF Load, Done, Return, IdleExecutor, GoneJob, Counted,
         VerdictSound, TypeOK
    <3>2. CASE Load /\ Goto("session") /\ UNCHANGED job
      <4>1. ex'.pc = "session" /\ ex'.m = ex.m /\ ex'.n = ex.n
        BY <2>1, <3>2, ExecutorBusy DEF Goto, BusyExecutor
      <4>2. QED  BY <2>1, <3>2, <4>1 DEF Load, Counted, VerdictSound
    <3>3. QED  BY <2>5, <3>1, <3>2 DEF Load, Done
  <2>6. CASE Fail
    <3>1. misses[ex.m] > MaxRetries  BY <2>6 DEF Fail, Counted
    <3>2. Counted'
      BY <1>1, <2>1, <2>6 DEF Fail, Return, IdleExecutor, GoneJob, Counted, TypeOK
    <3>3. QED  BY <1>1, <2>1, <2>6, <3>1, <3>2 DEF Fail, Sets, VerdictSound
  <2>7. CASE MarkSent
    <3>1. sends[ex.m] > 0  BY <2>7 DEF MarkSent, Counted
    <3>2. Counted'
      BY <1>1, <2>1, <2>7 DEF MarkSent, Return, IdleExecutor, GoneJob, Counted, TypeOK
    <3>3. QED  BY <1>1, <2>1, <2>7, <3>1, <3>2 DEF MarkSent, Sets, VerdictSound
  <2>8. CASE Rethrow  BY <2>1, <2>8, FailedCounts DEF Rethrow, VerdictSound
  <2>9. QED  BY <1>6, <2>2, <2>3, <2>4, <2>5, <2>6, <2>7, <2>8 DEF ExecutorStep
<1>7. CASE Catch
  <2>1. /\ ex.pc # "idle" /\ ex.m \in Messages /\ ex.n \in 0 .. MaxRetries
        /\ misses[ex.m] >= ex.n
    BY <1>7, ExecutorBusy DEF Catch, Counted
  <2>2. misses'[ex.m] > ex.n /\ \A x \in Messages : misses'[x] >= misses[x]
    BY <1>7, <2>1, Missed DEF Catch
  <2>3. /\ ex'.pc \in {"rethrow", "giveup"} /\ ex'.m = ex.m /\ ex'.n = ex.n
        /\ ex'.pc = "giveup" => ex.n = MaxRetries
    BY <1>1, <1>7, <2>1, ExecutorBusy DEF Catch, Goto, BusyExecutor
  <2>4. \A x \in Messages : misses'[x] \in Nat  BY <1>1, <1>7, <2>1, MissType DEF Catch
  <2>5. UNCHANGED <<status, job, sends>>  BY <1>7 DEF Catch
  <2>6. Counted'  BY <1>1, <2>1, <2>2, <2>3, <2>4, <2>5 DEF Counted
  <2>7. VerdictSound'  BY <1>1, <2>2, <2>4, <2>5 DEF VerdictSound
  <2>8. QED  BY <2>6, <2>7
<1>8. CASE GiveUpThrow
  <2>1. ex.pc # "idle"  BY <1>8 DEF GiveUpThrow
  <2>2. QED  BY <1>8, <2>1, FailedCounts DEF GiveUpThrow, VerdictSound
<1>9. CASE Crash
  <2>1. \A j \in Jobs : job'[j].state \in {"created", "active"} =>
          job[j].state \in {"created", "active"} /\ job'[j].m = job[j].m /\ job'[j].n = job[j].n
    BY <1>9, Failed DEF Crash, TypeOK
  <2>2. QED  BY <1>9, <2>1 DEF Crash, IdleExecutor, Counted, VerdictSound
<1>10. CASE UNCHANGED <<status, job, ex, sends, misses>>
  BY <1>10 DEF Counted, VerdictSound
<1>11. QED
  BY <1>2, <1>3, <1>4, <1>5, <1>6, <1>7, <1>8, <1>9, <1>10 DEF Next, vars, Tick, AskUpdate,
     AskCancel, UserThrow, FindDueMessages, CronThrow

\* A row never says SENT of a message nobody handed over, nor FAILED before
\* the last attempt.
THEOREM VerdictsHold == Spec => []VerdictSound
<1>1. Init => Counted /\ VerdictSound
  BY DEF Init, FreeJob, IdleExecutor, Counted, VerdictSound
<1>2. TypeOK /\ Counted /\ VerdictSound /\ [Next]_vars => Counted' /\ VerdictSound'
  BY CountedSets, ScheduledAssumption
<1>3. QED  BY <1>1, <1>2, TypeCorrect, PTL DEF Spec

-----------------------------------------------------------------------------
(* CancelHolds and SentOnce: what the executor may be at, given the row.   *)

\* A claim is never undone, a verdict only by a cancel, a cancel never.
Forward ==
  \A m \in Messages :
    /\ status[m] \notin {"NONE", "PENDING"} => status'[m] \notin {"NONE", "PENDING"}
    /\ status[m] \in Final => status'[m] \in Final
    /\ status[m] = "CANCELLED" => status'[m] = "CANCELLED"

LEMMA StatusMoves == ASSUME TypeOK, [Next]_vars PROVE Forward
<1> USE DEF rows, Forward
<1>1. status \in [Messages -> Status]  BY DEF TypeOK
<1>2. ASSUME NEW m \in Messages, NEW t \in Time, CreateScheduled(m, t) PROVE Forward
  BY <1>1, <1>2 DEF CreateScheduled, Final
<1>3. ASSUME NEW u \in Users, Cancel(u) PROVE Forward
  BY <1>1, <1>3, UserBusy DEF Cancel, Sets, Final
<1>4. ASSUME NEW c \in Crons, NEW m \in Messages, Take(c, m) PROVE Forward
  BY <1>1, <1>4 DEF Take, Sets, Final
<1>5. CASE Fail \/ MarkSent  BY <1>1, <1>5, ExecutorBusy DEF Fail, MarkSent, Sets, Final
<1>6. CASE UNCHANGED status  BY <1>6
<1>7. QED
  BY <1>2, <1>3, <1>4, <1>5, <1>6 DEF Next, vars, Tick, AskUpdate, AskCancel, UserStep, Update,
     Unqueue, UserThrow, FindDueMessages, CronStep, Publish, UpdatePgBossJobId, CronThrow, Fetch,
     ExecutorStep, Load, CheckSession, PublishDelayed, Done, PublishSend, Rethrow, Catch,
     GiveUpThrow, Crash

\* The executor is at a message, but has not found it QUEUED, or has given up.
Harmless == {"load", "rethrow", "giveup"}

\* How the executor moves.
Moves ==
  \/ UNCHANGED <<ex, sends>>
  \/ ex' = IdleExecutor /\ UNCHANGED sends
  \/ (\E j \in Jobs : Fetch(j)) /\ ex'.pc = "load" /\ UNCHANGED sends
  \/ /\ ex.pc # "idle" /\ ex'.m = ex.m /\ UNCHANGED sends
     /\ \/ ex.pc = "load" /\ status[ex.m] = "QUEUED" /\ ex'.pc = "session"
        \/ ex.pc \notin Harmless /\ ex'.pc # "mark"
        \/ ex'.pc \in {"rethrow", "giveup"}
  \/ PublishSend /\ ex'.pc = "mark" /\ ex'.m = ex.m

LEMMA ExecutorMoves == ASSUME TypeOK, [Next]_vars PROVE Moves
<1> USE DEF procs, notes, Harmless, Moves
<1>1. ASSUME ex.pc # "idle", NEW l, Goto(l) PROVE ex'.m = ex.m /\ ex'.pc = l
  BY <1>1, ExecutorBusy DEF Goto, BusyExecutor
<1>2. CASE Load  BY <1>1, <1>2 DEF Load, Return
<1>3. CASE CheckSession  BY <1>1, <1>3 DEF CheckSession
<1>4. ASSUME NEW j \in Jobs, PublishDelayed(j) PROVE Moves  BY <1>1, <1>4 DEF PublishDelayed
<1>5. CASE Done \/ Fail \/ MarkSent  BY <1>5 DEF Done, Fail, MarkSent, Return
<1>6. CASE PublishSend  BY <1>1, <1>6 DEF PublishSend
<1>7. CASE Rethrow \/ GiveUpThrow  BY <1>7 DEF Rethrow, GiveUpThrow, FailJob
<1>8. CASE Catch
  <2>1. ex'.pc \in {"rethrow", "giveup"} /\ ex'.m = ex.m  BY <1>1, <1>8 DEF Catch
  <2>2. QED  BY <1>8, <2>1 DEF Catch
<1>9. CASE Crash  BY <1>9 DEF Crash
<1>10. ASSUME NEW j \in Jobs, Fetch(j) PROVE Moves  BY <1>10 DEF Fetch
<1>11. CASE UNCHANGED <<ex, sends>>  BY <1>11
<1>12. QED
  BY <1>2, <1>3, <1>4, <1>5, <1>6, <1>7, <1>8, <1>9, <1>10, <1>11 DEF Next, vars, Tick,
     CreateScheduled, AskUpdate, AskCancel, UserStep, Update, Cancel, Unqueue, UserThrow,
     FindDueMessages, CronStep, Take, Publish, UpdatePgBossJobId, CronThrow, ExecutorStep

LEMMA NoMessage == ASSUME ScheduledAssumption PROVE IdleExecutor.m \notin Messages
BY DEF ScheduledAssumption, IdleExecutor

\* A message that was cancelled quietly is not on its way to be sent.
Quiet ==
  \A m \in Messages :
    calm[m] => status[m] = "CANCELLED" /\ (ex.m = m => ex.pc \in Harmless)

LEMMA QuietSets ==
  ASSUME ScheduledAssumption, TypeOK, Quiet, [Next]_vars
  PROVE  Quiet' /\ \A m \in Messages : calm[m] => sends'[m] = sends[m]
<1>1. Forward /\ Moves  BY StatusMoves, ExecutorMoves
<1>2. ASSUME NEW m \in Messages, calm[m], ex'.m = m PROVE ex'.pc \in Harmless
  BY <1>1, <1>2, NoMessage DEF Quiet, Moves, PublishSend, Harmless
<1>3. ASSUME NEW m \in Messages, calm[m] PROVE sends'[m] = sends[m]
  <2>1. CASE PublishSend
    BY <1>3, <2>1, ExecutorBusy DEF PublishSend, Quiet, TypeOK, Harmless
  <2>2. CASE UNCHANGED sends  BY <2>2
  <2>3. QED  BY <1>1, <2>1, <2>2 DEF Moves
<1>4. ASSUME UNCHANGED calm PROVE Quiet'
  <2>1. ASSUME NEW m \in Messages, calm[m]
        PROVE  status'[m] = "CANCELLED" /\ (ex'.m = m => ex'.pc \in Harmless)
    BY <1>1, <1>2, <2>1 DEF Quiet, Forward
  <2>2. QED  BY <1>4, <2>1 DEF Quiet, Harmless
<1>5. ASSUME NEW u \in Users, Cancel(u) PROVE Quiet'
  <2>1. us[u].m \in Messages /\ UNCHANGED ex  BY <1>5, UserBusy DEF Cancel
  <2>2. CASE UNCHANGED calm  BY <1>4, <2>2
  <2>3. CASE status[us[u].m] = us[u].seen
    <3>1. /\ calm' = [calm EXCEPT ![us[u].m] = ex.m # us[u].m]
          /\ status' = [status EXCEPT ![us[u].m] = "CANCELLED"]
      BY <1>5, <2>3 DEF Cancel, Sets, TypeOK
    <3>2. /\ calm'[us[u].m] => ex.m # us[u].m
          /\ \A x \in Messages : x # us[u].m => calm'[x] = calm[x]
      BY <2>1, <3>1 DEF TypeOK
    <3>3. status'[us[u].m] = "CANCELLED"  BY <2>1, <3>1 DEF TypeOK
    <3>4. QED  BY <1>1, <2>1, <3>2, <3>3 DEF Quiet, Forward
  <2>4. QED  BY <1>5, <2>2, <2>3 DEF Cancel
<1>6. UNCHANGED calm \/ \E u \in Users : Cancel(u)
  <2> USE DEF notes
  <2>1. ExecutorStep \/ Catch \/ GiveUpThrow \/ Crash => UNCHANGED calm
    BY DEF ExecutorStep, Load, CheckSession, PublishDelayed, Done, Fail, PublishSend, MarkSent,
       Rethrow, Catch, GiveUpThrow, Crash
  <2>2. \A c \in Crons : CronStep(c) => UNCHANGED calm
    BY DEF CronStep, Take, Publish, UpdatePgBossJobId
  <2>3. QED
    BY <2>1, <2>2 DEF Next, vars, Tick, CreateScheduled, AskUpdate, AskCancel, UserStep, Update,
       Unqueue, UserThrow, FindDueMessages, CronThrow, Fetch
<1>7. QED  BY <1>3, <1>4, <1>5, <1>6

\* A message cancelled while the executor is elsewhere is never sent after.
THEOREM CancelIsFinal == Spec => CancelHolds
<1>1. Init => Quiet  BY DEF Init, Quiet
<1>2. TypeOK /\ Quiet /\ [Next]_vars => Quiet'  BY QuietSets, ScheduledAssumption
<1>3. TypeOK /\ Quiet /\ [Next]_vars =>
        [\A m \in Messages : calm[m] => sends'[m] = sends[m]]_vars
  BY QuietSets, ScheduledAssumption
<1>4. QED  BY <1>1, <1>2, <1>3, TypeCorrect, PTL DEF Spec, CancelHolds

\* What there is a job for, or an actor at, was claimed.
Claimed ==
  LET begun == {m \in Messages : status[m] \notin {"NONE", "PENDING"}} IN
  /\ \A j \in Jobs : job[j].state \in {"created", "active"} => job[j].m \in begun
  /\ \A c \in Crons : cr[c].pc \in {"publish", "record"} => cr[c].m \in begun
  /\ ex.pc # "idle" => ex.m \in begun

LEMMA JobsClaimed ==
  ASSUME ScheduledAssumption, TypeOK, Claimed, [Next]_vars, NEW j \in Jobs,
         job'[j].state \in {"created", "active"}
  PROVE  job'[j].m \in Messages /\ status[job'[j].m] \notin {"NONE", "PENDING"}
<1> DEFINE Begun(m) == m \in Messages /\ status[m] \notin {"NONE", "PENDING"}
<1>1. job \in [Jobs -> JobRecord]  BY DEF TypeOK
<1>2. job[j].state \in {"created", "active"} => Begun(job[j].m)  BY DEF Claimed
<1>3. CASE UNCHANGED job  BY <1>2, <1>3
<1>4. ASSUME NEW i \in Jobs, job' = [job EXCEPT ![i] = GoneJob] PROVE Begun(job'[j].m)
  BY <1>1, <1>2, <1>4 DEF GoneJob
<1>5. ASSUME NEW i \in Jobs, NEW m, NEW n, Begun(m), Enqueued(i, m, n) PROVE Begun(job'[j].m)
  BY <1>1, <1>2, <1>5 DEF Enqueued
<1>6. ASSUME NEW u \in Users, Unqueue(u) PROVE Begun(job'[j].m)
  BY <1>1, <1>2, <1>6 DEF Unqueue, GoneJob
<1>7. ASSUME NEW c \in Crons, NEW i \in Jobs, Publish(c, i) PROVE Begun(job'[j].m)
  BY <1>5, <1>7 DEF Publish, Claimed
<1>8. ASSUME NEW i \in Jobs, Fetch(i) PROVE Begun(job'[j].m)
  BY <1>1, <1>2, <1>8 DEF Fetch
<1>9. ASSUME NEW i \in Jobs, PublishDelayed(i) PROVE Begun(job'[j].m)
  BY <1>5, <1>9 DEF PublishDelayed, Claimed
<1>10. CASE Return  BY <1>1, <1>2, <1>10 DEF Return, GoneJob
<1>11. CASE FailJob \/ Crash
  <2>1. job[j].state \in {"created", "active"} /\ job'[j].m = job[j].m
    BY <1>1, <1>11, Failed DEF FailJob, Crash
  <2>2. QED  BY <1>2, <2>1
<1>12. QED
  <2> USE DEF procs
  <2>1. ExecutorStep => Begun(job'[j].m)
    BY <1>3, <1>9, <1>10, <1>11 DEF ExecutorStep, Load, CheckSession, Done, Fail, PublishSend,
       MarkSent, Rethrow
  <2>2. \A c \in Crons : CronStep(c) => Begun(job'[j].m)
    BY <1>3, <1>7 DEF CronStep, Take, UpdatePgBossJobId
  <2>3. QED
    BY <1>3, <1>6, <1>8, <1>11, <2>1, <2>2 DEF Next, vars, Tick, CreateScheduled, AskUpdate,
       AskCancel, UserStep, Update, Cancel, UserThrow, FindDueMessages, CronThrow, Catch,
       GiveUpThrow

\* A run of the cron is at a message it was at before, or has just claimed.
LEMMA CronsClaimed ==
  ASSUME TypeOK, Claimed, [Next]_vars, NEW c \in Crons, cr'[c].pc \in {"publish", "record"}
  PROVE  cr'[c].m \in Messages /\ status'[cr'[c].m] \notin {"NONE", "PENDING"}
<1>1. Forward /\ cr \in [Crons -> BusyCron \cup {IdleCron}]  BY StatusMoves DEF TypeOK
<1>2. CASE cr'[c].m = cr[c].m /\ cr[c].pc \in {"publish", "record"}
  BY <1>1, <1>2 DEF Forward, Claimed
<1>3. CASE UNCHANGED cr  BY <1>2, <1>3
<1>4. ASSUME NEW d \in Crons, NEW x \in {IdleCron} \cup LookingCron, cr' = [cr EXCEPT ![d] = x]
      PROVE  cr'[c].m = cr[c].m /\ cr[c].pc \in {"publish", "record"}
  BY <1>1, <1>4 DEF IdleCron, LookingCron
<1>5. ASSUME NEW d \in Crons, FindDueMessages(d) \/ CronThrow(d) \/ UpdatePgBossJobId(d)
      PROVE  cr'[c].m = cr[c].m /\ cr[c].pc \in {"publish", "record"}
  <2>1. [IdleCron EXCEPT !.pc = "next", !.todo = Found] \in LookingCron
    BY DEF IdleCron, LookingCron, Found
  <2>2. UpdatePgBossJobId(d) => Proceeding(cr[d].todo) \in {IdleCron} \cup LookingCron
    BY CronBusy DEF UpdatePgBossJobId, Proceeding, LookingCron
  <2>3. QED
    BY <1>4, <1>5, <2>1, <2>2 DEF FindDueMessages, CronThrow, UpdatePgBossJobId
<1>6. ASSUME NEW d \in Crons, NEW m \in Messages, Take(d, m)
      PROVE  cr'[c].m \in Messages /\ status'[cr'[c].m] \notin {"NONE", "PENDING"}
  <2>1. CASE status[m] = "PENDING"
    <3>1. /\ cr' = [cr EXCEPT ![d] = [pc |-> "publish", todo |-> cr[d].todo \ {m}, m |-> m,
                                     j |-> NoJob]]
          /\ status'[m] = "QUEUED"
      BY <1>6, <2>1 DEF Take, Sets, TypeOK
    <3>2. CASE c = d  BY <1>1, <3>1, <3>2
    <3>3. CASE c # d  BY <1>1, <1>2, <3>1, <3>3
    <3>4. QED  BY <3>2, <3>3
  <2>2. CASE status[m] # "PENDING"
    <3>1. Proceeding(cr[d].todo \ {m}) \in {IdleCron} \cup LookingCron
      BY <1>6, CronBusy DEF Take, Proceeding, LookingCron
    <3>2. QED  BY <1>2, <1>4, <1>6, <2>2, <3>1 DEF Take
  <2>3. QED  BY <2>1, <2>2
<1>7. ASSUME NEW d \in Crons, NEW j \in Jobs, Publish(d, j)
      PROVE  cr'[c].m = cr[c].m /\ cr[c].pc \in {"publish", "record"}
  BY <1>1, <1>7 DEF Publish
<1>8. CASE Crash  BY <1>8 DEF Crash, IdleCron
<1>9. QED
  <2> USE DEF procs
  <2>1. ExecutorStep => UNCHANGED cr
    BY DEF ExecutorStep, Load, CheckSession, PublishDelayed, Done, Fail, PublishSend, MarkSent,
       Rethrow
  <2>2. QED
    BY <1>2, <1>3, <1>5, <1>6, <1>7, <1>8, <2>1 DEF Next, vars, Tick, CreateScheduled, AskUpdate,
       AskCancel, UserStep, Update, Cancel, Unqueue, UserThrow, CronStep, Fetch, Catch, GiveUpThrow

\* The executor is at a message it was at before, or one there is a job for.
LEMMA ClaimedSets ==
  ASSUME ScheduledAssumption, TypeOK, Claimed, [Next]_vars
  PROVE  Claimed'
<1>1. Forward  BY StatusMoves
<1>2. ASSUME ex'.pc # "idle"
      PROVE  ex'.m \in Messages /\ status[ex'.m] \notin {"NONE", "PENDING"}
  <2>1. CASE ex'.m = ex.m /\ ex.pc # "idle"  BY <2>1 DEF Claimed
  <2>2. ASSUME NEW j \in Jobs, Fetch(j)
        PROVE  ex'.m \in Messages /\ status[ex'.m] \notin {"NONE", "PENDING"}
    BY <2>2 DEF Fetch, Claimed
  <2>3. Moves  BY ExecutorMoves
  <2>4. QED  BY <1>2, <2>1, <2>2, <2>3 DEF Moves, IdleExecutor, PublishSend
<1>3. QED  BY <1>1, <1>2, JobsClaimed, CronsClaimed DEF Claimed, Forward

\* The executor has just handed m over.
Marking(m) == ex.m = m /\ ex.pc = "mark"

\* Unless a fault hit it, a message that was handed over is about to be
\* marked or has its verdict, and whoever comes to it now leaves it alone.
Over(m) == status[m] \in Final /\ (ex.m = m => ex.pc \in Harmless)

Once ==
  \A m \in Messages : sends[m] > 0 /\ ~ hit[m] => sends[m] = 1 /\ (Marking(m) \/ Over(m))

LEMMA HitStays == ASSUME TypeOK, [Next]_vars, NEW m \in Messages, hit[m] PROVE hit'[m]
<1> USE DEF notes
<1>1. hit \in [Messages -> BOOLEAN]  BY DEF TypeOK
<1>2. CASE UNCHANGED hit  BY <1>2
<1>3. ASSUME NEW x, NEW b, hit' = [hit EXCEPT ![x] = hit[x] \/ b] PROVE hit'[m]
  BY <1>1, <1>3
<1>4. CASE FailJob  BY <1>3, <1>4 DEF FailJob
<1>5. CASE Catch  BY <1>3, <1>5 DEF Catch
<1>6. CASE Crash  BY <1>6 DEF Crash
<1>7. ASSUME NEW c \in Crons, CronThrow(c) PROVE hit'[m]
  BY <1>1, <1>2, <1>7 DEF CronThrow
<1>8. QED
  <2>1. ExecutorStep => hit'[m]
    BY <1>2, <1>4 DEF ExecutorStep, Load, CheckSession, PublishDelayed, Done, Fail, PublishSend,
       MarkSent, Rethrow
  <2>2. \A c \in Crons : CronStep(c) => hit'[m]
    BY <1>2 DEF CronStep, Take, Publish, UpdatePgBossJobId
  <2>3. QED
    BY <1>2, <1>4, <1>5, <1>6, <1>7, <2>1, <2>2 DEF Next, vars, Tick, CreateScheduled, AskUpdate,
       AskCancel, UserStep, Update, Cancel, Unqueue, UserThrow, FindDueMessages, Fetch, GiveUpThrow

\* After the hand-over, the message is marked, or a fault is noted.
LEMMA MarkEnds ==
  ASSUME ScheduledAssumption, TypeOK, Claimed, [Next]_vars, NEW m \in Messages, Marking(m)
  PROVE  \/ UNCHANGED ex
         \/ ex' = IdleExecutor /\ status'[m] \in Final
         \/ hit'[m]
<1> USE DEF Marking
<1>1. CASE MarkSent
  <2>1. status \in [Messages -> Status] /\ status[m] \notin {"NONE", "PENDING"}
    BY <1>1 DEF TypeOK, Claimed
  <2>2. status'[m] \in Final  BY <1>1, <2>1 DEF MarkSent, Sets, Final, Status
  <2>3. QED  BY <1>1, <2>2 DEF MarkSent, Return
<1>2. CASE Catch
  <2>1. hit' = [hit EXCEPT ![m] = TRUE]  BY <1>2 DEF Catch
  <2>2. QED  BY <2>1 DEF TypeOK
<1>3. CASE Crash  BY <1>3 DEF Crash
<1>4. CASE UNCHANGED ex  BY <1>4
<1>5. QED
  <2> USE DEF procs
  <2>1. ExecutorStep => MarkSent
    BY DEF ExecutorStep, Load, CheckSession, PublishDelayed, Done, Fail, PublishSend, Rethrow
  <2>2. QED
    BY <1>1, <1>2, <1>3, <1>4, <2>1 DEF Next, vars, Tick, CreateScheduled, AskUpdate, AskCancel,
       UserStep, Update, Cancel, Unqueue, UserThrow, FindDueMessages, CronStep, Take, Publish,
       UpdatePgBossJobId, CronThrow, Fetch, GiveUpThrow

LEMMA OnceSets ==
  ASSUME ScheduledAssumption, TypeOK, Claimed, Once, [Next]_vars
  PROVE  Once'
<1>1. Forward /\ Moves  BY StatusMoves, ExecutorMoves
<1>2. sends \in [Messages -> 0 .. 2]  BY DEF TypeOK
<1>3. PublishSend => ex'.pc = "mark" /\ ex'.m = ex.m
  BY ExecutorBusy DEF PublishSend, Goto, BusyExecutor
<1>4. ASSUME NEW m \in Messages, sends'[m] > 0, ~ hit'[m]
      PROVE  sends'[m] = 1 /\ (Marking(m)' \/ Over(m)')
  <2>1. ~ hit[m]  BY <1>4, HitStays
  <2>2. CASE PublishSend /\ ex.m = m
    <3>1. sends[m] = 0
      BY <1>2, <2>1, <2>2 DEF Once, PublishSend, Marking, Over, Harmless
    <3>2. sends'[m] = 1  BY <1>2, <2>2, <3>1 DEF PublishSend
    <3>3. Marking(m)'  BY <1>3, <2>2 DEF Marking
    <3>4. QED  BY <3>2, <3>3
  <2>3. CASE PublishSend /\ ex.m # m
    <3>1. sends'[m] = sends[m]  BY <1>2, <2>3 DEF PublishSend
    <3>2. sends[m] = 1 /\ Over(m)  BY <1>4, <2>1, <2>3, <3>1 DEF Once, Marking
    <3>3. ex'.m # m  BY <1>3, <2>3
    <3>4. QED  BY <1>1, <3>1, <3>2, <3>3 DEF Over, Forward, Final
  <2>4. CASE UNCHANGED sends
    <3>1. sends[m] = 1 /\ (Marking(m) \/ Over(m))  BY <1>4, <2>1, <2>4 DEF Once
    <3>2. CASE Marking(m)
      <4>1. UNCHANGED ex \/ (ex' = IdleExecutor /\ status'[m] \in Final)
        BY <1>4, <3>2, MarkEnds
      <4>2. QED
        BY <2>4, <3>1, <3>2, <4>1, NoMessage DEF Marking, Over, Final, Harmless
    <3>3. CASE Over(m)
      <4>1. status[m] # "QUEUED" /\ status'[m] \in Final  BY <1>1, <3>3 DEF Over, Final, Forward
      <4>2. ex'.m = m => ex'.pc \in Harmless
        BY <1>1, <2>4, <3>3, <4>1, NoMessage DEF Over, Moves, Harmless, PublishSend
      <4>3. QED  BY <2>4, <3>1, <4>1, <4>2 DEF Over, Final, Harmless
    <3>4. QED  BY <3>1, <3>2, <3>3
  <2>5. QED  BY <1>1, <2>2, <2>3, <2>4 DEF Moves
<1>5. QED  BY <1>4 DEF Once

\* A message is handed to the send queue once, unless a fault hit it.
THEOREM SentAtMostOnce == Spec => []SentOnce
<1>1. Init => Claimed /\ Once
  BY DEF Init, FreeJob, IdleCron, IdleExecutor, Claimed, Once
<1>2. TypeOK /\ Claimed /\ Once /\ [Next]_vars => Claimed' /\ Once'
  BY ClaimedSets, OnceSets, ScheduledAssumption
<1>3. TypeOK /\ Once => SentOnce
  <2> SUFFICES ASSUME TypeOK, Once, NEW m \in Messages, sends[m] > 1 PROVE hit[m]
    BY DEF SentOnce
  <2>1. sends[m] \in 0 .. 2  BY DEF TypeOK
  <2>2. sends[m] > 0 /\ sends[m] # 1  BY <2>1
  <2>3. QED  BY <2>2 DEF Once
<1>4. QED  BY <1>1, <1>2, <1>3, TypeCorrect, PTL DEF Spec
=============================================================================
