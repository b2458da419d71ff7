--------------------------- MODULE CampaignProofs ---------------------------
(***************************************************************************)
(* Theorems about bulk-messaging campaigns, for any number of contacts,    *)
(* batches, handlers and requests, and any faults.                         *)
(*                                                                         *)
(* Why.  The status moves by compare-and-set from a value that was seen    *)
(* (Asked).  A message only goes on (Onward), so an event under way still  *)
(* tells the truth about its message (EventSound), and so does the row that*)
(* its handler writes (RowSound).  A batch is in the hands of one handler  *)
(* (JobHeld), and who is on that handler's list waits until it reaches him *)
(* (Lists): nobody else writes his row meanwhile, but for a pause or a     *)
(* resume.  What has not been RUNNING has nothing (Unseen).  As long as    *)
(* nothing went astray one receipt of a message is handled at a time and   *)
(* only one that is new to the row (Calm), so that an event is counted     *)
(* once (CountSound).                                                      *)
(* Completion needs more: one execution without faults, whose executor is  *)
(* the only one to hold the right to build the audience (Token), which     *)
(* builds it before anything is sent (Phase), so that a handler that saw   *)
(* nobody left saw everybody (Cleared).                                    *)
(***************************************************************************)
EXTENDS Campaign, FiniteSetTheorems, TLAPS

USE DEF mail

-----------------------------------------------------------------------------
(* Types                                                                   *)

ExecType == Executor \cup {IdleExecutor}
RunnerType == Runner \cup {IdleRunner}
UserType == User \cup {IdleUser}
EventState == {"off", "mark", "find", "write", "count", "look", "tally", "complete"}

RowsType ==
  /\ status \in Status /\ ran \in BOOLEAN
  /\ rcp \in [Contacts -> RecipientStatus]
  /\ linked \in [Contacts -> BOOLEAN]
  /\ msg \in [Contacts -> Fate] /\ row \in [Contacts -> Fate]
  /\ sending \in SUBSET Contacts /\ astray \in SUBSET Contacts
  /\ count \in [sent : Nat, delivered : Nat, read : Nat, failed : Nat]
ExecutorType ==
  /\ ejob \in [Keys -> JobState] /\ flag \in BOOLEAN
  /\ check \in JobState /\ due \in BOOLEAN
  /\ found \in {"off", "looking", "due", "none"}
  /\ ex \in ExecType
  /\ audience \in SUBSET Contacts
BatchesType ==
  /\ bjob \in [Batches -> JobState]
  /\ bw \in [Runners -> RunnerType]
EventsType == ev \in [Contacts -> [Events -> EventState]]
UsersType ==
  /\ us \in [Users -> UserType]
  /\ requests \in 0 .. MaxRequests /\ faults \in 0 .. MaxFaults

LEMMA Parts == TypeOK <=> RowsType /\ ExecutorType /\ BatchesType /\ EventsType /\ UsersType
  BY DEF TypeOK, RowsType, ExecutorType, BatchesType, EventsType, UsersType, ExecType,
         RunnerType, UserType, EventState

LEMMA InitType == Init => TypeOK
  <1>. SUFFICES ASSUME Init PROVE TypeOK
    OBVIOUS
  <1>1. RowsType
    BY DEF Init, RowsType, Status, RecipientStatus, Fate
  <1>2. ExecutorType
    BY DEF Init, ExecutorType, ExecType, JobState
  <1>3. BatchesType
    BY DEF Init, BatchesType, RunnerType, JobState
  <1>4. EventsType
    BY DEF Init, EventsType, EventState, QuietEvents
  <1>5. UsersType
    BY CampaignAssumption DEF Init, UsersType, UserType
  <1>. QED BY <1>1, <1>2, <1>3, <1>4, <1>5, Parts

LEMMA OfferType ==
  ASSUME TypeOK, NEW k \in Keys, NEW b \in BOOLEAN, OfferExec(k, b)
  PROVE  ejob' \in [Keys -> JobState] /\ flag' \in BOOLEAN
  BY DEF TypeOK, OfferExec, Offered, JobState

LEMMA SetsType ==
  ASSUME TypeOK, NEW from, NEW to \in Status, Sets(from, to)
  PROVE  status' \in Status /\ ran' \in BOOLEAN
  BY DEF TypeOK, Sets

LEMMA RunnerIs ==
  ASSUME TypeOK, NEW r \in Runners, bw[r].pc # "idle"
  PROVE  bw[r] \in Runner
  BY DEF TypeOK, IdleRunner

LEMMA ExecutorIs ==
  ASSUME TypeOK, ex.pc # "idle"
  PROVE  ex \in Executor
  BY DEF TypeOK, IdleExecutor

LEMMA UserIs ==
  ASSUME TypeOK, NEW u \in Users, us[u].pc # "idle"
  PROVE  us[u] \in User
  BY DEF TypeOK, IdleUser

LEMMA ProceedType ==
  ASSUME TypeOK, NEW r \in Runners, bw[r].pc # "idle", Proceed(r)
  PROVE  BatchesType'
  <1>1. bw[r] \in Runner
    BY RunnerIs
  <1>. DEFINE rest == bw[r].todo \ {bw[r].c}
              runner == [bw[r] EXCEPT !.pc = "next", !.todo = rest, !.c = NoContact]
  <1>2. runner \in Runner
    BY <1>1 DEF Runner
  <1>3. \/ bw' = [bw EXCEPT ![r] = IdleRunner] /\ bjob' = [bjob EXCEPT ![bw[r].batch] = "none"]
        \/ bw' = [bw EXCEPT ![r] = runner] /\ bjob' = bjob
    BY DEF Proceed
  <1>4. bw \in [Runners -> RunnerType] /\ bjob \in [Batches -> JobState] /\ "none" \in JobState
    BY DEF TypeOK, RunnerType, JobState
  <1>5. runner \in RunnerType /\ IdleRunner \in RunnerType
    BY <1>2 DEF RunnerType
  <1>. HIDE DEF runner
  <1>6. bw' \in [Runners -> RunnerType]
    BY <1>3, <1>4, <1>5
  <1>7. bjob' \in [Batches -> JobState]
    BY <1>3, <1>4
  <1>. QED BY <1>6, <1>7 DEF BatchesType

\* A step to another label.
RunnerPcs == {"load", "list", "next", "drop", "seek", "relink", "create", "link",
              "publish", "touch", "error", "tally"}

LEMMA BGotoType ==
  ASSUME TypeOK, NEW r \in Runners, bw[r].pc # "idle", NEW l \in RunnerPcs, BGoto(r, l)
  PROVE  bw' \in [Runners -> RunnerType]
  <1>1. bw[r] \in Runner
    BY RunnerIs
  <1>2. [bw[r] EXCEPT !.pc = l] \in Runner
    BY <1>1 DEF Runner, RunnerPcs
  <1>. DEFINE runner == [bw[r] EXCEPT !.pc = l]
  <1>3. bw' = [bw EXCEPT ![r] = runner]
    BY DEF BGoto
  <1>. QED BY <1>2, <1>3 DEF TypeOK, RunnerType

LEMMA EReturnType ==
  ASSUME TypeOK, EReturn
  PROVE  ejob' \in [Keys -> JobState] /\ ex' \in ExecType /\ flag' \in BOOLEAN
  BY DEF TypeOK, EReturn, ExecType, JobState

ExecutorPcs == {"load", "start", "verify", "pending", "count", "resolve", "insert",
                "scan", "dispatch", "complete", "failed"}

LEMMA EGotoType ==
  ASSUME TypeOK, ex.pc # "idle", NEW l \in ExecutorPcs, EGoto(l)
  PROVE  ex' \in ExecType
  <1>1. ex \in Executor
    BY ExecutorIs
  <1>. QED BY <1>1 DEF EGoto, ExecType, Executor, ExecutorPcs

-----------------------------------------------------------------------------
(* What becomes of a message                                               *)

\* The fates of a message for which an event of kind k, or a status of that
\* name, may stand.
Reached(k) ==
  CASE k = "SENT" -> {"sent", "delivered", "read"}
    [] k = "DELIVERED" -> {"delivered", "read"}
    [] OTHER -> {"read"}

LEMMA EventIs ==
  /\ \A e \in Events : e[1] \in Kinds
  /\ \A k \in Kinds : <<k, 0>> \in Events
  /\ \A kinds, e : e \in kinds \X {0} => e[1] \in kinds
  BY CampaignAssumption DEF Events

LEMMA MessageKeeps ==
  ASSUME NEW c \in Contacts, MessageStep(c)
  PROVE  /\ UNCHANGED <<status, rcp, linked, count, ejob, flag, bjob, check, due>>
         /\ UNCHANGED <<found, ex, bw, us, requests, audience, ran>>
         /\ faults' = faults \/ Fault("db")
  BY DEF MessageStep, MessageSent, MessageFailed, MessageBuried, SendThrow, Receive,
     rows, jobs,
         procs, hist

LEMMA MessageTypes ==
  ASSUME TypeOK, NEW c \in Contacts, MessageStep(c)
  PROVE  /\ msg' \in [Contacts -> Fate] /\ row' \in [Contacts -> Fate]
         /\ sending' \in SUBSET Contacts /\ astray' \in SUBSET Contacts
  <1>1. CASE MessageSent(c) \/ MessageFailed(c) \/ MessageBuried(c)
    BY <1>1 DEF MessageSent, MessageFailed, MessageBuried, Becomes, TypeOK, Fate
  <1>2. CASE SendThrow(c)
    BY <1>2 DEF SendThrow, TypeOK, Fate
  <1>3. ASSUME NEW e \in Events, Receive(c, e)
        PROVE  /\ msg' \in [Contacts -> Fate] /\ row' \in [Contacts -> Fate]
               /\ sending' \in SUBSET Contacts /\ astray' \in SUBSET Contacts
    BY <1>3 DEF Receive, Stated, TypeOK, Fate
  <1>. QED BY <1>1, <1>2, <1>3 DEF MessageStep

LEMMA EmitsSome ==
  ASSUME TypeOK, NEW c \in Contacts, NEW kinds, Emits(c, kinds)
  PROVE  /\ ev' \in [Contacts -> [Events -> EventState]]
         /\ \A d \in Contacts, e \in Events :
              \/ ev'[d][e] = ev[d][e]
              \/ d = c /\ e \in kinds \X {0} /\ e[1] \in kinds /\ ev'[d][e] = "find"
  <1>. DEFINE f == [e \in Events |-> IF e \in kinds \X {0} THEN "find" ELSE ev[c][e]]
  <1>1. f \in [Events -> EventState] /\ ev \in [Contacts -> [Events -> EventState]]
    BY DEF TypeOK, EventState
  <1>2. ev' = [ev EXCEPT ![c] = f]
    BY DEF Emits
  <1>3. \A e \in Events : \/ f[e] = ev[c][e]
                          \/ e \in kinds \X {0} /\ e[1] \in kinds /\ f[e] = "find"
    BY EventIs
  <1>. HIDE DEF f
  <1>. QED BY <1>1, <1>2, <1>3

LEMMA UnsaidSome ==
  ASSUME TypeOK, NEW c \in Contacts, NEW kinds, Unsaid(c, kinds)
  PROVE  /\ ev' \in [Contacts -> [Events -> EventState]]
         /\ \A d \in Contacts, e \in Events :
              \/ ev'[d][e] = ev[d][e] \/ ev'[d][e] = "off"
              \/ d = c /\ e[1] \in kinds /\ ev'[d][e] = "find"
  <1>. DEFINE f == [e \in Events |-> IF e \in kinds \X {0} THEN "find"
                                    ELSE IF e = <<"SENT", 0>> THEN "off" ELSE ev[c][e]]
  <1>1. f \in [Events -> EventState] /\ ev \in [Contacts -> [Events -> EventState]]
    BY DEF TypeOK, EventState
  <1>2. ev' = [ev EXCEPT ![c] = f]
    BY DEF Unsaid
  <1>3. \A e \in Events : f[e] = ev[c][e] \/ f[e] = "off" \/ (e[1] \in kinds /\ f[e] = "find")
    BY EventIs
  <1>. HIDE DEF f
  <1>. QED BY <1>1, <1>2, <1>3

\* An event that begins is about what has become of the message.
LEMMA MessageEvents ==
  ASSUME TypeOK, NEW c \in Contacts, MessageStep(c)
  PROVE  /\ ev' \in [Contacts -> [Events -> EventState]]
         /\ \A d \in Contacts, e \in Events :
              \/ ev'[d][e] = ev[d][e] \/ ev'[d][e] = "off"
              \/ ev'[d][e] = "find" /\ e[1] \in {"FAILED", "DEAD"}
              \/ ev'[d][e] = "find" /\ e[1] = "SENT" /\ msg'[d] \in Reached("SENT")
              \/ ev'[d][e] = "mark" /\ e[1] \in Reports /\ msg'[d] \in Reached(e[1])
  <1>. DEFINE Goal ==
         /\ ev' \in [Contacts -> [Events -> EventState]]
         /\ \A d \in Contacts, e \in Events :
              \/ ev'[d][e] = ev[d][e] \/ ev'[d][e] = "off"
              \/ ev'[d][e] = "find" /\ e[1] \in {"FAILED", "DEAD"}
              \/ ev'[d][e] = "find" /\ e[1] = "SENT" /\ msg'[d] \in Reached("SENT")
              \/ ev'[d][e] = "mark" /\ e[1] \in Reports /\ msg'[d] \in Reached(e[1])
  <1>1. ev' = ev => Goal
    BY DEF TypeOK, EventState
  <1>2. CASE MessageSent(c)
    <2>1. msg'[c] \in Reached("SENT")
      BY <1>2 DEF MessageSent, Becomes, Reached, TypeOK
    <2>. QED BY <1>2, <2>1, EmitsSome DEF MessageSent
  <1>3. ASSUME NEW kinds \in Burials \cup {{}}, Emits(c, kinds) \/ Unsaid(c, kinds) PROVE Goal
    <2>1. kinds \subseteq {"FAILED", "DEAD"}
      BY DEF Burials
    <2>2. /\ ev' \in [Contacts -> [Events -> EventState]]
          /\ \A d \in Contacts, e \in Events :
               \/ ev'[d][e] = ev[d][e] \/ ev'[d][e] = "off"
               \/ e[1] \in kinds /\ ev'[d][e] = "find"
      <3>1. CASE Emits(c, kinds)
        BY <3>1, EmitsSome
      <3>2. CASE Unsaid(c, kinds)
        BY <3>2, UnsaidSome
      <3>. QED BY <1>3, <3>1, <3>2
    <2>. QED BY <2>1, <2>2
  <1>4. CASE MessageFailed(c) \/ MessageBuried(c) \/ SendThrow(c)
    <2>1. ev' = ev \/ \E kinds \in Burials \cup {{}} : Emits(c, kinds) \/ Unsaid(c, kinds)
      BY <1>4 DEF MessageFailed, MessageBuried, SendThrow, procs
    <2>. QED BY <1>1, <1>3, <2>1
  <1>5. ASSUME NEW e \in Events, Receive(c, e) PROVE Goal
    <2>1. ev' = [ev EXCEPT ![c][e] = "mark"] /\ e[1] \in Reports
      BY <1>5 DEF Receive
    <2>2. msg'[c] \in Reached(e[1])
      BY <1>5 DEF Receive, Reports, Reached, Stated, Rank, TypeOK
    <2>. QED BY <2>1, <2>2 DEF TypeOK, EventState
  <1>6. Goal
    BY <1>2, <1>4, <1>5 DEF MessageStep
  <1>. QED BY <1>6

LEMMA UsersStepType ==
  ASSUME TypeOK, [Next]_vars
  PROVE  UsersType'
  <1>. USE CampaignAssumption
  <1>f. us' = us /\ requests' = requests /\ faults' = faults => UsersType'
    BY DEF TypeOK, UsersType, UserType
  <1>t. ASSUME NEW kind, Fault(kind) PROVE faults' \in 0 .. MaxFaults
    BY <1>t DEF TypeOK, Fault
  <1>1. ASSUME NEW u \in Users, NEW kind \in Requests, Ask(u, kind) PROVE UsersType'
    <2>. DEFINE user == [pc |-> IF kind = "resume" THEN "reset" ELSE "set",
                         kind |-> kind, seen |-> status, n |-> requests']
    <2>1. requests' \in 1 .. MaxRequests
      BY <1>1 DEF Ask, TypeOK
    <2>2. user \in User
      BY <2>1 DEF TypeOK, User
    <2>3. us' = [us EXCEPT ![u] = user] /\ faults' = faults
      BY <1>1 DEF Ask
    <2>. HIDE DEF user
    <2>. QED BY <2>1, <2>2, <2>3 DEF TypeOK, UsersType, UserType
  <1>2. ASSUME NEW u \in Users, UserStep(u) \/ UserThrow(u) PROVE UsersType'
    <2>1. us[u] \in User
      BY <1>2, UserIs DEF UserStep, UserThrow, Reset, Set, Skip, Publish
    <2>2. \A l \in {"set", "skip", "publish"} : [us[u] EXCEPT !.pc = l] \in User
      BY <2>1 DEF User
    <2>3. \/ us' = [us EXCEPT ![u] = IdleUser]
          \/ \E l \in {"set", "skip", "publish"} : us' = [us EXCEPT ![u] = [us[u] EXCEPT !.pc = l]]
      BY <1>2 DEF UserStep, UserThrow, Reset, Set, Skip, Publish, TypeOK
    <2>7. us \in [Users -> UserType] /\ \E user \in UserType : us' = [us EXCEPT ![u] = user]
      BY <2>2, <2>3 DEF TypeOK, UserType
    <2>4. us' \in [Users -> UserType]
      BY <2>7
    <2>5. requests' = requests
      BY <1>2 DEF UserStep, UserThrow, Reset, Set, Skip, Publish, hist
    <2>6. faults' = faults \/ Fault("db")
      BY <1>2 DEF UserStep, UserThrow, Reset, Set, Skip, Publish, hist
    <2>. QED BY <2>4, <2>5, <2>6, <1>t DEF TypeOK, UsersType
  <1>3. CASE FetchCheck \/ CheckStep \/ ExpireCheck \/ Due
    BY <1>3, <1>f DEF FetchCheck, CheckStep, FindScheduled, FinishCheck, ExpireCheck, Due, procs,
                      hist
  <1>4. CASE ExecutorStep \/ \E k \in Keys : FetchExec(k) \/ ExpireExec(k)
    BY <1>4, <1>f DEF ExecutorStep, FetchExec, ExpireExec, ELoad, EStart, EVerify, EPending, ECount,
              EResolve, EInsert, EScan, EDispatch, EComplete, EFail, procs, hist
  <1>g. us' = us /\ requests' = requests /\ Fault("db") => UsersType'
    BY <1>t DEF TypeOK, UsersType, UserType
  <1>5. CASE ECatch \/ EThrow
    BY <1>5, <1>g DEF ECatch, EThrow
  <1>6. CASE \E r \in Runners, b \in Batches : FetchBatch(r, b)
    BY <1>6, <1>f DEF FetchBatch, hist
  <1>7. ASSUME NEW r \in Runners, RunnerStep(r) PROVE UsersType'
    BY <1>7, <1>f DEF RunnerStep, BLoad, BList, BCheck, BDrop, BSeek, BCreate, BLink, BRelink,
              BPublish, BTouch, BError, BTally, hist
  <1>8. ASSUME NEW r \in Runners, BCatch(r) \/ BThrow(r) PROVE UsersType'
    BY <1>8, <1>g DEF BCatch, BThrow
  <1>9. CASE \E b \in Batches : ExpireBatch(b)
    BY <1>9, <1>f DEF ExpireBatch, procs, hist
  <1>10. ASSUME NEW c \in Contacts, MessageStep(c)
         PROVE UsersType'
    BY <1>10, <1>f, <1>g, MessageKeeps
  <1>11. ASSUME NEW c \in Contacts, NEW e \in Events, HandlerStep(c, e) PROVE UsersType'
    BY <1>11, <1>f DEF HandlerStep, VMark, VFind, VWrite, VCount, VLook, VTally, VComplete, hist
  <1>12. ASSUME NEW c \in Contacts, NEW e \in Events, HandlerThrow(c, e) PROVE UsersType'
    BY <1>12, <1>g DEF HandlerThrow
  <1>13. CASE Crash
    BY <1>13, <1>t DEF Crash, TypeOK, UsersType, UserType
  <1>14. CASE UNCHANGED vars
    BY <1>14, <1>f DEF vars, procs, hist
  <1>. QED BY <1>1, <1>2, <1>3, <1>4, <1>5, <1>6, <1>7, <1>8, <1>9, <1>10, <1>11, <1>12, <1>13,
           <1>14 DEF Next

\* The read handler leaves the status alone.
ReadKeepsStatus ==
  \A c \in Contacts, e \in Events : e[1] = "READ" => ev[c][e] # "write"

LEMMA EventsStepType ==
  ASSUME TypeOK, [Next]_vars
  PROVE  EventsType'
  <1>f. ev' = ev => EventsType'
    BY DEF TypeOK, EventsType, EventState
  <1>g. ASSUME NEW c \in Contacts, NEW e \in Events, NEW l \in EventState, VGoto(c, e, l)
        PROVE  EventsType'
    BY <1>g DEF TypeOK, EventsType, EventState, VGoto
  <1>1. ASSUME NEW u \in Users, \/ \E kind \in Requests : Ask(u, kind)
                                \/ UserStep(u) \/ UserThrow(u)
        PROVE  EventsType'
    BY <1>1, <1>f DEF Ask, UserStep, UserThrow, Reset, Set, Skip, Publish
  <1>3. CASE FetchCheck \/ CheckStep \/ ExpireCheck \/ Due
    BY <1>3, <1>f DEF FetchCheck, CheckStep, FindScheduled, FinishCheck, ExpireCheck, Due, procs
  <1>4. CASE ExecutorStep \/ \E k \in Keys : FetchExec(k) \/ ExpireExec(k)
    BY <1>4, <1>f DEF ExecutorStep, FetchExec, ExpireExec, ELoad, EStart, EVerify, EPending, ECount,
              EResolve, EInsert, EScan, EDispatch, EComplete, EFail, procs
  <1>5. CASE ECatch \/ EThrow
    BY <1>5, <1>f DEF ECatch, EThrow
  <1>6. CASE \E r \in Runners, b \in Batches : FetchBatch(r, b)
    BY <1>6, <1>f DEF FetchBatch
  <1>7. ASSUME NEW r \in Runners, RunnerStep(r) PROVE EventsType'
    BY <1>7, <1>f DEF RunnerStep, BLoad, BList, BCheck, BDrop, BSeek, BCreate, BLink, BRelink,
              BPublish, BTouch, BError, BTally
  <1>8. ASSUME NEW r \in Runners, BCatch(r) \/ BThrow(r) PROVE EventsType'
    BY <1>8, <1>f DEF BCatch, BThrow
  <1>9. CASE \E b \in Batches : ExpireBatch(b)
    BY <1>9, <1>f DEF ExpireBatch, procs
  <1>10. ASSUME NEW c \in Contacts, MessageStep(c)
         PROVE EventsType'
    BY <1>10, MessageEvents DEF EventsType
  <1>11. ASSUME NEW c \in Contacts, NEW e \in Events, HandlerStep(c, e) \/ HandlerThrow(c, e)
         PROVE EventsType'
    <2>1. \E l \in EventState : VGoto(c, e, l)
      <3>1. CASE VFind(c, e)
        BY <3>1 DEF VFind, EventState
      <3>. QED BY <3>1, <1>11 DEF HandlerStep, HandlerThrow, VMark, VWrite, VCount, VLook, VTally,
                  VComplete, EventState
    <2>. QED BY <2>1, <1>g
  <1>13. CASE Crash
    BY <1>13 DEF Crash, EventsType, EventState, QuietEvents
  <1>14. CASE UNCHANGED vars
    BY <1>14, <1>f DEF vars, procs
  <1>. QED BY <1>1, <1>3, <1>4, <1>5, <1>6, <1>7, <1>8, <1>9, <1>10, <1>11, <1>13,
           <1>14 DEF Next

LEMMA BatchesStepType ==
  ASSUME TypeOK, [Next]_vars
  PROVE  BatchesType'
  <1>. USE CampaignAssumption
  <1>f. bjob' = bjob /\ bw' = bw => BatchesType'
    BY DEF TypeOK, BatchesType, RunnerType
  <1>b. bjob' \in [Batches -> JobState] /\ bw' = bw => BatchesType'
    BY DEF TypeOK, BatchesType, RunnerType
  <1>w. bjob' = bjob /\ bw' \in [Runners -> RunnerType] => BatchesType'
    BY DEF TypeOK, BatchesType, RunnerType
  <1>1. ASSUME NEW u \in Users, \/ \E kind \in Requests : Ask(u, kind)
                                \/ UserStep(u) \/ UserThrow(u)
        PROVE  BatchesType'
    BY <1>1, <1>f DEF Ask, UserStep, UserThrow, Reset, Set, Skip, Publish, jobs
  <1>3. CASE FetchCheck \/ CheckStep \/ ExpireCheck \/ Due
    BY <1>3, <1>f DEF FetchCheck, CheckStep, FindScheduled, FinishCheck, ExpireCheck, Due, procs,
       jobs
  <1>4. CASE ExecutorStep \/ \E k \in Keys : FetchExec(k) \/ ExpireExec(k)
    <2>1. CASE EDispatch
      <3>1. PICK b : bjob' = [bjob EXCEPT ![b] = Offered(@)]
        BY <2>1 DEF EDispatch
      <3>2. bjob \in [Batches -> JobState] /\ (b \in Batches => Offered(bjob[b]) \in JobState)
        BY DEF TypeOK, JobState, Offered
      <3>3. bjob' \in [Batches -> JobState]
        BY <3>1, <3>2
      <3>. QED BY <2>1, <3>3, <1>b DEF EDispatch
    <2>2. CASE ~EDispatch
      BY <2>2, <1>4, <1>f DEF ExecutorStep, FetchExec, ExpireExec, ELoad, EStart, EVerify, EPending,
                ECount, EResolve, EInsert, EScan, EComplete, EFail, procs, jobs
    <2>. QED BY <2>1, <2>2
  <1>5. CASE ECatch \/ EThrow
    BY <1>5, <1>f DEF ECatch, EThrow, jobs
  <1>6. ASSUME NEW r \in Runners, NEW b \in Batches, FetchBatch(r, b) PROVE BatchesType'
    <2>. DEFINE runner == [IdleRunner EXCEPT !.pc = "load", !.batch = b]
    <2>1. runner \in RunnerType
      BY DEF IdleRunner, RunnerType, Runner
    <2>2. bw' = [bw EXCEPT ![r] = runner] /\ bjob' = [bjob EXCEPT ![b] = "active"]
      BY <1>6 DEF FetchBatch
    <2>3. bw \in [Runners -> RunnerType] /\ bjob' \in [Batches -> JobState]
      BY <2>2 DEF TypeOK, RunnerType, JobState
    <2>. HIDE DEF runner
    <2>4. bw' \in [Runners -> RunnerType]
      BY <2>1, <2>2, <2>3
    <2>. QED BY <2>3, <2>4 DEF BatchesType
  <1>7. ASSUME NEW r \in Runners, RunnerStep(r) PROVE BatchesType'
    <2>1. ASSUME bw[r].pc # "idle", Proceed(r) PROVE BatchesType'
      BY <2>1, ProceedType
    <2>2. ASSUME bw[r].pc # "idle", NEW l \in RunnerPcs, BGoto(r, l), bjob' = bjob PROVE BatchesType'
      BY <2>2, BGotoType, <1>w
    <2>3. CASE BLoad(r)
      BY <2>3, <2>1, <2>2 DEF BLoad, RunnerPcs
    <2>4. CASE BList(r)
      <3>. DEFINE list == {x \in Pending : BatchOf(x) = bw[r].batch}
                  runner == [bw[r] EXCEPT !.pc = "next", !.todo = list]
      <3>1. bw[r] \in Runner
        BY <2>4, RunnerIs DEF BList
      <3>2. runner \in RunnerType
        BY <3>1 DEF Runner, RunnerType, Pending
      <3>3. \/ Proceed(r)
            \/ bw' = [bw EXCEPT ![r] = runner] /\ bjob' = bjob
        BY <2>4 DEF BList
      <3>4. bw \in [Runners -> RunnerType]
        BY DEF TypeOK, RunnerType
      <3>. HIDE DEF runner
      <3>5. bw' = [bw EXCEPT ![r] = runner] => bw' \in [Runners -> RunnerType]
        BY <3>2, <3>4
      <3>. QED BY <2>1, <2>4, <3>3, <3>5, <1>w DEF BList
    <2>5. ASSUME NEW c \in Contacts, BCheck(r, c) PROVE BatchesType'
      <3>1. bw[r] \in Runner
        BY <2>5, RunnerIs DEF BCheck
      <3>2. PICK l \in {"seek", "drop"} : bw' = [bw EXCEPT ![r].c = c, ![r].pc = l]
        BY <2>5 DEF BCheck
      <3>. DEFINE runner == [bw[r] EXCEPT !.c = c, !.pc = l]
      <3>3. runner \in RunnerType
        BY <3>1 DEF Runner, RunnerType
      <3>4. bw' = [bw EXCEPT ![r] = runner] /\ bjob' = bjob /\ bw \in [Runners -> RunnerType]
        BY <2>5, <3>2 DEF BCheck, TypeOK, RunnerType, jobs
      <3>. HIDE DEF runner
      <3>. QED BY <3>3, <3>4, <1>w
    <2>6. CASE BDrop(r) \/ BRelink(r) \/ BTouch(r) \/ BTally(r)
      BY <2>6, <2>1 DEF BDrop, BRelink, BTouch, BTally
    <2>7. CASE BSeek(r) \/ BCreate(r) \/ BLink(r) \/ BPublish(r) \/ BError(r)
      BY <2>7, <2>2 DEF BSeek, BCreate, BLink, BPublish, BError, RunnerPcs, jobs
    <2>. QED BY <1>7, <2>3, <2>4, <2>5, <2>6, <2>7 DEF RunnerStep
  <1>8. ASSUME NEW r \in Runners, BCatch(r) PROVE BatchesType'
    <2>1. bw[r] \in Runner
      BY <1>8, RunnerIs DEF BCatch
    <2>2. CASE BGoto(r, "error")
      BY <1>8, <2>2, <1>w, BGotoType DEF BCatch, RunnerPcs, jobs
    <2>3. ASSUME NEW c \in bw[r].todo, bw' = [bw EXCEPT ![r].pc = "error", ![r].c = c]
          PROVE  BatchesType'
      <3>. DEFINE runner == [bw[r] EXCEPT !.pc = "error", !.c = c]
      <3>1. runner \in RunnerType
        BY <2>1 DEF Runner, RunnerType
      <3>2. bw' = [bw EXCEPT ![r] = runner] /\ bjob' = bjob /\ bw \in [Runners -> RunnerType]
        BY <1>8, <2>3 DEF BCatch, TypeOK, RunnerType, jobs
      <3>. HIDE DEF runner
      <3>. QED BY <3>1, <3>2, <1>w
    <2>. QED BY <1>8, <2>2, <2>3 DEF BCatch
  <1>12. ASSUME NEW r \in Runners, BThrow(r) PROVE BatchesType'
    BY <1>12 DEF BThrow, TypeOK, BatchesType, RunnerType, JobState
  <1>9. CASE \E b \in Batches : ExpireBatch(b)
    BY <1>9, <1>b DEF ExpireBatch, procs, TypeOK, JobState
  <1>10. ASSUME NEW c \in Contacts, MessageStep(c)
         PROVE BatchesType'
    BY <1>10, <1>f, MessageKeeps DEF rows, jobs
  <1>11. ASSUME NEW c \in Contacts, NEW e \in Events, HandlerStep(c, e) \/ HandlerThrow(c, e)
         PROVE BatchesType'
    BY <1>11, <1>f DEF HandlerStep, HandlerThrow, VMark, VFind, VWrite, VCount, VLook, VTally,
       VComplete, jobs
  <1>13. CASE Crash
    BY <1>13 DEF Crash, BatchesType, RunnerType, TypeOK
  <1>14. CASE UNCHANGED vars
    BY <1>14, <1>f DEF vars, procs, jobs
  <1>. QED BY <1>1, <1>3, <1>4, <1>5, <1>6, <1>7, <1>8, <1>9, <1>10, <1>11, <1>12, <1>13,
           <1>14 DEF Next

LEMMA ExecutorStepType ==
  ASSUME TypeOK, [Next]_vars
  PROVE  ExecutorType'
  <1>. USE CampaignAssumption
  <1>f. UNCHANGED <<ejob, flag, check, due, found, ex, audience>> => ExecutorType'
    BY DEF TypeOK, ExecutorType, ExecType
  <1>o. ASSUME NEW k \in Keys, NEW b \in BOOLEAN, OfferExec(k, b),
               UNCHANGED <<due, found, check, ex, audience>>
        PROVE  ExecutorType'
    BY <1>o, OfferType DEF TypeOK, ExecutorType, ExecType
  <1>x. ASSUME NEW l \in ExecutorPcs, EGoto(l), ex.pc # "idle",
               UNCHANGED <<ejob, flag, check, due, found, audience>>
        PROVE  ExecutorType'
    BY <1>x, EGotoType DEF TypeOK, ExecutorType
  <1>r. ASSUME EReturn, UNCHANGED <<check, due, found, audience>>
        PROVE  ExecutorType'
    BY <1>r, EReturnType DEF TypeOK, ExecutorType
  <1>1. ASSUME NEW u \in Users, NEW kind \in Requests, Ask(u, kind)
        PROVE  ExecutorType'
    BY <1>1, <1>f DEF Ask, jobs
  <1>2. ASSUME NEW u \in Users, UserStep(u) \/ UserThrow(u)
        PROVE  ExecutorType'
    <2>1. CASE Publish(u)
      <3>1. us[u] \in User
        BY <2>1, UserIs DEF Publish
      <3>2. <<"resume", us[u].n>> \in Keys /\ ExecKey \in Keys /\ ScheduledKey \in Keys
        BY <3>1 DEF Keys, User
      <3>3. \E k \in Keys, b \in BOOLEAN : OfferExec(k, b)
        BY <2>1, <3>2 DEF Publish
      <3>. QED BY <2>1, <3>3, <1>o DEF Publish, hist
    <2>2. CASE ~Publish(u)
      BY <2>2, <1>2, <1>f DEF UserStep, UserThrow, Reset, Set, Skip, jobs, hist
    <2>. QED BY <2>1, <2>2
  <1>3. CASE FetchCheck \/ CheckStep \/ ExpireCheck \/ Due
    <2>1. CASE FinishCheck
      <3>1. OfferExec(ExecKey, TRUE) \/ UNCHANGED <<ejob, flag>>
        BY <2>1 DEF FinishCheck
      <3>2. ejob' \in [Keys -> JobState] /\ flag' \in BOOLEAN
        <4>1. ExecKey \in Keys
          BY DEF Keys
        <4>. QED BY <3>1, <4>1, OfferType DEF TypeOK
      <3>. QED BY <2>1, <3>2 DEF FinishCheck, TypeOK, ExecutorType, ExecType, JobState, hist
    <2>2. CASE FetchCheck \/ FindScheduled \/ ExpireCheck \/ Due
      <3>1. UNCHANGED <<ejob, flag, ex, audience>>
        BY <2>2 DEF FetchCheck, FindScheduled, ExpireCheck, Due, procs, jobs, hist
      <3>2. check' \in JobState /\ due' \in BOOLEAN /\ found' \in {"off", "looking", "due", "none"}
        BY <2>2 DEF FetchCheck, FindScheduled, ExpireCheck, Due, TypeOK, JobState, procs, jobs
      <3>. QED BY <3>1, <3>2 DEF TypeOK, ExecutorType, ExecType
    <2>. QED BY <1>3, <2>1, <2>2 DEF CheckStep
  <1>4. ASSUME NEW k \in Keys, FetchExec(k) PROVE ExecutorType'
    <2>. DEFINE scheduled == k = ScheduledKey \/ (k = ExecKey /\ flag)
                fetched == [pc |-> "load", key |-> k, todo |-> {}, scheduled |-> scheduled]
    <2>1. fetched \in Executor
      BY DEF Executor
    <2>2. ex' = fetched /\ ejob' = [ejob EXCEPT ![k] = "active"]
          /\ UNCHANGED <<flag, check, due, found, audience>>
      BY <1>4 DEF FetchExec, hist
    <2>. HIDE DEF fetched
    <2>. QED BY <2>1, <2>2 DEF TypeOK, ExecutorType, ExecType, JobState
  <1>15. ASSUME NEW k \in Keys, ExpireExec(k) PROVE ExecutorType'
    BY <1>15 DEF ExpireExec, TypeOK, ExecutorType, ExecType, JobState, procs, hist
  <1>5. CASE ExecutorStep
    <2>1. CASE ELoad \/ EStart \/ EVerify \/ EPending \/ ECount
      BY <2>1, <1>x, <1>r DEF ELoad, EStart, EVerify, EPending, ECount, ExecutorPcs, jobs, hist
    <2>2. CASE EResolve
      <3>1. PICK A \in SUBSET Contacts :
              audience' = A /\ ex' = [ex EXCEPT !.pc = IF A = {} THEN "failed" ELSE "insert",
              !.todo = A]
        BY <2>2 DEF EResolve
      <3>2. ex \in Executor
        BY <2>2, ExecutorIs DEF EResolve
      <3>3. ex' \in Executor
        BY <3>1, <3>2 DEF Executor
      <3>. QED BY <2>2, <3>1, <3>3 DEF EResolve, TypeOK, ExecutorType, ExecType, jobs
    <2>3. CASE EInsert
      <3>1. ex \in Executor
        BY <2>3, ExecutorIs DEF EInsert
      <3>2. \E part, l : /\ l \in {"scan", "insert"}
                         /\ ex' = [ex EXCEPT !.todo = @ \ part, !.pc = l]
        <4>2. PICK b \in {BatchOf(c) : c \in ex.todo} :
                LET part == {c \in ex.todo : BatchOf(c) = b} IN
                  /\ \A c \in ex.todo : b <= BatchOf(c)
                  /\ rcp' = [c \in Contacts |->
                               IF c \in part /\ rcp[c] = "NONE" THEN "PENDING" ELSE rcp[c]]
                  /\ ex' = [ex EXCEPT !.todo = @ \ part,
                                      !.pc = IF part = ex.todo THEN "scan" ELSE "insert"]
          BY <2>3, Zenon DEF EInsert
        <4>. DEFINE part == {c \in ex.todo : BatchOf(c) = b}
        <4>3. ex' = [ex EXCEPT !.todo = @ \ part,
                               !.pc = IF part = ex.todo THEN "scan" ELSE "insert"]
          BY <4>2, Zenon
        <4>. HIDE DEF part
        <4>4. \/ ex' = [ex EXCEPT !.todo = @ \ part, !.pc = "scan"]
              \/ ex' = [ex EXCEPT !.todo = @ \ part, !.pc = "insert"]
          BY <4>3
        <4>. QED BY <4>4
      <3>3. ex' \in Executor
        <4>1. PICK part, l : l \in {"scan", "insert"} /\ ex' = [ex EXCEPT !.todo = @ \ part,
        !.pc = l]
          BY <3>2
        <4>. DEFINE todo == ex.todo \ part
        <4>2. todo \in SUBSET (Contacts \cup Batches) /\ ex' = [ex EXCEPT !.todo = todo, !.pc = l]
          BY <3>1, <4>1 DEF Executor
        <4>. HIDE DEF todo
        <4>. QED BY <3>1, <4>1, <4>2 DEF Executor
      <3>. QED BY <2>3, <3>3 DEF EInsert, TypeOK, ExecutorType, ExecType, jobs, hist
    <2>4. CASE EScan
      <3>1. ex \in Executor
        BY <2>4, ExecutorIs DEF EScan
      <3>2. CASE ~EReturn
        <4>1. ex' = [ex EXCEPT !.pc = "dispatch", !.todo = {BatchOf(c) : c \in Pending}]
              /\ UNCHANGED <<ejob, flag>>
          BY <2>4, <3>2 DEF EScan
        <4>2. {BatchOf(c) : c \in Pending} \subseteq Batches
          BY DEF Pending
        <4>3. ex' \in Executor
          BY <3>1, <4>1, <4>2 DEF Executor
        <4>. QED BY <2>4, <4>1, <4>3 DEF EScan, TypeOK, ExecutorType, ExecType, hist
      <3>. QED BY <2>4, <3>2, <1>r DEF EScan, hist
    <2>5. CASE EDispatch
      <3>1. ex \in Executor
        BY <2>5, ExecutorIs DEF EDispatch
      <3>2. CASE ~EReturn
        <4>1. PICK b \in ex.todo : ex' = [ex EXCEPT !.todo = @ \ {b}] /\ UNCHANGED <<ejob, flag>>
          BY <2>5, <3>2 DEF EDispatch
        <4>3. ex' \in Executor
          BY <3>1, <4>1 DEF Executor
        <4>. QED BY <2>5, <4>1, <4>3 DEF EDispatch, TypeOK, ExecutorType, ExecType, hist
      <3>. QED BY <2>5, <3>2, <1>r DEF EDispatch, hist
    <2>6. CASE EComplete \/ EFail
      BY <2>6, <1>r DEF EComplete, EFail
    <2>. QED BY <1>5, <2>1, <2>2, <2>3, <2>4, <2>5, <2>6 DEF ExecutorStep
  <1>16. CASE ECatch
    BY <1>16, <1>x DEF ECatch, ExecutorPcs, jobs
  <1>17. CASE EThrow
    BY <1>17 DEF EThrow, TypeOK, ExecutorType, ExecType, JobState
  <1>6. CASE \E r \in Runners, b \in Batches : FetchBatch(r, b)
    BY <1>6, <1>f DEF FetchBatch, hist
  <1>7. ASSUME NEW r \in Runners, RunnerStep(r) \/ BCatch(r) \/ BThrow(r) PROVE ExecutorType'
    <2>1. CASE BCatch(r) \/ BThrow(r)
      BY <2>1, <1>f DEF BCatch, BThrow, jobs
    <2>2. CASE RunnerStep(r)
      BY <2>2, <1>f DEF RunnerStep, BLoad, BList, BCheck, BDrop, BSeek, BCreate, BLink, BRelink,
              BPublish, BTouch, BError, BTally, jobs, hist
    <2>. QED BY <1>7, <2>1, <2>2
  <1>9. CASE \E b \in Batches : ExpireBatch(b)
    BY <1>9, <1>f DEF ExpireBatch, procs, hist
  <1>10. ASSUME NEW c \in Contacts, MessageStep(c)
         PROVE ExecutorType'
    BY <1>10, <1>f, MessageKeeps DEF rows, jobs
  <1>11. ASSUME NEW c \in Contacts, NEW e \in Events, HandlerStep(c, e) \/ HandlerThrow(c, e)
         PROVE ExecutorType'
    BY <1>11, <1>f DEF HandlerStep, HandlerThrow, VMark, VFind, VWrite, VCount, VLook, VTally,
       VComplete,
              jobs, hist
  <1>13. CASE Crash
    BY <1>13 DEF Crash, ExecutorType, ExecType, TypeOK, JobState, Offered
  <1>14. CASE UNCHANGED vars
    BY <1>14, <1>f DEF vars, procs, jobs, hist
  <1>. QED BY <1>1, <1>2, <1>3, <1>4, <1>5, <1>6, <1>7, <1>9, <1>10, <1>11, <1>13,
           <1>14, <1>15, <1>16, <1>17 DEF Next

LEMMA RowsStepType ==
  ASSUME TypeOK, ReadKeepsStatus, [Next]_vars
  PROVE  RowsType'
  <1>. USE CampaignAssumption
  <1>f. UNCHANGED <<rows, mail, count, ran>> => RowsType'
    BY DEF TypeOK, RowsType, rows
  <1>s. ASSUME NEW from, NEW to \in Status, Sets(from, to), UNCHANGED <<rcp, linked, mail, count>>
        PROVE  RowsType'
    BY <1>s, SetsType DEF TypeOK, RowsType
  <1>c. ASSUME rcp' \in [Contacts -> RecipientStatus],
               UNCHANGED <<status, linked, mail, count, ran>>
        PROVE  RowsType'
    BY <1>c DEF TypeOK, RowsType
  <1>1. ASSUME NEW u \in Users, \E kind \in Requests : Ask(u, kind) PROVE RowsType'
    BY <1>1, <1>f DEF Ask
  <1>2. ASSUME NEW u \in Users, UserStep(u) \/ UserThrow(u) PROVE RowsType'
    <2>1. CASE Set(u)
      BY <2>1, <1>s DEF Set, Target, Status
    <2>2. CASE Reset(u) \/ Skip(u)
      BY <2>2, <1>c DEF Reset, Skip, ResetSkippedToPending, MarkPendingAsSkipped, TypeOK,
                        RecipientStatus, hist
    <2>3. CASE Publish(u) \/ UserThrow(u)
      BY <2>3, <1>f DEF Publish, UserThrow, hist
    <2>. QED BY <1>2, <2>1, <2>2, <2>3 DEF UserStep
  <1>3. CASE FetchCheck \/ CheckStep \/ ExpireCheck \/ Due
    BY <1>3, <1>f DEF FetchCheck, CheckStep, FindScheduled, FinishCheck, ExpireCheck, Due, hist
  <1>4. CASE ExecutorStep \/ \E k \in Keys : FetchExec(k) \/ ExpireExec(k)
    <2>1. CASE EStart \/ EComplete \/ EFail
      BY <2>1, <1>s DEF EStart, EComplete, EFail, Status
    <2>2. CASE EInsert
      <3>1. \E part : rcp' = [c \in Contacts |->
                               IF c \in part /\ rcp[c] = "NONE" THEN "PENDING" ELSE rcp[c]]
        BY <2>2 DEF EInsert
      <3>2. rcp' \in [Contacts -> RecipientStatus]
        BY <3>1 DEF TypeOK, RecipientStatus
      <3>. QED BY <2>2, <3>2, <1>c DEF EInsert, hist
    <2>3. CASE ~(EStart \/ EComplete \/ EFail \/ EInsert)
      BY <2>3, <1>4, <1>f DEF ExecutorStep, FetchExec, ExpireExec, ELoad, EVerify, EPending,
                ECount, EResolve, EScan, EDispatch, hist
    <2>. QED BY <2>1, <2>2, <2>3
  <1>5. CASE ECatch \/ EThrow
    BY <1>5, <1>f DEF ECatch, EThrow
  <1>6. CASE \E r \in Runners, b \in Batches : FetchBatch(r, b)
    BY <1>6, <1>f DEF FetchBatch, hist
  <1>7. ASSUME NEW r \in Runners, RunnerStep(r) PROVE RowsType'
    <2>1. CASE BDrop(r) \/ BError(r)
      BY <2>1, <1>c DEF BDrop, BError, TypeOK, RecipientStatus, hist
    <2>2. CASE BLink(r) \/ BRelink(r)
      <3>1. rcp' \in [Contacts -> RecipientStatus] /\ linked' \in [Contacts -> BOOLEAN]
        BY <2>2 DEF BLink, BRelink, Link, TypeOK, RecipientStatus
      <3>. QED BY <2>2, <3>1 DEF BLink, BRelink, TypeOK, RowsType, hist
    <2>3. CASE BCreate(r)
      <3>1. \/ UNCHANGED <<msg, row>>
            \/ Becomes(bw[r].c, "queued")
        BY <2>3 DEF BCreate
      <3>2. msg' \in [Contacts -> Fate] /\ row' \in [Contacts -> Fate]
        BY <3>1 DEF Becomes, TypeOK, Fate
      <3>. QED BY <2>3, <3>2 DEF BCreate, TypeOK, RowsType, rows, hist
    <2>4. CASE BTally(r)
      <3>1. count' \in [sent : Nat, delivered : Nat, read : Nat, failed : Nat]
        BY <2>4 DEF BTally, TypeOK
      <3>. QED BY <2>4, <3>1 DEF BTally, TypeOK, RowsType, rows, hist
    <2>5. CASE BLoad(r) \/ BList(r) \/ (\E c \in Contacts : BCheck(r, c)) \/ BSeek(r) \/ BPublish(r)
               \/ BTouch(r)
      BY <2>5, <1>f DEF BLoad, BList, BCheck, BSeek, BPublish, BTouch, hist
    <2>. QED BY <1>7, <2>1, <2>2, <2>3, <2>4, <2>5 DEF RunnerStep
  <1>8. ASSUME NEW r \in Runners, BCatch(r) \/ BThrow(r) PROVE RowsType'
    BY <1>8, <1>f DEF BCatch, BThrow
  <1>9. CASE \E b \in Batches : ExpireBatch(b)
    BY <1>9, <1>f DEF ExpireBatch, hist
  <1>10. ASSUME NEW c \in Contacts, MessageStep(c)
         PROVE RowsType'
    BY <1>10, MessageKeeps, MessageTypes DEF TypeOK, RowsType
  <1>11. ASSUME NEW c \in Contacts, NEW e \in Events, HandlerStep(c, e) \/ HandlerThrow(c, e)
         PROVE RowsType'
    <2>1. CASE VWrite(c, e)
      <3>1. e[1] \in Kinds /\ e[1] # "READ"
        BY <2>1, EventIs DEF VWrite, ReadKeepsStatus
      <3>. QED BY <2>1, <3>1, <1>c DEF VWrite, Outcome, Kinds, TypeOK, RecipientStatus, hist
    <2>2. CASE VCount(c, e)
      <3>1. PICK d \in {"sent", "delivered", "read", "failed"} : count' = [count EXCEPT ![d] = @ + 1]
        BY <2>2 DEF VCount, Counter
      <3>2. count' \in [sent : Nat, delivered : Nat, read : Nat, failed : Nat]
        BY <3>1 DEF TypeOK
      <3>. QED BY <2>2, <3>2 DEF VCount, TypeOK, RowsType, rows, hist
    <2>3. CASE VComplete(c, e)
      BY <2>3, <1>s DEF VComplete, Status
    <2>4. CASE VFind(c, e) \/ VLook(c, e) \/ VTally(c, e) \/ HandlerThrow(c, e)
      BY <2>4, <1>f DEF VFind, VLook, VTally, HandlerThrow, hist
    <2>5. CASE VMark(c, e)
      <3>1. row' \in [Contacts -> Fate]
        BY <2>5 DEF VMark, Stated, Fate, TypeOK
      <3>. QED BY <2>5, <3>1 DEF VMark, TypeOK, RowsType, rows, hist
    <2>. QED BY <1>11, <2>1, <2>2, <2>3, <2>4, <2>5 DEF HandlerStep
  <1>13. CASE Crash
    BY <1>13 DEF Crash, TypeOK, RowsType, rows
  <1>14. CASE UNCHANGED vars
    BY <1>14, <1>f DEF vars, hist
  <1>. QED BY <1>1, <1>2, <1>3, <1>4, <1>5, <1>6, <1>7, <1>8, <1>9, <1>10, <1>11, <1>13,
           <1>14 DEF Next

LEMMA ReadStep ==
  ASSUME TypeOK, ReadKeepsStatus, [Next]_vars
  PROVE  ReadKeepsStatus'
  <1>f. ev' = ev => ReadKeepsStatus'
    BY DEF ReadKeepsStatus
  <1>1. ASSUME NEW u \in Users, \/ \E kind \in Requests : Ask(u, kind)
                                \/ UserStep(u) \/ UserThrow(u)
        PROVE  ReadKeepsStatus'
    BY <1>1, <1>f DEF Ask, UserStep, UserThrow, Reset, Set, Skip, Publish
  <1>3. CASE FetchCheck \/ CheckStep \/ ExpireCheck \/ Due
    BY <1>3, <1>f DEF FetchCheck, CheckStep, FindScheduled, FinishCheck, ExpireCheck, Due, procs
  <1>4. CASE ExecutorStep \/ ECatch \/ EThrow \/ \E k \in Keys : FetchExec(k) \/ ExpireExec(k)
    BY <1>4, <1>f DEF ExecutorStep, FetchExec, ExpireExec, ELoad, EStart, EVerify, EPending, ECount,
              EResolve, EInsert, EScan, EDispatch, EComplete, EFail, ECatch, EThrow, procs
  <1>6. CASE \E r \in Runners, b \in Batches : FetchBatch(r, b)
    BY <1>6, <1>f DEF FetchBatch
  <1>7. ASSUME NEW r \in Runners, RunnerStep(r) \/ BCatch(r) \/ BThrow(r) PROVE ReadKeepsStatus'
    BY <1>7, <1>f DEF RunnerStep, BLoad, BList, BCheck, BDrop, BSeek, BCreate, BLink, BRelink,
              BPublish, BTouch, BError, BTally, BCatch, BThrow
  <1>9. CASE \E b \in Batches : ExpireBatch(b)
    BY <1>9, <1>f DEF ExpireBatch, procs
  <1>10. ASSUME NEW c \in Contacts, MessageStep(c)
         PROVE ReadKeepsStatus'
    BY <1>10, MessageEvents DEF ReadKeepsStatus
  <1>11. ASSUME NEW c \in Contacts, NEW e \in Events, HandlerStep(c, e) \/ HandlerThrow(c, e)
         PROVE ReadKeepsStatus'
    <2>1. \E l : VGoto(c, e, l) /\ (e[1] = "READ" => l # "write")
      <3>1. CASE VFind(c, e)
        BY <3>1 DEF VFind
      <3>. QED BY <3>1, <1>11 DEF HandlerStep, HandlerThrow, VMark, VWrite, VCount, VLook, VTally,
                                  VComplete
    <2>. QED BY <2>1 DEF TypeOK, ReadKeepsStatus, VGoto
  <1>13. CASE Crash
    BY <1>13 DEF Crash, ReadKeepsStatus, QuietEvents
  <1>14. CASE UNCHANGED vars
    BY <1>14, <1>f DEF vars, procs
  <1>. QED BY <1>1, <1>3, <1>4, <1>6, <1>7, <1>9, <1>10, <1>11, <1>13, <1>14 DEF Next

(* Every state has the declared types, whoever interleaves: in particular  *)
(* an event handler never writes a status that no recipient can have.      *)
THEOREM TypeCorrect == Spec => []TypeOK
  <1>1. Init => TypeOK /\ ReadKeepsStatus
    BY InitType DEF Init, ReadKeepsStatus, QuietEvents
  <1>2. TypeOK /\ ReadKeepsStatus /\ [Next]_vars => (TypeOK /\ ReadKeepsStatus)'
    <2>. SUFFICES ASSUME TypeOK, ReadKeepsStatus, [Next]_vars PROVE (TypeOK /\ ReadKeepsStatus)'
      OBVIOUS
    <2>1. RowsType' /\ ExecutorType' /\ BatchesType' /\ EventsType' /\ UsersType'
      BY RowsStepType, ExecutorStepType, BatchesStepType, EventsStepType, UsersStepType
    <2>2. TypeOK'
      BY <2>1 DEF TypeOK, RowsType, ExecutorType, BatchesType, EventsType, UsersType, ExecType,
                  RunnerType, UserType, EventState
    <2>. QED BY <2>2, ReadStep
  <1>. QED BY <1>1, <1>2, PTL DEF Spec

-----------------------------------------------------------------------------
(* The status                                                              *)

\* A request that is to set the status saw one from which it may.
Asked ==
  \A u \in Users : us[u].pc \in {"reset", "set"} =>
    Target(us[u].kind) \in VALID_TRANSITIONS[Expected(u)]

\* The transitions other actors make.
LEMMA Edges ==
  /\ "RUNNING" \in VALID_TRANSITIONS["SCHEDULED"]
  /\ {"COMPLETED", "FAILED"} \subseteq VALID_TRANSITIONS["RUNNING"]
  BY DEF VALID_TRANSITIONS, Status

LEMMA AskedStep ==
  ASSUME TypeOK, TypeOK', Asked, [Next]_vars
  PROVE  Asked'
  <1>. USE CampaignAssumption
  <1>f. us' = us => Asked'
    BY DEF Asked, Expected
  <1>1. ASSUME NEW u \in Users, NEW kind \in Requests, Ask(u, kind) PROVE Asked'
    <2>1. us'[u].pc = (IF kind = "resume" THEN "reset" ELSE "set")
          /\ us'[u].kind = kind /\ us'[u].seen = status
      BY <1>1 DEF Ask, TypeOK
    <2>2. \A v \in Users \ {u} : us'[v] = us[v]
      BY <1>1 DEF Ask, TypeOK
    <2>3. Target(kind) \in VALID_TRANSITIONS[status] /\ status \in Status
      BY <1>1 DEF Ask, TypeOK
    <2>4. kind = "pause" => Target(kind) \in VALID_TRANSITIONS["RUNNING"]
      BY DEF Target, VALID_TRANSITIONS, Status
    <2>5. kind = "resume" => Target(kind) \in VALID_TRANSITIONS["PAUSED"]
      BY DEF Target, VALID_TRANSITIONS, Status
    <2>6. Target(us'[u].kind) \in VALID_TRANSITIONS[Expected(u)']
      BY <2>1, <2>3, <2>4, <2>5 DEF Expected
    <2>7. \A v \in Users \ {u} : Expected(v)' = Expected(v)
      BY <2>2 DEF Expected
    <2>. QED BY <2>2, <2>6, <2>7 DEF Asked
  <1>2. ASSUME NEW u \in Users, UserStep(u) \/ UserThrow(u) PROVE Asked'
    <2>1. \A v \in Users \ {u} : us'[v] = us[v]
      BY <1>2 DEF UserStep, UserThrow, Reset, Set, Skip, Publish, TypeOK
    <2>2. \/ us'[u].pc \notin {"reset", "set"}
          \/ us[u].pc = "reset" /\ us'[u].kind = us[u].kind /\ us'[u].seen = us[u].seen
      <3>1. us[u] \in User
        BY <1>2, UserIs DEF UserStep, UserThrow, Reset, Set, Skip, Publish
      <3>2. CASE Reset(u)
        BY <3>1, <3>2 DEF Reset, TypeOK, User
      <3>3. CASE ~Reset(u)
        <4>1. \/ us' = [us EXCEPT ![u] = IdleUser]
              \/ us' = [us EXCEPT ![u] = [us[u] EXCEPT !.pc = "skip"]]
              \/ us' = [us EXCEPT ![u] = [us[u] EXCEPT !.pc = "publish"]]
          BY <1>2, <3>3 DEF UserStep, UserThrow, Set, Skip, Publish
        <4>. QED BY <3>1, <4>1 DEF TypeOK, IdleUser, User
      <3>. QED BY <3>2, <3>3
    <2>3. \A v \in Users \ {u} : Expected(v)' = Expected(v)
      BY <2>1 DEF Expected
    <2>4. us[u].pc = "reset" /\ us'[u].kind = us[u].kind /\ us'[u].seen = us[u].seen
          => Expected(u)' = Expected(u)
      BY DEF Expected
    <2>. QED BY <2>1, <2>2, <2>3, <2>4 DEF Asked
  <1>3. CASE FetchCheck \/ CheckStep \/ ExpireCheck \/ Due
    BY <1>3, <1>f DEF FetchCheck, CheckStep, FindScheduled, FinishCheck, ExpireCheck, Due, procs
  <1>4. CASE ExecutorStep \/ ECatch \/ EThrow \/ \E k \in Keys : FetchExec(k) \/ ExpireExec(k)
    BY <1>4, <1>f DEF ExecutorStep, FetchExec, ExpireExec, ELoad, EStart, EVerify, EPending, ECount,
              EResolve, EInsert, EScan, EDispatch, EComplete, EFail, ECatch, EThrow, procs
  <1>6. CASE \E r \in Runners, b \in Batches : FetchBatch(r, b)
    BY <1>6, <1>f DEF FetchBatch
  <1>7. ASSUME NEW r \in Runners, RunnerStep(r) \/ BCatch(r) \/ BThrow(r) PROVE Asked'
    BY <1>7, <1>f DEF RunnerStep, BLoad, BList, BCheck, BDrop, BSeek, BCreate, BLink, BRelink,
              BPublish, BTouch, BError, BTally, BCatch, BThrow
  <1>9. CASE \E b \in Batches : ExpireBatch(b)
    BY <1>9, <1>f DEF ExpireBatch, procs
  <1>10. ASSUME NEW c \in Contacts, MessageStep(c)
         PROVE Asked'
    BY <1>10, <1>f, MessageKeeps DEF rows, jobs
  <1>11. ASSUME NEW c \in Contacts, NEW e \in Events, HandlerStep(c, e) \/ HandlerThrow(c, e)
         PROVE Asked'
    BY <1>11, <1>f DEF HandlerStep, HandlerThrow, VMark, VFind, VWrite, VCount, VLook, VTally,
       VComplete
  <1>13. CASE Crash
    BY <1>13 DEF Crash, Asked, IdleUser
  <1>14. CASE UNCHANGED vars
    BY <1>14, <1>f DEF vars, procs
  <1>. QED BY <1>1, <1>2, <1>3, <1>4, <1>6, <1>7, <1>9, <1>10, <1>11, <1>13, <1>14 DEF Next

\* Who sets the status, from what to what.
LEMMA MoveStep ==
  ASSUME TypeOK, [Next]_vars
  PROVE  \/ UNCHANGED <<status, ran>>
         \/ \E u \in Users : us[u].pc = "set" /\ Sets(Expected(u), Target(us[u].kind))
         \/ ex.pc = "start" /\ Sets("SCHEDULED", "RUNNING")
         \/ \E to \in {"COMPLETED", "FAILED"} : Sets("RUNNING", to)
  <1>1. ASSUME NEW u \in Users, \/ \E kind \in Requests : Ask(u, kind)
                                \/ UserStep(u) \/ UserThrow(u)
        PROVE  \/ UNCHANGED <<status, ran>>
               \/ us[u].pc = "set" /\ Sets(Expected(u), Target(us[u].kind))
    BY <1>1 DEF Ask, UserStep, UserThrow, Reset, Set, Skip, Publish, rows, hist
  <1>3. CASE FetchCheck \/ CheckStep \/ ExpireCheck \/ Due
    BY <1>3 DEF FetchCheck, CheckStep, FindScheduled, FinishCheck, ExpireCheck, Due, rows, hist
  <1>4. CASE ExecutorStep \/ ECatch \/ EThrow \/ \E k \in Keys : FetchExec(k) \/ ExpireExec(k)
    <2>1. CASE EStart \/ EComplete \/ EFail
      BY <2>1 DEF EStart, EComplete, EFail
    <2>2. CASE ~(EStart \/ EComplete \/ EFail)
      BY <1>4, <2>2 DEF ExecutorStep, FetchExec, ExpireExec, ELoad, EVerify, EPending, ECount,
              EResolve, EInsert, EScan, EDispatch, ECatch, EThrow, rows, hist
    <2>. QED BY <2>1, <2>2
  <1>6. CASE \E r \in Runners, b \in Batches : FetchBatch(r, b)
    BY <1>6 DEF FetchBatch, rows, hist
  <1>7. ASSUME NEW r \in Runners, RunnerStep(r) \/ BCatch(r) \/ BThrow(r)
        PROVE  UNCHANGED <<status, ran>>
    BY <1>7 DEF RunnerStep, BLoad, BList, BCheck, BDrop, BSeek, BCreate, BLink, BRelink,
              BPublish, BTouch, BError, BTally, BCatch, BThrow, rows, hist
  <1>9. CASE \E b \in Batches : ExpireBatch(b)
    BY <1>9 DEF ExpireBatch, rows, hist
  <1>10. ASSUME NEW c \in Contacts, MessageStep(c)
         PROVE UNCHANGED <<status, ran>>
    BY <1>10, MessageKeeps
  <1>11. ASSUME NEW c \in Contacts, NEW e \in Events, HandlerStep(c, e) \/ HandlerThrow(c, e)
         PROVE UNCHANGED <<status, ran>> \/ Sets("RUNNING", "COMPLETED")
    BY <1>11 DEF HandlerStep, HandlerThrow, VMark, VFind, VWrite, VCount, VLook, VTally,
       VComplete, rows, hist
  <1>13. CASE Crash
    BY <1>13 DEF Crash, rows, hist
  <1>14. CASE UNCHANGED vars
    BY <1>14 DEF vars, rows, hist
  <1>. QED BY <1>1, <1>3, <1>4, <1>6, <1>7, <1>9, <1>10, <1>11, <1>13, <1>14 DEF Next

(* The status of a campaign moves only along the edges the state machine   *)
(* lists, whatever requests, executors, the safety net and event handlers  *)
(* interleave and whatever fails: the compare-and-set of transitionStatus  *)
(* is enough, though every caller looked at the status some awaits before. *)
THEOREM EdgesOnly == Spec => StatusMoves
  <1>1. Init => Asked
    BY DEF Init, Asked, IdleUser
  <1>2. TypeOK /\ TypeOK' /\ Asked /\ [Next]_vars => Asked'
    BY AskedStep
  <1>3. TypeOK /\ Asked /\ [Next]_vars
        => [status' # status => status' \in VALID_TRANSITIONS[status]]_vars
    BY MoveStep, Edges DEF Sets, Asked
  <1>. QED BY <1>1, <1>2, <1>3, TypeCorrect, PTL DEF Spec, StatusMoves

-----------------------------------------------------------------------------
(* Messages and their events                                               *)

\* Nothing a message was is lost: it is not taken back, and what it reached it
\* has reached.  A link, once made, stays.
Onward ==
  \A c \in Contacts :
    /\ msg[c] # "none" => msg'[c] # "none"
    /\ \A k \in Reports : msg[c] \in Reached(k) => msg'[c] \in Reached(k)
    /\ linked[c] => linked'[c]

LEMMA OnwardStep ==
  ASSUME TypeOK, [Next]_vars
  PROVE  Onward
  <1>f. UNCHANGED <<msg, linked>> => Onward
    BY DEF Onward
  <1>1. ASSUME NEW u \in Users, \/ \E kind \in Requests : Ask(u, kind)
                                \/ UserStep(u) \/ UserThrow(u)
        PROVE  Onward
    BY <1>1, <1>f DEF Ask, UserStep, UserThrow, Reset, Set, Skip, Publish, rows
  <1>3. CASE FetchCheck \/ CheckStep \/ ExpireCheck \/ Due
    BY <1>3, <1>f DEF FetchCheck, CheckStep, FindScheduled, FinishCheck, ExpireCheck, Due, rows
  <1>4. CASE ExecutorStep \/ ECatch \/ EThrow \/ \E k \in Keys : FetchExec(k) \/ ExpireExec(k)
    BY <1>4, <1>f DEF ExecutorStep, FetchExec, ExpireExec, ELoad, EStart, EVerify, EPending, ECount,
              EResolve, EInsert, EScan, EDispatch, EComplete, EFail, ECatch, EThrow, rows
  <1>6. CASE \E r \in Runners, b \in Batches : FetchBatch(r, b)
    BY <1>6, <1>f DEF FetchBatch, rows
  <1>7. ASSUME NEW r \in Runners, RunnerStep(r) \/ BCatch(r) \/ BThrow(r) PROVE Onward
    <2>1. CASE BCreate(r)
      BY <2>1, <1>f DEF BCreate, Becomes, rows, Onward, Reached, Reports, TypeOK
    <2>2. CASE BLink(r) \/ BRelink(r)
      BY <2>2 DEF BLink, BRelink, Link, Onward, TypeOK
    <2>3. CASE ~(BCreate(r) \/ BLink(r) \/ BRelink(r))
      BY <1>7, <1>f, <2>3 DEF RunnerStep, BLoad, BList, BCheck, BDrop, BSeek,
              BPublish, BTouch, BError, BTally, BCatch, BThrow, rows
    <2>. QED BY <2>1, <2>2, <2>3
  <1>9. CASE \E b \in Batches : ExpireBatch(b)
    BY <1>9, <1>f DEF ExpireBatch, rows
  <1>10. ASSUME NEW c \in Contacts, MessageStep(c)
         PROVE Onward
    <2>1. linked' = linked
      BY <1>10, MessageKeeps
    <2>2. CASE MessageSent(c) \/ MessageFailed(c) \/ MessageBuried(c)
      BY <2>1, <2>2 DEF MessageSent, MessageFailed, MessageBuried, Sendable, Becomes, Onward,
         Reached,
                        Reports, TypeOK
    <2>3. CASE SendThrow(c)
      BY <2>3, <1>f, <2>1 DEF SendThrow
    <2>4. ASSUME NEW e \in Events, Receive(c, e) PROVE Onward
      BY <2>1, <2>4 DEF Receive, Stated, Rank, Onward, Reached, Reports, TypeOK
    <2>. QED BY <1>10, <2>2, <2>3, <2>4 DEF MessageStep
  <1>11. ASSUME NEW c \in Contacts, NEW e \in Events, HandlerStep(c, e) \/ HandlerThrow(c, e)
         PROVE Onward
    BY <1>11, <1>f DEF HandlerStep, HandlerThrow, VMark, VFind, VWrite, VCount, VLook, VTally,
       VComplete, rows
  <1>13. CASE Crash
    BY <1>13, <1>f DEF Crash, rows
  <1>14. CASE UNCHANGED vars
    BY <1>14, <1>f DEF vars, rows
  <1>. QED BY <1>1, <1>3, <1>4, <1>6, <1>7, <1>9, <1>10, <1>11, <1>13, <1>14 DEF Next

\* An event under way has happened to its message, and one whose handler is to
\* write a status found a recipient linked to the message.
EventSound ==
  \A c \in Contacts :
    /\ \A e \in Events : ev[c][e] = "write" => linked[c] /\ e[1] # "READ"
    /\ \A e \in Events : ev[c][e] = "mark" => e[1] \in Reports
    /\ \A e \in Events : e[1] \in Reports /\ ev[c][e] # "off" => msg[c] \in Reached(e[1])

LEMMA EventStep ==
  ASSUME TypeOK, EventSound, Onward, [Next]_vars
  PROVE  EventSound'
  <1>f. ev' = ev => EventSound'
    BY DEF EventSound, Onward
  <1>1. ASSUME NEW u \in Users, \/ \E kind \in Requests : Ask(u, kind)
                                \/ UserStep(u) \/ UserThrow(u)
        PROVE  EventSound'
    BY <1>1, <1>f DEF Ask, UserStep, UserThrow, Reset, Set, Skip, Publish
  <1>3. CASE FetchCheck \/ CheckStep \/ ExpireCheck \/ Due
    BY <1>3, <1>f DEF FetchCheck, CheckStep, FindScheduled, FinishCheck, ExpireCheck, Due, procs
  <1>4. CASE ExecutorStep \/ ECatch \/ EThrow \/ \E k \in Keys : FetchExec(k) \/ ExpireExec(k)
    BY <1>4, <1>f DEF ExecutorStep, FetchExec, ExpireExec, ELoad, EStart, EVerify, EPending, ECount,
              EResolve, EInsert, EScan, EDispatch, EComplete, EFail, ECatch, EThrow, procs
  <1>6. CASE \E r \in Runners, b \in Batches : FetchBatch(r, b)
    BY <1>6, <1>f DEF FetchBatch
  <1>7. ASSUME NEW r \in Runners, RunnerStep(r) \/ BCatch(r) \/ BThrow(r) PROVE EventSound'
    BY <1>7, <1>f DEF RunnerStep, BLoad, BList, BCheck, BDrop, BSeek, BCreate, BLink, BRelink,
              BPublish, BTouch, BError, BTally, BCatch, BThrow
  <1>9. CASE \E b \in Batches : ExpireBatch(b)
    BY <1>9, <1>f DEF ExpireBatch, procs
  <1>10. ASSUME NEW c \in Contacts, MessageStep(c)
         PROVE EventSound'
    <2>1. Reached("SENT") = {"sent", "delivered", "read"}
      BY DEF Reached
    <2>. QED BY <1>10, <2>1, MessageEvents DEF EventSound, Onward, Reports
  <1>11. ASSUME NEW c \in Contacts, NEW e \in Events, HandlerStep(c, e) \/ HandlerThrow(c, e)
         PROVE EventSound'
    <2>1. \E l : /\ VGoto(c, e, l) /\ (l = "write" => linked[c] /\ e[1] # "READ")
                 /\ l # "mark" /\ ev[c][e] # "off"
      <3>1. CASE VFind(c, e)
        BY <3>1 DEF VFind
      <3>. QED BY <3>1, <1>11 DEF HandlerStep, HandlerThrow, VMark, VWrite, VCount, VLook, VTally,
                                  VComplete
    <2>. QED BY <2>1 DEF TypeOK, EventSound, Onward, VGoto
  <1>13. CASE Crash
    BY <1>13 DEF Crash, EventSound, QuietEvents
  <1>14. CASE UNCHANGED vars
    BY <1>14, <1>f DEF vars, procs
  <1>. QED BY <1>1, <1>3, <1>4, <1>6, <1>7, <1>9, <1>10, <1>11, <1>13, <1>14 DEF Next

LEMMA EventCorrect == Spec => []EventSound
  <1>1. Init => EventSound
    BY DEF Init, EventSound, QuietEvents
  <1>2. TypeOK /\ EventSound /\ [Next]_vars => EventSound'
    BY EventStep, OnwardStep
  <1>. QED BY <1>1, <1>2, TypeCorrect, PTL DEF Spec

-----------------------------------------------------------------------------
(* Batch handlers and their lists                                          *)

Idle(r) == bw[r].pc = "idle"

\* A batch is in the hands of one handler, whose job is active.
JobHeld ==
  \A r \in Runners : ~Idle(r) =>
    /\ bjob[bw[r].batch] = "active"
    /\ \A q \in Runners \ {r} : ~Idle(q) => bw[q].batch # bw[r].batch

\* A handler that goes on has the batch it had; otherwise it gives it back.
LEMMA KeepsBatch ==
  ASSUME TypeOK, JobHeld, NEW r \in Runners, ~Idle(r),
         \A q \in Runners \ {r} : bw'[q] = bw[q],
         \/ bw'[r].batch = bw[r].batch /\ bjob' = bjob
         \/ bw'[r].pc = "idle" /\ \E l : bjob' = [bjob EXCEPT ![bw[r].batch] = l]
  PROVE  JobHeld'
  <1>. SUFFICES ASSUME NEW q \in Runners, ~Idle(q)'
                PROVE  /\ bjob'[bw'[q].batch] = "active"
                       /\ \A p \in Runners \ {q} : ~Idle(p)' => bw'[p].batch # bw'[q].batch
    BY DEF JobHeld
  <1>1. CASE bw'[r].batch = bw[r].batch /\ bjob' = bjob
    BY <1>1 DEF JobHeld, Idle
  <1>2. CASE bw'[r].pc = "idle" /\ \E l : bjob' = [bjob EXCEPT ![bw[r].batch] = l]
    <2>1. q # r /\ bw'[q] = bw[q]
      BY <1>2 DEF Idle
    <2>2. bw[q].batch # bw[r].batch /\ bjob[bw[q].batch] = "active"
      BY <2>1 DEF JobHeld, Idle
    <2>3. bjob'[bw[q].batch] = "active"
      <3>1. bw[q] \in Runner
        BY <2>1, RunnerIs DEF Idle
      <3>. QED BY <1>2, <2>2, <3>1 DEF TypeOK, Runner
    <2>. QED BY <1>2, <2>1, <2>2, <2>3 DEF JobHeld, Idle
  <1>. QED BY <1>1, <1>2

\* What a step of a handler leaves to the others.
LEMMA OthersKeep ==
  ASSUME TypeOK, NEW r \in Runners, RunnerStep(r) \/ BCatch(r) \/ BThrow(r)
  PROVE  /\ ~Idle(r)
         /\ \A q \in Runners \ {r} : bw'[q] = bw[q]
         /\ \/ bw'[r].batch = bw[r].batch /\ bjob' = bjob
            \/ bw'[r] = IdleRunner /\ \E l : bjob' = [bjob EXCEPT ![bw[r].batch] = l]
  <1>. USE DEF Idle
  <1>1. ~Idle(r)
    BY DEF RunnerStep, BLoad, BList, BCheck, BDrop, BSeek, BCreate, BLink, BRelink,
           BPublish, BTouch, BError, BTally, BCatch, BThrow
  <1>2. bw[r] \in Runner
    BY <1>1, RunnerIs
  <1>g. ASSUME NEW l, BGoto(r, l), bjob' = bjob
        PROVE  (\A q \in Runners \ {r} : bw'[q] = bw[q]) /\ bw'[r].batch = bw[r].batch
    BY <1>g, <1>2 DEF BGoto, TypeOK, Runner
  <1>p. ASSUME Proceed(r)
        PROVE  /\ \A q \in Runners \ {r} : bw'[q] = bw[q]
               /\ \/ bw'[r].batch = bw[r].batch /\ bjob' = bjob
                  \/ bw'[r] = IdleRunner /\ \E l : bjob' = [bjob EXCEPT ![bw[r].batch] = l]
    <2>1. \/ /\ bw' = [bw EXCEPT ![r] = IdleRunner]
             /\ bjob' = [bjob EXCEPT ![bw[r].batch] = "none"]
          \/ \E rest : bw' = [bw EXCEPT ![r].pc = "next", ![r].todo = rest, ![r].c = NoContact]
                      /\ bjob' = bjob
      BY <1>p DEF Proceed
    <2>2. ASSUME bw' = [bw EXCEPT ![r] = IdleRunner]
          PROVE  (\A q \in Runners \ {r} : bw'[q] = bw[q]) /\ bw'[r] = IdleRunner
      BY <2>2 DEF TypeOK
    <2>3. ASSUME NEW rest, bw' = [bw EXCEPT ![r].pc = "next", ![r].todo = rest, ![r].c = NoContact],
                 bjob' = bjob
          PROVE  (\A q \in Runners \ {r} : bw'[q] = bw[q]) /\ bw'[r].batch = bw[r].batch
      BY <2>3, <1>2 DEF TypeOK, Runner
    <2>. QED BY <2>1, <2>2, <2>3
  <1>3. CASE BLoad(r)
    BY <1>1, <1>3, <1>g, <1>p DEF BLoad
  <1>4. CASE BList(r)
    <2>1. CASE Proceed(r)
      BY <1>1, <2>1, <1>p
    <2>2. CASE ~Proceed(r)
      <3>1. PICK list : bw' = [bw EXCEPT ![r].pc = "next", ![r].todo = list] /\ bjob' = bjob
        BY <1>4, <2>2 DEF BList
      <3>. QED BY <1>1, <1>2, <3>1 DEF TypeOK, Runner
    <2>. QED BY <2>1, <2>2
  <1>5. ASSUME NEW c, NEW l, bw' = [bw EXCEPT ![r].c = c, ![r].pc = l], bjob' = bjob
        PROVE  (\A q \in Runners \ {r} : bw'[q] = bw[q]) /\ bw'[r].batch = bw[r].batch
    BY <1>5, <1>2 DEF TypeOK, Runner
  <1>6. CASE \E c \in Contacts : BCheck(r, c)
    BY <1>1, <1>5, <1>6 DEF BCheck, jobs
  <1>7. CASE BDrop(r) \/ BRelink(r) \/ BTouch(r) \/ BTally(r)
    BY <1>1, <1>7, <1>p DEF BDrop, BRelink, BTouch, BTally
  <1>8. CASE BSeek(r) \/ BCreate(r) \/ BLink(r) \/ BPublish(r) \/ BError(r)
    BY <1>1, <1>8, <1>g DEF BSeek, BCreate, BLink, BPublish, BError, jobs
  <1>9. CASE BCatch(r)
    <2>1. bjob' = bjob
      BY <1>9 DEF BCatch, jobs
    <2>2. CASE BGoto(r, "error")
      BY <1>1, <2>1, <2>2, <1>g
    <2>3. ASSUME NEW c, bw' = [bw EXCEPT ![r].pc = "error", ![r].c = c]
          PROVE  (\A q \in Runners \ {r} : bw'[q] = bw[q]) /\ bw'[r].batch = bw[r].batch
      BY <2>3, <1>2 DEF TypeOK, Runner
    <2>. QED BY <1>1, <1>9, <2>1, <2>2, <2>3 DEF BCatch
  <1>10. CASE BThrow(r)
    BY <1>1, <1>10 DEF BThrow, TypeOK
  <1>. QED BY <1>3, <1>4, <1>6, <1>7, <1>8, <1>9, <1>10 DEF RunnerStep

LEMMA JobStep ==
  ASSUME TypeOK, JobHeld, [Next]_vars
  PROVE  JobHeld'
  <1>f. UNCHANGED <<bw, bjob>> => JobHeld'
    BY DEF JobHeld, Idle
  <1>1. ASSUME NEW u \in Users, \/ \E kind \in Requests : Ask(u, kind)
                                \/ UserStep(u) \/ UserThrow(u)
        PROVE  JobHeld'
    BY <1>1, <1>f DEF Ask, UserStep, UserThrow, Reset, Set, Skip, Publish, jobs
  <1>3. CASE FetchCheck \/ CheckStep \/ ExpireCheck \/ Due
    BY <1>3, <1>f DEF FetchCheck, CheckStep, FindScheduled, FinishCheck, ExpireCheck, Due, procs,
       jobs
  <1>4. CASE ExecutorStep \/ ECatch \/ EThrow \/ \E k \in Keys : FetchExec(k) \/ ExpireExec(k)
    <2>1. CASE EDispatch
      <3>1. PICK b : bjob' = [bjob EXCEPT ![b] = Offered(@)]
        BY <2>1 DEF EDispatch
      <3>2. \A r \in Runners : ~Idle(r) => bw[r].batch \in Batches
        BY RunnerIs DEF Idle, Runner
      <3>3. \A a \in Batches : bjob[a] = "active" => bjob'[a] = "active"
        BY <3>1 DEF Offered, TypeOK
      <3>. QED BY <2>1, <3>2, <3>3 DEF EDispatch, JobHeld, Idle
    <2>2. CASE ~EDispatch
      BY <1>4, <1>f, <2>2 DEF ExecutorStep, FetchExec, ExpireExec, ELoad, EStart, EVerify, EPending,
              ECount, EResolve, EInsert, EScan, EComplete, EFail, ECatch, EThrow, procs, jobs
    <2>. QED BY <2>1, <2>2
  <1>6. ASSUME NEW r \in Runners, NEW b \in Batches, FetchBatch(r, b) PROVE JobHeld'
    <2>1. Idle(r) /\ bjob[b] = "created" /\ bjob' = [bjob EXCEPT ![b] = "active"]
      BY <1>6 DEF FetchBatch, Idle
    <2>2. \A q \in Runners \ {r} : bw'[q] = bw[q]
      BY <1>6 DEF FetchBatch, TypeOK
    <2>3. bw'[r].batch = b
      BY <1>6 DEF FetchBatch, TypeOK, IdleRunner
    <2>4. bjob'[b] = "active" /\ \A a \in Batches : bjob[a] = "active" => bjob'[a] = "active"
      BY <2>1 DEF TypeOK
    <2>5. \A q \in Runners : ~Idle(q) => bw[q].batch \in Batches /\ bw[q].batch # b
      BY <2>1, RunnerIs DEF Idle, Runner, JobHeld
    <2>. QED BY <2>1, <2>2, <2>3, <2>4, <2>5 DEF JobHeld, Idle
  <1>7. ASSUME NEW r \in Runners, RunnerStep(r) \/ BCatch(r) \/ BThrow(r) PROVE JobHeld'
    BY <1>7, OthersKeep, KeepsBatch DEF IdleRunner
  <1>9. ASSUME NEW b \in Batches, ExpireBatch(b) PROVE JobHeld'
    <2>1. bw' = bw /\ bjob' = [bjob EXCEPT ![b] = "created"] /\ \A r \in Runners : bw[r].batch # b
      BY <1>9 DEF ExpireBatch, procs
    <2>. QED BY <2>1, RunnerIs DEF JobHeld, Idle, TypeOK, Runner
  <1>10. ASSUME NEW c \in Contacts, MessageStep(c)
         PROVE JobHeld'
    BY <1>10, <1>f, MessageKeeps DEF rows, jobs
  <1>11. ASSUME NEW c \in Contacts, NEW e \in Events, HandlerStep(c, e) \/ HandlerThrow(c, e)
         PROVE JobHeld'
    BY <1>11, <1>f DEF HandlerStep, HandlerThrow, VMark, VFind, VWrite, VCount, VLook, VTally,
       VComplete, jobs
  <1>13. CASE Crash
    BY <1>13 DEF Crash, JobHeld, Idle, IdleRunner
  <1>14. CASE UNCHANGED vars
    BY <1>14, <1>f DEF vars, procs, jobs
  <1>. QED BY <1>1, <1>3, <1>4, <1>6, <1>7, <1>9, <1>10, <1>11, <1>13, <1>14 DEF Next

LEMMA JobCorrect == Spec => []JobHeld
  <1>1. Init => JobHeld
    BY DEF Init, JobHeld, Idle, IdleRunner
  <1>2. TypeOK /\ JobHeld /\ [Next]_vars => JobHeld'
    BY JobStep
  <1>. QED BY <1>1, <1>2, TypeCorrect, PTL DEF Spec

-----------------------------------------------------------------------------
(* Recipients                                                              *)

\* What a recipient on a handler's list is until the handler reaches it.
Waiting == {"PENDING", "SKIPPED"}

\* A row agrees with its message.
RowSound ==
  \A c \in Contacts :
    /\ linked[c] => msg[c] # "none" /\ rcp[c] \in {"QUEUED", "SENT", "DELIVERED", "FAILED"}
    /\ rcp[c] = "QUEUED" => linked[c]
    /\ rcp[c] \in {"SENT", "DELIVERED"} => msg[c] \in Reached(rcp[c])

\* Who is on a handler's list belongs to its batch and waits; the one it works
\* on waits until the handler writes its status, and was not found invalid.
Held(r) ==
  /\ bw[r].pc \in {"load", "list"} => bw[r].todo = {}
  /\ bw[r].pc \notin {"idle", "load", "list", "next"} => bw[r].c \in bw[r].todo
  /\ \A c \in bw[r].todo :
       /\ BatchOf(c) = bw[r].batch
       /\ c # bw[r].c \/ bw[r].pc \notin {"publish", "touch", "error", "tally"} => rcp[c] \in Waiting
  /\ bw[r].pc \in {"error", "tally"} => rcp[bw[r].c] # "INVALID"
  /\ bw[r].pc \in {"relink", "link"} => msg[bw[r].c] # "none"
  /\ bw[r].pc \in {"publish", "touch"} => linked[bw[r].c]
Lists == \A r \in Runners : Held(r)

LEMMA IdleHeld ==
  ASSUME NEW r \in Runners, bw[r] = IdleRunner
  PROVE  Held(r)
  BY DEF Held, IdleRunner

\* What the others do to a recipient: a pause, a cancel, a resume or an insert to
\* one that waits or has no row, an event handler to one that is linked.
Outside ==
  /\ linked' = linked
  /\ \A c \in Contacts :
       \/ rcp'[c] = rcp[c]
       \/ rcp[c] \in Waiting \cup {"NONE"} /\ rcp'[c] \in Waiting
       \/ linked[c] /\ rcp'[c] = "FAILED"
       \/ linked[c] /\ rcp'[c] \in {"SENT", "DELIVERED"} /\ msg[c] \in Reached(rcp'[c])

LEMMA OutsideKeeps ==
  ASSUME TypeOK, RowSound, Lists, Onward, Outside, UNCHANGED bw
  PROVE  RowSound' /\ Lists'
  <1>1. RowSound'
    <2>. SUFFICES ASSUME NEW c \in Contacts
                  PROVE  /\ linked'[c] => msg'[c] # "none"
                                          /\ rcp'[c] \in {"QUEUED", "SENT", "DELIVERED", "FAILED"}
                         /\ rcp'[c] = "QUEUED" => linked'[c]
                         /\ rcp'[c] \in {"SENT", "DELIVERED"} => msg'[c] \in Reached(rcp'[c])
      BY DEF RowSound
    <2>1. \A k \in {"SENT", "DELIVERED"} : msg[c] \in Reached(k) => msg'[c] \in Reached(k)
      BY DEF Onward, Reports
    <2>. QED BY <2>1 DEF RowSound, Outside, Onward, Waiting
  <1>2. ASSUME NEW r \in Runners PROVE Held(r)'
    <2>1. Held(r)
      BY DEF Lists
    <2>2. \A c \in Contacts : /\ rcp[c] \in Waiting => rcp'[c] \in Waiting
                              /\ rcp[c] # "INVALID" => rcp'[c] # "INVALID"
      BY DEF Outside, RowSound, Waiting
    <2>3. CASE bw[r].pc = "idle"
      <3>1. bw'[r] = IdleRunner
        BY <2>3 DEF TypeOK, Runner
      <3>. QED BY <3>1 DEF Held, IdleRunner
    <2>4. CASE bw[r].pc # "idle"
      <3>1. bw[r] \in Runner
        BY <2>4, RunnerIs
      <3>2. bw[r].todo \subseteq Contacts
        BY <3>1 DEF Runner
      <3>3. bw[r].pc \in {"error", "tally"} => rcp'[bw[r].c] # "INVALID"
        BY <2>1, <2>2, <3>2 DEF Held
      <3>4. bw[r].pc \in {"relink", "link"} => msg'[bw[r].c] # "none"
        BY <2>1, <3>2 DEF Held, Onward
      <3>5. bw[r].pc \in {"publish", "touch"} => linked'[bw[r].c]
        BY <2>1, <3>2 DEF Held, Onward
      <3>. QED BY <2>1, <2>2, <3>2, <3>3, <3>4, <3>5 DEF Held
    <2>. QED BY <2>3, <2>4
  <1>. QED BY <1>1, <1>2 DEF Lists

\* A handler that writes only the recipient it works on leaves the other lists.
LEMMA OthersHeld ==
  ASSUME TypeOK, JobHeld, Lists, Onward, NEW r \in Runners, ~Idle(r),
         \A q \in Runners \ {r} : bw'[q] = bw[q],
         \/ rcp' = rcp
         \/ bw[r].c \in bw[r].todo /\ \E s : rcp' = [rcp EXCEPT ![bw[r].c] = s]
  PROVE  \A q \in Runners \ {r} : Held(q)'
  <1>. SUFFICES ASSUME NEW q \in Runners \ {r} PROVE Held(q)'
    OBVIOUS
  <1>1. Held(q) /\ Held(r) /\ bw'[q] = bw[q]
    BY DEF Lists
  <1>2. CASE Idle(q)
    <2>1. bw'[q] = IdleRunner
      BY <1>1, <1>2 DEF TypeOK, Runner, Idle
    <2>. QED BY <2>1 DEF Held, IdleRunner
  <1>3. CASE ~Idle(q)
    <2>1. bw[q] \in Runner /\ bw[q].batch # bw[r].batch
      BY <1>3, RunnerIs DEF JobHeld, Idle
    <2>2. bw[q].todo \subseteq Contacts
      BY <2>1 DEF Runner
    <2>3. \A c \in bw[q].todo : rcp'[c] = rcp[c]
      <3>1. \A c \in bw[q].todo : c # bw[r].c \/ bw[r].c \notin bw[r].todo
        BY <1>1, <2>1 DEF Held
      <3>. QED BY <2>2, <3>1 DEF TypeOK
    <2>4. bw[q].pc \in {"error", "tally"} => rcp'[bw[q].c] # "INVALID"
      BY <1>1, <2>3 DEF Held
    <2>5. bw[q].pc \in {"relink", "link"} => msg'[bw[q].c] # "none"
      BY <1>1, <2>2 DEF Held, Onward
    <2>6. bw[q].pc \in {"publish", "touch"} => linked'[bw[q].c]
      BY <1>1, <2>2 DEF Held, Onward
    <2>. QED BY <1>1, <2>3, <2>4, <2>5, <2>6 DEF Held
  <1>. QED BY <1>2, <1>3

\* Done with a recipient: the rest of the list still waits.
LEMMA ProceedHeld ==
  ASSUME TypeOK, Lists, NEW r \in Runners, ~Idle(r), Proceed(r),
         \A c \in bw[r].todo \ {bw[r].c} : rcp'[c] = rcp[c]
  PROVE  Held(r)'
  <1>1. bw[r] \in Runner /\ Held(r)
    BY RunnerIs DEF Idle, Lists
  <1>. DEFINE rest == bw[r].todo \ {bw[r].c}
  <1>2. CASE rest = {}
    <2>1. bw'[r] = IdleRunner
      BY <1>2 DEF Proceed, TypeOK
    <2>. QED BY <2>1 DEF Held, IdleRunner
  <1>3. CASE rest # {}
    <2>1. bw'[r].pc = "next" /\ bw'[r].todo = rest /\ bw'[r].c = NoContact
          /\ bw'[r].batch = bw[r].batch
      BY <1>1, <1>3 DEF Proceed, TypeOK, Runner
    <2>2. \A c \in rest : BatchOf(c) = bw[r].batch /\ rcp'[c] \in Waiting
      BY <1>1 DEF Held
    <2>. HIDE DEF rest
    <2>. QED BY <2>1, <2>2 DEF Held
  <1>. QED BY <1>2, <1>3

\* A step to another label, the rest of the list untouched.
LEMMA GotoHeld ==
  ASSUME TypeOK, Lists, NEW r \in Runners, NEW l \in RunnerPcs, BGoto(r, l),
         bw[r].pc \notin {"idle", "load", "list", "next"},
         l \notin {"load", "list", "next"},
         \A c \in bw[r].todo \ {bw[r].c} : rcp'[c] = rcp[c],
         l \in {"publish", "touch", "error", "tally"} \/ rcp'[bw[r].c] \in Waiting,
         l \in {"error", "tally"} => rcp'[bw[r].c] # "INVALID",
         l \in {"relink", "link"} => msg'[bw[r].c] # "none",
         l \in {"publish", "touch"} => linked'[bw[r].c]
  PROVE  Held(r)'
  <1>1. bw[r] \in Runner /\ Held(r)
    BY RunnerIs DEF Lists
  <1>2. bw'[r].pc = l /\ bw'[r].todo = bw[r].todo /\ bw'[r].c = bw[r].c
        /\ bw'[r].batch = bw[r].batch
    BY <1>1 DEF BGoto, TypeOK, Runner
  <1>3. \A c \in bw[r].todo : c # bw[r].c => rcp'[c] \in Waiting
    BY <1>1 DEF Held
  <1>4. bw[r].c \in bw[r].todo /\ \A c \in bw[r].todo : BatchOf(c) = bw[r].batch
    BY <1>1 DEF Held
  <1>. QED BY <1>2, <1>3, <1>4 DEF Held

LEMMA OutsideStep ==
  ASSUME TypeOK, RowSound, EventSound, [Next]_vars
  PROVE  \/ Outside /\ UNCHANGED bw
         \/ \E r \in Runners : RunnerStep(r) \/ BCatch(r) \/ BThrow(r)
         \/ \E r \in Runners, b \in Batches : FetchBatch(r, b)
         \/ Crash
  <1>f. UNCHANGED <<rcp, linked>> => Outside
    BY DEF Outside
  <1>1. ASSUME NEW u \in Users, \/ \E kind \in Requests : Ask(u, kind)
                                \/ UserStep(u) \/ UserThrow(u)
        PROVE  Outside /\ UNCHANGED bw
    <2>1. CASE Reset(u) \/ Skip(u)
      BY <2>1 DEF Reset, Skip, ResetSkippedToPending, MarkPendingAsSkipped, Outside, Waiting
    <2>2. CASE ~(Reset(u) \/ Skip(u))
      BY <1>1, <1>f, <2>2 DEF Ask, UserStep, UserThrow, Set, Publish, rows
    <2>. QED BY <2>1, <2>2
  <1>3. CASE FetchCheck \/ CheckStep \/ ExpireCheck \/ Due
    BY <1>3, <1>f DEF FetchCheck, CheckStep, FindScheduled, FinishCheck, ExpireCheck, Due, rows,
       procs
  <1>4. CASE ExecutorStep \/ ECatch \/ EThrow \/ \E k \in Keys : FetchExec(k) \/ ExpireExec(k)
    <2>1. CASE EInsert
      <3>1. \E part : rcp' = [c \in Contacts |->
                               IF c \in part /\ rcp[c] = "NONE" THEN "PENDING" ELSE rcp[c]]
        BY <2>1 DEF EInsert
      <3>. QED BY <2>1, <3>1 DEF EInsert, Outside, Waiting
    <2>2. CASE ~EInsert
      BY <1>4, <1>f, <2>2 DEF ExecutorStep, FetchExec, ExpireExec, ELoad, EStart, EVerify, EPending,
              ECount, EResolve, EScan, EDispatch, EComplete, EFail, ECatch, EThrow, rows, procs
    <2>. QED BY <2>1, <2>2
  <1>9. CASE \E b \in Batches : ExpireBatch(b)
    BY <1>9, <1>f DEF ExpireBatch, rows, procs
  <1>10. ASSUME NEW c \in Contacts, MessageStep(c)
         PROVE Outside /\ UNCHANGED bw
    BY <1>10, <1>f, MessageKeeps DEF rows, jobs
  <1>11. ASSUME NEW c \in Contacts, NEW e \in Events, HandlerStep(c, e) \/ HandlerThrow(c, e)
         PROVE Outside /\ UNCHANGED bw
    <2>1. CASE VWrite(c, e)
      <3>. DEFINE kind == e[1]
      <3>1. linked[c] /\ kind # "READ" /\ kind \in Kinds /\ (kind \in Reports => msg[c] \in Reached(kind))
        BY <2>1, EventIs DEF VWrite, EventSound
      <3>2. rcp' = [rcp EXCEPT ![c] = Outcome(kind)]
        BY <2>1 DEF VWrite
      <3>. HIDE DEF kind
      <3>3. \/ Outcome(kind) = "FAILED"
            \/ Outcome(kind) \in {"SENT", "DELIVERED"} /\ msg[c] \in Reached(Outcome(kind))
        BY <3>1 DEF Outcome, Kinds, Reports
      <3>. QED BY <2>1, <3>1, <3>2, <3>3 DEF VWrite, Outside, TypeOK
    <2>2. CASE ~VWrite(c, e)
      BY <1>11, <1>f, <2>2 DEF HandlerStep, HandlerThrow, VMark, VFind, VCount, VLook, VTally,
         VComplete, rows
    <2>. QED BY <2>1, <2>2
  <1>14. CASE UNCHANGED vars
    BY <1>14, <1>f DEF vars, rows, procs
  <1>. QED BY <1>1, <1>3, <1>4, <1>9, <1>10, <1>11, <1>14 DEF Next

\* A row is written by a handler only for the recipient it works on.
LEMMA OwnRow ==
  ASSUME TypeOK, RowSound, Lists, NEW r \in Runners, ~Idle(r),
         RunnerStep(r) \/ BCatch(r) \/ BThrow(r)
  PROVE  \/ UNCHANGED <<rcp, linked>>
         \/ /\ bw[r].c \in bw[r].todo
            /\ rcp[bw[r].c] # "INVALID"
            /\ \/ /\ rcp[bw[r].c] \in Waiting
                  /\ rcp' = [rcp EXCEPT ![bw[r].c] = "INVALID"] /\ linked' = linked
               \/ /\ msg[bw[r].c] # "none"
                  /\ rcp' = [rcp EXCEPT ![bw[r].c] = "QUEUED"]
                  /\ linked' = [linked EXCEPT ![bw[r].c] = TRUE]
               \/ rcp' = [rcp EXCEPT ![bw[r].c] = "FAILED"] /\ linked' = linked
  <1>1. Held(r)
    BY DEF Lists
  <1>2. CASE BDrop(r)
    <2>1. bw[r].c \in bw[r].todo /\ rcp[bw[r].c] \in Waiting
      BY <1>1, <1>2 DEF BDrop, Held
    <2>. QED BY <1>2, <2>1 DEF BDrop, Waiting
  <1>3. CASE BLink(r) \/ BRelink(r)
    <2>1. bw[r].c \in bw[r].todo /\ rcp[bw[r].c] \in Waiting /\ msg[bw[r].c] # "none"
      BY <1>1, <1>3 DEF BLink, BRelink, Held
    <2>. QED BY <1>3, <2>1 DEF BLink, BRelink, Link, Waiting
  <1>4. CASE BError(r)
    <2>1. bw[r].c \in bw[r].todo /\ rcp[bw[r].c] # "INVALID"
      BY <1>1, <1>4 DEF BError, Held
    <2>. QED BY <1>4, <2>1 DEF BError
  <1>5. CASE ~(BDrop(r) \/ BLink(r) \/ BRelink(r) \/ BError(r))
    BY <1>5 DEF RunnerStep, BLoad, BList, BCheck, BSeek, BCreate, BPublish, BTouch, BTally, BCatch,
                BThrow, rows
  <1>. QED BY <1>2, <1>3, <1>4, <1>5

LEMMA OwnList ==
  ASSUME TypeOK, RowSound, Lists, Onward, NEW r \in Runners, ~Idle(r),
         RunnerStep(r) \/ BCatch(r) \/ BThrow(r)
  PROVE  Held(r)'
  <1>. USE DEF Idle
  <1>1. bw[r] \in Runner /\ Held(r)
    BY RunnerIs DEF Lists
  <1>2. bw[r].todo \subseteq Contacts /\ rcp \in [Contacts -> RecipientStatus]
        /\ (bw[r].pc \notin {"load", "list", "next"} => bw[r].c \in Contacts)
    BY <1>1 DEF Runner, Held, TypeOK
  <1>3. CASE BLoad(r)
    <2>1. CASE Proceed(r)
      BY <1>3, <2>1, ProceedHeld DEF BLoad, rows
    <2>2. CASE ~Proceed(r)
      <3>1. bw[r].pc = "load" /\ bw[r].todo = {} /\ BGoto(r, "list")
        BY <1>1, <1>3, <2>2 DEF BLoad, Held
      <3>2. bw'[r].pc = "list" /\ bw'[r].todo = {}
        BY <1>1, <3>1 DEF BGoto, TypeOK, Runner
      <3>. QED BY <3>2 DEF Held
    <2>. QED BY <2>1, <2>2
  <1>4. CASE BList(r)
    <2>1. CASE Proceed(r)
      BY <1>4, <2>1, ProceedHeld DEF BList, rows
    <2>2. CASE ~Proceed(r)
      <3>. DEFINE list == {x \in Pending : BatchOf(x) = bw[r].batch}
      <3>1. bw' = [bw EXCEPT ![r].pc = "next", ![r].todo = list] /\ rcp' = rcp
        BY <1>4, <2>2 DEF BList, rows
      <3>2. \A x \in list : BatchOf(x) = bw[r].batch /\ rcp[x] \in Waiting
        BY DEF Pending, Waiting
      <3>. HIDE DEF list
      <3>3. bw'[r].pc = "next" /\ bw'[r].todo = list /\ bw'[r].batch = bw[r].batch
        BY <1>1, <3>1 DEF TypeOK, Runner
      <3>. QED BY <3>1, <3>2, <3>3 DEF Held
    <2>. QED BY <2>1, <2>2
  <1>5. ASSUME NEW c \in Contacts, BCheck(r, c) PROVE Held(r)'
    <2>1. PICK l \in {"seek", "drop"} : bw' = [bw EXCEPT ![r].c = c, ![r].pc = l]
      BY <1>5 DEF BCheck
    <2>2. bw'[r].pc = l /\ bw'[r].c = c /\ bw'[r].todo = bw[r].todo /\ bw'[r].batch = bw[r].batch
      BY <1>1, <2>1 DEF TypeOK, Runner
    <2>3. bw[r].pc = "next" /\ c \in bw[r].todo /\ rcp' = rcp
      BY <1>5 DEF BCheck, rows
    <2>. QED BY <1>1, <2>2, <2>3 DEF Held
  <1>6. CASE BDrop(r) \/ BRelink(r) \/ BTouch(r) \/ BTally(r)
    <2>1. Proceed(r)
      BY <1>6 DEF BDrop, BRelink, BTouch, BTally
    <2>2. \A c \in bw[r].todo \ {bw[r].c} : rcp'[c] = rcp[c]
      BY <1>2, <1>6 DEF BDrop, BRelink, BTouch, BTally, Link, rows
    <2>. QED BY <2>1, <2>2, ProceedHeld
  <1>7. CASE BSeek(r)
    <2>1. rcp[bw[r].c] \in Waiting /\ rcp' = rcp /\ msg' = msg /\ bw[r].pc = "seek"
      BY <1>1, <1>7 DEF BSeek, Held, rows
    <2>2. CASE msg[bw[r].c] = "none"
      BY <1>7, <2>1, <2>2, GotoHeld DEF BSeek, RunnerPcs
    <2>3. CASE msg[bw[r].c] # "none"
      BY <1>7, <2>1, <2>3, GotoHeld DEF BSeek, RunnerPcs
    <2>. QED BY <2>2, <2>3
  <1>8. CASE BCreate(r)
    <2>1. rcp[bw[r].c] \in Waiting /\ rcp' = rcp /\ bw[r].pc = "create"
      BY <1>1, <1>8 DEF BCreate, Held, rows
    <2>2. CASE msg[bw[r].c] = "none"
      <3>1. msg'[bw[r].c] = "queued" /\ BGoto(r, "link")
        BY <1>2, <1>8, <2>1, <2>2 DEF BCreate, Becomes, TypeOK
      <3>. QED BY <2>1, <3>1, GotoHeld DEF RunnerPcs
    <2>3. CASE msg[bw[r].c] # "none"
      <3>1. BGoto(r, "error")
        BY <1>8, <2>3 DEF BCreate
      <3>. QED BY <2>1, <3>1, GotoHeld DEF RunnerPcs, Waiting
    <2>. QED BY <2>2, <2>3
  <1>9. CASE BLink(r)
    <2>1. BGoto(r, "publish") /\ bw[r].pc = "link" /\ linked'[bw[r].c]
          /\ \A c \in bw[r].todo \ {bw[r].c} : rcp'[c] = rcp[c]
      BY <1>2, <1>9 DEF BLink, Link, TypeOK
    <2>. QED BY <2>1, GotoHeld DEF RunnerPcs
  <1>10. CASE BPublish(r)
    <2>1. BGoto(r, "touch") /\ bw[r].pc = "publish" /\ linked' = linked /\ rcp' = rcp
          /\ linked[bw[r].c]
      BY <1>1, <1>10 DEF BPublish, Held, rows
    <2>. QED BY <2>1, GotoHeld DEF RunnerPcs
  <1>11. CASE BError(r)
    <2>1. BGoto(r, "tally") /\ bw[r].pc = "error" /\ rcp'[bw[r].c] = "FAILED"
          /\ \A c \in bw[r].todo \ {bw[r].c} : rcp'[c] = rcp[c]
      BY <1>2, <1>11 DEF BError, TypeOK
    <2>. QED BY <2>1, GotoHeld DEF RunnerPcs
  <1>12. CASE BCatch(r)
    <2>1. rcp' = rcp
      BY <1>12 DEF BCatch, rows
    <2>2. CASE bw[r].pc # "next"
      <3>1. BGoto(r, "error")
        BY <1>12, <2>2 DEF BCatch
      <3>2. bw[r].pc \in {"drop", "seek", "relink", "create", "link", "publish", "touch"}
        BY <1>12, <2>2 DEF BCatch
      <3>3. rcp[bw[r].c] # "INVALID"
        <4>1. bw[r].pc \notin {"publish", "touch"} => rcp[bw[r].c] \in Waiting
          BY <1>1, <3>2 DEF Held
        <4>2. bw[r].pc \in {"publish", "touch"} => linked[bw[r].c]
          BY <1>1 DEF Held
        <4>. QED BY <1>2, <3>2, <4>1, <4>2 DEF RowSound, Waiting
      <3>. QED BY <2>1, <3>1, <3>2, <3>3, GotoHeld DEF RunnerPcs
    <2>3. ASSUME NEW c \in bw[r].todo, bw[r].pc = "next",
                 bw' = [bw EXCEPT ![r].pc = "error", ![r].c = c]
          PROVE  Held(r)'
      <3>1. bw'[r].pc = "error" /\ bw'[r].c = c /\ bw'[r].todo = bw[r].todo
            /\ bw'[r].batch = bw[r].batch
        BY <1>1, <2>3 DEF TypeOK, Runner
      <3>. QED BY <1>1, <2>1, <2>3, <3>1 DEF Held, Waiting
    <2>. QED BY <1>12, <2>2, <2>3 DEF BCatch
  <1>13. CASE BThrow(r)
    <2>1. bw'[r] = IdleRunner
      BY <1>13 DEF BThrow, TypeOK
    <2>. QED BY <2>1 DEF Held, IdleRunner
  <1>. QED BY <1>3, <1>4, <1>5, <1>6, <1>7, <1>8, <1>9, <1>10, <1>11, <1>12, <1>13 DEF RunnerStep

LEMMA RowStep ==
  ASSUME TypeOK, JobHeld, EventSound, RowSound, Lists, [Next]_vars
  PROVE  RowSound' /\ Lists'
  <1>o. Onward
    BY OnwardStep
  <1>1. CASE Outside /\ UNCHANGED bw
    BY <1>1, <1>o, OutsideKeeps
  <1>2. ASSUME NEW r \in Runners, RunnerStep(r) \/ BCatch(r) \/ BThrow(r) PROVE RowSound' /\ Lists'
    <2>1. ~Idle(r) /\ \A q \in Runners \ {r} : bw'[q] = bw[q]
      BY <1>2, OthersKeep
    <2>2. Held(r)'
      BY <1>2, <1>o, <2>1, OwnList
    <2>. DEFINE x == bw[r].c
    <2>3. \/ UNCHANGED <<rcp, linked>>
          \/ /\ x \in bw[r].todo /\ rcp[x] # "INVALID"
             /\ \/ rcp[x] \in Waiting /\ rcp' = [rcp EXCEPT ![x] = "INVALID"] /\ linked' = linked
                \/ /\ msg[x] # "none" /\ rcp' = [rcp EXCEPT ![x] = "QUEUED"]
                   /\ linked' = [linked EXCEPT ![x] = TRUE]
                \/ rcp' = [rcp EXCEPT ![x] = "FAILED"] /\ linked' = linked
      BY <1>2, <2>1, OwnRow
    <2>4. \A q \in Runners \ {r} : Held(q)'
      BY <1>o, <2>1, <2>3, OthersHeld
    <2>5. RowSound'
      <3>. SUFFICES ASSUME NEW c \in Contacts
                    PROVE  /\ linked'[c] => msg'[c] # "none"
                                            /\ rcp'[c] \in {"QUEUED", "SENT", "DELIVERED", "FAILED"}
                           /\ rcp'[c] = "QUEUED" => linked'[c]
                           /\ rcp'[c] \in {"SENT", "DELIVERED"} => msg'[c] \in Reached(rcp'[c])
        BY DEF RowSound
      <3>1. \A k \in {"SENT", "DELIVERED"} : msg[c] \in Reached(k) => msg'[c] \in Reached(k)
        BY <1>o DEF Onward, Reports
      <3>2. msg[c] # "none" => msg'[c] # "none"
        BY <1>o DEF Onward
      <3>. HIDE DEF x
      <3>. QED BY <2>3, <3>1, <3>2 DEF RowSound, Waiting, TypeOK
    <2>. QED BY <2>2, <2>4, <2>5 DEF Lists
  <1>3. ASSUME NEW r \in Runners, NEW b \in Batches, FetchBatch(r, b) PROVE RowSound' /\ Lists'
    <2>1. UNCHANGED <<rcp, linked, msg>>
      BY <1>3 DEF FetchBatch, rows
    <2>2. RowSound'
      BY <2>1 DEF RowSound
    <2>3. bw' = [bw EXCEPT ![r] = [IdleRunner EXCEPT !.pc = "load", !.batch = b]]
      BY <1>3 DEF FetchBatch
    <2>4. \A q \in Runners \ {r} : bw'[q] = bw[q]
      BY <2>3 DEF TypeOK
    <2>5. bw'[r].pc = "load" /\ bw'[r].todo = {}
      BY <2>3 DEF TypeOK, IdleRunner
    <2>6. Held(r)'
      BY <2>5 DEF Held
    <2>7. \A q \in Runners \ {r} : Held(q)'
      BY <2>1, <2>4 DEF Lists, Held
    <2>. QED BY <2>2, <2>6, <2>7 DEF Lists
  <1>4. CASE Crash
    <2>1. UNCHANGED <<rcp, linked, msg>> /\ \A r \in Runners : bw'[r] = IdleRunner
      BY <1>4 DEF Crash, rows
    <2>2. RowSound'
      BY <2>1 DEF RowSound
    <2>3. Lists'
      BY <2>1 DEF Lists, Held, IdleRunner
    <2>. QED BY <2>2, <2>3
  <1>. QED BY <1>1, <1>2, <1>3, <1>4, OutsideStep

LEMMA RowCorrect == Spec => [](RowSound /\ Lists)
  <1>1. Init => RowSound /\ Lists
    BY DEF Init, RowSound, Lists, Held, IdleRunner
  <1>2. TypeOK /\ JobHeld /\ EventSound /\ RowSound /\ Lists /\ [Next]_vars => (RowSound /\ Lists)'
    BY RowStep
  <1>. QED BY <1>1, <1>2, TypeCorrect, JobCorrect, EventCorrect, PTL DEF Spec

(* A contact that a handler found deleted or opted out is never written to *)
(* and never counted a failure again: no resume resets it, no list of a    *)
(* later execution holds it, and no event of a message can reach it,       *)
(* because it was never linked to one.                                     *)
THEOREM InvalidIsFinal == Spec => InvalidStays
  <1>1. TypeOK /\ EventSound /\ RowSound /\ Lists /\ [Next]_vars
        => [\A c \in Contacts : rcp[c] = "INVALID" => rcp'[c] = "INVALID"]_vars
    <2>. SUFFICES ASSUME TypeOK, EventSound, RowSound, Lists, [Next]_vars, NEW c \in Contacts,
                         rcp[c] = "INVALID"
                  PROVE  rcp'[c] = "INVALID"
      OBVIOUS
    <2>1. CASE Outside
      BY <2>1 DEF Outside, RowSound, Waiting
    <2>2. ASSUME NEW r \in Runners, RunnerStep(r) \/ BCatch(r) \/ BThrow(r)
          PROVE  rcp'[c] = "INVALID"
      <3>1. \/ rcp' = rcp
            \/ rcp[bw[r].c] # "INVALID" /\ \E s : rcp' = [rcp EXCEPT ![bw[r].c] = s]
        BY <2>2, OthersKeep, OwnRow
      <3>. QED BY <3>1 DEF TypeOK
    <2>3. CASE Crash \/ \E r \in Runners, b \in Batches : FetchBatch(r, b)
      BY <2>3 DEF Crash, FetchBatch, rows
    <2>. QED BY <2>1, <2>2, <2>3, OutsideStep
  <1>. QED BY <1>1, TypeCorrect, EventCorrect, RowCorrect, PTL DEF Spec, InvalidStays

-----------------------------------------------------------------------------
(* Before the first run                                                    *)

\* A campaign that has not been RUNNING: no executor gets past the status, so
\* there is no batch for a handler to fetch.
Unseen ==
  ~ran =>
    /\ status \in {"DRAFT", "SCHEDULED", "CANCELLED"}
    /\ ex.pc \in {"idle", "load", "start", "verify"}
    /\ \A r \in Runners : Idle(r)
    /\ \A c \in Contacts : rcp[c] = "NONE" /\ msg[c] = "none"
    /\ \A b \in Batches : bjob[b] = "none"

\* ran is history: it stays.  Unless the campaign starts now its status is not RUNNING.
LEMMA StatusUnseen ==
  ASSUME TypeOK, Asked, Unseen, [Next]_vars, ~ran'
  PROVE  ~ran /\ status' \in {"DRAFT", "SCHEDULED", "CANCELLED"}
  <1>1. ~ran
    BY MoveStep DEF Sets
  <1>2. CASE UNCHANGED <<status, ran>>
    BY <1>1, <1>2 DEF Unseen
  <1>3. ASSUME NEW u \in Users, us[u].pc = "set", Sets(Expected(u), Target(us[u].kind))
        PROVE  status' \in {"DRAFT", "SCHEDULED", "CANCELLED"}
    <2>1. status' = status \/ Target(us[u].kind) \in {"SCHEDULED", "CANCELLED"}
                          \/ (us[u].kind = "pause" /\ status = "RUNNING")
      BY <1>3 DEF Sets, Target, Expected
    <2>. QED BY <1>1, <1>3, <2>1 DEF Unseen, Sets
  <1>4. CASE Sets("SCHEDULED", "RUNNING")
    BY <1>1, <1>4 DEF Sets, Unseen
  <1>5. ASSUME NEW to, Sets("RUNNING", to) PROVE status' \in {"DRAFT", "SCHEDULED", "CANCELLED"}
    BY <1>1, <1>5 DEF Sets, Unseen
  <1>. QED BY <1>1, <1>2, <1>3, <1>4, <1>5, MoveStep

LEMMA UnseenStep ==
  ASSUME TypeOK, Asked, EventSound, RowSound, Unseen, [Next]_vars
  PROVE  Unseen'
  <1>. SUFFICES ASSUME ~ran'
                PROVE  /\ ex'.pc \in {"idle", "load", "start", "verify"}
                       /\ \A r \in Runners : Idle(r)'
                       /\ \A c \in Contacts : rcp'[c] = "NONE" /\ msg'[c] = "none"
                       /\ \A b \in Batches : bjob'[b] = "none"
    BY StatusUnseen DEF Unseen
  <1>. DEFINE Still == /\ \A r \in Runners : Idle(r)
                       /\ \A c \in Contacts : rcp[c] = "NONE" /\ msg[c] = "none"
                       /\ \A b \in Batches : bjob[b] = "none"
              Goal == ex'.pc \in {"idle", "load", "start", "verify"} /\ Still'
  <1>u. ~ran /\ status # "RUNNING" /\ ex.pc \in {"idle", "load", "start", "verify"} /\ Still
    BY StatusUnseen DEF Unseen
  <1>f. UNCHANGED <<bw, rcp, msg, bjob>> => Still'
    BY <1>u DEF Idle
  <1>e. UNCHANGED <<bw, rcp, msg, bjob, ex>> => Goal
    BY <1>u, <1>f
  <1>1. ASSUME NEW u \in Users, \/ \E kind \in Requests : Ask(u, kind)
                                \/ UserStep(u) \/ UserThrow(u)
        PROVE  Goal
    <2>1. CASE Reset(u) \/ Skip(u)
      <3>1. \A c \in Contacts : rcp'[c] = "NONE"
        BY <1>u, <2>1 DEF Reset, Skip, ResetSkippedToPending, MarkPendingAsSkipped
      <3>2. UNCHANGED <<bw, msg, bjob, ex>>
        BY <2>1 DEF Reset, Skip, jobs
      <3>. QED BY <1>u, <3>1, <3>2 DEF Idle
    <2>2. CASE ~(Reset(u) \/ Skip(u))
      BY <1>1, <1>e, <2>2 DEF Ask, UserStep, UserThrow, Set, Publish, rows, jobs
    <2>. QED BY <2>1, <2>2
  <1>3. CASE FetchCheck \/ CheckStep \/ ExpireCheck \/ Due
    BY <1>3, <1>e DEF FetchCheck, CheckStep, FindScheduled, FinishCheck, ExpireCheck, Due, rows,
       procs,
                      jobs
  <1>4. CASE ExecutorStep \/ ECatch \/ EThrow \/ \E k \in Keys : FetchExec(k) \/ ExpireExec(k)
    <2>1. UNCHANGED <<bw, rcp, msg, bjob>>
      BY <1>4, <1>u DEF ExecutorStep, FetchExec, ExpireExec, ELoad, EStart, EVerify, EPending,
         ECount,
            EResolve, EInsert, EScan, EDispatch, EComplete, EFail, ECatch, EThrow, rows, procs, jobs
    <2>2. ex'.pc \in {"idle", "load", "start", "verify"}
      <3>1. CASE ex.pc # "idle"
        <4>1. ex \in Executor
          BY <3>1, ExecutorIs
        <4>2. ASSUME NEW l, EGoto(l) PROVE ex'.pc = l
          BY <4>1, <4>2 DEF EGoto, Executor
        <4>3. EReturn => ex'.pc = "idle"
          BY DEF EReturn, IdleExecutor
        <4>4. CASE ELoad
          BY <4>2, <4>4 DEF ELoad
        <4>5. CASE EStart
          BY <4>2, <4>5 DEF EStart
        <4>6. CASE EVerify
          BY <4>3, <4>6, <1>u DEF EVerify
        <4>7. CASE EThrow \/ \E k \in Keys : ExpireExec(k)
          BY <4>7, <1>u DEF EThrow, ExpireExec, IdleExecutor, procs
        <4>. QED BY <1>4, <1>u, <3>1, <4>4, <4>5, <4>6, <4>7 DEF ExecutorStep, FetchExec, EPending,
                 ECount, EResolve, EInsert, EScan, EDispatch, EComplete, EFail, ECatch
      <3>2. CASE ex.pc = "idle"
        <4>1. \E k \in Keys : FetchExec(k) \/ ExpireExec(k)
          BY <1>4, <3>2 DEF ExecutorStep, ELoad, EStart, EVerify, EPending, ECount, EResolve,
             EInsert,
                EScan, EDispatch, EComplete, EFail, ECatch, EThrow
        <4>. QED BY <3>2, <4>1 DEF FetchExec, ExpireExec, procs
      <3>. QED BY <3>1, <3>2
    <2>. QED BY <1>f, <2>1, <2>2
  <1>6. CASE \E r \in Runners, b \in Batches : FetchBatch(r, b)
    BY <1>6, <1>u DEF FetchBatch
  <1>7. ASSUME NEW r \in Runners, RunnerStep(r) \/ BCatch(r) \/ BThrow(r) PROVE Goal
    BY <1>7, <1>u, OthersKeep
  <1>9. CASE \E b \in Batches : ExpireBatch(b)
    BY <1>9, <1>u DEF ExpireBatch
  <1>10. ASSUME NEW c \in Contacts, MessageStep(c)
         PROVE Goal
    <2>1. CASE SendThrow(c)
      BY <2>1, <1>10, <1>e, MessageKeeps DEF SendThrow
    <2>2. CASE ~SendThrow(c)
      BY <1>10, <2>2, <1>u DEF MessageStep, MessageSent, MessageFailed, MessageBuried, Receive,
         Sendable
    <2>. QED BY <2>1, <2>2
  <1>11. ASSUME NEW c \in Contacts, NEW e \in Events, HandlerStep(c, e) \/ HandlerThrow(c, e)
         PROVE Goal
    <2>1. CASE VWrite(c, e)
      BY <2>1, <1>u DEF VWrite, EventSound, RowSound
    <2>2. CASE ~VWrite(c, e)
      BY <1>11, <1>e, <2>2 DEF HandlerStep, HandlerThrow, VMark, VFind, VCount, VLook, VTally,
         VComplete, rows,
                               jobs
    <2>. QED BY <2>1, <2>2
  <1>13. CASE Crash
    BY <1>13, <1>u DEF Crash, IdleRunner, IdleExecutor, Idle, rows
  <1>14. CASE UNCHANGED vars
    BY <1>14, <1>e DEF vars, rows, procs, jobs
  <1>15. Goal
    BY <1>1, <1>3, <1>4, <1>6, <1>7, <1>9, <1>10, <1>11, <1>13, <1>14 DEF Next
  <1>. QED BY <1>15

(* A recipient's status never claims more than its message's fate, and a   *)
(* campaign that has not been RUNNING has neither recipients, nor batches, *)
(* nor messages, whatever execution jobs a schedule left behind.           *)
THEOREM RowsCorrect == Spec => []RecipientsHonest
  <1>1. Init => Unseen /\ Asked
    BY DEF Init, Unseen, Asked, IdleExecutor, IdleRunner, IdleUser, Idle
  <1>2. TypeOK /\ TypeOK' /\ EventSound /\ RowSound /\ Asked /\ Unseen /\ [Next]_vars
        => (Unseen /\ Asked)'
    BY UnseenStep, AskedStep
  <1>3. RowSound /\ Unseen => RecipientsHonest
    BY DEF RowSound, Unseen, RecipientsHonest, Reached
  <1>. QED BY <1>1, <1>2, <1>3, TypeCorrect, EventCorrect, RowCorrect, PTL DEF Spec

-----------------------------------------------------------------------------
(* The counters                                                            *)

\* The event of a message that is to be counted.
Telling == {"find", "write", "count"}

\* A row never claims more than its message's fate.
RowBehind == \A c \in Contacts, k \in Reports : row[c] \in Reached(k) => msg[c] \in Reached(k)

\* As long as nothing went astray: one receipt of a message is handled at a
\* time, and it is new to the row; an event that is to be counted is in the row,
\* and the only one of its kind.
Calm ==
  astray = {} => \A c \in Contacts, e \in Events :
    /\ ev[c][e] = "mark" => /\ row[c] \notin Reached(e[1])
                            /\ \A f \in Events : ev[c][f] = "mark" => f = e
    /\ e[1] \in Reports /\ ev[c][e] \in Telling =>
         /\ row[c] \in Reached(e[1])
         /\ \A f \in Events : f[1] = e[1] /\ ev[c][f] \in Telling => f = e

\* Nor has a message that is out been queued again.
NotRequeued ==
  astray = {} => \A c \in Contacts : row[c] = "queued" => msg[c] \notin Reached("SENT")

\* No event begins.
GoesOn(c) ==
  \A e \in Events : /\ ev'[c][e] \in Telling => ev[c][e] \in Telling
                    /\ ev'[c][e] = "mark" => ev[c][e] = "mark"

\* The message comes to be, or is out, or fails.
Begins(c) ==
  /\ msg[c] \in {"none", "queued"} /\ msg' = [msg EXCEPT ![c] = row'[c]]
  /\ \E l \in {"queued", "sent", "failed"} : row' = [row EXCEPT ![c] = l]
  /\ \A d \in Contacts : d # c => GoesOn(d)
  /\ \A e \in Events : ev'[c][e] = "mark" => ev[c][e] = "mark"
  /\ \A e \in Events : e[1] \in Reports =>
       \/ ev'[c][e] = ev[c][e]
       \/ row'[c] = "sent" /\ e = <<"SENT", 0>> /\ ev'[c][e] = "find"

\* What becomes of a row.
LEMMA RowMoves ==
  ASSUME TypeOK, [Next]_vars
  PROVE  /\ astray' = {} => astray = {}
         /\ \/ UNCHANGED <<row, msg>> /\ \A c \in Contacts : GoesOn(c)
            \/ \E c \in Contacts : Begins(c) \/ SendThrow(c)
            \/ \E c \in Contacts, e \in Events : Receive(c, e) \/ VMark(c, e)
  <1>. DEFINE Same == UNCHANGED <<row, msg, astray>> /\ \A c \in Contacts : GoesOn(c)
  <1>f. UNCHANGED <<row, msg, astray, ev>> => Same
    BY DEF GoesOn
  <1>g. ASSUME NEW c \in Contacts, NEW e \in Events, NEW l, VGoto(c, e, l), l # "mark",
               l \in Telling => ev[c][e] \in Telling, UNCHANGED <<row, msg, astray>>
        PROVE  Same
    BY <1>g DEF VGoto, GoesOn, TypeOK
  <1>1. ASSUME NEW u \in Users, \/ \E kind \in Requests : Ask(u, kind)
                                \/ UserStep(u) \/ UserThrow(u)
        PROVE  Same
    BY <1>1, <1>f DEF Ask, UserStep, UserThrow, Reset, Set, Skip, Publish
  <1>3. CASE FetchCheck \/ CheckStep \/ ExpireCheck \/ Due
    BY <1>3, <1>f DEF FetchCheck, CheckStep, FindScheduled, FinishCheck, ExpireCheck, Due, procs
  <1>4. CASE ExecutorStep \/ ECatch \/ EThrow \/ \E key \in Keys : FetchExec(key) \/ ExpireExec(key)
    BY <1>4, <1>f DEF ExecutorStep, FetchExec, ExpireExec, ELoad, EStart, EVerify, EPending, ECount,
              EResolve, EInsert, EScan, EDispatch, EComplete, EFail, ECatch, EThrow, procs
  <1>6. CASE \E r \in Runners, b \in Batches : FetchBatch(r, b)
    BY <1>6, <1>f DEF FetchBatch
  <1>7. ASSUME NEW r \in Runners, RunnerStep(r) \/ BCatch(r) \/ BThrow(r)
        PROVE  astray' = astray /\ (Same \/ \E c \in Contacts : Begins(c))
    <2>1. CASE BCreate(r) /\ bw[r].c \in Contacts /\ msg[bw[r].c] = "none"
      <3>1. Becomes(bw[r].c, "queued") /\ UNCHANGED <<ev, astray>>
        BY <2>1 DEF BCreate
      <3>2. Begins(bw[r].c)
        BY <2>1, <3>1 DEF Becomes, Begins, GoesOn, TypeOK
      <3>. QED BY <2>1, <3>1, <3>2
    <2>2. CASE BCreate(r) /\ ~(bw[r].c \in Contacts /\ msg[bw[r].c] = "none")
      <3>1. UNCHANGED <<row, msg>>
        BY <2>2 DEF BCreate, Becomes, TypeOK
      <3>. QED BY <2>2, <3>1, <1>f DEF BCreate
    <2>3. CASE ~BCreate(r)
      BY <1>7, <1>f, <2>3 DEF RunnerStep, BLoad, BList, BCheck, BDrop, BSeek, BLink, BRelink,
              BPublish, BTouch, BError, BTally, BCatch, BThrow
    <2>. QED BY <2>1, <2>2, <2>3
  <1>9. CASE \E b \in Batches : ExpireBatch(b)
    BY <1>9, <1>f DEF ExpireBatch, procs
  <1>10. ASSUME NEW c \in Contacts, MessageStep(c)
         PROVE  /\ astray' = {} => astray = {}
                /\ Begins(c) \/ SendThrow(c) \/ \E e \in Events : Receive(c, e)
    <2>1. CASE MessageSent(c)
      <3>1. msg[c] = "queued" /\ Becomes(c, "sent") /\ Emits(c, {"SENT"}) /\ astray' = astray
        BY <2>1 DEF MessageSent, Sendable
      <3>2. \A d \in Contacts, e \in Events :
              ev'[d][e] = ev[d][e] \/ (d = c /\ e = <<"SENT", 0>> /\ ev'[d][e] = "find")
        BY <3>1, EmitsSome
      <3>. QED BY <3>1, <3>2 DEF Becomes, Begins, GoesOn, TypeOK
    <2>2. CASE MessageFailed(c)
      <3>1. PICK kinds \in Burials : Emits(c, kinds)
        BY <2>2 DEF MessageFailed
      <3>2. msg[c] = "queued" /\ Becomes(c, "failed") /\ astray' = astray
        BY <2>2 DEF MessageFailed, Sendable
      <3>3. kinds \cap Reports = {}
        BY DEF Burials, Reports
      <3>4. \A d \in Contacts, e \in Events :
              ev'[d][e] = ev[d][e] \/ (d = c /\ e[1] \notin Reports /\ ev'[d][e] = "find")
        BY <3>1, <3>3, EmitsSome
      <3>. QED BY <3>2, <3>4 DEF Becomes, Begins, GoesOn, TypeOK
    <2>3. CASE MessageBuried(c)
      BY <2>3 DEF MessageBuried, Becomes, Begins, GoesOn, TypeOK, procs
    <2>4. CASE SendThrow(c) \/ \E e \in Events : Receive(c, e)
      BY <2>4 DEF SendThrow, Receive
    <2>. QED BY <1>10, <2>1, <2>2, <2>3, <2>4 DEF MessageStep
  <1>11. ASSUME NEW c \in Contacts, NEW e \in Events, HandlerStep(c, e) \/ HandlerThrow(c, e)
         PROVE  astray' = astray /\ (Same \/ VMark(c, e))
    <2>1. CASE VMark(c, e)
      BY <2>1 DEF VMark
    <2>2. CASE VFind(c, e)
      <3>1. \E l \in {"off", "count", "look", "write"} : VGoto(c, e, l)
        BY <2>2 DEF VFind
      <3>. QED BY <2>2, <3>1, <1>g DEF VFind, Telling
    <2>3. CASE HandlerThrow(c, e) \/ (HandlerStep(c, e) /\ ~VMark(c, e) /\ ~VFind(c, e))
      <3>1. \E l : VGoto(c, e, l) /\ l # "mark" /\ (l \in Telling => ev[c][e] \in Telling)
        BY <2>3 DEF HandlerStep, HandlerThrow, VWrite, VCount, VLook, VTally, VComplete, Telling
      <3>2. UNCHANGED <<row, msg, astray>>
        BY <2>3 DEF HandlerStep, HandlerThrow, VWrite, VCount, VLook, VTally, VComplete
      <3>. QED BY <3>1, <3>2, <1>g
    <2>. QED BY <1>11, <2>1, <2>2, <2>3
  <1>13. CASE Crash
    BY <1>13 DEF Crash, QuietEvents, GoesOn, Telling
  <1>14. CASE UNCHANGED vars
    BY <1>14, <1>f DEF vars, procs
  <1>. QED BY <1>1, <1>3, <1>4, <1>6, <1>7, <1>9, <1>10, <1>11, <1>13, <1>14 DEF Next

\* The states a report stands for, in their order.
LEMMA Ranks ==
  /\ \A k \in Reports : Stated(k) \in Reached(k)
  /\ \A k, l \in Reports : Stated(k) \in Reached(l) => Reached(k) \subseteq Reached(l)
  /\ \A k, l \in Reports, x \in Fate : x \in Reached(l) /\ x \notin Reached(k)
                                       => Stated(k) \in Reached(l)
  /\ \A k \in Reports : {"none", "queued", "failed"} \cap Reached(k) = {}
  /\ \A k \in Reports : "sent" \in Reached(k) => k = "SENT"
  /\ \A k \in Reports, x \in Fate : ~IsRegression(x, k) => x \notin Reached(k)
  BY DEF Reports, Stated, Reached, Fate, IsRegression, Rank

\* Nothing of a message that has not been sent is under way.
LEMMA BeginsQuiet ==
  ASSUME TypeOK, EventSound, RowBehind, NEW c \in Contacts, Begins(c)
  PROVE  /\ \A k \in Reports : row[c] \notin Reached(k)
         /\ \A e \in Events : e[1] \in Reports => ev[c][e] = "off"
  <1>1. \A k \in Reports : msg[c] \notin Reached(k)
    BY Ranks DEF Begins
  <1>. QED BY <1>1 DEF RowBehind, EventSound

LEMMA BehindStep ==
  ASSUME TypeOK, EventSound, RowBehind, Onward, [Next]_vars
  PROVE  RowBehind'
  <1>1. CASE row' = row
    BY <1>1 DEF RowBehind, Onward
  <1>2. ASSUME NEW c \in Contacts, Begins(c) PROVE RowBehind'
    BY <1>2 DEF Begins, RowBehind, TypeOK
  <1>3. ASSUME NEW c \in Contacts, SendThrow(c) PROVE RowBehind'
    <2>1. msg' = msg /\ \E l \in {"queued", "failed"} : row' = [row EXCEPT ![c] = l]
      BY <1>3 DEF SendThrow
    <2>. QED BY <2>1, Ranks DEF RowBehind, TypeOK
  <1>4. ASSUME NEW c \in Contacts, NEW e \in Events, Receive(c, e) PROVE RowBehind'
    BY <1>1, <1>4 DEF Receive
  <1>5. ASSUME NEW c \in Contacts, NEW e \in Events, VMark(c, e) PROVE RowBehind'
    <2>1. /\ msg' = msg /\ row' = [row EXCEPT ![c] = Stated(e[1])]
          /\ e[1] \in Reports /\ msg[c] \in Reached(e[1])
      BY <1>5 DEF VMark, EventSound
    <2>. QED BY <1>5, <2>1, Ranks DEF RowBehind, TypeOK
  <1>. QED BY <1>1, <1>2, <1>3, <1>4, <1>5, RowMoves

LEMMA NotRequeuedStep ==
  ASSUME TypeOK, NotRequeued, [Next]_vars
  PROVE  NotRequeued'
  <1>. SUFFICES ASSUME astray' = {}, NEW d \in Contacts
                PROVE  row'[d] = "queued" => msg'[d] \notin Reached("SENT")
    BY DEF NotRequeued
  <1>. DEFINE Goal == row'[d] = "queued" => msg'[d] \notin Reached("SENT")
  <1>a. row[d] = "queued" => msg[d] \notin Reached("SENT")
    BY RowMoves DEF NotRequeued
  <1>1. CASE UNCHANGED <<row, msg>>
    BY <1>a, <1>1
  <1>2. ASSUME NEW c \in Contacts, Begins(c) PROVE Goal
    BY <1>a, <1>2 DEF Begins, Reached, TypeOK
  <1>3. ASSUME NEW c \in Contacts, SendThrow(c) PROVE FALSE
    BY <1>3 DEF SendThrow
  <1>4. ASSUME NEW c \in Contacts, NEW x \in Events, Receive(c, x) PROVE Goal
    <2>1. row' = row /\ msg[c] \in Reached("SENT") /\ \A y \in Contacts : y # c => msg'[y] = msg[y]
      BY <1>4 DEF Receive, Reached, TypeOK
    <2>. QED BY <1>a, <2>1
  <1>5. ASSUME NEW c \in Contacts, NEW x \in Events, VMark(c, x) PROVE Goal
    BY <1>a, <1>5 DEF VMark, Stated, TypeOK
  <1>. QED BY <1>1, <1>2, <1>3, <1>4, <1>5, RowMoves

LEMMA CalmStep ==
  ASSUME TypeOK, EventSound, RowBehind, Calm, NotRequeued, [Next]_vars
  PROVE  Calm'
  <1>. SUFFICES ASSUME astray' = {}, NEW d \in Contacts, NEW e \in Events
                PROVE  /\ ev'[d][e] = "mark" => /\ row'[d] \notin Reached(e[1])
                                                /\ \A f \in Events : ev'[d][f] = "mark" => f = e
                       /\ e[1] \in Reports /\ ev'[d][e] \in Telling =>
                            /\ row'[d] \in Reached(e[1])
                            /\ \A f \in Events : f[1] = e[1] /\ ev'[d][f] \in Telling => f = e
    BY DEF Calm
  <1>. DEFINE Goal == /\ ev'[d][e] = "mark" => /\ row'[d] \notin Reached(e[1])
                                               /\ \A f \in Events : ev'[d][f] = "mark" => f = e
                      /\ e[1] \in Reports /\ ev'[d][e] \in Telling =>
                           /\ row'[d] \in Reached(e[1])
                           /\ \A f \in Events : f[1] = e[1] /\ ev'[d][f] \in Telling => f = e
  <1>a. astray = {}
    BY RowMoves
  <1>c. \A x \in Events :
          /\ ev[d][x] = "mark" => /\ row[d] \notin Reached(x[1])
                                  /\ \A f \in Events : ev[d][f] = "mark" => f = x
          /\ x[1] \in Reports /\ ev[d][x] \in Telling =>
               /\ row[d] \in Reached(x[1])
               /\ \A f \in Events : f[1] = x[1] /\ ev[d][f] \in Telling => f = x
    BY <1>a DEF Calm
  <1>f. row'[d] = row[d] /\ GoesOn(d) => Goal
    BY <1>c DEF GoesOn
  <1>2. ASSUME NEW c \in Contacts, Begins(c) PROVE Goal
    <2>1. CASE d # c
      <3>1. row'[d] = row[d] /\ GoesOn(d)
        BY <1>2, <2>1 DEF Begins, TypeOK
      <3>. QED BY <3>1, <1>f
    <2>2. CASE d = c
      <3>1. \A x \in Events : x[1] \in Reports =>
              \/ ev'[d][x] = "off"
              \/ row'[d] = "sent" /\ x = <<"SENT", 0>> /\ ev'[d][x] = "find"
        BY <1>2, <2>2, BeginsQuiet DEF Begins
      <3>2. ev'[d][e] = "mark" => e[1] \in Reports
        BY <1>2, <2>2 DEF Begins, EventSound
      <3>3. "sent" \in Reached("SENT") /\ <<"SENT", 0>>[1] = "SENT"
        BY DEF Reached
      <3>. QED BY <3>1, <3>2, <3>3 DEF Telling
    <2>. QED BY <2>1, <2>2
  <1>3. ASSUME NEW c \in Contacts, SendThrow(c) PROVE FALSE
    BY <1>3 DEF SendThrow
  <1>4. ASSUME NEW c \in Contacts, NEW x \in Events, Receive(c, x) PROVE Goal
    <2>1. row' = row /\ ev' = [ev EXCEPT ![c][x] = "mark"] /\ ~IsRegression(row[c], x[1])
          /\ x[1] \in Reports /\ \A f \in Events : ev[c][f] # "mark"
      BY <1>4 DEF Receive
    <2>2. row[c] \notin Reached(x[1])
      BY <2>1, Ranks DEF TypeOK
    <2>3. \A y \in Events : ev'[d][y] = ev[d][y] \/ (d = c /\ y = x /\ ev'[d][y] = "mark")
      BY <2>1 DEF TypeOK
    <2>. QED BY <1>c, <2>1, <2>2, <2>3 DEF Telling
  <1>5. ASSUME NEW c \in Contacts, NEW x \in Events, VMark(c, x) PROVE Goal
    <2>1. ev[c][x] = "mark" /\ row' = [row EXCEPT ![c] = Stated(x[1])] /\ VGoto(c, x, "find")
      BY <1>5 DEF VMark
    <2>2. CASE d # c
      <3>1. row'[d] = row[d] /\ ev'[d] = ev[d]
        BY <2>1, <2>2 DEF VGoto, TypeOK
      <3>. QED BY <3>1, <1>f DEF GoesOn
    <2>3. CASE d = c
      <3>1. row[d] \notin Reached(x[1]) /\ x[1] \in Reports
            /\ \A y \in Events : ev[d][y] = "mark" => y = x
        BY <1>c, <2>1, <2>3 DEF EventSound
      <3>2. ev'[d][x] = "find" /\ \A y \in Events : y # x => ev'[d][y] = ev[d][y]
        BY <2>1, <2>3 DEF VGoto, TypeOK
      <3>3. row'[d] = Stated(x[1]) /\ row[d] \in Fate
        BY <2>1, <2>3 DEF TypeOK
      <3>4. row'[d] \in Reached(x[1])
            /\ \A k \in Reports : row[d] \in Reached(k) => row'[d] \in Reached(k)
        BY <3>1, <3>3, Ranks
      <3>5. ev'[d][e] # "mark"
        BY <3>1, <3>2
      <3>6. e[1] \in Reports /\ ev'[d][e] \in Telling => row'[d] \in Reached(e[1])
        BY <1>c, <3>2, <3>4
      <3>7. ASSUME e[1] \in Reports, ev'[d][e] \in Telling,
                   NEW f \in Events, f[1] = e[1], ev'[d][f] \in Telling
            PROVE  f = e
        BY <1>c, <3>1, <3>2, <3>7
      <3>. QED BY <3>5, <3>6, <3>7
    <2>. QED BY <2>2, <2>3
  <1>. QED BY <1>f, <1>2, <1>3, <1>4, <1>5, RowMoves

\* The contacts whose event of kind k has been counted, or will not be.
Counted(k) ==
  {c \in Contacts : /\ row[c] \in Reached(k)
                    /\ \A e \in Events : e[1] = k => ev[c][e] \notin Telling}

CountSound ==
  astray = {} => \A k \in Reports : count[Counter(k)] <= Cardinality(Counted(k))

LEMMA ReportCounters ==
  /\ \A k \in Reports : Counter(k) \in {"sent", "delivered", "read"}
  /\ \A k \in Reports, l \in Kinds : Counter(l) = Counter(k) => l = k
  BY DEF Reports, Counter, Kinds

LEMMA CountedFinite ==
  ASSUME IsFiniteSet(Contacts), NEW k
  PROVE  IsFiniteSet(Counted(k))
  BY FS_Subset DEF Counted

\* What was counted stays so.
LEMMA CountedStays ==
  ASSUME TypeOK, EventSound, RowBehind, Calm, NotRequeued, [Next]_vars, astray' = {},
         NEW k \in Reports
  PROVE  Counted(k) \subseteq Counted(k)'
  <1>. SUFFICES ASSUME NEW d \in Contacts, row[d] \in Reached(k),
                       \A e \in Events : e[1] = k => ev[d][e] \notin Telling
                PROVE  row'[d] \in Reached(k) /\ \A e \in Events : e[1] = k => ev'[d][e] \notin Telling
    BY DEF Counted
  <1>. DEFINE Goal ==
         row'[d] \in Reached(k) /\ \A e \in Events : e[1] = k => ev'[d][e] \notin Telling
  <1>f. row'[d] = row[d] /\ GoesOn(d) => Goal
    BY DEF GoesOn
  <1>2. ASSUME NEW c \in Contacts, Begins(c) PROVE Goal
    <2>1. d # c
      BY <1>2, BeginsQuiet
    <2>2. row'[d] = row[d] /\ GoesOn(d)
      BY <1>2, <2>1 DEF Begins, TypeOK
    <2>. QED BY <2>2, <1>f
  <1>3. ASSUME NEW c \in Contacts, SendThrow(c) PROVE FALSE
    BY <1>3 DEF SendThrow
  <1>4. ASSUME NEW c \in Contacts, NEW x \in Events, Receive(c, x) PROVE Goal
    <2>1. row' = row /\ ev' = [ev EXCEPT ![c][x] = "mark"]
      BY <1>4 DEF Receive
    <2>2. \A e \in Events : ev'[d][e] = ev[d][e] \/ ev'[d][e] = "mark"
      BY <2>1 DEF TypeOK
    <2>. QED BY <2>1, <2>2 DEF Telling
  <1>5. ASSUME NEW c \in Contacts, NEW x \in Events, VMark(c, x) PROVE Goal
    <2>1. ev[c][x] = "mark" /\ row' = [row EXCEPT ![c] = Stated(x[1])] /\ VGoto(c, x, "find")
      BY <1>5 DEF VMark
    <2>2. CASE d # c
      <3>1. row'[d] = row[d] /\ ev'[d] = ev[d]
        BY <2>1, <2>2 DEF VGoto, TypeOK
      <3>. QED BY <3>1, <1>f DEF GoesOn
    <2>3. CASE d = c
      <3>1. row[d] \notin Reached(x[1]) /\ x[1] \in Reports
        BY <2>1, <2>3, RowMoves DEF EventSound, Calm
      <3>2. x[1] # k
        BY <3>1
      <3>3. \A y \in Events : y # x => ev'[d][y] = ev[d][y]
        BY <2>1, <2>3 DEF VGoto, TypeOK
      <3>4. row'[d] \in Reached(k)
        BY <2>1, <2>3, <3>1, Ranks DEF TypeOK
      <3>. QED BY <3>2, <3>3, <3>4
    <2>. QED BY <2>2, <2>3
  <1>. QED BY <1>f, <1>2, <1>3, <1>4, <1>5, RowMoves

\* Who counts an event.
LEMMA CountMoves ==
  ASSUME TypeOK, [Next]_vars, NEW k \in Reports
  PROVE  \/ count'[Counter(k)] = count[Counter(k)]
         \/ \E c \in Contacts, e \in Events : e[1] = k /\ VCount(c, e)
  <1>1. ASSUME NEW u \in Users, \/ \E kind \in Requests : Ask(u, kind)
                                \/ UserStep(u) \/ UserThrow(u)
        PROVE  UNCHANGED count
    BY <1>1 DEF Ask, UserStep, UserThrow, Reset, Set, Skip, Publish
  <1>3. CASE FetchCheck \/ CheckStep \/ ExpireCheck \/ Due
    BY <1>3 DEF FetchCheck, CheckStep, FindScheduled, FinishCheck, ExpireCheck, Due, procs
  <1>4. CASE ExecutorStep \/ ECatch \/ EThrow \/ \E key \in Keys : FetchExec(key) \/ ExpireExec(key)
    BY <1>4 DEF ExecutorStep, FetchExec, ExpireExec, ELoad, EStart, EVerify, EPending, ECount,
              EResolve, EInsert, EScan, EDispatch, EComplete, EFail, ECatch, EThrow, procs
  <1>6. CASE \E r \in Runners, b \in Batches : FetchBatch(r, b)
    BY <1>6 DEF FetchBatch
  <1>7. ASSUME NEW r \in Runners, RunnerStep(r) \/ BCatch(r) \/ BThrow(r)
        PROVE  count'[Counter(k)] = count[Counter(k)]
    <2>1. CASE BTally(r)
      BY <2>1, ReportCounters DEF BTally, TypeOK
    <2>2. CASE ~BTally(r)
      BY <1>7, <2>2 DEF RunnerStep, BLoad, BList, BCheck, BDrop, BSeek, BCreate, BLink, BRelink,
              BPublish, BTouch, BError, BCatch, BThrow
    <2>. QED BY <2>1, <2>2
  <1>9. CASE \E b \in Batches : ExpireBatch(b)
    BY <1>9 DEF ExpireBatch, procs
  <1>10. ASSUME NEW c \in Contacts, MessageStep(c) PROVE UNCHANGED count
    BY <1>10, MessageKeeps
  <1>11. ASSUME NEW c \in Contacts, NEW e \in Events, HandlerStep(c, e) \/ HandlerThrow(c, e)
         PROVE  count'[Counter(k)] = count[Counter(k)] \/ (e[1] = k /\ VCount(c, e))
    <2>1. CASE VCount(c, e) /\ e[1] # k
      <3>1. Counter(e[1]) # Counter(k) /\ Counter(k) \in {"sent", "delivered", "read"}
        BY <2>1, ReportCounters, EventIs
      <3>. QED BY <2>1, <3>1 DEF VCount, TypeOK
    <2>2. CASE ~VCount(c, e)
      BY <1>11, <2>2 DEF HandlerStep, HandlerThrow, VMark, VFind, VWrite, VLook, VTally, VComplete
    <2>. QED BY <2>1, <2>2
  <1>13. CASE Crash
    BY <1>13 DEF Crash
  <1>14. CASE UNCHANGED vars
    BY <1>14 DEF vars
  <1>. QED BY <1>1, <1>3, <1>4, <1>6, <1>7, <1>9, <1>10, <1>11, <1>13, <1>14 DEF Next

\* An event is counted at most once: counting one adds its contact.
LEMMA CountedStep ==
  ASSUME TypeOK, EventSound, RowBehind, Calm, NotRequeued, [Next]_vars, astray' = {},
         NEW k \in Reports
  PROVE  \/ /\ Counted(k) \subseteq Counted(k)'
            /\ count'[Counter(k)] = count[Counter(k)]
         \/ \E c \in Contacts :
              /\ c \notin Counted(k) /\ Counted(k) \cup {c} \subseteq Counted(k)'
              /\ count'[Counter(k)] = count[Counter(k)] + 1
  <1>1. Counted(k) \subseteq Counted(k)'
    BY CountedStays
  <1>2. ASSUME NEW c \in Contacts, NEW e \in Events, e[1] = k, VCount(c, e)
        PROVE  /\ c \notin Counted(k) /\ c \in Counted(k)'
               /\ count'[Counter(k)] = count[Counter(k)] + 1
    <2>1. ev[c][e] = "count" /\ VGoto(c, e, "look") /\ row' = row
      BY <1>2 DEF VCount
    <2>2. ev[c][e] \in Telling /\ "look" \notin Telling
      BY <2>1 DEF Telling
    <2>3. c \notin Counted(k)
      BY <1>2, <2>2 DEF Counted
    <2>4. row[c] \in Reached(k) /\ \A f \in Events : f[1] = k /\ ev[c][f] \in Telling => f = e
      BY <1>2, <2>2, RowMoves DEF Calm
    <2>5. ev'[c][e] = "look" /\ \A f \in Events : f # e => ev'[c][f] = ev[c][f]
      BY <2>1 DEF VGoto, TypeOK
    <2>6. \A f \in Events : f[1] = k => ev'[c][f] \notin Telling
      BY <2>2, <2>4, <2>5
    <2>7. c \in Counted(k)'
      BY <2>1, <2>4, <2>6 DEF Counted
    <2>8. count'[Counter(k)] = count[Counter(k)] + 1
      BY <1>2, ReportCounters DEF VCount, TypeOK
    <2>. QED BY <2>3, <2>7, <2>8
  <1>. QED BY <1>1, <1>2, CountMoves

(* However events are delivered, delayed, cut short by an error or lost in *)
(* a crash, the counters never run ahead of the messages, as long as no    *)
(* two receipts of a message were handled at once and no sender failed     *)
(* after its send.  The contacts of an organisation are finite.            *)
THEOREM CountersCorrect == IsFiniteSet(Contacts) => (Spec => []CountersHonest)
  <1>. SUFFICES ASSUME IsFiniteSet(Contacts) PROVE Spec => []CountersHonest
    OBVIOUS
  <1>1. Init => RowBehind /\ Calm /\ NotRequeued /\ CountSound
    <2>. SUFFICES ASSUME Init PROVE RowBehind /\ Calm /\ NotRequeued /\ CountSound
      OBVIOUS
    <2>1. RowBehind /\ Calm /\ NotRequeued
      BY Ranks DEF Init, RowBehind, Calm, NotRequeued, QuietEvents, Telling
    <2>2. ASSUME NEW k \in Reports PROVE count[Counter(k)] <= Cardinality(Counted(k))
      <3>1. count[Counter(k)] = 0
        BY ReportCounters DEF Init
      <3>2. Cardinality(Counted(k)) \in Nat
        BY CountedFinite, FS_CardinalityType
      <3>. QED BY <3>1, <3>2
    <2>. QED BY <2>1, <2>2 DEF CountSound
  <1>2. TypeOK /\ TypeOK' /\ EventSound /\ RowBehind /\ Calm /\ NotRequeued /\ CountSound /\ [Next]_vars
        => (RowBehind /\ Calm /\ NotRequeued /\ CountSound)'
    <2>. SUFFICES ASSUME TypeOK, TypeOK', EventSound, RowBehind, Calm, NotRequeued, CountSound, [Next]_vars
                  PROVE  (RowBehind /\ Calm /\ NotRequeued /\ CountSound)'
      OBVIOUS
    <2>1. RowBehind' /\ Calm' /\ NotRequeued'
      BY BehindStep, CalmStep, NotRequeuedStep, OnwardStep
    <2>2. ASSUME astray' = {}, NEW k \in Reports
          PROVE  count'[Counter(k)] <= Cardinality(Counted(k)')
      <3>. DEFINE was == Counted(k)  is == Counted(k)'
      <3>1. IsFiniteSet(was) /\ IsFiniteSet(is)
        <4>1. is \subseteq Contacts /\ was \subseteq Contacts
          BY DEF Counted
        <4>. QED BY <4>1, FS_Subset
      <3>2. Cardinality(was) \in Nat /\ Cardinality(is) \in Nat
        BY <3>1, FS_CardinalityType
      <3>3. count[Counter(k)] <= Cardinality(was) /\ count[Counter(k)] \in Nat
        BY <2>2, ReportCounters, RowMoves DEF CountSound, TypeOK
      <3>4. \/ was \subseteq is /\ count'[Counter(k)] = count[Counter(k)]
            \/ \E c \in Contacts : /\ c \notin was /\ was \cup {c} \subseteq is
                                   /\ count'[Counter(k)] = count[Counter(k)] + 1
        BY <2>2, CountedStep
      <3>. HIDE DEF was, is
      <3>5. CASE was \subseteq is /\ count'[Counter(k)] = count[Counter(k)]
        <4>1. Cardinality(was) <= Cardinality(is)
          BY <3>1, <3>5, FS_Subset
        <4>. QED BY <3>2, <3>3, <3>5, <4>1 DEF is
      <3>6. ASSUME NEW c, c \notin was, was \cup {c} \subseteq is,
                   count'[Counter(k)] = count[Counter(k)] + 1
            PROVE  count'[Counter(k)] <= Cardinality(is)
        <4>1. Cardinality(was \cup {c}) = Cardinality(was) + 1
          BY <3>1, <3>6, FS_AddElement
        <4>2. Cardinality(was \cup {c}) <= Cardinality(is)
          BY <3>1, <3>6, FS_Subset
        <4>. QED BY <3>2, <3>3, <3>6, <4>1, <4>2
      <3>. QED BY <3>4, <3>5, <3>6 DEF is
    <2>. QED BY <2>1, <2>2 DEF CountSound, Counter
  <1>3. TypeOK /\ RowBehind /\ CountSound => CountersHonest
    <2>. SUFFICES ASSUME TypeOK, RowBehind, CountSound, astray = {} PROVE CountersHonest
      BY DEF CountersHonest
    <2>1. ASSUME NEW k \in Reports
          PROVE  count[Counter(k)] <= Cardinality({c \in Contacts : msg[c] \in Reached(k)})
      <3>. DEFINE all == {c \in Contacts : msg[c] \in Reached(k)}
      <3>1. Counted(k) \subseteq all /\ all \subseteq Contacts
        BY DEF Counted, RowBehind
      <3>2. IsFiniteSet(all) /\ IsFiniteSet(Counted(k))
        BY <3>1, FS_Subset
      <3>3. Cardinality(Counted(k)) <= Cardinality(all)
        BY <3>1, <3>2, FS_Subset
      <3>4. Cardinality(Counted(k)) \in Nat /\ Cardinality(all) \in Nat
        BY <3>2, FS_CardinalityType
      <3>5. count[Counter(k)] <= Cardinality(Counted(k)) /\ count[Counter(k)] \in Nat
        BY ReportCounters DEF CountSound, TypeOK
      <3>. HIDE DEF all
      <3>6. count[Counter(k)] <= Cardinality(all)
        BY <3>3, <3>4, <3>5
      <3>. QED BY <3>6 DEF all
    <2>2. {c \in Contacts : msg[c] \in Reached("READ")} = {c \in Contacts : msg[c] = "read"}
      BY DEF Reached
    <2>3. /\ Reached("SENT") = {"sent", "delivered", "read"} /\ Counter("SENT") = "sent"
          /\ Reached("DELIVERED") = {"delivered", "read"} /\ Counter("DELIVERED") = "delivered"
          /\ Counter("READ") = "read"
      BY DEF Reached, Counter
    <2>4. count.sent <= Cardinality({c \in Contacts : msg[c] \in {"sent", "delivered", "read"}})
      BY <2>1, <2>3 DEF Reports
    <2>5. count.delivered <= Cardinality({c \in Contacts : msg[c] \in {"delivered", "read"}})
      BY <2>1, <2>3 DEF Reports
    <2>6. count.read <= Cardinality({c \in Contacts : msg[c] = "read"})
      BY <2>1, <2>2, <2>3 DEF Reports
    <2>. QED BY <2>4, <2>5, <2>6 DEF CountersHonest
  <1>. QED BY <1>1, <1>2, <1>3, TypeCorrect, EventCorrect, PTL DEF Spec

-----------------------------------------------------------------------------
(* Completion, when the campaign is executed once and nothing fails        *)

\* A resume, a schedule, or an execution that runs again after a fault brings a
\* second executor, which completes the campaign while messages are under way.
Single == Requests \subseteq {"execute", "cancel"} /\ Faults = {}

\* The execution has not come to its audience, ...
Early ==
  \/ status = "DRAFT"
  \/ \E u \in Users : us[u].pc = "publish"
  \/ ejob[ExecKey] = "created"
  \/ ex.pc \in {"load", "verify", "pending", "count", "resolve"}
\* ... or not to the batches.
Building == ex.pc \in {"insert", "scan", "failed"}

\* There is one execution: whoever made the campaign RUNNING is to publish it,
\* or has, or its job is done.
Token ==
  /\ status \in {"DRAFT", "RUNNING", "CANCELLED", "FAILED", "COMPLETED"}
  /\ found # "due"
  /\ ex.pc \notin {"start", "complete"}
  /\ \A u \in Users :
       /\ us[u].kind \in {"execute", "cancel"} /\ us[u].pc \in {"idle", "set", "skip", "publish"}
       /\ us[u].pc = "set" /\ us[u].kind = "execute" => us[u].seen = "DRAFT"
       /\ us[u].pc = "skip" => status = "CANCELLED"
       /\ us[u].pc = "publish" => /\ us[u].kind = "execute"
                                  /\ status # "DRAFT" /\ ejob[ExecKey] = "none"
                                  /\ \A v \in Users \ {u} : us[v].pc # "publish"
  /\ \A k \in Keys : ejob[k] # "none" => k = ExecKey /\ status # "DRAFT"
  /\ ejob[ExecKey] = "active" <=> ex.pc # "idle"
  /\ ex.pc # "idle" => ex.key = ExecKey

\* No recipient before the audience, no batch, message or event before the last
\* insert, and by then a recipient for everybody.
Phase ==
  /\ Early => audience = {} /\ \A c \in Contacts : rcp[c] = "NONE"
  /\ Early \/ Building =>
       /\ \A b \in Batches : bjob[b] = "none"
       /\ \A r \in Runners : Idle(r)
       /\ \A c \in Contacts : msg[c] = "none" /\ \A e \in Events : ev[c][e] = "off"
       /\ status # "COMPLETED"
  /\ ex.pc = "insert" => \A c \in audience \ ex.todo : rcp[c] # "NONE"
  /\ ex.pc # "insert" => \A c \in audience : rcp[c] # "NONE"

\* A handler that is to complete the campaign has seen that nobody is left.
Cleared ==
  /\ \A c \in Contacts : rcp[c] = "SKIPPED" => status = "CANCELLED"
  /\ status = "COMPLETED" => Open = {}
  /\ status = "RUNNING" /\ (\E c \in Contacts, e \in Events : ev[c][e] = "complete") => Open = {}

LEMMA ExecKeyIs == ExecKey \in Keys
  BY DEF Keys

\* While the executor works nothing else is Early.
LEMMA Busy ==
  ASSUME Token, ex.pc # "idle"
  PROVE  /\ status # "DRAFT" /\ \A u \in Users : us[u].pc # "publish"
         /\ ejob[ExecKey] = "active"
         /\ Early <=> ex.pc \in {"load", "verify", "pending", "count", "resolve"}
  BY ExecKeyIs DEF Token, Early

\* The steps there are without faults.
Aside == UNCHANGED <<status, rcp, linked, msg, ejob, bjob, ex, bw, ev, us, audience>>
LEMMA SingleStep ==
  ASSUME TypeOK, Single, Token, [Next]_vars
  PROVE  \/ Aside /\ found' # "due"
         \/ \E u \in Users : Ask(u, "execute") \/ Ask(u, "cancel") \/ Set(u) \/ Skip(u) \/ Publish(u)
         \/ FetchExec(ExecKey)
         \/ ExecutorStep /\ ~EStart /\ ~EComplete
         \/ \E r \in Runners : RunnerStep(r) \/ \E b \in Batches : FetchBatch(r, b)
         \/ \E b \in Batches : ExpireBatch(b)
         \/ \E c \in Contacts : MessageStep(c) /\ ~MessageBuried(c) /\ ~SendThrow(c)
         \/ \E c \in Contacts, e \in Events : HandlerStep(c, e)
  <1>n. ASSUME NEW kind, Fault(kind) PROVE FALSE
    BY <1>n DEF Fault, Single
  <1>1. ASSUME NEW u \in Users, NEW kind \in Requests, Ask(u, kind)
        PROVE  Ask(u, "execute") \/ Ask(u, "cancel")
    BY <1>1 DEF Single
  <1>2. ASSUME NEW u \in Users, UserStep(u) \/ UserThrow(u)
        PROVE  Set(u) \/ Skip(u) \/ Publish(u)
    BY <1>2, <1>n DEF UserStep, UserThrow, Reset, Token
  <1>3. CASE FetchCheck \/ CheckStep \/ ExpireCheck \/ Due
    BY <1>3 DEF FetchCheck, CheckStep, FindScheduled, FinishCheck, ExpireCheck, Due, Token, Aside,
                rows, jobs, procs, hist
  <1>4. ASSUME NEW k \in Keys, FetchExec(k) \/ ExpireExec(k) PROVE FetchExec(ExecKey)
    BY <1>4, ExecKeyIs DEF FetchExec, ExpireExec, Token
  <1>5. ASSUME ExecutorStep \/ ECatch \/ EThrow PROVE ExecutorStep /\ ~EStart /\ ~EComplete
    BY <1>5, <1>n DEF ECatch, EThrow, EStart, EComplete, Token
  <1>7. ASSUME NEW r \in Runners, RunnerStep(r) \/ BCatch(r) \/ BThrow(r) PROVE RunnerStep(r)
    BY <1>7, <1>n DEF BCatch, BThrow
  <1>10. ASSUME NEW c \in Contacts, MessageBuried(c) \/ SendThrow(c) PROVE FALSE
    BY <1>10, <1>n DEF MessageBuried, SendThrow, Single
  <1>11. ASSUME NEW c \in Contacts, NEW e \in Events, HandlerStep(c, e) \/ HandlerThrow(c, e)
         PROVE  HandlerStep(c, e)
    BY <1>11, <1>n DEF HandlerThrow
  <1>13. CASE Crash
    BY <1>13, <1>n DEF Crash
  <1>14. CASE UNCHANGED vars
    BY <1>14 DEF vars, rows, jobs, procs, hist, Aside, Token
  <1>. QED BY <1>1, <1>2, <1>3, <1>4, <1>5, <1>7, <1>10, <1>11, <1>13, <1>14 DEF Next

\* What the executor does to its label, its job and the audience.
LEMMA ExecutorMoves ==
  ASSUME TypeOK, Token, Phase, ExecutorStep, ~EStart, ~EComplete
  PROVE  /\ ex.pc # "idle" /\ ex'.key = ExecKey /\ UNCHANGED <<us, found>>
         /\ \/ /\ ejob' = ejob
               /\ \/ ex.pc = "load" /\ ex'.pc = "verify"
                  \/ ex.pc = "verify" /\ ex'.pc = "pending"
                  \/ ex.pc = "pending" /\ ex'.pc = "count"
                  \/ ex.pc = "count" /\ ex'.pc = "resolve"
                  \/ ex.pc = "resolve" /\ ex'.pc \in {"insert", "failed"}
                  \/ ex.pc = "insert" /\ ex'.pc \in {"insert", "scan"}
                  \/ ex.pc \in {"scan", "dispatch"} /\ ex'.pc = "dispatch"
            \/ /\ ex.pc \in {"verify", "scan", "dispatch", "failed"} /\ ex'.pc = "idle"
               /\ ejob' = [ejob EXCEPT ![ExecKey] = "none"]
         /\ ~EResolve => audience' = audience
         /\ ~EInsert => rcp' = rcp
         /\ ~EFail => status' = status
         /\ ~EDispatch => bjob' = bjob
         /\ UNCHANGED <<msg, linked, bw, ev>>
  <1>1. ex.pc # "idle"
    BY DEF ExecutorStep, ELoad, EVerify, EPending, ECount, EResolve, EInsert, EScan, EDispatch,
       EFail
  <1>2. ex \in Executor /\ ex.key = ExecKey
    BY <1>1, ExecutorIs DEF Token
  <1>3. Early <=> ex.pc \in {"load", "verify", "pending", "count", "resolve"}
    BY <1>1, Busy
  <1>4. ASSUME NEW l, EGoto(l) PROVE ex'.pc = l /\ ex'.key = ExecKey
    BY <1>2, <1>4 DEF EGoto, Executor
  <1>5. EReturn => /\ ex'.pc = "idle" /\ ex'.key = ExecKey
                   /\ ejob' = [ejob EXCEPT ![ExecKey] = "none"]
    BY <1>2 DEF EReturn, IdleExecutor
  <1>6. CASE ELoad
    BY <1>1, <1>4, <1>6 DEF ELoad, Token, rows, jobs, hist, EResolve
  <1>7. CASE EVerify
    BY <1>1, <1>4, <1>5, <1>7 DEF EVerify, rows, hist
  <1>8. CASE EPending
    <2>1. Pending = {}
      BY <1>3, <1>8 DEF EPending, Phase, Pending
    <2>. QED BY <1>1, <1>4, <1>8, <2>1 DEF EPending, rows, jobs, hist
  <1>9. CASE ECount
    <2>1. Existing = {}
      BY <1>3, <1>9 DEF ECount, Phase, Existing
    <2>. QED BY <1>1, <1>4, <1>9, <2>1 DEF ECount, rows, jobs, hist
  <1>10. CASE EResolve
    <2>1. ex'.pc \in {"insert", "failed"} /\ ex'.key = ExecKey
      BY <1>2, <1>10 DEF EResolve, Executor
    <2>. QED BY <1>1, <1>10, <2>1 DEF EResolve, rows, jobs
  <1>11. CASE EInsert
    <2>1. ex'.pc \in {"insert", "scan"} /\ ex'.key = ExecKey
      BY <1>2, <1>11 DEF EInsert, Executor
    <2>. QED BY <1>1, <1>11, <2>1 DEF EInsert, jobs, hist
  <1>12. CASE EScan
    <2>1. CASE EReturn
      BY <1>1, <1>5, <1>12, <2>1 DEF EScan, rows, hist
    <2>2. CASE ~EReturn
      <3>1. ex'.pc = "dispatch" /\ ex'.key = ExecKey /\ ejob' = ejob
        BY <1>2, <1>12, <2>2 DEF EScan, Executor
      <3>. QED BY <1>1, <1>12, <3>1 DEF EScan, rows, hist
    <2>. QED BY <2>1, <2>2
  <1>13. CASE EDispatch
    <2>1. CASE EReturn
      BY <1>1, <1>5, <1>13, <2>1 DEF EDispatch, rows, hist
    <2>2. CASE ~EReturn
      <3>1. ex'.pc = "dispatch" /\ ex'.key = ExecKey /\ ejob' = ejob
        BY <1>2, <1>13, <2>2 DEF EDispatch, Executor
      <3>. QED BY <1>1, <1>13, <3>1 DEF EDispatch, rows, hist
    <2>. QED BY <2>1, <2>2
  <1>14. CASE EFail
    BY <1>1, <1>5, <1>14 DEF EFail
  <1>. QED BY <1>6, <1>7, <1>8, <1>9, <1>10, <1>11, <1>12, <1>13, <1>14 DEF ExecutorStep

\* The status moves along its edges: the last ones have none.
StatusStep == status' # status => status' \in VALID_TRANSITIONS[status]
LEMMA StatusStepFacts ==
  ASSUME TypeOK, StatusStep
  PROVE  /\ status \in {"CANCELLED", "COMPLETED", "FAILED"} => status' = status
         /\ status' = "DRAFT" => status = "DRAFT"
  BY DEF StatusStep, VALID_TRANSITIONS, Status, TypeOK

\* Set: an execution takes a draft, a cancel anything.
LEMMA SetMoves ==
  ASSUME TypeOK, Token, NEW u \in Users, Set(u)
  PROVE  /\ us[u].pc = "set" /\ \A v \in Users \ {u} : us'[v] = us[v]
         /\ us'[u].kind \in {"execute", "cancel"}
         /\ \/ us'[u].pc = "idle" /\ status' = status
            \/ us'[u].pc = "skip" /\ status' = "CANCELLED"
            \/ /\ us'[u].pc = "publish" /\ us'[u].kind = "execute"
               /\ status = "DRAFT" /\ status' = "RUNNING"
  <1>1. us[u] \in User /\ us[u].pc = "set" /\ us[u].kind \in {"execute", "cancel"}
    BY UserIs DEF Set, Token
  <1>2. us[u].kind = "execute" => Expected(u) = "DRAFT" /\ Target(us[u].kind) = "RUNNING"
    BY <1>1 DEF Token, Expected, Target
  <1>3. us[u].kind = "cancel" => Target(us[u].kind) = "CANCELLED"
    BY DEF Target
  <1>4. CASE status # Expected(u)
    BY <1>1, <1>4 DEF Set, Sets, IdleUser, TypeOK
  <1>5. CASE status = Expected(u)
    <2>. DEFINE l == IF us[u].kind \in {"pause", "cancel"} THEN "skip" ELSE "publish"
    <2>1. us' = [us EXCEPT ![u] = [us[u] EXCEPT !.pc = l]] /\ status' = Target(us[u].kind)
      BY <1>5 DEF Set, Sets
    <2>. HIDE DEF l
    <2>2. us'[u].pc = l /\ us'[u].kind = us[u].kind /\ \A v \in Users \ {u} : us'[v] = us[v]
      BY <1>1, <2>1 DEF TypeOK, User
    <2>. QED BY <1>1, <1>2, <1>3, <1>5, <2>1, <2>2 DEF l
  <1>. QED BY <1>4, <1>5

LEMMA TokenStep ==
  ASSUME TypeOK, TypeOK', Single, Token, Phase, StatusStep, [Next]_vars
  PROVE  Token'
  <1>. USE ExecKeyIs
  <1>1. CASE Aside /\ found' # "due"
    BY <1>1 DEF Aside, Token
  <1>2. ASSUME NEW u \in Users, NEW kind \in {"execute", "cancel"}, Ask(u, kind) PROVE Token'
    <2>1. us'[u].pc = "set" /\ us'[u].kind = kind /\ us'[u].seen = status
          /\ \A v \in Users \ {u} : us'[v] = us[v]
      BY <1>2 DEF Ask, TypeOK
    <2>2. kind = "execute" => status = "DRAFT"
      BY <1>2 DEF Ask, Target, VALID_TRANSITIONS, Status, Token
    <2>3. UNCHANGED <<status, ejob, found, ex>>
      BY <1>2 DEF Ask, rows, jobs
    <2>. QED BY <2>1, <2>2, <2>3 DEF Token
  <1>3. ASSUME NEW u \in Users, Set(u) PROVE Token'
    <2>1. UNCHANGED <<ejob, found, ex>>
      BY <1>3 DEF Set, jobs
    <2>2. status' \in {"DRAFT", "RUNNING", "CANCELLED", "FAILED", "COMPLETED"}
          /\ (status' = "DRAFT" => status = "DRAFT")
          /\ (status = "CANCELLED" => status' = "CANCELLED")
      BY <1>3, SetMoves, StatusStepFacts DEF Token
    <2>3. CASE us'[u].pc = "publish"
      <3>1. us'[u].kind = "execute" /\ status = "DRAFT" /\ status' = "RUNNING"
        BY <1>3, <2>3, SetMoves
      <3>2. ejob[ExecKey] = "none" /\ \A v \in Users : us[v].pc \notin {"publish", "skip"}
        BY <3>1 DEF Token
      <3>. QED BY <1>3, <2>1, <2>3, <3>1, <3>2, SetMoves DEF Token
    <2>4. CASE us'[u].pc # "publish"
      <3>1. us'[u].pc = "idle" \/ (us'[u].pc = "skip" /\ status' = "CANCELLED")
        BY <1>3, <2>4, SetMoves
      <3>. QED BY <1>3, <2>1, <2>2, <2>4, <3>1, SetMoves DEF Token
    <2>. QED BY <2>3, <2>4
  <1>4. ASSUME NEW u \in Users, Skip(u) \/ Publish(u) PROVE Token'
    <2>1. us'[u].pc = "idle" /\ us'[u].kind = "execute" /\ \A v \in Users \ {u} : us'[v] = us[v]
      <3>1. us' = [us EXCEPT ![u] = IdleUser]
        BY <1>4 DEF Skip, Publish
      <3>. QED BY <3>1 DEF TypeOK, IdleUser
    <2>2. UNCHANGED <<status, found, ex>>
      BY <1>4 DEF Skip, Publish, rows
    <2>3. CASE Skip(u)
      BY <2>1, <2>2, <2>3 DEF Token, Skip, jobs
    <2>4. CASE Publish(u)
      <3>1. us[u].pc = "publish" /\ us[u].kind = "execute"
        BY <2>4 DEF Publish, Token
      <3>2. ejob' = [ejob EXCEPT ![ExecKey] = "created"] /\ status # "DRAFT"
        BY <2>4, <3>1 DEF Publish, OfferExec, Offered, Token
      <3>3. ejob'[ExecKey] = "created" /\ ex.pc = "idle"
        BY <3>1, <3>2 DEF TypeOK, Token
      <3>4. \A k \in Keys : ejob'[k] # "none" => k = ExecKey
        BY <3>2 DEF TypeOK, Token
      <3>. QED BY <2>1, <2>2, <3>1, <3>2, <3>3, <3>4 DEF Token
    <2>. QED BY <1>4, <2>3, <2>4
  <1>5. CASE FetchExec(ExecKey)
    <2>1. ejob[ExecKey] = "created" /\ ejob' = [ejob EXCEPT ![ExecKey] = "active"]
          /\ ex'.pc = "load" /\ ex'.key = ExecKey /\ UNCHANGED <<status, found, us>>
      BY <1>5 DEF FetchExec, rows
    <2>2. ejob'[ExecKey] = "active" /\ \A k \in Keys \ {ExecKey} : ejob'[k] = ejob[k]
      BY <2>1 DEF TypeOK
    <2>. QED BY <2>1, <2>2 DEF Token
  <1>6. CASE ExecutorStep /\ ~EStart /\ ~EComplete
    <2>1. /\ ex.pc # "idle" /\ ex'.key = ExecKey /\ UNCHANGED <<us, found>>
          /\ ex'.pc \notin {"start", "complete"}
          /\ \/ ejob' = ejob /\ ex'.pc # "idle"
             \/ ex'.pc = "idle" /\ ejob' = [ejob EXCEPT ![ExecKey] = "none"]
      BY <1>6, ExecutorMoves
    <2>2. status # "DRAFT" /\ (\A u \in Users : us[u].pc # "publish") /\ ejob[ExecKey] = "active"
      BY <2>1, Busy
    <2>3. status' \in {"RUNNING", "CANCELLED", "FAILED", "COMPLETED"}
          /\ (status = "CANCELLED" => status' = "CANCELLED")
      <3>1. status' = status \/ status' = "FAILED"
        BY <1>6, ExecutorMoves DEF EFail, Sets
      <3>. QED BY <2>2, <3>1, StatusStepFacts DEF Token
    <2>4. \A k \in Keys : k # ExecKey => ejob'[k] = "none"
      BY <2>1 DEF TypeOK, Token
    <2>5. ejob'[ExecKey] = "active" <=> ex'.pc # "idle"
      BY <2>1, <2>2 DEF TypeOK
    <2>. QED BY <2>1, <2>2, <2>3, <2>4, <2>5 DEF Token
  <1>7. ASSUME UNCHANGED <<ejob, ex, us, found>>, status' # "DRAFT" \/ UNCHANGED status,
               status' \in {status, "COMPLETED"}
        PROVE  Token'
    <2>1. status = "CANCELLED" => status' = "CANCELLED"
      BY StatusStepFacts
    <2>. QED BY <1>7, <2>1 DEF Token
  <1>8. ASSUME NEW r \in Runners, RunnerStep(r) \/ \E b \in Batches : FetchBatch(r, b) PROVE Token'
    BY <1>7, <1>8 DEF FetchBatch, RunnerStep, BLoad, BList, BCheck, BDrop, BSeek, BCreate, BLink,
                      BRelink, BPublish, BTouch, BError, BTally, rows, jobs
  <1>9. CASE \E b \in Batches : ExpireBatch(b)
    BY <1>7, <1>9 DEF ExpireBatch, rows, procs
  <1>10. ASSUME NEW c \in Contacts, MessageStep(c), ~MessageBuried(c), ~SendThrow(c)
         PROVE  Token'
    BY <1>7, <1>10, MessageKeeps
  <1>11. ASSUME NEW c \in Contacts, NEW e \in Events, HandlerStep(c, e) PROVE Token'
    <2>1. CASE VComplete(c, e)
      BY <1>7, <2>1 DEF VComplete, Sets, jobs
    <2>2. CASE ~VComplete(c, e)
      BY <1>7, <1>11, <2>2 DEF HandlerStep, VMark, VFind, VWrite, VCount, VLook, VTally, rows, jobs
    <2>. QED BY <2>1, <2>2
  <1>. QED BY <1>1, <1>2, <1>3, <1>4, <1>5, <1>6, <1>8, <1>9, <1>10, <1>11, SingleStep

\* The execution only goes on.
LEMMA Forward ==
  ASSUME TypeOK, Single, Token, Token', Phase, StatusStep, [Next]_vars
  PROVE  /\ Early' => Early
         /\ Early' \/ Building' => Early \/ Building
  <1>. USE ExecKeyIs
  <1>. DEFINE Goal == (Early' => Early) /\ (Building' => Early \/ Building)
  <1>f. UNCHANGED <<ex, ejob, us>> => Goal
    BY StatusStepFacts DEF Early, Building
  <1>1. CASE Aside
    BY <1>1, <1>f DEF Aside
  <1>2. ASSUME NEW u \in Users, Ask(u, "execute") \/ Ask(u, "cancel") PROVE Goal
    <2>1. us'[u].pc = "set" /\ \A v \in Users \ {u} : us'[v] = us[v]
      BY <1>2 DEF Ask, TypeOK
    <2>2. UNCHANGED <<status, ejob, ex>>
      BY <1>2 DEF Ask, rows, jobs
    <2>. QED BY <2>1, <2>2 DEF Early, Building
  <1>3. ASSUME NEW u \in Users, Set(u) PROVE Goal
    <2>1. UNCHANGED <<ejob, ex>>
      BY <1>3 DEF Set, jobs
    <2>2. us'[u].pc = "publish" => status = "DRAFT"
      BY <1>3, SetMoves
    <2>. QED BY <1>3, <2>1, <2>2, SetMoves, StatusStepFacts DEF Early, Building
  <1>4. ASSUME NEW u \in Users, Skip(u) \/ Publish(u) PROVE Goal
    <2>1. us'[u].pc = "idle" /\ \A v \in Users \ {u} : us'[v] = us[v]
      <3>1. us' = [us EXCEPT ![u] = IdleUser]
        BY <1>4 DEF Skip, Publish
      <3>. QED BY <3>1 DEF TypeOK, IdleUser
    <2>2. UNCHANGED <<status, ex>> /\ (Skip(u) => ejob' = ejob)
      BY <1>4 DEF Skip, Publish, rows, jobs
    <2>3. Publish(u) => Early
      BY DEF Publish, Early
    <2>. QED BY <1>4, <2>1, <2>2, <2>3 DEF Early, Building
  <1>5. CASE FetchExec(ExecKey)
    <2>1. Early
      BY <1>5 DEF FetchExec, Early
    <2>. QED BY <2>1
  <1>6. CASE ExecutorStep /\ ~EStart /\ ~EComplete
    <2>1. /\ ex.pc # "idle" /\ UNCHANGED us
          /\ \/ ejob' = ejob
             \/ ex'.pc = "idle" /\ ejob' = [ejob EXCEPT ![ExecKey] = "none"]
          /\ ex'.pc \in {"load", "verify", "pending", "count", "resolve"}
             => ex.pc \in {"load", "verify", "pending", "count", "resolve"}
          /\ ex'.pc \in {"insert", "scan", "failed"} => ex.pc \in {"resolve", "insert"}
      BY <1>6, ExecutorMoves
    <2>2. status # "DRAFT" /\ (\A u \in Users : us[u].pc # "publish") /\ ejob[ExecKey] = "active"
      BY <2>1, Busy
    <2>3. ejob'[ExecKey] # "created"
      BY <2>1, <2>2 DEF TypeOK
    <2>. QED BY <2>1, <2>2, <2>3, StatusStepFacts DEF Early, Building
  <1>8. ASSUME NEW r \in Runners, RunnerStep(r) \/ \E b \in Batches : FetchBatch(r, b) PROVE Goal
    BY <1>f, <1>8 DEF FetchBatch, RunnerStep, BLoad, BList, BCheck, BDrop, BSeek, BCreate, BLink,
                      BRelink, BPublish, BTouch, BError, BTally, jobs
  <1>9. CASE \E b \in Batches : ExpireBatch(b)
    BY <1>f, <1>9 DEF ExpireBatch, procs
  <1>10. ASSUME NEW c \in Contacts, MessageStep(c), ~MessageBuried(c), ~SendThrow(c)
         PROVE  Goal
    BY <1>f, <1>10, MessageKeeps
  <1>11. ASSUME NEW c \in Contacts, NEW e \in Events, HandlerStep(c, e) PROVE Goal
    BY <1>f, <1>11 DEF HandlerStep, VMark, VFind, VWrite, VCount, VLook, VTally, VComplete, jobs
  <1>12. Goal
    BY <1>1, <1>2, <1>3, <1>4, <1>5, <1>6, <1>8, <1>9, <1>10, <1>11, SingleStep
  <1>. QED BY <1>12

\* A recipient, once there, stays there.
LEMMA RowKept ==
  ASSUME TypeOK, RowSound, EventSound, Lists, [Next]_vars
  PROVE  \A c \in Contacts : rcp[c] # "NONE" => rcp'[c] # "NONE"
  <1>1. CASE Outside
    BY <1>1 DEF Outside, RowSound, Waiting
  <1>2. ASSUME NEW r \in Runners, RunnerStep(r) \/ BCatch(r) \/ BThrow(r)
        PROVE  \A c \in Contacts : rcp[c] # "NONE" => rcp'[c] # "NONE"
    <2>1. ~Idle(r)
      BY <1>2, OthersKeep
    <2>2. rcp' = rcp \/ \E l \in {"INVALID", "QUEUED", "FAILED"} : rcp' = [rcp EXCEPT ![bw[r].c] = l]
      BY <1>2, <2>1, OwnRow
    <2>. QED BY <2>2 DEF TypeOK
  <1>3. CASE Crash \/ \E r \in Runners, b \in Batches : FetchBatch(r, b)
    BY <1>3 DEF Crash, FetchBatch, rows
  <1>. QED BY <1>1, <1>2, <1>3, OutsideStep

\* Nothing is sent before the last insert.
Still ==
  /\ \A b \in Batches : bjob[b] = "none"
  /\ \A r \in Runners : Idle(r)
  /\ \A c \in Contacts : msg[c] = "none" /\ \A e \in Events : ev[c][e] = "off"

\* As long as nothing is, only users and the executor do anything.
LEMMA StillSteps ==
  ASSUME TypeOK, Single, Token, Still, [Next]_vars
  PROVE  \/ Aside
         \/ \E u \in Users : Ask(u, "execute") \/ Ask(u, "cancel") \/ Set(u) \/ Skip(u) \/ Publish(u)
         \/ FetchExec(ExecKey)
         \/ ExecutorStep /\ ~EStart /\ ~EComplete
  <1>8. ASSUME NEW r \in Runners, RunnerStep(r) \/ \E b \in Batches : FetchBatch(r, b) PROVE FALSE
    <2>1. ASSUME RunnerStep(r) PROVE FALSE
      BY <2>1, OthersKeep DEF Still
    <2>. QED BY <1>8, <2>1 DEF FetchBatch, Still
  <1>9. ASSUME NEW b \in Batches, ExpireBatch(b) PROVE FALSE
    BY <1>9 DEF ExpireBatch, Still
  <1>10. ASSUME NEW c \in Contacts, MessageStep(c), ~MessageBuried(c), ~SendThrow(c)
         PROVE  FALSE
    BY <1>10 DEF MessageStep, MessageSent, MessageFailed, Receive, Sendable, Still
  <1>11. ASSUME NEW c \in Contacts, NEW e \in Events, HandlerStep(c, e) PROVE FALSE
    BY <1>11 DEF HandlerStep, VMark, VFind, VWrite, VCount, VLook, VTally, VComplete, Still
  <1>. QED BY <1>8, <1>9, <1>10, <1>11, SingleStep

LEMMA StillStep ==
  ASSUME TypeOK, Single, Token, Token', Phase, StatusStep, [Next]_vars, Early' \/ Building'
  PROVE  Still' /\ status' # "COMPLETED"
  <1>1. Early \/ Building
    BY Forward
  <1>2. Still /\ status # "COMPLETED"
    BY <1>1 DEF Phase, Still
  <1>f. UNCHANGED <<bjob, bw, msg, ev>> => Still'
    BY <1>2 DEF Still, Idle
  <1>3. CASE Aside
    BY <1>2, <1>3, <1>f DEF Aside
  <1>4. ASSUME NEW u \in Users, Ask(u, "execute") \/ Ask(u, "cancel") \/ Skip(u) \/ Publish(u)
        PROVE  Still' /\ status' # "COMPLETED"
    BY <1>2, <1>4, <1>f DEF Ask, Skip, Publish, rows, jobs
  <1>5. ASSUME NEW u \in Users, Set(u) PROVE Still' /\ status' # "COMPLETED"
    <2>1. status' \in {status, "CANCELLED", "RUNNING"}
      BY <1>5, SetMoves
    <2>. QED BY <1>2, <1>5, <1>f, <2>1 DEF Set, jobs
  <1>6. CASE FetchExec(ExecKey)
    BY <1>2, <1>6, <1>f DEF FetchExec, rows
  <1>7. CASE ExecutorStep /\ ~EStart /\ ~EComplete
    <2>1. ex.pc # "idle"
      BY <1>7, ExecutorMoves
    <2>2. ex.pc # "dispatch"
      BY <1>1, <2>1, Busy DEF Building
    <2>3. ~EDispatch
      BY <2>2 DEF EDispatch
    <2>4. UNCHANGED <<bjob, bw, msg, ev>>
      BY <1>7, <2>3, ExecutorMoves
    <2>5. status' = status \/ status' = "FAILED"
      BY <1>7, ExecutorMoves DEF EFail, Sets
    <2>. QED BY <1>2, <1>f, <2>4, <2>5
  <1>. QED BY <1>2, <1>3, <1>4, <1>5, <1>6, <1>7, StillSteps

LEMMA AudienceStep ==
  ASSUME TypeOK, Single, Token, Phase, [Next]_vars, ~EResolve, ~EInsert
  PROVE  /\ audience' = audience
         /\ ex.pc = "insert" \/ ex'.pc = "insert" => ex' = ex
  <1>. USE DEF hist
  <1>1. CASE Aside
    BY <1>1 DEF Aside
  <1>2. ASSUME NEW u \in Users,
               Ask(u, "execute") \/ Ask(u, "cancel") \/ Set(u) \/ Skip(u) \/ Publish(u)
        PROVE  UNCHANGED <<audience, ex>>
    BY <1>2 DEF Ask, Set, Skip, Publish
  <1>3. CASE FetchExec(ExecKey)
    BY <1>3 DEF FetchExec
  <1>4. CASE ExecutorStep /\ ~EStart /\ ~EComplete
    <2>1. ex.pc # "insert" /\ ex.pc # "resolve"
      BY <1>4 DEF ExecutorStep, ELoad, EVerify, EPending, ECount, EResolve, EInsert, EScan,
         EDispatch,
                  EFail
    <2>. QED BY <1>4, <2>1, ExecutorMoves
  <1>8. ASSUME NEW r \in Runners, RunnerStep(r) \/ \E b \in Batches : FetchBatch(r, b)
        PROVE  UNCHANGED <<audience, ex>>
    BY <1>8 DEF FetchBatch, RunnerStep, BLoad, BList, BCheck, BDrop, BSeek, BCreate, BLink,
                BRelink, BPublish, BTouch, BError, BTally
  <1>9. CASE \E b \in Batches : ExpireBatch(b)
    BY <1>9 DEF ExpireBatch, procs
  <1>10. ASSUME NEW c \in Contacts, MessageStep(c), ~MessageBuried(c), ~SendThrow(c)
         PROVE  UNCHANGED <<audience, ex>>
    BY <1>10, MessageKeeps
  <1>11. ASSUME NEW c \in Contacts, NEW e \in Events, HandlerStep(c, e) PROVE UNCHANGED <<audience, ex>>
    BY <1>11 DEF HandlerStep, VMark, VFind, VWrite, VCount, VLook, VTally, VComplete
  <1>. QED BY <1>1, <1>2, <1>3, <1>4, <1>8, <1>9, <1>10, <1>11, SingleStep

LEMMA PhaseStep ==
  ASSUME TypeOK, TypeOK', Single, RowSound, EventSound, Lists, Token, Token', Phase, StatusStep,
         [Next]_vars
  PROVE  Phase'
  <1>1. Early' => audience' = {} /\ \A c \in Contacts : rcp'[c] = "NONE"
    <2>. SUFFICES ASSUME Early' PROVE audience' = {} /\ \A c \in Contacts : rcp'[c] = "NONE"
      OBVIOUS
    <2>1. Early /\ Still /\ audience = {} /\ \A c \in Contacts : rcp[c] = "NONE"
      BY Forward DEF Phase, Still
    <2>2. ~EResolve /\ ~EInsert
      <3>1. ASSUME EResolve \/ EInsert PROVE FALSE
        <4>1. ex.pc \in {"resolve", "insert"} /\ ExecutorStep /\ ~EStart /\ ~EComplete
          BY <3>1 DEF EResolve, EInsert, EStart, EComplete, ExecutorStep
        <4>2. ex'.pc \in {"insert", "failed", "scan"}
          BY <4>1, ExecutorMoves
        <4>3. ~Early'
          BY <4>2, ExecKeyIs DEF Token, Early
        <4>. QED BY <4>3
      <3>. QED BY <3>1
    <2>3. audience' = {}
      BY <2>1, <2>2, AudienceStep
    <2>4. CASE Aside \/ FetchExec(ExecKey)
      BY <2>1, <2>3, <2>4 DEF Aside, FetchExec, rows
    <2>5. ASSUME NEW u \in Users,
                 Ask(u, "execute") \/ Ask(u, "cancel") \/ Set(u) \/ Skip(u) \/ Publish(u)
          PROVE  \A c \in Contacts : rcp'[c] = "NONE"
      BY <2>1, <2>5 DEF Ask, Set, Skip, Publish, MarkPendingAsSkipped, rows
    <2>6. CASE ExecutorStep /\ ~EStart /\ ~EComplete
      BY <2>1, <2>2, <2>6, ExecutorMoves
    <2>. QED BY <2>1, <2>3, <2>4, <2>5, <2>6, StillSteps
  <1>2. Early' \/ Building' => Still' /\ status' # "COMPLETED"
    BY StillStep
  <1>3. /\ ex'.pc = "insert" => \A c \in audience' \ ex'.todo : rcp'[c] # "NONE"
        /\ ex'.pc # "insert" => \A c \in audience' : rcp'[c] # "NONE"
    <2>1. CASE EResolve
      <3>1. PICK A \in SUBSET Contacts :
              /\ audience' = A
              /\ ex' = [ex EXCEPT !.pc = IF A = {} THEN "failed" ELSE "insert", !.todo = A]
        BY <2>1 DEF EResolve
      <3>2. ex \in Executor
        BY <2>1, ExecutorIs DEF EResolve
      <3>3. ex'.pc = (IF A = {} THEN "failed" ELSE "insert") /\ ex'.todo = A
        BY <3>1, <3>2 DEF Executor
      <3>. QED BY <3>1, <3>3
    <2>2. CASE EInsert
      <3>1. ex \in Executor /\ ex.pc = "insert" /\ audience' = audience
        BY <2>2, ExecutorIs DEF EInsert, hist
      <3>2. PICK part :
              /\ \A c \in part : c \in ex.todo
              /\ rcp' = [c \in Contacts |->
                           IF c \in part /\ rcp[c] = "NONE" THEN "PENDING" ELSE rcp[c]]
              /\ ex' = [ex EXCEPT !.todo = @ \ part,
                                  !.pc = IF part = ex.todo THEN "scan" ELSE "insert"]
        BY <2>2 DEF EInsert
      <3>3. ex'.todo = ex.todo \ part /\ ex'.pc = IF part = ex.todo THEN "scan" ELSE "insert"
        BY <3>1, <3>2 DEF Executor
      <3>4. \A c \in Contacts : c \in part \/ rcp[c] # "NONE" => rcp'[c] # "NONE"
        BY <3>2
      <3>5. audience \subseteq Contacts /\ \A c \in audience \ ex.todo : rcp[c] # "NONE"
        BY <3>1 DEF Phase, TypeOK
      <3>. QED BY <3>1, <3>3, <3>4, <3>5
    <2>3. CASE ~EResolve /\ ~EInsert
      <3>1. audience' = audience /\ audience \subseteq Contacts
            /\ (ex.pc = "insert" \/ ex'.pc = "insert" => ex' = ex)
        BY <2>3, AudienceStep DEF TypeOK
      <3>. QED BY <3>1, RowKept DEF Phase
    <2>. QED BY <2>1, <2>2, <2>3
  <1>. QED BY <1>1, <1>2, <1>3 DEF Phase, Still

\* Who still counts as open never grows once the batches are there.
LEMMA OpenStep ==
  ASSUME TypeOK, RowSound, EventSound, Lists, Single, Token, Phase, Cleared, [Next]_vars,
         Open = {}, status \in {"RUNNING", "COMPLETED"}, ~Early, ~Building
  PROVE  Open' = {}
  <1>1. \A c \in Contacts : rcp[c] \notin {"PENDING", "QUEUED", "SKIPPED"}
    BY DEF Open, Cleared
  <1>2. ASSUME NEW r \in Runners, RunnerStep(r) PROVE Open' = {}
    <2>1. ~Idle(r)
      BY <1>2, OthersKeep
    <2>2. bw[r] \in Runner /\ Held(r)
      BY <2>1, RunnerIs DEF Idle, Lists
    <2>3. ~BLink(r) /\ ~BRelink(r)
      <3>1. ASSUME bw[r].pc \in {"link", "relink"} PROVE FALSE
        <4>1. bw[r].c \in bw[r].todo /\ rcp[bw[r].c] \in Waiting /\ bw[r].todo \subseteq Contacts
          BY <2>2, <3>1 DEF Held, Runner
        <4>. QED BY <1>1, <4>1 DEF Waiting
      <3>. QED BY <3>1 DEF BLink, BRelink
    <2>4. rcp' = rcp \/ \E l \in {"INVALID", "FAILED"} : rcp' = [rcp EXCEPT ![bw[r].c] = l]
      BY <1>2, <2>3 DEF RunnerStep, BLoad, BList, BCheck, BDrop, BSeek, BCreate, BPublish, BTouch,
                        BError, BTally, rows
    <2>. QED BY <1>1, <2>4 DEF Open, TypeOK
  <1>3. CASE rcp' = rcp
    BY <1>3 DEF Open
  <1>4. ASSUME NEW u \in Users,
               Ask(u, "execute") \/ Ask(u, "cancel") \/ Set(u) \/ Skip(u) \/ Publish(u)
        PROVE  rcp' = rcp
    <2>1. ~Skip(u)
      BY DEF Skip, Token
    <2>. QED BY <1>4, <2>1 DEF Ask, Set, Publish, rows
  <1>5. CASE Aside \/ FetchExec(ExecKey)
    BY <1>3, <1>5 DEF Aside, FetchExec, rows
  <1>6. CASE ExecutorStep /\ ~EStart /\ ~EComplete
    <2>1. ~EInsert
      BY DEF EInsert, Building
    <2>. QED BY <1>3, <1>6, <2>1, ExecutorMoves
  <1>8. ASSUME NEW r \in Runners, NEW b \in Batches, FetchBatch(r, b) PROVE rcp' = rcp
    BY <1>8 DEF FetchBatch, rows
  <1>9. CASE \E b \in Batches : ExpireBatch(b)
    BY <1>3, <1>9 DEF ExpireBatch, rows
  <1>10. ASSUME NEW c \in Contacts, MessageStep(c), ~MessageBuried(c), ~SendThrow(c)
         PROVE  rcp' = rcp
    BY <1>10, MessageKeeps
  <1>11. ASSUME NEW c \in Contacts, NEW e \in Events, HandlerStep(c, e) PROVE Open' = {}
    <2>1. CASE VWrite(c, e)
      <3>1. rcp' = [rcp EXCEPT ![c] = Outcome(e[1])] /\ e[1] # "READ" /\ e[1] \in Kinds
        BY <2>1, EventIs DEF VWrite, EventSound
      <3>2. Outcome(e[1]) \in {"SENT", "DELIVERED", "FAILED"}
        BY <3>1 DEF Outcome, Kinds
      <3>. QED BY <1>1, <3>1, <3>2 DEF Open, TypeOK
    <2>2. CASE ~VWrite(c, e)
      BY <1>3, <1>11, <2>2 DEF HandlerStep, VMark, VFind, VCount, VLook, VTally, VComplete, rows
    <2>. QED BY <2>1, <2>2
  <1>. QED BY <1>2, <1>3, <1>4, <1>5, <1>6, <1>8, <1>9, <1>10, <1>11, SingleStep

\* Who completes a campaign, and who is to.
LEMMA CompletedBy ==
  ASSUME TypeOK, Single, Token, Phase, [Next]_vars, status # "COMPLETED", status' = "COMPLETED"
  PROVE  \E c \in Contacts, e \in Events : VComplete(c, e) /\ status = "RUNNING"
  <1>1. status' # status
    OBVIOUS
  <1>2. ~Aside
    BY <1>1 DEF Aside
  <1>3. ASSUME NEW u \in Users,
               Ask(u, "execute") \/ Ask(u, "cancel") \/ Set(u) \/ Skip(u) \/ Publish(u)
        PROVE  FALSE
    BY <1>1, <1>3, SetMoves DEF Ask, Skip, Publish, rows
  <1>4. CASE FetchExec(ExecKey)
    BY <1>1, <1>4 DEF FetchExec, rows
  <1>5. CASE ExecutorStep /\ ~EStart /\ ~EComplete
    BY <1>1, <1>5, ExecutorMoves DEF EFail, Sets
  <1>8. ASSUME NEW r \in Runners, RunnerStep(r) \/ \E b \in Batches : FetchBatch(r, b) PROVE FALSE
    BY <1>1, <1>8 DEF FetchBatch, RunnerStep, BLoad, BList, BCheck, BDrop, BSeek, BCreate, BLink,
                      BRelink, BPublish, BTouch, BError, BTally, rows
  <1>9. CASE \E b \in Batches : ExpireBatch(b)
    BY <1>1, <1>9 DEF ExpireBatch, rows
  <1>10. ASSUME NEW c \in Contacts, MessageStep(c), ~MessageBuried(c), ~SendThrow(c)
         PROVE  FALSE
    BY <1>1, <1>10, MessageKeeps
  <1>11. ASSUME NEW c \in Contacts, NEW e \in Events, HandlerStep(c, e)
         PROVE  VComplete(c, e) /\ status = "RUNNING"
    BY <1>1, <1>11 DEF HandlerStep, VMark, VFind, VWrite, VCount, VLook, VTally, VComplete, rows,
       Sets
  <1>. QED BY <1>2, <1>3, <1>4, <1>5, <1>8, <1>9, <1>10, <1>11, SingleStep

LEMMA CompletesBy ==
  ASSUME TypeOK, Single, Token, [Next]_vars,
         \A d \in Contacts, l \in Events : ev[d][l] # "complete",
         \E c \in Contacts, e \in Events : ev'[c][e] = "complete"
  PROVE  Open = {} /\ rcp' = rcp
  <1>1. ev' # ev
    OBVIOUS
  <1>2. ~Aside
    BY <1>1 DEF Aside
  <1>3. ASSUME NEW u \in Users,
               Ask(u, "execute") \/ Ask(u, "cancel") \/ Set(u) \/ Skip(u) \/ Publish(u)
        PROVE  FALSE
    BY <1>1, <1>3 DEF Ask, Set, Skip, Publish
  <1>4. CASE FetchExec(ExecKey)
    BY <1>1, <1>4 DEF FetchExec
  <1>5. CASE ExecutorStep
    BY <1>1, <1>5 DEF ExecutorStep, ELoad, EStart, EVerify, EPending, ECount, EResolve, EInsert,
       EScan,
                      EDispatch, EComplete, EFail
  <1>8. ASSUME NEW r \in Runners, RunnerStep(r) \/ \E b \in Batches : FetchBatch(r, b) PROVE FALSE
    BY <1>1, <1>8 DEF FetchBatch, RunnerStep, BLoad, BList, BCheck, BDrop, BSeek, BCreate, BLink,
                      BRelink, BPublish, BTouch, BError, BTally
  <1>9. CASE \E b \in Batches : ExpireBatch(b)
    BY <1>1, <1>9 DEF ExpireBatch, procs
  <1>10. ASSUME NEW c \in Contacts, MessageStep(c), ~MessageBuried(c), ~SendThrow(c)
         PROVE  FALSE
    BY <1>10, MessageEvents
  <1>11. ASSUME NEW c \in Contacts, NEW e \in Events, HandlerStep(c, e)
         PROVE  Open = {} /\ rcp' = rcp
    <2>1. CASE VTally(c, e) /\ Open = {}
      BY <2>1 DEF VTally, rows
    <2>2. CASE ~(VTally(c, e) /\ Open = {})
      <3>1. PICK l : VGoto(c, e, l) /\ l # "complete"
        <4>1. CASE VFind(c, e)
          BY <4>1 DEF VFind
        <4>. QED
          BY <4>1, <1>11, <2>2 DEF HandlerStep, VMark, VWrite, VCount, VLook, VTally, VComplete
      <3>. QED BY <3>1 DEF VGoto, TypeOK
    <2>. QED BY <2>1, <2>2
  <1>. QED BY <1>2, <1>3, <1>4, <1>5, <1>8, <1>9, <1>10, <1>11, SingleStep

LEMMA ClearedStep ==
  ASSUME TypeOK, TypeOK', RowSound, EventSound, Lists, Single, Token, Token', Phase, Phase', Cleared,
         StatusStep, [Next]_vars
  PROVE  Cleared'
  <1>k. status \in {"CANCELLED", "COMPLETED", "FAILED"} => status' = status
    BY StatusStepFacts
  <1>1. \A c \in Contacts : rcp'[c] = "SKIPPED" => status' = "CANCELLED"
    <2>1. ASSUME NEW u \in Users, Skip(u) PROVE status' = "CANCELLED"
      BY <2>1, <1>k DEF Skip, Token
    <2>2. CASE \A c \in Contacts : rcp'[c] = "SKIPPED" => rcp[c] = "SKIPPED"
      BY <2>2, <1>k DEF Cleared
    <2>3. CASE UNCHANGED rcp
      BY <2>2, <2>3
    <2>4. ASSUME NEW u \in Users, Ask(u, "execute") \/ Ask(u, "cancel") \/ Set(u) \/ Publish(u)
          PROVE  UNCHANGED rcp
      BY <2>4 DEF Ask, Set, Publish, rows
    <2>5. CASE Aside \/ FetchExec(ExecKey)
      BY <2>3, <2>5 DEF Aside, FetchExec, rows
    <2>6. CASE ExecutorStep /\ ~EStart /\ ~EComplete
      <3>1. CASE EInsert
        BY <2>2, <3>1 DEF EInsert
      <3>2. CASE ~EInsert
        BY <2>3, <2>6, <3>2, ExecutorMoves
      <3>. QED BY <3>1, <3>2
    <2>7. ASSUME NEW r \in Runners, RunnerStep(r)
          PROVE  \A c \in Contacts : rcp'[c] = "SKIPPED" => rcp[c] = "SKIPPED"
      <3>1. ~Idle(r)
        BY <2>7, OthersKeep
      <3>2. rcp' = rcp \/ \E l \in {"INVALID", "QUEUED", "FAILED"} : rcp' = [rcp EXCEPT ![bw[r].c] = l]
        BY <2>7, <3>1, OwnRow
      <3>. QED BY <3>2 DEF TypeOK
    <2>8. CASE \/ \E r \in Runners, b \in Batches : FetchBatch(r, b)
               \/ \E b \in Batches : ExpireBatch(b)
      BY <2>3, <2>8 DEF FetchBatch, ExpireBatch, rows
    <2>10. ASSUME NEW c \in Contacts, MessageStep(c), ~MessageBuried(c), ~SendThrow(c)
           PROVE  UNCHANGED rcp
      BY <2>10, MessageKeeps
    <2>11. ASSUME NEW c \in Contacts, NEW e \in Events, HandlerStep(c, e)
           PROVE  \A d \in Contacts : rcp'[d] = "SKIPPED" => rcp[d] = "SKIPPED"
      <3>1. CASE VWrite(c, e)
        <4>1. rcp' = [rcp EXCEPT ![c] = Outcome(e[1])] /\ e[1] \in Kinds
          BY <3>1, EventIs DEF VWrite
        <4>2. Outcome(e[1]) # "SKIPPED"
          BY <4>1 DEF Outcome, Kinds
        <4>. QED BY <4>1, <4>2 DEF TypeOK
      <3>2. CASE ~VWrite(c, e)
        BY <2>11, <3>2 DEF HandlerStep, VMark, VFind, VCount, VLook, VTally, VComplete, rows
      <3>. QED BY <3>1, <3>2
    <2>. QED BY <2>1, <2>2, <2>3, <2>4, <2>5, <2>6, <2>7, <2>8, <2>10, <2>11, SingleStep
  <1>2. status' = "COMPLETED" => Open' = {}
    <2>. SUFFICES ASSUME status' = "COMPLETED" PROVE Open' = {}
      OBVIOUS
    <2>1. ~Early' /\ ~Building'
      BY DEF Phase
    <2>2. CASE status = "COMPLETED"
      <3>1. ~Early /\ ~Building
        BY <2>2 DEF Phase
      <3>. QED BY <2>2, <3>1, OpenStep DEF Cleared
    <2>3. CASE status # "COMPLETED"
      <3>1. PICK c \in Contacts, e \in Events : VComplete(c, e) /\ status = "RUNNING"
        BY <2>3, CompletedBy
      <3>2. Open = {} /\ rcp' = rcp
        BY <3>1 DEF VComplete, Cleared
      <3>. QED BY <3>2 DEF Open
    <2>. QED BY <2>2, <2>3
  <1>3. ASSUME status' = "RUNNING", NEW c \in Contacts, NEW e \in Events, ev'[c][e] = "complete"
        PROVE  Open' = {}
    <2>1. CASE \E d \in Contacts, l \in Events : ev[d][l] = "complete"
      <3>1. ~Early /\ ~Building
        BY <2>1 DEF Phase
      <3>2. status = "RUNNING"
        BY <3>1, <1>3, <1>k DEF Early, Token
      <3>. QED BY <2>1, <3>1, <3>2, OpenStep DEF Cleared
    <2>2. CASE \A d \in Contacts, l \in Events : ev[d][l] # "complete"
      <3>1. Open = {} /\ rcp' = rcp
        BY <1>3, <2>2, CompletesBy
      <3>. QED BY <3>1 DEF Open
    <2>. QED BY <2>1, <2>2
  <1>. QED BY <1>1, <1>2, <1>3 DEF Cleared

(* When a campaign is COMPLETED, each contact of its audience has a        *)
(* recipient, and none is still to be sent or under way: of all the event  *)
(* handlers that look at the campaign together, none completes it early.   *)
(* It takes that the campaign is executed once, without faults.            *)
THEOREM CompletedCorrect == Single => (Spec => []CompletedMeansDone)
  <1>. SUFFICES ASSUME Single PROVE Spec => []CompletedMeansDone
    OBVIOUS
  <1>1. Init => Token /\ Phase /\ Cleared
    BY ExecKeyIs DEF Init, Token, Phase, Cleared, Open, IdleExecutor, IdleRunner, IdleUser, Idle,
                     QuietEvents
  <1>2. TypeOK /\ TypeOK' /\ EventSound /\ RowSound /\ Lists /\ [StatusStep]_vars
        /\ Token /\ Phase /\ Cleared /\ [Next]_vars => (Token /\ Phase /\ Cleared)'
    <2>. SUFFICES ASSUME TypeOK, TypeOK', EventSound, RowSound, Lists, [StatusStep]_vars,
                         Token, Phase, Cleared, [Next]_vars
                  PROVE  (Token /\ Phase /\ Cleared)'
      OBVIOUS
    <2>1. StatusStep
      BY DEF StatusStep, vars, rows
    <2>2. Token'
      BY <2>1, TokenStep
    <2>3. Phase'
      BY <2>1, <2>2, PhaseStep
    <2>4. Cleared'
      BY <2>1, <2>2, <2>3, ClearedStep
    <2>. QED BY <2>2, <2>3, <2>4
  <1>3. TypeOK /\ Phase /\ Cleared => CompletedMeansDone
    BY DEF Phase, Cleared, Open, Building, CompletedMeansDone, TypeOK
  <1>4. Spec => [][StatusStep]_vars
    BY EdgesOnly DEF StatusMoves, StatusStep
  <1>. QED BY <1>1, <1>2, <1>3, <1>4, TypeCorrect, EventCorrect, RowCorrect, PTL DEF Spec

=============================================================================
