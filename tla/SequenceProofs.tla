--------------------------- MODULE SequenceProofs ---------------------------
(***************************************************************************)
(* Theorems about drip sequences, for any number of sequences, recipients, *)
(* steps, step handlers, replies and requests, and any faults.             *)
(*                                                                         *)
(* Why.  Messages exist exactly for the steps before currentStep, and for  *)
(* currentStep itself only while one worker is between creating it and     *)
(* advancing (Progress): of two workers that loaded the same step the      *)
(* second finds the message and gives up.  A sequence at rest is set in    *)
(* motion by the check only, which looks at its status (Quiet).            *)
(***************************************************************************)
EXTENDS Sequence, SequenceTheorems, TLAPS

-----------------------------------------------------------------------------
(* The line.                                                               *)

Once(s) == \A i, j \in DOMAIN s : s[i] = s[j] => i = j

\* The sequence without its i-th element, position by position.
LEMMA RemoveAtIs ==
  ASSUME NEW S, NEW s \in Seq(S), NEW i \in DOMAIN s
  PROVE  /\ RemoveAt(s, i) \in Seq(S) /\ Len(RemoveAt(s, i)) = Len(s) - 1
         /\ \A j \in 1 .. Len(s) - 1 : RemoveAt(s, i)[j] = s[IF j < i THEN j ELSE j + 1]
<1> DEFINE a == SubSeq(s, 1, i - 1) b == SubSeq(s, i + 1, Len(s))
<1>1. i \in 1 .. Len(s) /\ Len(s) \in Nat  OBVIOUS
<1>2. a \in Seq(S) /\ Len(a) = i - 1 /\ \A j \in 1 .. i - 1 : a[j] = s[j]
  <2>1. \A j \in 1 .. i - 1 : s[j] \in S  BY <1>1
  <2>2. QED  BY <1>1, <2>1, SubSeqProperties
<1>3. b \in Seq(S) /\ Len(b) = Len(s) - i /\ \A j \in 1 .. Len(s) - i : b[j] = s[i + j]
  <2>1. \A j \in i + 1 .. Len(s) : s[j] \in S  BY <1>1
  <2>2. /\ b \in Seq(S) /\ Len(b) = IF i + 1 <= Len(s) THEN Len(s) - (i + 1) + 1 ELSE 0
        /\ \A j \in 1 .. Len(s) - (i + 1) + 1 : b[j] = s[(i + 1) + j - 1]
    BY <1>1, <2>1, SubSeqProperties
  <2>3. QED  BY <1>1, <2>2
<1> HIDE DEF a, b
<1>4. /\ a \o b \in Seq(S) /\ Len(a \o b) = Len(a) + Len(b)
      /\ \A j \in 1 .. Len(a) + Len(b) :
           (a \o b)[j] = IF j <= Len(a) THEN a[j] ELSE b[j - Len(a)]
  BY <1>2, <1>3, ConcatProperties
<1>5. Len(a) + Len(b) = Len(s) - 1  BY <1>1, <1>2, <1>3
<1>6. ASSUME NEW j \in 1 .. Len(s) - 1
      PROVE  (a \o b)[j] = s[IF j < i THEN j ELSE j + 1]
  <2>1. (a \o b)[j] = IF j <= i - 1 THEN a[j] ELSE b[j - (i - 1)]  BY <1>2, <1>4, <1>5
  <2>2. CASE j < i
    <3>1. j \in 1 .. i - 1 /\ j <= i - 1  BY <1>1, <2>2
    <3>2. QED  BY <1>2, <2>1, <2>2, <3>1
  <2>3. CASE ~(j < i)
    <3>1. /\ j - (i - 1) \in 1 .. Len(s) - i /\ ~(j <= i - 1)
          /\ i + (j - (i - 1)) = j + 1
      BY <1>1, <2>3
    <3>2. b[j - (i - 1)] = s[i + (j - (i - 1))]  BY <1>3, <3>1
    <3>3. QED  BY <2>1, <2>3, <3>1, <3>2
  <2>4. QED  BY <2>2, <2>3
<1>7. QED  BY <1>4, <1>5, <1>6 DEF RemoveAt, a, b

LEMMA LeavesIs ==
  ASSUME line \in Seq(Recipients), Once(line), NEW r, Leaves(r)
  PROVE  line' \in Seq(Recipients) /\ Once(line') /\ ToSet(line') = ToSet(line) \ {r}
<1>1. CASE r \notin ToSet(line)  BY <1>1 DEF Leaves
<1>2. CASE r \in ToSet(line)
  <2>1. PICK i \in DOMAIN line : line[i] = r /\ line' = RemoveAt(line, i)
    BY <1>2 DEF Leaves
  <2>2. /\ line' \in Seq(Recipients) /\ Len(line') = Len(line) - 1
        /\ \A j \in 1 .. Len(line) - 1 : line'[j] = line[IF j < i THEN j ELSE j + 1]
    BY <2>1, RemoveAtIs
  <2>3. i \in 1 .. Len(line) /\ Len(line) \in Nat /\ DOMAIN line = 1 .. Len(line)
        /\ DOMAIN line' = 1 .. Len(line) - 1
    BY <2>1, <2>2
  <2>4. Once(line')
    <3> SUFFICES ASSUME NEW j \in DOMAIN line', NEW k \in DOMAIN line', line'[j] = line'[k]
                 PROVE  j = k
      BY DEF Once
    <3> DEFINE p(n) == IF n < i THEN n ELSE n + 1
    <3>a. p(j) \in DOMAIN line /\ p(k) \in DOMAIN line  BY <2>3
    <3>b. line[p(j)] = line[p(k)]  BY <2>2, <2>3
    <3>1. p(j) = p(k)  BY <3>a, <3>b DEF Once
    <3>2. QED  BY <2>3, <3>1
  <2>5. ASSUME NEW x \in ToSet(line') PROVE x \in ToSet(line) \ {r}
    <3>1. PICK j \in DOMAIN line' : x = line'[j]  BY <2>5 DEF ToSet
    <3>2. PICK k \in DOMAIN line : x = line[k] /\ k # i
      BY <2>2, <2>3, <3>1
    <3>3. QED  BY <2>1, <3>2 DEF ToSet, Once
  <2>6. ASSUME NEW x \in ToSet(line) \ {r} PROVE x \in ToSet(line')
    <3>1. PICK k \in DOMAIN line : x = line[k]  BY <2>6 DEF ToSet
    <3>2. k # i  BY <2>1, <2>6, <3>1
    <3>3. PICK j \in DOMAIN line' : line'[j] = x
      <4>1. CASE k < i  BY <2>2, <2>3, <3>1, <4>1
      <4>2. CASE k > i  
        <5>1. k - 1 \in DOMAIN line' /\ line'[k - 1] = x  BY <2>2, <2>3, <3>1, <4>2
        <5>2. QED  BY <5>1
      <4>3. QED  BY <2>3, <3>2, <4>1, <4>2
    <3>4. QED  BY <3>3 DEF ToSet
  <2>7. QED  BY <2>2, <2>4, <2>5, <2>6
<1>3. QED  BY <1>1, <1>2

LEMMA AppendIs ==
  ASSUME line \in Seq(Recipients), Once(line), NEW r \in Recipients, r \notin ToSet(line),
         line' = Append(line, r)
  PROVE  line' \in Seq(Recipients) /\ Once(line') /\ ToSet(line') = ToSet(line) \cup {r}
<1>1. /\ line' \in Seq(Recipients) /\ DOMAIN line' = 1 .. Len(line) + 1
      /\ DOMAIN line = 1 .. Len(line) /\ Len(line) \in Nat
      /\ line'[Len(line) + 1] = r
      /\ \A i \in 1 .. Len(line) : line'[i] = line[i]
  OBVIOUS
<1>2. Once(line')
  <2> SUFFICES ASSUME NEW i \in DOMAIN line', NEW j \in DOMAIN line', line'[i] = line'[j]
               PROVE  i = j
    BY DEF Once
  <2>1. CASE i = Len(line) + 1 \/ j = Len(line) + 1  BY <1>1, <2>1 DEF ToSet
  <2>2. CASE i \in DOMAIN line /\ j \in DOMAIN line  BY <1>1, <2>2 DEF Once
  <2>3. QED  BY <1>1, <2>1, <2>2
<1>3. ToSet(line') = ToSet(line) \cup {r}
  <2>1. ASSUME NEW x \in ToSet(line') PROVE x \in ToSet(line) \cup {r}
    BY <1>1, <2>1 DEF ToSet
  <2>2. ASSUME NEW x \in ToSet(line) \cup {r} PROVE x \in ToSet(line')
    <3>1. CASE x = r  
      <4>1. Len(line) + 1 \in DOMAIN line'  BY <1>1
      <4>2. QED  BY <1>1, <3>1, <4>1 DEF ToSet
    <3>2. CASE x \in ToSet(line)
      <4>1. PICK i \in DOMAIN line : x = line[i]  BY <3>2 DEF ToSet
      <4>2. i \in DOMAIN line' /\ line'[i] = x  BY <1>1, <4>1
      <4>3. QED  BY <4>2 DEF ToSet
    <3>3. QED  BY <2>2, <3>1, <3>2
  <2>3. QED  BY <2>1, <2>2
<1>4. QED  BY <1>1, <1>2, <1>3

LEMMA HeadIs ==
  ASSUME line \in Seq(Recipients), line # <<>>
  PROVE  Head(line) \in ToSet(line) /\ Head(line) \in Recipients
<1>1. Len(line) \in Nat /\ Len(line) # 0 /\ DOMAIN line = 1 .. Len(line)  OBVIOUS
<1>2. 1 \in DOMAIN line /\ Head(line) = line[1]  BY <1>1
<1>3. QED  BY <1>2 DEF ToSet

-----------------------------------------------------------------------------
(* The invariants.                                                         *)

WorkerPcs == {"load", "create", "advance", "complete"}
BusyWorker == [pc : WorkerPcs, r : Recipients, k : Index, n : Index]
BusyUser == [pc : {"enroll", "set"}, s : SequenceIds, to : SequenceStatus]

RowType ==
  /\ seq \in [SequenceIds -> SequenceStatus] /\ rcp \in [Recipients -> RecipientStatus]
  /\ cur \in [Recipients -> Index] /\ at \in [Recipients -> {"none", "wait", "due"}]
MsgType == msg \in [Recipients -> SUBSET (0 .. Steps - 1)]
LineType == line \in Seq(Recipients) /\ Once(line)
JobType == job \in [Recipients -> [Index -> JobState]] /\ check \in JobState
ChkType == chk \in [pc : {"off", "look", "publish"}, todo : SUBSET (Recipients \X Index)]
WkType ==
  /\ wk \in [Workers -> BusyWorker \cup {IdleWorker}]
  /\ \A w \in Workers : wk[w].pc \in {"create", "advance"} => wk[w].n < Steps
UsType == us \in [Users -> BusyUser \cup {IdleUser}]
NoteType ==
  /\ quiet \in [SequenceIds -> BOOLEAN] /\ hit \in [Recipients -> BOOLEAN]
CountType == requests \in 0 .. MaxRequests /\ faults \in 0 .. MaxFaults
TypeInv ==
  /\ RowType /\ MsgType /\ LineType /\ JobType /\ ChkType /\ WkType /\ UsType
  /\ NoteType /\ CountType

\* A step handler runs the active job of its recipient and step, and no two run the same.
JobHeld ==
  /\ \A w \in Workers : wk[w].pc # "idle" => job[wk[w].r][wk[w].k] = "active"
  /\ \A v, w \in Workers :
       wk[v].pc # "idle" /\ wk[v].r = wk[w].r /\ wk[v].k = wk[w].k => v = w

\* A worker that has loaded the recipient.
At(w, r) == wk[w].r = r /\ wk[w].pc # "load"

\* Who is in the line is ACTIVE and due; who is not enrolled was sent nothing.
Placed(r) ==
  /\ r \in ToSet(line) => rcp[r] = "ACTIVE" /\ at[r] = "due"
  /\ rcp[r] = "NONE" => msg[r] = {} /\ \A w \in Workers : ~At(w, r)

\* How far a recipient is.
Progress(r) ==
  /\ \A k \in 0 .. Steps - 1 : k < cur[r] => k \in msg[r]
  /\ \A k \in msg[r] : k <= cur[r]
  /\ rcp[r] = "COMPLETED" => cur[r] = Steps
  /\ \A w \in Workers : wk[w].r = r =>
       /\ wk[w].pc = "create" => wk[w].n <= cur[r]
       /\ wk[w].pc = "advance" => wk[w].n = cur[r] /\ cur[r] \in msg[r]
       /\ wk[w].pc = "complete" => cur[r] = Steps
  /\ \A v, w \in Workers :
       wk[v].r = r /\ wk[w].r = r /\ wk[v].pc = "advance" /\ wk[w].pc = "advance" => v = w

\* If no fault hit it, someone takes it on.
Busy(r, l) == \E w \in Workers : wk[w].r = r /\ wk[w].pc = l
Attended(r) == rcp[r] = "ACTIVE" =>
  /\ cur[r] \in msg[r] => Busy(r, "advance")
  /\ at[r] = "none" => Busy(r, "complete")

RcpInv(r) ==
  /\ Placed(r)
  /\ Progress(r)
  /\ ~hit[r] => Attended(r)
RcpSound == \A r \in Recipients : RcpInv(r)

\* A sequence that was stopped while it was at rest.
Quiet == \A s \in SequenceIds : quiet[s] => seq[s] # "ACTIVE" /\ Resting(s)

-----------------------------------------------------------------------------
(* Types.                                                                  *)

LEMMA TypeInit == ASSUME SequenceAssumption, Init PROVE TypeInv
<1>1. LineType  BY DEF Init, LineType, Once
<1>2. JobType  BY DEF Init, JobType, JobState
<1>3. QED
  BY <1>1, <1>2 DEF SequenceAssumption, Init, TypeInv, RowType, MsgType, ChkType, WkType, UsType,
     NoteType, CountType, SequenceStatus, RecipientStatus, Index, IdleCheck, IdleWorker

\* The writes to a recipient's row.
LEMMA CompletesType ==
  ASSUME TypeInv, NEW r \in Recipients, Completes(r), UNCHANGED <<seq, cur>>
  PROVE  RowType' /\ LineType'
BY LeavesIs DEF Completes, TypeInv, RowType, LineType, RecipientStatus

LEMMA MovesType ==
  ASSUME TypeInv, NEW r \in Recipients, NEW n \in Index, NEW x \in {"none", "wait"},
         MovesTo(r, n, x), UNCHANGED <<seq, rcp>>
  PROVE  RowType' /\ LineType'
BY LeavesIs DEF MovesTo, TypeInv, RowType, LineType

LEMMA JobSet ==
  ASSUME JobType, NEW r, NEW k, NEW x \in JobState, job' = [job EXCEPT ![r][k] = x],
         UNCHANGED check
  PROVE  JobType'
BY DEF JobType

\* A worker that is not idle is at a recipient and a step.
LEMMA WorkerAt ==
  ASSUME WkType, NEW w \in Workers, wk[w].pc # "idle"
  PROVE  wk[w] \in BusyWorker /\ wk[w].r \in Recipients /\ wk[w].k \in Index /\ wk[w].n \in Index
BY DEF WkType, BusyWorker, IdleWorker

LEMMA GotoType ==
  ASSUME WkType, NEW w \in Workers, wk[w].pc # "idle", NEW l \in WorkerPcs, Goto(w, l),
         l \in {"create", "advance"} => wk[w].n < Steps
  PROVE  WkType'
<1>1. wk[w] \in BusyWorker  BY WorkerAt
<1>2. [wk[w] EXCEPT !.pc = l] \in BusyWorker  BY <1>1 DEF BusyWorker
<1>3. [wk[w] EXCEPT !.pc = l].n = wk[w].n /\ [wk[w] EXCEPT !.pc = l].pc = l
  BY <1>1 DEF BusyWorker
<1>4. QED  BY <1>2, <1>3 DEF Goto, WkType

LEMMA ReturnType ==
  ASSUME WkType, JobType, NEW w \in Workers, Return(w), UNCHANGED check
  PROVE  WkType' /\ JobType'
<1>1. WkType'  BY DEF Return, WkType, IdleWorker
<1>2. JobType'  BY JobSet DEF Return, JobState
<1>3. QED  BY <1>1, <1>2

LEMMA WorkerType ==
  ASSUME SequenceAssumption, TypeInv, NEW w \in Workers, WorkerStep(w) \/ Catch(w) \/ Throw(w)
  PROVE  TypeInv'
<1> USE DEF rows, notes
<1>1. wk[w].pc # "idle"
  BY DEF WorkerStep, Load, Create, Advance, Complete, Catch, Throw
<1>2. PICK r \in Recipients : r = wk[w].r  BY <1>1, WorkerAt DEF TypeInv
<1>3. wk[w] \in BusyWorker /\ wk[w].k \in Index /\ wk[w].n \in Index
      /\ WkType /\ JobType /\ LineType /\ RowType /\ MsgType
  BY <1>1, WorkerAt DEF TypeInv
<1>4. CASE Load(w)
  <2>1. CASE Return(w)
    <3>1. WkType' /\ JobType'  BY <1>3, <1>4, <2>1, ReturnType DEF Load
    <3>2. QED
      BY <1>4, <3>1 DEF Load, TypeInv, RowType, MsgType, LineType, ChkType, UsType,
         NoteType, CountType
  <2>2. CASE /\ wk' = [wk EXCEPT ![w].pc = IF cur[r] < Steps THEN "create" ELSE "complete",
                                 ![w].n = cur[r]]
             /\ UNCHANGED job
    <3> DEFINE l == IF cur[r] < Steps THEN "create" ELSE "complete"
               x == [wk[w] EXCEPT !.pc = l, !.n = cur[r]]
    <3>1. x \in BusyWorker /\ x.n = cur[r] /\ x.pc = l
      BY <1>3 DEF BusyWorker, WorkerPcs, RowType
    <3>2. wk' = [wk EXCEPT ![w] = x]  BY <1>3, <2>2 DEF WkType
    <3>3. WkType'  BY <1>3, <3>1, <3>2 DEF WkType
    <3>4. QED
      BY <1>4, <2>2, <3>3 DEF Load, TypeInv, RowType, MsgType, LineType, JobType, ChkType, UsType,
         NoteType, CountType
  <2>3. QED  BY <1>2, <1>4, <2>1, <2>2 DEF Load
<1>5. CASE Complete(w)
  <2>1. WkType' /\ JobType'  BY <1>3, <1>5, ReturnType DEF Complete
  <2>2. RowType' /\ LineType'
    BY <1>2, <1>5, CompletesType DEF Complete
  <2>3. QED
    BY <1>5, <2>1, <2>2 DEF Complete, TypeInv, MsgType, ChkType, UsType, NoteType,
       CountType
<1>6. CASE Create(w)
  <2>1. wk[w].n < Steps /\ wk[w].n \in 0 .. Steps - 1
    BY <1>3, <1>6 DEF Create, WkType, Index, SequenceAssumption
  <2>2. MsgType'  BY <1>2, <1>3, <1>6, <2>1 DEF Create, MsgType
  <2>3. WkType' /\ JobType'
    <3>1. CASE Return(w)  BY <1>3, <1>6, <3>1, ReturnType DEF Create
    <3>2. CASE Goto(w, "advance") /\ UNCHANGED job
      <4>1. WkType'  BY <1>1, <1>3, <2>1, <3>2, GotoType DEF WorkerPcs
      <4>2. QED  BY <1>3, <1>6, <3>2, <4>1 DEF Create, JobType
    <3>3. QED  BY <1>6, <3>1, <3>2 DEF Create
  <2>4. QED
    BY <1>6, <2>2, <2>3 DEF Create, TypeInv, RowType, LineType, ChkType, UsType, NoteType,
       CountType
<1>7. CASE Advance(w)
  <2>1. wk[w].n < Steps  BY <1>3, <1>7 DEF Advance, WkType
  <2>2. wk[w].n + 1 \in Index  BY <1>3, <2>1 DEF Index, SequenceAssumption
  <2>3. RowType' /\ LineType'
    <3>1. PICK x \in {"none", "wait"} : MovesTo(r, wk[w].n + 1, x)
      BY <1>2, <1>7 DEF Advance
    <3>2. QED  BY <1>7, <2>2, <3>1, MovesType DEF Advance
  <2>4. WkType' /\ JobType'
    <3>1. CASE Return(w)  BY <1>3, <1>7, <3>1, ReturnType DEF Advance
    <3>2. CASE Goto(w, "complete") /\ UNCHANGED job
      <4>1. WkType'  BY <1>1, <1>3, <3>2, GotoType DEF WorkerPcs
      <4>2. QED  BY <1>3, <1>7, <3>2, <4>1 DEF Advance, JobType
    <3>3. QED  BY <1>7, <3>1, <3>2 DEF Advance
  <2>5. QED
    BY <1>7, <2>3, <2>4 DEF Advance, TypeInv, MsgType, ChkType, UsType, NoteType, CountType
<1>8. CASE Catch(w)
  <2>1. WkType' /\ JobType'  BY <1>3, <1>8, ReturnType DEF Catch
  <2>2. hit' \in [Recipients -> BOOLEAN]
    <3> DEFINE b == hit[r] \/ wk[w].pc # "create"
    <3>1. b \in BOOLEAN  OBVIOUS
    <3>2. hit' = [hit EXCEPT ![r] = b]  BY <1>2, <1>8 DEF Catch
    <3>3. QED  BY <3>1, <3>2 DEF TypeInv, NoteType
  <2>3. CountType'  BY <1>8 DEF Catch, Fault, TypeInv, CountType, SequenceAssumption
  <2>4. QED
    BY <1>8, <2>1, <2>2, <2>3 DEF Catch, TypeInv, RowType, MsgType, LineType, ChkType, UsType,
       NoteType
<1>9. CASE Throw(w)
  <2>1. WkType'  BY <1>3, <1>9 DEF Throw, WkType, IdleWorker
  <2>2. JobType'  BY <1>3, <1>9, JobSet DEF Throw, JobState
  <2>3. CountType'  BY <1>9 DEF Throw, Fault, TypeInv, CountType, SequenceAssumption
  <2>4. QED
    BY <1>9, <2>1, <2>2, <2>3 DEF Throw, TypeInv, RowType, MsgType, LineType, ChkType, UsType,
       NoteType
<1>10. QED  BY <1>4, <1>5, <1>6, <1>7, <1>8, <1>9 DEF WorkerStep

LEMMA CheckType ==
  ASSUME SequenceAssumption, TypeInv, FetchCheck \/ CheckStep \/ CheckThrow
  PROVE  TypeInv'
<1> USE DEF rows, notes
<1>1. LineType /\ RowType /\ ChkType /\ JobType  BY DEF TypeInv
<1>2. CASE FetchCheck
  BY <1>2 DEF FetchCheck, IdleCheck, TypeInv, RowType, MsgType, LineType, JobType, JobState,
     ChkType,
     WkType, UsType, NoteType, CountType
<1>3. CASE Look
  <2>1. Looked \subseteq Recipients  BY <1>1 DEF Looked, LineType
  <2>2. Eligible \subseteq Recipients \X Index  BY <1>1, <2>1 DEF Eligible, RowType
  <2>3. QED
    BY <1>3, <2>2 DEF Look, TypeInv, RowType, MsgType, LineType, JobType, ChkType, WkType, UsType,
       NoteType, CountType
<1>4. ASSUME NEW t \in chk.todo, PublishStep(t) PROVE TypeInv'
  <2>1. t \in Recipients \X Index  BY <1>1 DEF ChkType
  <2>2. Offered(job[t[1]][t[2]]) \in JobState  BY <1>1, <2>1 DEF JobType, Offered, JobState
  <2>3. JobType'  BY <1>1, <1>4, <2>2, JobSet DEF PublishStep
  <2>4. ChkType'  BY <1>1, <1>4 DEF PublishStep, ChkType
  <2>5. QED
    BY <1>4, <2>3, <2>4 DEF PublishStep, TypeInv, RowType, MsgType, LineType, WkType, UsType,
       NoteType, CountType
<1>5. CASE FinishCheck
  BY <1>5 DEF FinishCheck, IdleCheck, TypeInv, RowType, MsgType, LineType, JobType, JobState,
     ChkType, WkType, UsType, NoteType, CountType
<1>6. CASE CheckThrow
  BY <1>6 DEF CheckThrow, Fault, IdleCheck, TypeInv, RowType, MsgType, LineType, JobType, JobState,
     ChkType, WkType, UsType, NoteType, CountType, SequenceAssumption
<1>7. QED  BY <1>2, <1>3, <1>4, <1>5, <1>6 DEF CheckStep

LEMMA RequestType ==
  ASSUME SequenceAssumption, TypeInv, NEW u \in Users,
         UserStep(u) \/ UserThrow(u) \/ \E s \in SequenceIds, kind \in DOMAIN From : Ask(u, s, kind)
  PROVE  TypeInv'
<1> USE DEF rows, notes
<1>1. UsType /\ RowType /\ NoteType /\ CountType  BY DEF TypeInv
<1>2. ASSUME NEW s \in SequenceIds, NEW kind \in DOMAIN From, Ask(u, s, kind) PROVE TypeInv'
  <2>1. Target[kind] \in SequenceStatus  BY DEF Target, From, SequenceStatus
  <2>2. UsType'  BY <1>1, <1>2, <2>1 DEF Ask, UsType, BusyUser
  <2>3. CountType'  BY <1>1, <1>2 DEF Ask, CountType, SequenceAssumption
  <2>4. QED
    BY <1>2, <2>2, <2>3 DEF Ask, TypeInv, RowType, MsgType, LineType, JobType, ChkType, WkType,
       NoteType
<1>3. CASE Enroll(u)
  <2>1. us[u] \in BusyUser  BY <1>1, <1>3 DEF Enroll, UsType, IdleUser
  <2>2. [us[u] EXCEPT !.pc = "set"] \in BusyUser  BY <2>1 DEF BusyUser
  <2>3. UsType'  BY <1>1, <1>3, <2>2 DEF Enroll, UsType
  <2>4. RowType'  BY <1>1, <1>3 DEF Enroll, RowType, RecipientStatus
  <2>5. QED
    BY <1>3, <2>3, <2>4 DEF Enroll, TypeInv, MsgType, LineType, JobType, ChkType, WkType,
       NoteType, CountType
<1>4. CASE SetStatus(u)
  <2>1. us[u].to \in SequenceStatus  BY <1>1, <1>4 DEF SetStatus, UsType, BusyUser, IdleUser
  <2>2. UsType' /\ RowType'  BY <1>1, <1>4, <2>1 DEF SetStatus, UsType, RowType
  <2>3. quiet' \in [SequenceIds -> BOOLEAN]
    <3> DEFINE b == us[u].to # "ACTIVE" /\ Resting(us[u].s)
    <3>1. b \in BOOLEAN  BY DEF Resting
    <3>2. quiet' = [quiet EXCEPT ![us[u].s] = b]  BY <1>4 DEF SetStatus
    <3>3. QED  BY <1>1, <3>1, <3>2 DEF NoteType
  <2>4. QED
    BY <1>4, <2>2, <2>3 DEF SetStatus, TypeInv, MsgType, LineType, JobType, ChkType, WkType,
       NoteType, CountType
<1>5. CASE UserThrow(u)
  BY <1>5 DEF UserThrow, Fault, TypeInv, RowType, MsgType, LineType, JobType, ChkType, WkType,
     UsType, NoteType, CountType, SequenceAssumption
<1>6. QED  BY <1>2, <1>3, <1>4, <1>5 DEF UserStep

LEMMA TypeStep ==
  ASSUME SequenceAssumption, TypeInv, RcpSound, [Next]_vars PROVE TypeInv'
<1> USE DEF rows, procs, notes
<1>1. ASSUME NEW r \in Recipients, Due(r) PROVE TypeInv'
  <2>1. r \notin ToSet(line)  BY <1>1 DEF Due, RcpSound, RcpInv, Placed
  <2>2. LineType'  BY <1>1, <2>1, AppendIs DEF Due, TypeInv, LineType
  <2>3. RowType'  BY <1>1 DEF Due, TypeInv, RowType
  <2>4. QED
    BY <1>1, <2>2, <2>3 DEF Due, TypeInv, MsgType, JobType, ChkType, WkType, UsType,
       NoteType, CountType
<1>2. ASSUME NEW w \in Workers, NEW r \in Recipients, NEW k \in Index, Fetch(w, r, k) PROVE TypeInv'
  <2>1. JobType'  BY <1>2, JobSet DEF Fetch, TypeInv, JobState
  <2>2. [pc |-> "load", r |-> r, k |-> k, n |-> 0] \in BusyWorker
    BY DEF BusyWorker, WorkerPcs, Index, SequenceAssumption
  <2>3. WkType'  BY <1>2, <2>2 DEF Fetch, TypeInv, WkType
  <2>4. QED
    BY <1>2, <2>1, <2>3 DEF Fetch, TypeInv, RowType, MsgType, LineType, ChkType, UsType,
       NoteType, CountType
<1>3. CASE Crash
  <2>1. JobType'  BY <1>3 DEF Crash, TypeInv, JobType, JobState
  <2>2. WkType' /\ UsType' /\ ChkType'
    BY <1>3 DEF Crash, WkType, UsType, ChkType, IdleWorker, IdleCheck
  <2>3. hit' \in [Recipients -> BOOLEAN] /\ CountType'
    BY <1>3 DEF Crash, Fault, TypeInv, NoteType, CountType, SequenceAssumption
  <2>4. QED
    BY <1>3, <2>1, <2>2, <2>3 DEF Crash, TypeInv, RowType, MsgType, LineType, NoteType
<1>4. CASE UNCHANGED vars
  BY <1>4 DEF vars, TypeInv, RowType, MsgType, LineType, JobType, ChkType, WkType, UsType,
     NoteType, CountType
<1>5. QED  BY <1>1, <1>2, <1>3, <1>4, WorkerType, CheckType, RequestType DEF Next

-----------------------------------------------------------------------------
(* Recipients.                                                             *)

LEMMA RcpInit == ASSUME SequenceAssumption, Init PROVE RcpSound
BY DEF Init, RcpSound, RcpInv, Placed, Progress, Attended, At, ToSet, IdleWorker,
   SequenceAssumption

\* Nothing about q happens.
SameRow(q) ==
  /\ rcp'[q] = rcp[q] /\ cur'[q] = cur[q] /\ at'[q] = at[q] /\ msg'[q] = msg[q]
  /\ q \in ToSet(line') <=> q \in ToSet(line)
SameNotes(q) == hit'[q] = hit[q]
SameWorkers(q) == \A v \in Workers : wk[v].r = q \/ wk'[v].r = q => wk'[v] = wk[v]

LEMMA Frame ==
  ASSUME NEW q, RcpInv(q), SameRow(q), SameNotes(q), SameWorkers(q) PROVE RcpInv(q)'
<1> USE DEF SameRow, SameNotes, SameWorkers
<1>1. Placed(q)'  BY DEF RcpInv, Placed, At
<1>2. Progress(q) => Progress(q)'  BY DEF Progress
<1>3. Attended(q) => Attended(q)'  BY DEF Attended, Busy
<1>5. QED  BY <1>1, <1>2, <1>3 DEF RcpInv

LEMMA RcpWorker ==
  ASSUME SequenceAssumption, TypeInv, TypeInv', RcpSound, NEW q \in Recipients,
         NEW w \in Workers, WorkerStep(w) \/ Catch(w) \/ Throw(w)
  PROVE  RcpInv(q)'
<1> USE DEF rows, notes
<1>1. wk[w].pc # "idle"
  BY DEF WorkerStep, Load, Create, Advance, Complete, Catch, Throw
<1>2. wk[w] \in BusyWorker /\ wk[w].r \in Recipients /\ wk[w].n \in Index
  BY <1>1, WorkerAt DEF TypeInv
<1>3. \A v \in Workers \ {w} : wk'[v] = wk[v]
  BY DEF WorkerStep, Load, Create, Advance, Complete, Catch, Throw, Goto, Return, TypeInv,
     WkType
<1>4. wk'[w] = IdleWorker \/ wk'[w].r = wk[w].r
  BY <1>2 DEF WorkerStep, Load, Create, Advance, Complete, Catch, Throw, Goto, Return,
     TypeInv, WkType, BusyWorker
<1>5. RcpInv(q) /\ q # None  BY DEF RcpSound, SequenceAssumption
<1>6. /\ wk \in [Workers -> BusyWorker \cup {IdleWorker}]
      /\ rcp \in [Recipients -> RecipientStatus] /\ cur \in [Recipients -> Index]
      /\ at \in [Recipients -> {"none", "wait", "due"}]
      /\ msg \in [Recipients -> SUBSET (0 .. Steps - 1)]
      /\ hit \in [Recipients -> BOOLEAN] /\ LineType
  BY DEF TypeInv, WkType, RowType, MsgType, NoteType
<1>7. CASE wk[w].r # q
  <2>1. SameWorkers(q)  BY <1>3, <1>4, <1>5, <1>7 DEF SameWorkers, IdleWorker
  <2>2. SameNotes(q)
    BY <1>6, <1>7 DEF SameNotes, WorkerStep, Load, Create, Advance, Complete, Catch, Throw
  <2>3. ASSUME Completes(wk[w].r), UNCHANGED <<cur, msg>> PROVE SameRow(q)
    BY <1>6, <1>7, <2>3, LeavesIs DEF Completes, LineType, SameRow
  <2>4. ASSUME Advance(w) PROVE SameRow(q)
    <3>1. PICK n, x : MovesTo(wk[w].r, n, x)  BY <2>4 DEF Advance
    <3>2. cur'[q] = cur[q] /\ at'[q] = at[q] /\ ToSet(line') = ToSet(line) \ {wk[w].r}
      BY <1>6, <1>7, <3>1, LeavesIs DEF MovesTo, LineType
    <3>3. rcp' = rcp /\ msg' = msg  BY <2>4 DEF Advance
    <3>4. QED  BY <1>7, <3>2, <3>3 DEF SameRow
  <2>5. ASSUME Create(w) PROVE SameRow(q)
    <3>1. rcp' = rcp /\ cur' = cur /\ at' = at /\ line' = line  BY <2>5 DEF Create
    <3>2. msg'[q] = msg[q]  BY <1>6, <1>7, <2>5 DEF Create
    <3>3. QED  BY <3>1, <3>2 DEF SameRow
  <2>6. SameRow(q)
    <3>1. CASE Complete(w)  BY <2>3, <3>1 DEF Complete
    <3>2. CASE Load(w) \/ Catch(w) \/ Throw(w)
      <4>1. UNCHANGED <<rcp, cur, at, line, msg>>  BY <3>2 DEF Load, Catch, Throw
      <4>2. QED  BY <4>1 DEF SameRow
    <3>3. QED  BY <2>4, <2>5, <3>1, <3>2 DEF WorkerStep
  <2>7. QED  BY <1>5, <2>1, <2>2, <2>6, Frame
<1>8. CASE wk[w].r = q
  <2>0. IdleWorker.pc = "idle" /\ IdleWorker.r # q  BY <1>5 DEF IdleWorker
  \* The handler gives up, at a place that nobody counts on.
  <2>1. ASSUME wk'[w] = IdleWorker, SameRow(q), SameNotes(q),
               wk[w].pc \notin {"advance", "complete"}
        PROVE  RcpInv(q)'
    <3>1. Placed(q)'  BY <1>3, <1>5, <2>0, <2>1 DEF RcpInv, Placed, At, SameRow
    <3>2. Progress(q) => Progress(q)'  BY <1>3, <2>0, <2>1 DEF Progress, SameRow
    <3>3. Attended(q) => Attended(q)'  BY <1>3, <2>0, <2>1 DEF Attended, Busy, SameRow
    <3>5. QED  BY <1>5, <2>1, <3>1, <3>2, <3>3 DEF RcpInv, SameNotes
  <2>2. CASE Load(w)
    <3>1. CASE Return(w)
      BY <1>6, <2>1, <2>2, <3>1 DEF Load, Return, SameRow, SameNotes
    <3>2. CASE /\ line # <<>> /\ Head(line) = q
               /\ wk' = [wk EXCEPT ![w].pc = IF cur[q] < Steps THEN "create" ELSE "complete",
                                   ![w].n = cur[q]]
      <4>1. /\ wk'[w].pc = (IF cur[q] < Steps THEN "create" ELSE "complete")
            /\ wk'[w].n = cur[q] /\ wk'[w].r = q /\ wk[w].pc = "load"
        BY <1>2, <1>6, <1>8, <2>2, <3>2 DEF Load, BusyWorker
      <4>2. UNCHANGED <<rcp, cur, at, line, msg, hit>>  BY <2>2 DEF Load
      <4>3. q \in ToSet(line)  BY <1>6, <3>2, HeadIs DEF LineType
      <4>4. rcp[q] = "ACTIVE"  BY <1>5, <4>3 DEF RcpInv, Placed
      <4>5. Placed(q)'  BY <1>5, <4>2, <4>4 DEF RcpInv, Placed
      <4>6. cur[q] \in 0 .. Steps  BY <1>6 DEF Index
      <4>7. Progress(q) => Progress(q)'
        BY <1>3, <4>1, <4>2, <4>6, SequenceAssumption DEF Progress, SequenceAssumption
      <4>8. Attended(q) => Attended(q)'  BY <1>3, <4>1, <4>2 DEF Attended, Busy
      <4>9. QED  BY <1>5, <4>2, <4>4, <4>5, <4>7, <4>8 DEF RcpInv
    <3>3. QED  BY <1>8, <2>2, <3>1, <3>2 DEF Load
  <2>3. CASE Complete(w)
    <3>1. /\ wk'[w] = IdleWorker /\ wk[w].pc = "complete"
          /\ rcp'[q] = "COMPLETED" /\ q \notin ToSet(line')
          /\ UNCHANGED <<cur, msg, hit>>
      BY <1>6, <1>8, <2>3, LeavesIs DEF Complete, Completes, Return, LineType
    <3>2. Placed(q)'  BY <3>1 DEF Placed
    <3>3. Progress(q) => Progress(q)'  BY <1>3, <1>8, <2>0, <3>1 DEF Progress
    <3>4. Attended(q)'  BY <3>1 DEF Attended
    <3>6. QED  BY <1>5, <3>1, <3>2, <3>3, <3>4 DEF RcpInv
  <2>4. CASE Create(w)
    <3>1. CASE wk[w].n \in msg[q]
      BY <1>6, <1>8, <2>1, <2>4, <3>1 DEF Create, Return, SameRow, SameNotes
    <3>2. CASE wk[w].n \notin msg[q]
      <4>1. /\ wk[w].pc = "create" /\ wk'[w].pc = "advance" /\ wk'[w].n = wk[w].n /\ wk'[w].r = q
            /\ msg'[q] = msg[q] \cup {wk[w].n}
            /\ UNCHANGED <<rcp, cur, at, line, hit>>
        BY <1>2, <1>6, <1>8, <2>4, <3>2 DEF Create, Goto, BusyWorker
      <4>2. At(w, q) /\ rcp[q] # "NONE"
        BY <1>5, <1>8, <4>1 DEF At, RcpInv, Placed
      <4>3. Placed(q)'  BY <1>5, <4>1, <4>2 DEF RcpInv, Placed
      <4>4. Progress(q) => wk[w].n = cur[q]
        <5>1. wk[w].n \in 0 .. Steps - 1 /\ cur[q] \in 0 .. Steps /\ Steps \in Nat
          <6>1. wk[w].n < Steps  BY <4>1 DEF TypeInv, WkType
          <6>2. QED  BY <1>2, <1>6, <6>1 DEF Index, SequenceAssumption
        <5>2. QED  BY <1>8, <3>2, <4>1, <5>1 DEF Progress
      <4>5. Progress(q) => Progress(q)'
        <5>1. SUFFICES ASSUME Progress(q) PROVE Progress(q)'  OBVIOUS
        <5>2. wk[w].n = cur[q] /\ cur[q] \in 0 .. Steps  BY <1>6, <4>4, <5>1 DEF Index
        <5>3. \A v \in Workers : wk[v].r = q => wk[v].pc # "advance"
          BY <3>2, <5>1, <5>2 DEF Progress
        <5>4. QED
          BY <1>3, <4>1, <5>1, <5>2, <5>3, SequenceAssumption DEF Progress, SequenceAssumption
      <4>6. Progress(q) /\ Attended(q) => Attended(q)'
        BY <1>3, <1>8, <4>1, <4>4 DEF Attended, Busy
      <4>7. QED  BY <1>5, <4>1, <4>2, <4>3, <4>5, <4>6 DEF RcpInv
    <3>3. QED  BY <3>1, <3>2
  <2>5. CASE Advance(w)
    <3> DEFINE n == wk[w].n + 1
    <3>1. /\ wk[w].pc = "advance" /\ rcp' = rcp /\ cur'[q] = n
          /\ at'[q] = (IF n < Steps THEN "wait" ELSE "none")
          /\ q \notin ToSet(line') /\ UNCHANGED <<msg, hit>>
      BY <1>6, <1>8, <2>5, LeavesIs DEF Advance, MovesTo, LineType
    <3>2. \/ n < Steps /\ wk'[w] = IdleWorker
          \/ ~(n < Steps) /\ wk'[w].pc = "complete" /\ wk'[w].r = q
      BY <1>2, <1>6, <1>8, <2>5 DEF Advance, Return, Goto, BusyWorker
    <3>3. At(w, q) /\ rcp[q] # "NONE"
      BY <1>5, <1>8, <3>1 DEF At, RcpInv, Placed
    <3>4. wk[w].n < Steps /\ wk[w].n \in 0 .. Steps /\ Steps \in Nat /\ n \in 0 .. Steps
      BY <1>2, <3>1 DEF TypeInv, WkType, Index, SequenceAssumption
    <3>5. Placed(q)'  BY <3>1, <3>3 DEF Placed
    <3>6. ASSUME Progress(q) PROVE Progress(q)' /\ Attended(q)'
      <4>1. wk[w].n = cur[q] /\ cur[q] \in msg[q] /\ cur'[q] = cur[q] + 1
        BY <1>8, <3>1, <3>6 DEF Progress
      <4>2. \A v \in Workers \ {w} : wk[v].r = q => wk[v].pc \notin {"advance", "complete"}
        BY <1>8, <3>1, <3>4, <3>6, <4>1 DEF Progress
      <4>3. \A k \in msg[q] : k \in 0 .. Steps - 1 /\ k <= cur[q]  BY <1>6, <3>6 DEF Progress
      <4>4. \A k \in 0 .. Steps - 1 : k < cur'[q] => k \in msg'[q]
        BY <3>1, <3>4, <3>6, <4>1 DEF Progress
      <4>5. \A k \in msg'[q] : k <= cur'[q] /\ k # cur'[q]  BY <3>1, <3>4, <4>1, <4>3
      <4>6. rcp[q] # "COMPLETED"  BY <3>4, <3>6, <4>1 DEF Progress
      <4>7. \A v \in Workers : wk'[v].r = q =>
              /\ wk'[v].pc = "create" => wk'[v].n <= cur'[q]
              /\ wk'[v].pc # "advance"
              /\ wk'[v].pc = "complete" => cur'[q] = Steps
        <5>1. ASSUME NEW v \in Workers \ {w}, wk'[v].r = q, wk'[v].pc = "create"
              PROVE  wk'[v].n <= cur'[q]
          <6>1. wk[v].n <= cur[q] /\ wk[v].n \in Index
            BY <1>3, <1>6, <3>6, <5>1 DEF Progress, BusyWorker, IdleWorker
          <6>2. QED  BY <1>3, <3>4, <4>1, <5>1, <6>1 DEF Index
        <5>2. \A v \in Workers \ {w} : wk'[v].r = q =>
                wk'[v].pc \notin {"advance", "complete"}
          BY <1>3, <4>2
        <5>3. wk'[w].r = q => wk'[w].pc = "complete" /\ cur'[q] = Steps
          BY <2>0, <3>1, <3>2, <3>4
        <5>4. QED  BY <5>1, <5>2, <5>3
      <4>8. Progress(q)'  BY <3>1, <4>4, <4>5, <4>6, <4>7 DEF Progress
      <4>9. Attended(q)'  BY <3>1, <3>2, <4>5 DEF Attended, Busy
      <4>10. QED  BY <4>8, <4>9
    <3>7. QED  BY <1>5, <3>1, <3>3, <3>5, <3>6 DEF RcpInv
  <2>6. CASE Catch(w)
    <3>1. /\ wk'[w] = IdleWorker /\ UNCHANGED <<rcp, cur, at, line, msg>>
      BY <1>6, <1>8, <2>6 DEF Catch, Return
    <3> DEFINE b == hit[q] \/ wk[w].pc # "create"
    <3>a. hit'[q] = b  BY <1>6, <1>8, <2>6 DEF Catch
    <3>2. CASE wk[w].pc = "create"
      <4>1. hit'[q] = hit[q]  BY <1>6, <3>a, <3>2
      <4>2. QED  BY <2>1, <3>1, <3>2, <4>1 DEF SameRow, SameNotes
    <3>3. CASE wk[w].pc # "create"
      <4>1. hit'[q]  BY <3>a, <3>3
      <4>2. Placed(q)'  BY <1>3, <1>5, <2>0, <3>1 DEF RcpInv, Placed, At
      <4>3. Progress(q) => Progress(q)'  BY <1>3, <2>0, <3>1 DEF Progress
      <4>5. QED  BY <1>5, <3>1, <4>1, <4>2, <4>3 DEF RcpInv
    <3>4. QED  BY <3>2, <3>3
  <2>7. CASE Throw(w)
    BY <1>6, <2>1, <2>7 DEF Throw, SameRow, SameNotes
  <2>8. QED  BY <2>2, <2>3, <2>4, <2>5, <2>6, <2>7 DEF WorkerStep
<1>9. QED  BY <1>7, <1>8

LEMMA RcpStep ==
  ASSUME SequenceAssumption, TypeInv, TypeInv', RcpSound, [Next]_vars PROVE RcpSound'
<1> SUFFICES ASSUME NEW q \in Recipients PROVE RcpInv(q)'  BY DEF RcpSound
<1> USE DEF rows, procs, notes
<1>1. RcpInv(q) /\ q # None  BY DEF RcpSound, SequenceAssumption
<1>2. /\ wk \in [Workers -> BusyWorker \cup {IdleWorker}]
      /\ rcp \in [Recipients -> RecipientStatus] /\ cur \in [Recipients -> Index]
      /\ at \in [Recipients -> {"none", "wait", "due"}]
      /\ hit \in [Recipients -> BOOLEAN] /\ LineType
  BY DEF TypeInv, WkType, RowType, NoteType
<1>3. ASSUME UNCHANGED <<rcp, cur, at, line, msg, wk, hit>> PROVE RcpInv(q)'
  BY <1>1, <1>3, Frame DEF SameRow, SameNotes, SameWorkers
<1>4. ASSUME NEW r \in Recipients, Due(r) PROVE RcpInv(q)'
  <2>1. r \notin ToSet(line)
    <3>1. Placed(r)  BY DEF RcpSound, RcpInv
    <3>2. QED  BY <1>4, <3>1 DEF Due, Placed
  <2>2. ToSet(line') = ToSet(line) \cup {r}  BY <1>2, <1>4, <2>1, AppendIs DEF Due, LineType
  <2>3. UNCHANGED <<rcp, cur, msg, wk, hit>>  BY <1>4 DEF Due
  <2>4. CASE q # r
    <3>1. SameRow(q)  BY <1>2, <1>4, <2>2, <2>3, <2>4 DEF Due, SameRow
    <3>2. QED  BY <1>1, <2>3, <3>1, Frame DEF SameNotes, SameWorkers
  <2>5. CASE q = r
    <3>1. rcp[q] = "ACTIVE" /\ at'[q] = "due"  BY <1>2, <1>4, <2>5 DEF Due
    <3>2. Placed(q)'  BY <1>1, <2>3, <3>1 DEF RcpInv, Placed
    <3>3. Progress(q) => Progress(q)'  BY <2>3 DEF Progress
    <3>4. Attended(q) => Attended(q)'  BY <2>3, <3>1 DEF Attended, Busy
    <3>6. QED  BY <1>1, <2>3, <3>2, <3>3, <3>4 DEF RcpInv
  <2>6. QED  BY <2>4, <2>5
<1>5. ASSUME NEW u \in Users, Enroll(u) PROVE RcpInv(q)'
  <2>1. UNCHANGED <<cur, line, msg, wk, hit>>  BY <1>5 DEF Enroll
  <2>2. CASE rcp'[q] = rcp[q] /\ at'[q] = at[q]
    BY <1>1, <2>1, <2>2, Frame DEF SameRow, SameNotes, SameWorkers
  <2>3. CASE rcp[q] = "NONE" /\ rcp'[q] = "ACTIVE" /\ at'[q] = "wait"
    <3>1. msg[q] = {} /\ q \notin ToSet(line)
      BY <1>1, <2>3 DEF RcpInv, Placed
    <3>2. Placed(q)'  BY <2>1, <2>3, <3>1 DEF Placed
    <3>3. Progress(q) => Progress(q)'  BY <2>1, <2>3 DEF Progress
    <3>4. Attended(q)'  BY <2>1, <2>3, <3>1 DEF Attended
    <3>5. QED  BY <1>1, <2>1, <3>1, <3>2, <3>3, <3>4 DEF RcpInv
  <2>4. QED  BY <1>2, <1>5, <2>2, <2>3 DEF Enroll
<1>8. ASSUME NEW w \in Workers, NEW r \in Recipients, NEW k \in Index, Fetch(w, r, k)
      PROVE  RcpInv(q)'
  <2>1. /\ \A v \in Workers \ {w} : wk'[v] = wk[v]
        /\ wk[w] = IdleWorker /\ wk'[w].pc = "load"
        /\ UNCHANGED <<rcp, cur, at, line, msg, hit>>
    BY <1>2, <1>8 DEF Fetch, BusyWorker, WorkerPcs
  <2>2. IdleWorker.pc = "idle"  BY DEF IdleWorker
  <2>3. Placed(q)'  BY <1>1, <2>1 DEF RcpInv, Placed, At
  <2>4. Progress(q) => Progress(q)'  BY <2>1 DEF Progress
  <2>5. Attended(q) => Attended(q)'  BY <2>1, <2>2 DEF Attended, Busy
  <2>7. QED  BY <1>1, <2>1, <2>3, <2>4, <2>5 DEF RcpInv
<1>9. CASE Crash
  <2>1. /\ \A w \in Workers : wk'[w] = IdleWorker
        /\ UNCHANGED <<rcp, cur, at, line, msg>>
    BY <1>9 DEF Crash
  <2>2. IdleWorker.pc = "idle" /\ IdleWorker.r # q  BY <1>1 DEF IdleWorker
  <2>3. ~hit'[q] => ~hit[q] /\ ~Busy(q, "advance") /\ ~Busy(q, "complete")
    BY <1>9 DEF Crash, Busy
  <2>4. Placed(q)'  BY <1>1, <2>1, <2>2 DEF RcpInv, Placed, At
  <2>5. Progress(q) => Progress(q)'  BY <2>1, <2>2 DEF Progress
  <2>6. ~hit'[q] /\ Attended(q) => Attended(q)'  BY <2>1, <2>3 DEF Attended
  <2>8. QED  BY <1>1, <2>1, <2>3, <2>4, <2>5, <2>6 DEF RcpInv
<1>10. ASSUME NEW w \in Workers, WorkerStep(w) \/ Catch(w) \/ Throw(w) PROVE RcpInv(q)'
  BY <1>10, RcpWorker
<1>11. CASE UNCHANGED vars  BY <1>3, <1>11 DEF vars
<1>12. QED
  BY <1>3, <1>4, <1>5, <1>8, <1>9, <1>10, <1>11 DEF Next, Ask, UserStep, SetStatus,
     UserThrow, FetchCheck, CheckStep, Look, PublishStep, FinishCheck, CheckThrow

\* Types, and what holds of every recipient.
THEOREM TypeCorrect == Spec => [](TypeInv /\ RcpSound)
<1>1. Init => TypeInv /\ RcpSound  BY SequenceAssumption, TypeInit, RcpInit
<1>2. TypeInv /\ RcpSound /\ [Next]_vars => (TypeInv /\ RcpSound)'
  BY SequenceAssumption, TypeStep, RcpStep
<1>3. QED  BY <1>1, <1>2, PTL DEF Spec

\* No step is passed over: every step before the current one has its message.
THEOREM NoneSkipped == Spec => []StepsAccounted
<1>1. RcpSound => StepsAccounted  BY DEF RcpSound, RcpInv, Progress, StepsAccounted
<1>2. QED  BY <1>1, TypeCorrect, PTL

\* Only a fault leaves a recipient where nobody takes it on.
THEOREM OnlyFaultsStick == Spec => []StuckByFault
<1>1. RcpSound => StuckByFault
  BY DEF RcpSound, RcpInv, Attended, Busy, StuckByFault, Stuck
<1>2. QED  BY <1>1, TypeCorrect, PTL

\* A message is created only by a step handler that is at the recipient.
LEMMA MsgSteps ==
  ASSUME TypeInv, [Next]_vars, NEW q \in Recipients, msg'[q] # msg[q]
  PROVE  \E w \in Workers : wk[w].r = q /\ wk[w].pc = "create"
<1> USE DEF rows, procs, notes
<1>1. ASSUME NEW w \in Workers, Create(w) PROVE wk[w].r = q /\ wk[w].pc = "create"
  BY <1>1 DEF Create, TypeInv, MsgType
<1>2. CASE UNCHANGED vars  BY <1>2 DEF vars
<1>3. QED
  BY <1>1, <1>2 DEF Next, Due, Ask, UserStep, Enroll, SetStatus, UserThrow, FetchCheck, CheckStep,
     Look, PublishStep, FinishCheck, CheckThrow, Fetch, WorkerStep, Load, Advance, Complete,
     Catch, Throw, Crash

-----------------------------------------------------------------------------
(* Jobs, and sequences at rest.                                            *)

LEMMA HeldInit == ASSUME SequenceAssumption, Init PROVE JobHeld /\ Quiet
BY DEF Init, JobHeld, Quiet, IdleWorker

LEMMA HeldReturn ==
  ASSUME TypeInv, JobHeld, NEW w \in Workers, wk[w].pc # "idle", NEW x \in {"none", "created"},
         wk' = [wk EXCEPT ![w] = IdleWorker], job' = [job EXCEPT ![wk[w].r][wk[w].k] = x]
  PROVE  JobHeld'
<1>1. /\ wk \in [Workers -> BusyWorker \cup {IdleWorker}]
      /\ job \in [Recipients -> [Index -> JobState]]
  BY DEF TypeInv, WkType, JobType
<1>2. wk'[w].pc = "idle" /\ \A v \in Workers \ {w} : wk'[v] = wk[v]
  BY <1>1 DEF IdleWorker
<1>3. ASSUME NEW v \in Workers, wk'[v].pc # "idle" PROVE job'[wk'[v].r][wk'[v].k] = "active"
  <2>1. v # w /\ wk'[v] = wk[v]  BY <1>2, <1>3
  <2>2. wk[v].r \in Recipients /\ wk[v].k \in Index  BY <1>3, <2>1, WorkerAt DEF TypeInv
  <2>3. job[wk[v].r][wk[v].k] = "active" /\ ~(wk[v].r = wk[w].r /\ wk[v].k = wk[w].k)
    BY <1>3, <2>1 DEF JobHeld
  <2>4. QED  BY <1>1, <2>1, <2>2, <2>3
<1>4. ASSUME NEW u \in Workers, NEW v \in Workers, wk'[u].pc # "idle", wk'[u].r = wk'[v].r,
             wk'[u].k = wk'[v].k
      PROVE  u = v
  <2>1. u # w /\ wk'[u] = wk[u]  BY <1>2, <1>4
  <2>2. CASE v # w  BY <1>2, <1>4, <2>1, <2>2 DEF JobHeld
  <2>3. CASE v = w
    <3>1. wk'[w].r = None /\ wk[u].r \in Recipients
      BY <1>1, <1>4, <2>1, WorkerAt DEF TypeInv, IdleWorker
    <3>2. QED  BY <1>4, <2>1, <2>3, <3>1, SequenceAssumption DEF SequenceAssumption
  <2>4. QED  BY <2>2, <2>3
<1>5. QED  BY <1>3, <1>4 DEF JobHeld

LEMMA HeldGoto ==
  ASSUME TypeInv, JobHeld, NEW w \in Workers, UNCHANGED job,
         \A v \in Workers : (wk'[v].pc = "idle" <=> wk[v].pc = "idle")
                            /\ wk'[v].r = wk[v].r /\ wk'[v].k = wk[v].k
  PROVE  JobHeld'
BY DEF JobHeld

LEMMA HeldStep ==
  ASSUME SequenceAssumption, TypeInv, JobHeld, [Next]_vars PROVE JobHeld'
<1> USE DEF rows, procs, notes
<1>1. /\ wk \in [Workers -> BusyWorker \cup {IdleWorker}]
      /\ job \in [Recipients -> [Index -> JobState]]
  BY DEF TypeInv, WkType, JobType
<1>2. ASSUME NEW w \in Workers, WorkerStep(w) \/ Catch(w) \/ Throw(w) PROVE JobHeld'
  <2>1. wk[w].pc # "idle"
    BY <1>2 DEF WorkerStep, Load, Create, Advance, Complete, Catch, Throw
  <2>2. wk[w] \in BusyWorker  BY <2>1, WorkerAt DEF TypeInv
  <2>3. CASE Return(w)  BY <2>1, <2>3, HeldReturn DEF Return
  <2>4. CASE Throw(w)  BY <2>1, <2>4, HeldReturn DEF Throw
  <2>5. ASSUME NEW l \in WorkerPcs, Goto(w, l), UNCHANGED job PROVE JobHeld'
    <3>1. wk'[w].pc = l /\ wk'[w].r = wk[w].r /\ wk'[w].k = wk[w].k /\ l # "idle"
      BY <1>1, <2>2, <2>5 DEF Goto, BusyWorker, WorkerPcs
    <3>2. \A v \in Workers \ {w} : wk'[v] = wk[v]  BY <1>1, <2>5 DEF Goto
    <3>3. QED  BY <2>1, <2>5, <3>1, <3>2, HeldGoto
  <2>6. CASE Load(w) /\ ~Return(w)
    <3>1. /\ wk'[w].pc \in {"create", "complete"} /\ wk'[w].r = wk[w].r /\ wk'[w].k = wk[w].k
          /\ UNCHANGED job /\ \A v \in Workers \ {w} : wk'[v] = wk[v]
      BY <1>1, <2>2, <2>6 DEF Load, BusyWorker
    <3>2. QED  BY <2>1, <3>1, HeldGoto
  <2>7. QED
    BY <1>2, <2>3, <2>4, <2>5, <2>6 DEF WorkerStep, Create, Advance, Complete, Catch,
       WorkerPcs
<1>3. ASSUME NEW w \in Workers, NEW r \in Recipients, NEW k \in Index, Fetch(w, r, k) PROVE JobHeld'
  <2>1. /\ wk[w].pc = "idle" /\ job[r][k] = "created" /\ job'[r][k] = "active"
        /\ wk'[w].pc = "load" /\ wk'[w].r = r /\ wk'[w].k = k
        /\ \A v \in Workers \ {w} : wk'[v] = wk[v]
        /\ \A q \in Recipients, j \in Index : job'[q][j] = "active" \/ job'[q][j] = job[q][j]
    BY <1>1, <1>3 DEF Fetch
  <2>2. \A v \in Workers : wk[v].pc # "idle" =>
          /\ wk[v].r \in Recipients /\ wk[v].k \in Index
          /\ job[wk[v].r][wk[v].k] = "active"
    BY WorkerAt DEF TypeInv, JobHeld
  <2>3. \A v \in Workers : wk'[v].pc # "idle" => job'[wk'[v].r][wk'[v].k] = "active"
    BY <2>1, <2>2
  <2>4. \A v \in Workers \ {w} : wk[v].pc = "idle" => wk[v].r = None
    BY <1>1 DEF BusyWorker, WorkerPcs, IdleWorker
  <2>5. \A v \in Workers \ {w} : ~(wk[v].r = r /\ wk[v].k = k)
    BY <2>1, <2>2, <2>4 DEF SequenceAssumption
  <2>6. QED  BY <2>1, <2>3, <2>5 DEF JobHeld
<1>4. ASSUME NEW t \in chk.todo, PublishStep(t) PROVE JobHeld'
  <2>1. \A r \in Recipients, k \in Index : job[r][k] = "active" => job'[r][k] = "active"
    BY <1>1, <1>4 DEF PublishStep, Offered
  <2>2. \A v \in Workers : wk[v].pc # "idle" => wk[v].r \in Recipients /\ wk[v].k \in Index
    BY WorkerAt DEF TypeInv
  <2>3. QED  BY <1>4, <2>1, <2>2 DEF PublishStep, JobHeld
<1>5. CASE Crash  BY <1>5 DEF Crash, JobHeld, IdleWorker
<1>6. ASSUME UNCHANGED <<wk, job>> PROVE JobHeld'  BY <1>6 DEF JobHeld
<1>7. CASE UNCHANGED vars  BY <1>6, <1>7 DEF vars
<1>8. QED
  BY <1>2, <1>3, <1>4, <1>5, <1>6, <1>7 DEF Next, Due, Ask, UserStep, Enroll, SetStatus, UserThrow,
     FetchCheck, CheckStep, Look, FinishCheck, CheckThrow

LEMMA QuietStep ==
  ASSUME SequenceAssumption, TypeInv, JobHeld, Quiet, [Next]_vars PROVE Quiet'
<1> SUFFICES ASSUME NEW s \in SequenceIds, quiet'[s] PROVE seq'[s] # "ACTIVE" /\ Resting(s)'
  BY DEF Quiet
<1> USE DEF rows, procs, notes
<1>1. /\ job \in [Recipients -> [Index -> JobState]] /\ quiet \in [SequenceIds -> BOOLEAN]
      /\ seq \in [SequenceIds -> SequenceStatus]
      /\ chk.todo \subseteq Recipients \X Index
  BY DEF TypeInv, JobType, NoteType, RowType, ChkType
<1>2. ASSUME NEW u \in Users, SetStatus(u) PROVE seq'[s] # "ACTIVE" /\ Resting(s)'
  <2>1. us[u].s \in SequenceIds /\ UNCHANGED <<job, chk>>
    BY <1>2 DEF SetStatus, TypeInv, UsType, BusyUser, IdleUser
  <2>2. CASE us[u].s = s
    <3>1. us[u].to # "ACTIVE" /\ Resting(s)  BY <1>1, <1>2, <2>2 DEF SetStatus
    <3>2. seq'[s] # "ACTIVE"  BY <1>1, <1>2, <2>2, <3>1 DEF SetStatus
    <3>3. QED  BY <2>1, <3>1, <3>2 DEF Resting
  <2>3. CASE us[u].s # s
    <3>1. quiet[s] /\ seq'[s] = seq[s]  BY <1>1, <1>2, <2>1, <2>3 DEF SetStatus
    <3>2. QED  BY <2>1, <3>1 DEF Quiet, Resting
  <2>4. QED  BY <2>2, <2>3
\* Elsewhere the sequence's status stays, and what is known of it was known before.
<1>3. ASSUME UNCHANGED <<seq, quiet>>,
             \A r \in Recipients : SequenceOf(r) = s /\ seq[s] # "ACTIVE" /\ Resting(s) =>
               /\ \A k \in Index : job'[r][k] = "none"
               /\ \A t \in chk'.todo : t[1] # r
      PROVE  seq'[s] # "ACTIVE" /\ Resting(s)'
  BY <1>3 DEF Quiet, Resting
<1>4. ASSUME UNCHANGED <<seq, quiet, job, chk>> PROVE seq'[s] # "ACTIVE" /\ Resting(s)'
  BY <1>3, <1>4 DEF Resting
<1>5. CASE FetchCheck \/ FinishCheck \/ CheckThrow
  <2>1. chk'.todo = {} /\ UNCHANGED <<seq, quiet, job>>
    BY <1>5 DEF FetchCheck, FinishCheck, CheckThrow, IdleCheck
  <2>2. QED  BY <1>3, <2>1 DEF Resting
<1>6. CASE Look
  <2>1. chk'.todo = Eligible /\ UNCHANGED <<seq, quiet, job>>  BY <1>6 DEF Look
  <2>2. \A t \in Eligible : seq[SequenceOf(t[1])] = "ACTIVE"  BY DEF Eligible
  <2>3. QED  BY <1>3, <2>1, <2>2 DEF Resting
<1>7. ASSUME NEW t \in chk.todo, PublishStep(t) PROVE seq'[s] # "ACTIVE" /\ Resting(s)'
  <2>1. UNCHANGED <<seq, quiet>> /\ chk'.todo \subseteq chk.todo
    BY <1>7 DEF PublishStep, TypeInv, ChkType
  <2>2. \A r \in Recipients : r # t[1] => job'[r] = job[r]  BY <1>1, <1>7 DEF PublishStep
  <2>3. QED  BY <1>3, <2>1, <2>2 DEF Resting
<1>8. ASSUME NEW w \in Workers, NEW r \in Recipients, NEW k \in Index, Fetch(w, r, k)
      PROVE  seq'[s] # "ACTIVE" /\ Resting(s)'
  <2>1. UNCHANGED <<seq, quiet, chk>> /\ job[r][k] = "created"
        /\ \A q \in Recipients \ {r} : job'[q] = job[q]
    BY <1>1, <1>8 DEF Fetch
  <2>2. QED  BY <1>3, <2>1 DEF Resting
<1>9. ASSUME NEW w \in Workers, WorkerStep(w) \/ Catch(w) \/ Throw(w)
      PROVE  seq'[s] # "ACTIVE" /\ Resting(s)'
  <2>1. UNCHANGED <<seq, quiet, chk>>
    BY <1>9 DEF WorkerStep, Load, Create, Advance, Complete, Catch, Throw
  <2>2. wk[w].pc # "idle"
    BY <1>9 DEF WorkerStep, Load, Create, Advance, Complete, Catch, Throw
  <2>3. wk[w].r \in Recipients /\ wk[w].k \in Index /\ job[wk[w].r][wk[w].k] = "active"
    BY <2>2, WorkerAt DEF TypeInv, JobHeld
  <2>4. \A q \in Recipients \ {wk[w].r} : job'[q] = job[q]
    BY <1>1, <1>9 DEF WorkerStep, Load, Create, Advance, Complete, Catch, Throw, Return
  <2>5. QED  BY <1>3, <2>1, <2>3, <2>4 DEF Resting
<1>10. CASE Crash
  <2>1. chk'.todo = {} /\ UNCHANGED <<seq, quiet>>
        /\ \A r \in Recipients, k \in Index : job[r][k] = "none" => job'[r][k] = "none"
    BY <1>10 DEF Crash, IdleCheck
  <2>2. QED  BY <1>3, <2>1 DEF Resting
<1>11. CASE UNCHANGED vars  BY <1>4, <1>11 DEF vars
<1>12. QED
  BY <1>2, <1>4, <1>5, <1>6, <1>7, <1>8, <1>9, <1>10, <1>11 DEF Next, Due, Ask, UserStep, Enroll,
     UserThrow, CheckStep

\* A step handler runs an active job of its own; a sequence stopped at rest stays at rest.
THEOREM RestCorrect == Spec => [](JobHeld /\ Quiet)
<1>1. Init => JobHeld /\ Quiet  BY SequenceAssumption, HeldInit
<1>2. TypeInv /\ JobHeld /\ Quiet /\ [Next]_vars => (JobHeld /\ Quiet)'
  BY SequenceAssumption, HeldStep, QuietStep
<1>3. QED  BY <1>1, <1>2, TypeCorrect, PTL DEF Spec

\* A sequence that is stopped while nothing of it is under way sends nothing until it is active.
THEOREM StopIsFinal == Spec => StopHolds
<1>1. ASSUME TypeInv, JobHeld, Quiet, [Next]_vars, NEW r \in Recipients, quiet[SequenceOf(r)]
      PROVE  msg'[r] = msg[r]
  <2>1. \A k \in Index : job[r][k] = "none"
    BY <1>1, SequenceAssumption DEF Quiet, Resting, SequenceAssumption
  <2>2. ASSUME NEW w \in Workers, wk[w].r = r, wk[w].pc = "create" PROVE FALSE
    <3>1. wk[w].k \in Index /\ job[r][wk[w].k] = "active"
      BY <1>1, <2>2, WorkerAt DEF TypeInv, JobHeld
    <3>2. QED  BY <2>1, <3>1
  <2>3. QED  BY <1>1, <2>2, MsgSteps
<1>2. TypeInv /\ JobHeld /\ Quiet /\ [Next]_vars
        => [\A r \in Recipients : quiet[SequenceOf(r)] => msg'[r] = msg[r]]_vars
  BY <1>1
<1>3. QED  BY <1>2, TypeCorrect, RestCorrect, PTL DEF Spec, StopHolds
=============================================================================
