---------------------------- MODULE BillingProofs ----------------------------
(***************************************************************************)
(* Theorems about a subscription, for any number of overlapping crons and  *)
(* requests, any plans, periods and retries, and any faults.               *)
(***************************************************************************)
EXTENDS Billing, FiniteSetTheorems, TLAPS

CronRecord == [pc : CronPcs \cup {"idle"}, p : Days, plan : Plans, n : 0 .. MaxRetries - 1]
UserRecord == [pc : {"idle", "cancel", "reactivate", "schedule", "clear", "upgrade", "activate"},
               plan : Plans, at : Nat]
ChargeTable == [Days -> [0 .. MaxRetries -> {"none", "ok", "declined"}]]

CrType == cr \in [Crons -> CronRecord]
UsType == us \in [Users -> UserRecord]
PayType == pay \in [Days -> PaymentStatus]
ChargeType == charge \in ChargeTable
RowType ==
  /\ status \in Status /\ plan \in Plans /\ ends \in Nat
  /\ next \in [plan : Plans, at : Nat] \cup {NoChange}

\* The local states that are written as a whole.
LEMMA Idles ==
  ASSUME BillingAssumption PROVE IdleCron \in CronRecord /\ IdleUser \in UserRecord
BY DEF BillingAssumption, IdleCron, IdleUser, CronRecord, UserRecord, Days, Plans

LEMMA Types ==
  ASSUME TypeOK PROVE CrType /\ UsType /\ PayType /\ ChargeType /\ RowType
BY DEF TypeOK, CrType, UsType, PayType, ChargeType, RowType, CronRecord, UserRecord, ChargeTable

LEMMA Goes ==
  ASSUME TypeOK, NEW c \in Crons, NEW l \in CronPcs, Goto(c, l)
  PROVE  CrType'
<1>1. CrType  BY Types
<1>2. [cr[c] EXCEPT !.pc = l] \in CronRecord  BY <1>1 DEF CrType, CronRecord
<1>3. cr' = [cr EXCEPT ![c] = [cr[c] EXCEPT !.pc = l]]  BY DEF Goto
<1>4. QED  BY <1>1, <1>2, <1>3 DEF CrType

LEMMA Finishes ==
  ASSUME BillingAssumption, TypeOK, NEW c \in Crons, Finish(c) PROVE CrType'
BY Types, Idles DEF Finish, CrType

LEMMA Starts ==
  ASSUME TypeOK, NEW c \in Crons, NEW x \in CronRecord, cr' = [cr EXCEPT ![c] = x]
  PROVE  CrType'
BY Types DEF CrType

LEMMA UserSet ==
  ASSUME TypeOK, NEW u \in Users, NEW x \in UserRecord, us' = [us EXCEPT ![u] = x]
  PROVE  UsType'
BY Types DEF UsType

LEMMA PaymentSet ==
  ASSUME TypeOK, NEW p, NEW from, NEW to \in PaymentStatus, SetsPayment(p, from, to)
  PROVE  PayType'
BY Types DEF SetsPayment, PayType

LEMMA ChargeSet ==
  ASSUME TypeOK, NEW p \in Days, NEW n \in 0 .. MaxRetries, NEW r \in {"ok", "declined"},
         Charge(p, n, r)
  PROVE  ChargeType'
<1>1. ChargeType  BY Types
<1>2. [charge[p] EXCEPT ![n] = r] \in [0 .. MaxRetries -> {"none", "ok", "declined"}]
  BY <1>1 DEF ChargeType, ChargeTable
<1>3. charge' = [charge EXCEPT ![p] = [charge[p] EXCEPT ![n] = r]]  BY DEF Charge
<1>4. QED  BY <1>1, <1>2, <1>3 DEF ChargeType, ChargeTable

LEMMA RowSets ==
  ASSUME TypeOK, NEW from, NEW to \in Status, NEW end \in Nat, Sets(from, to, end)
  PROVE  status' \in Status /\ ends' \in Nat
BY Types DEF Sets, RowType

LEMMA TypeInit == ASSUME BillingAssumption, Init PROVE TypeOK
<1>1. CrType /\ UsType  BY Idles DEF Init, CrType, UsType
<1>2. ChargeType  BY DEF Init, ChargeType, ChargeTable
<1>3. PayType /\ retry \in [Days -> Nat] /\ day \in Days
  BY DEF Init, PayType, PaymentStatus, Days, BillingAssumption
<1>4. RowType  BY DEF Init, RowType, Status, BillingAssumption
<1>5. requests \in 0 .. MaxRequests /\ faults \in 0 .. MaxFaults
  BY DEF Init, BillingAssumption
<1>6. renewals \in SUBSET Days /\ calm \in BOOLEAN /\ unclear \in SUBSET Days  BY DEF Init
<1>7. QED
  BY <1>1, <1>2, <1>3, <1>4, <1>5, <1>6 DEF TypeOK, CrType, UsType, CronRecord, UserRecord,
     ChargeType, ChargeTable, PayType, RowType

LEMMA AskType ==
  ASSUME BillingAssumption, TypeOK, NEW u \in Users,
         \/ AskCancel(u) \/ AskReactivate(u)
         \/ \E n \in Plans : AskChange(u, n) \/ AskActivate(u, n)
  PROVE  TypeOK'
<1> USE DEF row, money, notes
<1>1. requests' \in 0 .. MaxRequests
  BY DEF AskCancel, AskReactivate, AskChange, AskActivate, TypeOK, BillingAssumption
<1>2. us[u] \in UserRecord /\ ends \in Nat  BY Types DEF UsType, RowType
<1>3. UsType'
  <2>1. ASSUME NEW l \in {"cancel", "reactivate"}, us' = [us EXCEPT ![u].pc = l] PROVE UsType'
    <3>1. [us[u] EXCEPT !.pc = l] \in UserRecord  BY <1>2 DEF UserRecord
    <3>2. us' = [us EXCEPT ![u] = [us[u] EXCEPT !.pc = l]]  BY <2>1
    <3>3. QED  BY <3>1, <3>2, UserSet
  <2>2. ASSUME NEW n \in Plans, AskChange(u, n) PROVE UsType'
    <3>1. \E l \in {"schedule", "clear", "upgrade"} :
            us' = [us EXCEPT ![u] = [pc |-> l, plan |-> n, at |-> ends]]
      <4>1. CASE n < plan
        <5>1. ~ (n > plan)  BY <4>1 DEF TypeOK, Plans, BillingAssumption
        <5>2. QED  BY <2>2, <4>1, <5>1 DEF AskChange
      <4>2. CASE ~ (n < plan) /\ n > plan /\ next # NoChange  BY <2>2, <4>2 DEF AskChange
      <4>3. CASE ~ (n < plan) /\ ~ (n > plan /\ next # NoChange)  BY <2>2, <4>3 DEF AskChange
      <4>4. QED  BY <4>1, <4>2, <4>3
    <3>2. \A l \in {"schedule", "clear", "upgrade"} :
            [pc |-> l, plan |-> n, at |-> ends] \in UserRecord
      BY <1>2 DEF UserRecord
    <3>3. QED  BY <3>1, <3>2, UserSet
  <2>3. ASSUME NEW n \in Plans, AskActivate(u, n) PROVE UsType'
    <3>1. [us[u] EXCEPT !.pc = "activate", !.plan = n] \in UserRecord  BY <1>2 DEF UserRecord
    <3>2. us' = [us EXCEPT ![u] = [us[u] EXCEPT !.pc = "activate", !.plan = n]]
      BY <2>3 DEF AskActivate
    <3>3. QED  BY <3>1, <3>2, UserSet
  <2>4. QED  BY <2>1, <2>2, <2>3 DEF AskCancel, AskReactivate
<1>4. QED
  BY <1>1, <1>3 DEF AskCancel, AskReactivate, AskChange, AskActivate, TypeOK, UsType, UserRecord

LEMMA UserStepType ==
  ASSUME BillingAssumption, TypeOK, NEW u \in Users, UserStep(u) \/ UserThrow(u)
  PROVE  TypeOK'
<1> USE DEF row, money, notes
<1>1. us[u] \in UserRecord /\ RowType  BY Types DEF UsType
<1>2. UsType'
  <2>1. [us[u] EXCEPT !.pc = "upgrade"] \in UserRecord  BY <1>1 DEF UserRecord
  <2>2. Clear(u) => us' = [us EXCEPT ![u] = [us[u] EXCEPT !.pc = "upgrade"]]  BY DEF Clear
  <2>3. QED
    BY <2>1, <2>2, UserSet, Idles DEF UserStep, Cancel, Reactivate, Schedule, Upgrade, Activate,
       UserThrow
<1>3. day + Period \in Nat  BY DEF TypeOK, Days, BillingAssumption
<1>4. CASE Cancel(u)
  <2>1. status' \in Status /\ ends' \in Nat  BY <1>1, <1>4, RowSets DEF Cancel, Status, RowType
  <2>2. calm' \in BOOLEAN /\ next' \in {next, NoChange}  BY <1>4 DEF Cancel, TypeOK
  <2>3. QED  BY <1>2, <1>4, <2>1, <2>2 DEF Cancel, TypeOK, UsType, UserRecord
<1>5. CASE Reactivate(u)
  <2>1. status' \in Status /\ ends' \in Nat  BY <1>3, <1>5, RowSets DEF Reactivate, Status
  <2>2. QED  BY <1>2, <1>5, <2>1 DEF Reactivate, TypeOK, UsType, UserRecord
<1>6. CASE Schedule(u)
  <2>1. next' \in [plan : Plans, at : Nat] \cup {NoChange}
    BY <1>1, <1>6 DEF Schedule, RowType, UserRecord
  <2>2. QED  BY <1>2, <1>6, <2>1 DEF Schedule, TypeOK, UsType, UserRecord
<1>7. CASE Clear(u)  BY <1>2, <1>7 DEF Clear, TypeOK, UsType, UserRecord
<1>8. CASE Upgrade(u)
  <2>1. plan' \in Plans  BY <1>1, <1>8 DEF Upgrade, RowType, UserRecord
  <2>2. QED  BY <1>2, <1>8, <2>1 DEF Upgrade, TypeOK, UsType, UserRecord
<1>9. CASE Activate(u)
  <2>1. status' \in Status /\ ends' \in Nat  BY <1>3, <1>9, RowSets DEF Activate, Status
  <2>2. plan' \in Plans  BY <1>1, <1>9 DEF Activate, RowType, UserRecord
  <2>3. QED  BY <1>2, <1>9, <2>1, <2>2 DEF Activate, TypeOK, UsType, UserRecord
<1>10. CASE UserThrow(u)
  <2>1. faults' \in 0 .. MaxFaults  BY <1>10 DEF UserThrow, Fault, TypeOK, BillingAssumption
  <2>2. QED  BY <1>2, <1>10, <2>1 DEF UserThrow, TypeOK, UsType, UserRecord
<1>11. QED  BY <1>4, <1>5, <1>6, <1>7, <1>8, <1>9, <1>10 DEF UserStep

LEMMA FindType ==
  ASSUME BillingAssumption, TypeOK, NEW c \in Crons, Find(c)
  PROVE  TypeOK'
<1> USE DEF row, money, notes
<1>1. day \in Days /\ plan \in Plans /\ next \in [plan : Plans, at : Nat] \cup {NoChange}
  BY DEF TypeOK
<1>2. IdleCron \in CronRecord  BY Idles
<1>3. CrType'
  <2>1. CASE FindDueForRenewal(c)
    <3>1. \A l \in CronPcs : [IdleCron EXCEPT !.pc = l, !.p = day, !.plan = plan] \in CronRecord
      BY <1>1, <1>2 DEF CronRecord, IdleCron
    <3>2. "complete" \in CronPcs /\ "create" \in CronPcs  BY DEF CronPcs, RenewalPcs
    <3>3. QED  BY <2>1, <3>1, <3>2, Starts DEF FindDueForRenewal
  <2>2. ASSUME NEW p \in Days, FindPaymentsForRetry(c, p) PROVE CrType'
    <3>1. retry[p] \in 0 .. MaxRetries - 1
      BY <2>2 DEF FindPaymentsForRetry, Retriable, TypeOK, BillingAssumption
    <3>2. [IdleCron EXCEPT !.pc = "recharge", !.p = p, !.n = retry[p]] \in CronRecord
      BY <1>2, <3>1 DEF CronRecord, IdleCron, CronPcs
    <3>3. QED  BY <2>2, <3>2, Starts DEF FindPaymentsForRetry
  <2>3. CASE FindExpiredTrial(c)
    <3>1. [IdleCron EXCEPT !.pc = "trial", !.plan = plan] \in CronRecord
      BY <1>1, <1>2 DEF CronRecord, IdleCron, CronPcs
    <3>2. QED  BY <2>3, <3>1, Starts DEF FindExpiredTrial
  <2>4. CASE FindExpiredGracePeriod(c)
    BY <2>4, Goes DEF FindExpiredGracePeriod, CronPcs
  <2>5. CASE FindScheduledDowngrade(c)
    <3>1. [IdleCron EXCEPT !.pc = "apply", !.plan = next.plan] \in CronRecord
      BY <1>1, <1>2, <2>5 DEF FindScheduledDowngrade, CronRecord, IdleCron, CronPcs
    <3>2. QED  BY <2>5, <3>1, Starts DEF FindScheduledDowngrade
  <2>6. QED  BY <2>1, <2>2, <2>3, <2>4, <2>5 DEF Find
<1>4. /\ UNCHANGED <<day, row, money, us, requests, renewals, calm, faults>>
      /\ unclear' \in SUBSET Days
  BY DEF Find, FindDueForRenewal, FindPaymentsForRetry, FindExpiredTrial, FindExpiredGracePeriod,
     FindScheduledDowngrade, TypeOK
<1>5. QED  BY <1>3, <1>4 DEF TypeOK, CrType, CronRecord

LEMMA CronStepType ==
  ASSUME BillingAssumption, TypeOK, NEW c \in Crons, CronStep(c) \/ Unanswered(c) \/ CronThrow(c)
  PROVE  TypeOK'
<1> USE DEF row, money, notes
<1>1. cr[c] \in CronRecord /\ RowType  BY Types DEF CrType
<1>2. /\ cr[c].p \in Days /\ cr[c].plan \in Plans
      /\ cr[c].n + 1 \in 0 .. MaxRetries /\ 0 \in 0 .. MaxRetries
  BY <1>1 DEF CronRecord, BillingAssumption
<1>3. \A l \in {"process", "charge", "mark", "complete", "fail", "schedule", "settle",
               "unschedule"} : Goto(c, l) => CrType'
  BY Goes DEF CronPcs, RenewalPcs
<1>4. Finish(c) => CrType'  BY Finishes
<1>5. CrType'
  BY <1>3, <1>4 DEF CronStep, CreatePayment, Process, ChargeRenewal, MarkSucceeded,
     CompleteRenewal, MarkFailed, SchedulePaymentRetry, Recharge, Settle, EndTrial, EndGrace,
     ApplyDowngrade, ClearScheduled, Unanswered, CronThrow
<1>6. PayType'
  <2>1. CASE CreatePayment(c)  BY <2>1, Types DEF CreatePayment, PayType, PaymentStatus
  <2>2. CASE Process(c) \/ MarkSucceeded(c) \/ MarkFailed(c) \/ Settle(c)
    BY <2>2, PaymentSet DEF Process, MarkSucceeded, MarkFailed, Settle, PaymentStatus
  <2>3. CASE UNCHANGED pay  BY <2>3, Types DEF PayType
  <2>4. QED
    BY <2>1, <2>2, <2>3 DEF CronStep, ChargeRenewal, CompleteRenewal, SchedulePaymentRetry,
       Recharge, EndTrial, EndGrace, ApplyDowngrade, ClearScheduled, Unanswered, CronThrow
<1>7. ChargeType'
  <2>1. CASE ChargeRenewal(c) \/ Recharge(c)
    BY <1>2, <2>1, ChargeSet DEF ChargeRenewal, Recharge
  <2>2. CASE UNCHANGED charge  BY <2>2, Types DEF ChargeType
  <2>3. CASE Unanswered(c)  BY <1>2, <2>2, <2>3, ChargeSet DEF Unanswered
  <2>4. QED
    BY <2>1, <2>2, <2>3 DEF CronStep, CreatePayment, Process, MarkSucceeded, CompleteRenewal,
       MarkFailed, SchedulePaymentRetry, Settle, EndTrial, EndGrace, ApplyDowngrade,
       ClearScheduled, CronThrow
<1>8. retry' \in [Days -> Nat]
  BY <1>2 DEF TypeOK, CronStep, CreatePayment, Process, ChargeRenewal, MarkSucceeded,
     CompleteRenewal, MarkFailed, SchedulePaymentRetry, Recharge, Settle, EndTrial, EndGrace,
     ApplyDowngrade, ClearScheduled, Unanswered, CronThrow
<1>9. RowType'
  <2>1. cr[c].p + Period \in Nat /\ day + Grace \in Nat
    BY <1>2 DEF Days, TypeOK, BillingAssumption
  <2>2. CASE CompleteRenewal(c)
    BY <1>1, <2>1, <2>2, RowSets DEF CompleteRenewal, Status, RowType
  <2>3. CASE EndTrial(c) \/ EndGrace(c)
    BY <1>1, <2>1, <2>3, RowSets DEF EndTrial, EndGrace, Status, RowType
  <2>4. CASE ApplyDowngrade(c) \/ ClearScheduled(c)
    BY <1>1, <1>2, <2>4 DEF ApplyDowngrade, ClearScheduled, RowType
  <2>5. CASE UNCHANGED row  BY <1>1, <2>5 DEF RowType
  <2>6. QED
    BY <2>2, <2>3, <2>4, <2>5 DEF CronStep, CreatePayment, Process, ChargeRenewal, MarkSucceeded,
       MarkFailed, SchedulePaymentRetry, Recharge, Settle, Unanswered, CronThrow
<1>10. /\ renewals' \in SUBSET Days /\ unclear' \in SUBSET Days /\ faults' \in 0 .. MaxFaults
       /\ UNCHANGED <<day, us, requests, calm>>
  <2>1. CASE CompleteRenewal(c)  BY <1>2, <2>1 DEF CompleteRenewal, TypeOK
  <2>2. CASE Unanswered(c)  BY <1>2, <2>2 DEF Unanswered, Fault, TypeOK, BillingAssumption
  <2>3. CASE CronThrow(c)  BY <2>3 DEF CronThrow, Fault, TypeOK, BillingAssumption
  <2>4. CASE UNCHANGED <<day, us, requests, notes, faults>>  BY <2>4 DEF TypeOK
  <2>5. QED
    BY <2>1, <2>2, <2>3, <2>4 DEF CronStep, CreatePayment, Process, ChargeRenewal, MarkSucceeded,
       MarkFailed, SchedulePaymentRetry, Recharge, Settle, EndTrial, EndGrace, ApplyDowngrade,
       ClearScheduled
<1>11. QED
  BY <1>5, <1>6, <1>7, <1>8, <1>9, <1>10 DEF TypeOK, CrType, CronRecord, PayType, ChargeType,
     ChargeTable, RowType

LEMMA OthersType == ASSUME BillingAssumption, TypeOK, Tick \/ Crash PROVE TypeOK'
<1> USE DEF row, money, notes
<1>1. CASE Tick
  <2>1. day' \in Days  BY <1>1 DEF Tick, TypeOK, Days, BillingAssumption
  <2>2. QED  BY <1>1, <2>1 DEF Tick, TypeOK
<1>2. CASE Crash
  <2>1. CrType' /\ UsType'  BY <1>2, Idles DEF Crash, CrType, UsType
  <2>2. faults' \in 0 .. MaxFaults  BY <1>2 DEF Crash, Fault, TypeOK, BillingAssumption
  <2>3. QED
    BY <1>2, <2>1, <2>2 DEF Crash, TypeOK, CrType, UsType, CronRecord, UserRecord
<1>3. QED  BY <1>1, <1>2

\* No field is ever written with anything but a value of its type; in
\* particular no charge has a key beyond the last retry.
THEOREM TypeCorrect == Spec => []TypeOK
<1>1. Init => TypeOK  BY TypeInit, BillingAssumption
<1>2. TypeOK /\ [Next]_vars => TypeOK'
  <2> SUFFICES ASSUME TypeOK, [Next]_vars PROVE TypeOK'  OBVIOUS
  <2>1. CASE UNCHANGED vars  BY <2>1 DEF vars, row, money, notes, TypeOK
  <2>2. CASE Next
    BY <2>2, AskType, UserStepType, FindType, CronStepType, OthersType, BillingAssumption DEF Next
  <2>3. QED  BY <2>1, <2>2
<1>3. QED  BY <1>1, <1>2, PTL DEF Spec

-----------------------------------------------------------------------------
(* RenewedIfPaid and CancelHolds                                           *)

\* A charge that has a result keeps it.
ResultsStay ==
  \A p \in Days, n \in 0 .. MaxRetries : charge[p][n] # "none" => charge'[p][n] = charge[p][n]

\* What a run of the cron may go on to.
Continues(c) ==
  \/ cr'[c] = cr[c]
  \/ cr'[c].pc \notin RenewalPcs
  \/ FindDueForRenewal(c)
  \/ /\ cr[c].pc \in RenewalPcs /\ cr'[c].p = cr[c].p /\ cr'[c].plan = cr[c].plan
     /\ \/ cr'[c].pc \in {"process", "charge", "fail"}
        \/ cr'[c].pc = "mark" /\ charge'[cr[c].p][0] = "ok"
        \/ cr'[c].pc = "complete" /\ cr[c].pc = "mark"

LEMMA Charged ==
  ASSUME TypeOK, NEW p \in Days, NEW n \in 0 .. MaxRetries, NEW r \in {"ok", "declined"},
         Charge(p, n, r)
  PROVE  ResultsStay /\ charge'[p][n] = r
<1>1. charge \in ChargeTable  BY Types DEF ChargeType
<1>2. charge' = [charge EXCEPT ![p] = [charge[p] EXCEPT ![n] = r]] /\ charge[p][n] \in {"none", r}
  BY DEF Charge
<1>3. \A q \in Days, k \in 0 .. MaxRetries :
        charge'[q][k] = IF q = p /\ k = n THEN r ELSE charge[q][k]
  BY <1>1, <1>2 DEF ChargeTable
<1>4. QED  BY <1>2, <1>3 DEF ResultsStay

LEMMA ChargesStay == ASSUME BillingAssumption, TypeOK, [Next]_vars PROVE ResultsStay
<1> USE DEF money
<1>1. CASE UNCHANGED charge  BY <1>1 DEF ResultsStay
<1>2. ASSUME NEW c \in Crons, ChargeRenewal(c) \/ Recharge(c) \/ Unanswered(c) PROVE ResultsStay
  <2>1. /\ cr[c].p \in Days /\ 0 \in 0 .. MaxRetries /\ cr[c].n + 1 \in 0 .. MaxRetries
    BY DEF TypeOK, BillingAssumption
  <2>2. QED  BY <1>1, <1>2, <2>1, Charged DEF ChargeRenewal, Recharge, Unanswered
<1>3. QED
  <2>1. ASSUME NEW c \in Crons, CronStep(c) PROVE ResultsStay
    BY <1>1, <1>2, <2>1 DEF CronStep, CreatePayment, Process, MarkSucceeded, CompleteRenewal,
       MarkFailed, SchedulePaymentRetry, Settle, EndTrial, EndGrace, ApplyDowngrade, ClearScheduled
  <2>2. ASSUME NEW c \in Crons, Find(c) \/ CronThrow(c) PROVE ResultsStay
    BY <1>1, <2>2 DEF Find, FindDueForRenewal, FindPaymentsForRetry, FindExpiredTrial,
       FindExpiredGracePeriod, FindScheduledDowngrade, CronThrow
  <2>3. ASSUME NEW u \in Users, UserStep(u) PROVE ResultsStay
    BY <1>1, <2>3 DEF UserStep, Cancel, Reactivate, Schedule, Clear, Upgrade, Activate
  <2>4. QED
    BY <1>1, <1>2, <2>1, <2>2, <2>3 DEF Next, vars, Tick, AskCancel, AskReactivate, UserThrow,
       AskChange, AskActivate, Crash

LEMMA CronMoves ==
  ASSUME BillingAssumption, TypeOK, [Next]_vars, NEW d \in Crons
  PROVE  Continues(d)
<1> USE DEF Continues
<1>1. cr \in [Crons -> CronRecord]  BY Types DEF CrType
<1>2. CASE UNCHANGED cr  BY <1>2
<1>3. ASSUME NEW c \in Crons, Finish(c) PROVE Continues(d)
  BY <1>1, <1>3 DEF Finish, IdleCron, RenewalPcs
<1>4. ASSUME NEW c \in Crons, NEW l, Goto(c, l)
      PROVE  /\ cr'[c].pc = l /\ cr'[c].p = cr[c].p /\ cr'[c].plan = cr[c].plan
             /\ c # d => cr'[d] = cr[d]
  BY <1>1, <1>4 DEF Goto, CronRecord
<1>5. ASSUME NEW c \in Crons, Find(c) PROVE Continues(d)
  <2>1. ASSUME NEW x, cr' = [cr EXCEPT ![c] = x], x.pc \notin RenewalPcs PROVE Continues(d)
    BY <1>1, <2>1
  <2>2. CASE FindDueForRenewal(c)  BY <1>1, <2>2 DEF FindDueForRenewal
  <2>3. ASSUME NEW p \in Days, FindPaymentsForRetry(c, p) PROVE Continues(d)
    BY <2>1, <2>3 DEF FindPaymentsForRetry, RenewalPcs, IdleCron
  <2>4. CASE FindExpiredTrial(c)  BY <2>1, <2>4 DEF FindExpiredTrial, RenewalPcs, IdleCron
  <2>5. CASE FindExpiredGracePeriod(c)
    BY <1>4, <2>5 DEF FindExpiredGracePeriod, RenewalPcs
  <2>6. CASE FindScheduledDowngrade(c)
    BY <2>1, <2>6 DEF FindScheduledDowngrade, RenewalPcs, IdleCron
  <2>7. QED  BY <1>5, <2>2, <2>3, <2>4, <2>5, <2>6 DEF Find
<1>6. ASSUME NEW c \in Crons, CreatePayment(c) \/ Process(c) PROVE Continues(d)
  BY <1>3, <1>4, <1>6 DEF CreatePayment, Process, RenewalPcs
<1>7. ASSUME NEW c \in Crons, ChargeRenewal(c) PROVE Continues(d)
  <2>1. cr[c].p \in Days /\ 0 \in 0 .. MaxRetries  BY DEF TypeOK, BillingAssumption
  <2>2. CASE Charge(cr[c].p, 0, "ok") /\ Goto(c, "mark")
    BY <1>4, <1>7, <2>1, <2>2, Charged DEF ChargeRenewal, RenewalPcs
  <2>3. CASE Goto(c, "fail")  BY <1>4, <1>7, <2>3 DEF ChargeRenewal, RenewalPcs
  <2>4. QED  BY <1>7, <2>2, <2>3 DEF ChargeRenewal
<1>8. ASSUME NEW c \in Crons, MarkSucceeded(c) PROVE Continues(d)
  BY <1>4, <1>8 DEF MarkSucceeded, RenewalPcs
<1>9. ASSUME NEW c \in Crons, MarkFailed(c) \/ Recharge(c) \/ ApplyDowngrade(c)
      PROVE  Continues(d)
  BY <1>4, <1>9 DEF MarkFailed, Recharge, ApplyDowngrade, RenewalPcs
<1>10. ASSUME NEW c \in Crons, Unanswered(c) PROVE Continues(d)
  <2>1. CASE cr[c].pc = "charge"  BY <1>4, <1>10, <2>1 DEF Unanswered, RenewalPcs
  <2>2. CASE cr[c].pc = "recharge"  BY <1>4, <1>10, <2>2 DEF Unanswered, RenewalPcs
  <2>3. QED  BY <1>10, <2>1, <2>2 DEF Unanswered
<1>11. CASE Crash  BY <1>1, <1>11 DEF Crash, IdleCron, RenewalPcs
<1>12. QED
  <2>1. ASSUME NEW c \in Crons, CronStep(c) \/ CronThrow(c) PROVE Continues(d)
    BY <1>3, <1>6, <1>7, <1>8, <1>9, <2>1 DEF CronStep, CompleteRenewal, SchedulePaymentRetry,
       Settle, EndTrial, EndGrace, ClearScheduled, CronThrow
  <2>2. ASSUME NEW u \in Users, UserStep(u) PROVE Continues(d)
    BY <1>2, <2>2 DEF UserStep, Cancel, Reactivate, Schedule, Clear, Upgrade, Activate
  <2>3. QED
    BY <1>2, <1>5, <1>10, <1>11, <2>1, <2>2 DEF Next, vars, Tick, AskCancel, AskReactivate,
       UserThrow, AskChange, AskActivate

\* A run of the cron that marks or completes a paid renewal has charged it.
Paid ==
  \A c \in Crons :
    cr[c].pc = "mark" \/ (cr[c].pc = "complete" /\ cr[c].plan > 0) => charge[cr[c].p][0] = "ok"

LEMMA PaidSets ==
  ASSUME BillingAssumption, TypeOK, Paid, RenewedIfPaid, [Next]_vars
  PROVE  Paid' /\ RenewedIfPaid'
<1>1. \A p \in Days : charge[p][0] = "ok" => charge'[p][0] = "ok"
  BY ChargesStay DEF ResultsStay, BillingAssumption
<1>2. \A c \in Crons : cr[c].p \in Days  BY DEF TypeOK
<1>3. Paid'
  <2> SUFFICES ASSUME NEW c \in Crons,
                      cr'[c].pc = "mark" \/ (cr'[c].pc = "complete" /\ cr'[c].plan > 0)
               PROVE  charge'[cr'[c].p][0] = "ok"
    BY DEF Paid
  <2>1. Continues(c)  BY CronMoves
  <2>2. CASE cr'[c] = cr[c]  BY <1>1, <1>2, <2>2 DEF Paid
  <2>3. CASE FindDueForRenewal(c)
    <3>1. cr'[c].pc = (IF plan = 0 THEN "complete" ELSE "create") /\ cr'[c].plan = plan
      BY <2>3 DEF FindDueForRenewal, IdleCron, TypeOK
    <3>2. QED  BY <3>1 DEF TypeOK, Plans
  <2>4. CASE /\ cr[c].pc \in RenewalPcs /\ cr'[c].p = cr[c].p /\ cr'[c].plan = cr[c].plan
             /\ \/ cr'[c].pc \in {"process", "charge", "fail"}
                \/ cr'[c].pc = "mark" /\ charge'[cr[c].p][0] = "ok"
                \/ cr'[c].pc = "complete" /\ cr[c].pc = "mark"
    BY <1>1, <1>2, <2>4 DEF Paid
  <2>5. QED  BY <2>1, <2>2, <2>3, <2>4 DEF Continues, RenewalPcs
<1>4. RenewedIfPaid'
  <2>1. CASE UNCHANGED renewals  BY <1>1, <2>1 DEF RenewedIfPaid, TypeOK
  <2>2. ASSUME NEW c \in Crons, CompleteRenewal(c) PROVE RenewedIfPaid'
    <3>1. UNCHANGED charge  BY <2>2 DEF CompleteRenewal, money
    <3>2. \A p \in renewals' : p \in renewals \/ (p = cr[c].p /\ cr[c].plan > 0)
      BY <2>2 DEF CompleteRenewal
    <3>3. QED  BY <2>2, <3>1, <3>2 DEF CompleteRenewal, Paid, RenewedIfPaid
  <2>3. QED
    <3> USE DEF notes
    <3>1. ASSUME NEW c \in Crons, Find(c) \/ CronThrow(c) \/ Unanswered(c) PROVE UNCHANGED renewals
      BY <3>1 DEF Find, FindDueForRenewal, FindPaymentsForRetry, FindExpiredTrial,
         FindExpiredGracePeriod, FindScheduledDowngrade, CronThrow, Unanswered
    <3>2. ASSUME NEW c \in Crons, CronStep(c), ~ CompleteRenewal(c) PROVE UNCHANGED renewals
      BY <3>2 DEF CronStep, CreatePayment, Process, ChargeRenewal, MarkSucceeded, MarkFailed,
         SchedulePaymentRetry, Recharge, Settle, EndTrial, EndGrace, ApplyDowngrade, ClearScheduled
    <3>3. ASSUME NEW u \in Users, UserStep(u) PROVE UNCHANGED renewals
      BY <3>3 DEF UserStep, Cancel, Reactivate, Schedule, Clear, Upgrade, Activate
    <3>4. QED
      BY <2>1, <2>2, <3>1, <3>2, <3>3 DEF Next, vars, Tick, AskCancel, AskReactivate, UserThrow,
         AskChange, AskActivate, Crash
<1>5. QED  BY <1>3, <1>4

\* A paid plan's period never moves without a charge that succeeded.
THEOREM RenewalsPaid == Spec => []RenewedIfPaid
<1>1. Init => Paid /\ RenewedIfPaid  BY DEF Init, IdleCron, Paid, RenewedIfPaid
<1>2. TypeOK /\ Paid /\ RenewedIfPaid /\ [Next]_vars => Paid' /\ RenewedIfPaid'
  BY PaidSets, BillingAssumption
<1>3. QED  BY <1>1, <1>2, TypeCorrect, PTL DEF Spec

\* While a quietly cancelled subscription stays cancelled, nobody renews it.
Still == calm /\ status = "CANCELLED" => \A c \in Crons : cr[c].pc \notin RenewalPcs

LEMMA Cancelled ==
  ASSUME TypeOK, [Next]_vars, calm', status' = "CANCELLED"
  PROVE  \/ calm /\ status = "CANCELLED"
         \/ \E u \in Users : Cancel(u) /\ status \in Live
<1> USE DEF row, notes
<1>1. CASE UNCHANGED <<status, calm>>  BY <1>1
<1>2. ASSUME NEW u \in Users, UserStep(u)
      PROVE  \/ calm /\ status = "CANCELLED"
             \/ Cancel(u) /\ status \in Live
  <2>1. CASE Cancel(u)
    <3>1. CASE status \in Live  BY <2>1, <3>1
    <3>2. CASE status \notin Live  BY <2>1, <3>2 DEF Cancel, Sets
    <3>3. QED  BY <3>1, <3>2
  <2>2. CASE Reactivate(u) \/ Activate(u)  BY <2>2 DEF Reactivate, Activate, Sets
  <2>3. CASE Schedule(u) \/ Clear(u) \/ Upgrade(u)  BY <1>1, <2>3 DEF Schedule, Clear, Upgrade
  <2>4. QED  BY <1>2, <2>1, <2>2, <2>3 DEF UserStep
<1>3. ASSUME NEW c \in Crons, CronStep(c) PROVE calm /\ status = "CANCELLED"
  <2>1. CASE CompleteRenewal(c)  BY <2>1 DEF CompleteRenewal, Sets
  <2>2. CASE EndTrial(c) \/ EndGrace(c)  BY <2>2 DEF EndTrial, EndGrace, Sets
  <2>3. CASE UNCHANGED <<status, calm>>  BY <2>3
  <2>4. QED
    BY <1>3, <2>1, <2>2, <2>3 DEF CronStep, CreatePayment, Process, ChargeRenewal, MarkSucceeded,
       MarkFailed, SchedulePaymentRetry, Recharge, Settle, ApplyDowngrade, ClearScheduled
<1>4. ASSUME NEW c \in Crons, Find(c) \/ CronThrow(c) \/ Unanswered(c)
      PROVE  UNCHANGED <<status, calm>>
  BY <1>4 DEF Find, FindDueForRenewal, FindPaymentsForRetry, FindExpiredTrial,
     FindExpiredGracePeriod, FindScheduledDowngrade, CronThrow, Unanswered
<1>5. QED
  BY <1>1, <1>2, <1>3, <1>4 DEF Next, vars, Tick, AskCancel, AskReactivate, UserThrow, AskChange,
     AskActivate, Crash

LEMMA StillSets ==
  ASSUME BillingAssumption, TypeOK, Still, [Next]_vars
  PROVE  Still'
<1> SUFFICES ASSUME calm', status' = "CANCELLED", NEW c \in Crons, cr'[c].pc \in RenewalPcs
             PROVE  FALSE
  BY DEF Still, RenewalPcs
<1>1. CASE calm /\ status = "CANCELLED"
  <2>1. cr[c].pc \notin RenewalPcs  BY <1>1 DEF Still
  <2>2. ~ FindDueForRenewal(c)  BY <1>1 DEF FindDueForRenewal
  <2>3. QED  BY <2>1, <2>2, CronMoves DEF Continues
<1>2. ASSUME NEW u \in Users, Cancel(u), status \in Live PROVE FALSE
  BY <1>2 DEF Cancel, RenewalPcs
<1>3. QED  BY <1>1, <1>2, Cancelled

LEMMA NoneCreated ==
  ASSUME BillingAssumption, TypeOK, Still, [Next]_vars, calm, status = "CANCELLED",
         NEW p \in Days, pay[p] = "NONE"
  PROVE  pay'[p] = "NONE"
<1> USE DEF money
<1>1. CASE UNCHANGED pay  BY <1>1
<1>2. ASSUME NEW q, NEW from \in {"PENDING", "PROCESSING", "FAILED"}, NEW to,
             SetsPayment(q, from, to)
      PROVE  pay'[p] = "NONE"
  BY <1>2 DEF SetsPayment, TypeOK
<1>3. ASSUME NEW c \in Crons, CronStep(c) PROVE pay'[p] = "NONE"
  <2>1. ~ CreatePayment(c)  BY DEF CreatePayment, Still, RenewalPcs
  <2>2. QED
    BY <1>1, <1>2, <1>3, <2>1 DEF CronStep, Process, ChargeRenewal, MarkSucceeded,
       CompleteRenewal, MarkFailed, SchedulePaymentRetry, Recharge, Settle, EndTrial, EndGrace,
       ApplyDowngrade, ClearScheduled
<1>4. ASSUME NEW c \in Crons, Find(c) \/ CronThrow(c) \/ Unanswered(c) PROVE UNCHANGED pay
  BY <1>4 DEF Find, FindDueForRenewal, FindPaymentsForRetry, FindExpiredTrial,
     FindExpiredGracePeriod, FindScheduledDowngrade, CronThrow, Unanswered
<1>5. ASSUME NEW u \in Users, UserStep(u) PROVE UNCHANGED pay
  BY <1>5 DEF UserStep, Cancel, Reactivate, Schedule, Clear, Upgrade, Activate
<1>6. QED
  BY <1>1, <1>3, <1>4, <1>5 DEF Next, vars, Tick, AskCancel, AskReactivate, UserThrow, AskChange,
     AskActivate, Crash

\* A subscription cancelled while no renewal was under way is not renewed.
THEOREM CancelIsFinal == Spec => CancelHolds
<1>1. Init => Still  BY DEF Init, Still
<1>2. TypeOK /\ Still /\ [Next]_vars => Still'  BY StillSets, BillingAssumption
<1>3. TypeOK /\ Still /\ [Next]_vars =>
        [calm /\ status = "CANCELLED" =>
           \A p \in Days : pay[p] = "NONE" => pay'[p] = "NONE"]_vars
  BY NoneCreated, BillingAssumption
<1>4. QED  BY <1>1, <1>2, <1>3, TypeCorrect, PTL DEF Spec, CancelHolds

-----------------------------------------------------------------------------
(* ChargedOnce, for the three retries that the code allows: what the       *)
(* charges of a payment say, given its row and who is at it.               *)

\* A run at the first charge of payment p, or at one of its retries.
RenewalWork(c, p) ==
  /\ cr[c].p = p
  /\ \/ cr[c].pc \in {"process", "charge", "mark", "fail"}
     \/ cr[c].pc = "schedule" /\ cr[c].n = 0
RetryWork(c, p) ==
  /\ cr[c].p = p
  /\ \/ cr[c].pc \in {"recharge", "settle"}
     \/ cr[c].pc = "schedule" /\ cr[c].n > 0

\* The unique key lets one run at the first charge, before any retry.
Renewing(p) ==
  /\ \A c \in Crons :
       cr[c].p = p /\ cr[c].pc \in {"create", "process", "charge", "mark", "fail"} => cr[c].n = 0
  /\ pay[p] = "NONE" =>
       retry[p] = 0 /\ charge[p][0] = "none" /\ \A c \in Crons : ~ RenewalWork(c, p)
  /\ \A c, d \in Crons : RenewalWork(c, p) /\ RenewalWork(d, p) => c = d
  /\ \A c \in Crons : RenewalWork(c, p) =>
       /\ retry[p] = 0
       /\ cr[c].pc = "process" => pay[p] = "PENDING"
       /\ cr[c].pc \in {"process", "charge"} => charge[p][0] = "none"
       /\ cr[c].pc \in {"charge", "mark", "fail"} => pay[p] = "PROCESSING"
       /\ cr[c].pc = "mark" => charge[p][0] = "ok"
       /\ cr[c].pc \in {"fail", "schedule"} => charge[p][0] # "ok"

\* A key under which no charge succeeds any more: declined, or without an
\* answer when no other run had read the same count.
Failed(p, k) ==
  \/ charge[p][k + 1] = "declined"
  \/ /\ charge[p][k + 1] = "none"
     /\ \A d \in Crons : ~ (cr[d].p = p /\ cr[d].pc = "recharge" /\ cr[d].n = k)

\* Runs that have read the same count charge under the same key; the count
\* passes 1 only when nothing is charged under that key any more.
Retrying(p) ==
  /\ \A c \in Crons : RetryWork(c, p) =>
       /\ cr[c].n > 0 /\ cr[c].n <= retry[p]
       /\ cr[c].pc = "schedule" => Failed(p, cr[c].n)
  /\ retry[p] > 0 => charge[p][0] # "ok"
  /\ retry[p] > 1 => Failed(p, 1)
  /\ \A n \in 1 .. MaxRetries : charge[p][n] # "none" => n > 1 /\ n - 1 <= retry[p]

Sound(p) == Renewing(p) /\ Retrying(p)

\* At none of the steps that concern a payment's charges.
Elsewhere(c) ==
  /\ cr[c].pc \in {"idle", "create", "complete", "trial", "grace", "apply", "unschedule"}
  /\ cr[c].pc = "create" => cr[c].n = 0

LEMMA Untouched ==
  ASSUME BillingAssumption, TypeOK, NEW p \in Days, Sound(p),
         pay'[p] = pay[p], retry'[p] = retry[p], charge'[p] = charge[p],
         \A c \in Crons : cr'[c] = cr[c] \/ Elsewhere(c)' \/ cr'[c].p # p
  PROVE  Sound(p)'
<1>1. \A c \in Crons :
        (RenewalWork(c, p)' => RenewalWork(c, p) /\ cr'[c] = cr[c])
        /\ (RetryWork(c, p)' => RetryWork(c, p) /\ cr'[c] = cr[c])
  BY DEF RenewalWork, RetryWork, Elsewhere
<1>2. Renewing(p)'
  <2>1. \A c \in Crons :
          cr'[c].p = p /\ cr'[c].pc \in {"create", "process", "charge", "mark", "fail"} =>
            cr'[c].n = 0
    BY DEF Elsewhere, Sound, Renewing
  <2>2. QED  BY <1>1, <2>1 DEF Renewing, Sound
<1>3. Retrying(p)'
  <2>1. \A d \in Crons :
          cr'[d].p = p /\ cr'[d].pc = "recharge" => cr'[d] = cr[d]
    BY DEF Elsewhere
  <2>2. \A k : Failed(p, k) => Failed(p, k)'  BY <2>1 DEF Failed
  <2>3. QED  BY <1>1, <2>2 DEF Retrying, Sound
<1>4. QED  BY <1>2, <1>3 DEF Sound

\* The tables at the payment a run is at, and everyone else's state.
LEMMA Others ==
  ASSUME BillingAssumption, TypeOK, NEW c \in Crons, NEW p \in Days, Sound(p),
         CronStep(c) \/ Unanswered(c), cr[c].p # p
  PROVE  Sound(p)'
<1> USE DEF money, SetsPayment, Charge, Goto, Finish
<1>1. /\ cr \in [Crons -> CronRecord] /\ charge \in ChargeTable
      /\ pay \in [Days -> PaymentStatus] /\ retry \in [Days -> Nat]
  BY Types DEF CrType, ChargeType, PayType, TypeOK
<1>2. \A d \in Crons : cr'[d] = cr[d] \/ Elsewhere(d)' \/ cr'[d].p # p
  <2>1. ASSUME NEW l, Goto(c, l) PROVE \A d \in Crons : cr'[d] = cr[d] \/ cr'[d].p # p
    BY <1>1, <2>1 DEF CronRecord
  <2>2. CASE Finish(c)  BY <1>1, <2>2 DEF Elsewhere, IdleCron
  <2>3. QED
    BY <2>1, <2>2 DEF CronStep, CreatePayment, Process, ChargeRenewal, MarkSucceeded,
       CompleteRenewal, MarkFailed, SchedulePaymentRetry, Recharge, Settle, EndTrial, EndGrace,
       ApplyDowngrade, ClearScheduled, Unanswered
<1>3. pay'[p] = pay[p]
  BY <1>1 DEF CronStep, CreatePayment, Process, ChargeRenewal, MarkSucceeded, CompleteRenewal,
     MarkFailed, SchedulePaymentRetry, Recharge, Settle, EndTrial, EndGrace, ApplyDowngrade,
     ClearScheduled, Unanswered
<1>4. retry'[p] = retry[p]
  BY <1>1 DEF CronStep, CreatePayment, Process, ChargeRenewal, MarkSucceeded, CompleteRenewal,
     MarkFailed, SchedulePaymentRetry, Recharge, Settle, EndTrial, EndGrace, ApplyDowngrade,
     ClearScheduled, Unanswered
<1>5. charge'[p] = charge[p]
  BY <1>1 DEF CronStep, CreatePayment, Process, ChargeRenewal, MarkSucceeded, CompleteRenewal,
     MarkFailed, SchedulePaymentRetry, Recharge, Settle, EndTrial, EndGrace, ApplyDowngrade,
     ClearScheduled, Unanswered, ChargeTable
<1>6. QED  BY <1>2, <1>3, <1>4, <1>5, Untouched

LEMMA RenewalSound ==
  ASSUME BillingAssumption, TypeOK, NEW c \in Crons, NEW p \in Days, Sound(p), cr[c].p = p,
         \/ CreatePayment(c) \/ Process(c) \/ ChargeRenewal(c) \/ MarkSucceeded(c)
         \/ MarkFailed(c)
  PROVE  Sound(p)'
<1> USE DEF money
<1>1. /\ cr \in [Crons -> CronRecord] /\ charge \in ChargeTable
      /\ pay \in [Days -> PaymentStatus] /\ retry \in [Days -> Nat]
  BY Types DEF CrType, ChargeType, PayType, TypeOK
<1>2. ASSUME NEW l, Goto(c, l)
      PROVE  /\ cr'[c].pc = l /\ cr'[c].p = p /\ cr'[c].n = cr[c].n
             /\ \A d \in Crons : d # c => cr'[d] = cr[d]
  BY <1>1, <1>2 DEF Goto, CronRecord
<1>3. CASE CreatePayment(c)
  <2>1. CASE pay[p] = "NONE"
    <3>1. /\ pay'[p] = "PENDING" /\ retry'[p] = retry[p]
          /\ charge'[p] = charge[p] /\ Goto(c, "process")
      BY <1>1, <1>3, <2>1 DEF CreatePayment
    <3>2. Renewing(p)'
      <4>1. retry[p] = 0 /\ charge[p][0] = "none" /\ \A d \in Crons : ~ RenewalWork(d, p)
        BY <2>1 DEF Sound, Renewing
      <4>2. cr'[c].n = 0  BY <1>2, <1>3, <3>1 DEF CreatePayment, Sound, Renewing
      <4>3. \A d \in Crons : RenewalWork(d, p)' => d = c  BY <1>2, <3>1, <4>1 DEF RenewalWork
      <4>4. \A d \in Crons :
              cr'[d].p = p /\ cr'[d].pc \in {"create", "process", "charge", "mark", "fail"} =>
                cr'[d].n = 0
        BY <1>2, <3>1, <4>2 DEF Sound, Renewing
      <4>5. cr'[c].pc = "process" /\ pay'[p] = "PENDING"  BY <1>2, <3>1
      <4>6. QED  BY <3>1, <4>1, <4>3, <4>4, <4>5 DEF Renewing
    <3>3. Retrying(p)'
      <4>1. \A k : Failed(p, k) => Failed(p, k)'  BY <1>2, <3>1 DEF Failed
      <4>2. QED  BY <1>2, <3>1, <4>1 DEF Retrying, Sound, RetryWork
    <3>4. QED  BY <3>2, <3>3 DEF Sound
  <2>2. CASE pay[p] # "NONE"
    BY <1>1, <1>3, <2>2, Untouched DEF CreatePayment, Finish, IdleCron, Elsewhere
  <2>3. QED  BY <2>1, <2>2
<1>4. CASE Process(c)
  <2>1. RenewalWork(c, p) /\ cr[c].pc = "process"  BY <1>4 DEF Process, RenewalWork
  <2>2. pay[p] = "PENDING"  BY <2>1 DEF Sound, Renewing
  <2>3. /\ pay'[p] = "PROCESSING" /\ retry'[p] = retry[p]
        /\ charge'[p] = charge[p] /\ Goto(c, "charge")
    BY <1>1, <1>4, <2>2 DEF Process, SetsPayment
  <2>4. Renewing(p)'  BY <1>2, <2>1, <2>3 DEF Renewing, Sound, RenewalWork
  <2>5. \A k : Failed(p, k) => Failed(p, k)'  BY <1>2, <2>3 DEF Failed
  <2>6. Retrying(p)'  BY <1>2, <2>3, <2>5 DEF Retrying, Sound, RetryWork
  <2>7. QED  BY <2>4, <2>6 DEF Sound
<1>5. CASE ChargeRenewal(c)
  <2>1. RenewalWork(c, p) /\ cr[c].pc = "charge"  BY <1>5 DEF ChargeRenewal, RenewalWork
  <2>2. /\ retry[p] = 0 /\ charge[p][0] = "none" /\ pay[p] = "PROCESSING"
        /\ \A d \in Crons : ~ RetryWork(d, p)
    BY <1>1, <2>1 DEF Sound, Renewing, Retrying, CronRecord, BillingAssumption
  <2>3. PICK r \in {"ok", "declined"} :
          Charge(p, 0, r) /\ Goto(c, IF r = "ok" THEN "mark" ELSE "fail")
    BY <1>5 DEF ChargeRenewal
  <2>4. /\ charge'[p][0] = r /\ \A n \in 1 .. MaxRetries : charge'[p][n] = charge[p][n]
        /\ pay'[p] = pay[p] /\ retry'[p] = retry[p]
    BY <1>1, <1>5, <2>3 DEF ChargeRenewal, Charge, ChargeTable, BillingAssumption
  <2>5. Renewing(p)'  BY <1>2, <2>1, <2>2, <2>3, <2>4 DEF Renewing, Sound, RenewalWork
  <2>6. \A d \in Crons : ~ RetryWork(d, p)'  BY <1>2, <2>2, <2>3 DEF RetryWork
  <2>7. Retrying(p)'  BY <2>2, <2>4, <2>6 DEF Retrying, Sound
  <2>8. QED  BY <2>5, <2>7 DEF Sound
<1>6. CASE MarkSucceeded(c) \/ MarkFailed(c)
  <2>1. RenewalWork(c, p) /\ cr[c].pc \in {"mark", "fail"}
    BY <1>6 DEF MarkSucceeded, MarkFailed, RenewalWork
  <2>2. PICK l \in {"complete", "schedule"} :
          Goto(c, l) /\ (l = "complete" <=> cr[c].pc = "mark")
    BY <1>6 DEF MarkSucceeded, MarkFailed
  <2>3. /\ pay'[p] # "NONE" /\ pay'[p] # "PENDING" /\ pay'[p] # "PROCESSING"
        /\ retry'[p] = retry[p] /\ charge'[p] = charge[p]
    <3>1. pay[p] = "PROCESSING"  BY <2>1 DEF Sound, Renewing
    <3>2. QED  BY <1>1, <1>6, <3>1 DEF MarkSucceeded, MarkFailed, SetsPayment
  <2>4. \A d \in Crons : d # c => ~ RenewalWork(d, p)  BY <2>1 DEF Sound, Renewing
  <2>5. \A d \in Crons : RetryWork(d, p)' => RetryWork(d, p) /\ cr'[d] = cr[d]
    <3>1. cr'[c].n = 0  BY <1>2, <2>1, <2>2 DEF Sound, Renewing, RenewalWork
    <3>2. QED  BY <1>2, <2>2, <3>1 DEF RetryWork
  <2>6. Renewing(p)'  BY <1>2, <2>1, <2>2, <2>3, <2>4 DEF Renewing, Sound, RenewalWork
  <2>7. \A k : Failed(p, k) => Failed(p, k)'  BY <1>2, <2>2, <2>3 DEF Failed
  <2>8. Retrying(p)'  BY <2>3, <2>5, <2>7 DEF Retrying, Sound
  <2>9. QED  BY <2>6, <2>8 DEF Sound
<1>7. QED  BY <1>3, <1>4, <1>5, <1>6

LEMMA RetrySound ==
  ASSUME BillingAssumption, TypeOK, NEW c \in Crons, NEW p \in Days, Sound(p), cr[c].p = p,
         SchedulePaymentRetry(c) \/ Recharge(c) \/ Settle(c)
  PROVE  Sound(p)'
<1> USE DEF money
<1>1. /\ cr \in [Crons -> CronRecord] /\ charge \in ChargeTable
      /\ pay \in [Days -> PaymentStatus] /\ retry \in [Days -> Nat]
  BY Types DEF CrType, ChargeType, PayType, TypeOK
<1>2. ASSUME NEW l, Goto(c, l)
      PROVE  /\ cr'[c].pc = l /\ cr'[c].p = p /\ cr'[c].n = cr[c].n
             /\ \A d \in Crons : d # c => cr'[d] = cr[d]
  BY <1>1, <1>2 DEF Goto, CronRecord
<1>3. cr[c].n \in Nat /\ cr[c].n < MaxRetries /\ MaxRetries \in Nat /\ retry[p] \in Nat
  BY <1>1 DEF CronRecord, BillingAssumption
<1>4. ASSUME Finish(c)
      PROVE  Elsewhere(c)' /\ \A d \in Crons : d # c => cr'[d] = cr[d]
  BY <1>1, <1>4 DEF Finish, IdleCron, Elsewhere
<1>5. ASSUME Finish(c)
      PROVE  \A d \in Crons :
               /\ cr'[d].p = p /\ cr'[d].pc \in {"create", "process", "charge", "mark", "fail"} =>
                    cr'[d].n = 0
               /\ RenewalWork(d, p)' => d # c /\ RenewalWork(d, p) /\ cr'[d] = cr[d]
               /\ RetryWork(d, p)' => d # c /\ RetryWork(d, p) /\ cr'[d] = cr[d]
  BY <1>4, <1>5 DEF Elsewhere, RenewalWork, RetryWork, Sound, Renewing
<1>6. CASE Recharge(c)
  <2>1. RetryWork(c, p) /\ cr[c].pc = "recharge"  BY <1>6 DEF Recharge, RetryWork
  <2>2. cr[c].n > 0 /\ cr[c].n <= retry[p] /\ \A d \in Crons : ~ RenewalWork(d, p)
    BY <1>3, <2>1 DEF Sound, Renewing, Retrying
  <2>3. PICK r \in {"ok", "declined"} :
          Charge(p, cr[c].n + 1, r) /\ Goto(c, IF r = "ok" THEN "settle" ELSE "schedule")
    BY <1>6 DEF Recharge
  <2>4. /\ \A n \in 0 .. MaxRetries :
             charge'[p][n] = IF n = cr[c].n + 1 THEN r ELSE charge[p][n]
        /\ charge[p][cr[c].n + 1] \in {"none", r}
        /\ pay'[p] = pay[p] /\ retry'[p] = retry[p]
    BY <1>1, <1>3, <1>6, <2>3 DEF Recharge, Charge, ChargeTable
  <2>5. \A k \in 1 .. MaxRetries - 1 : Failed(p, k) => Failed(p, k)'
    <3>1. \A d \in Crons : cr'[d].p = p /\ cr'[d].pc = "recharge" => cr'[d] = cr[d]
      BY <1>2, <2>3
    <3>2. Failed(p, cr[c].n) => r = "declined"  BY <2>1, <2>4 DEF Failed, RetryWork
    <3>3. \A k \in 1 .. MaxRetries - 1 : k + 1 \in 0 .. MaxRetries  BY <1>3
    <3>4. \A k \in 1 .. MaxRetries - 1 :
            charge'[p][k + 1] = IF k = cr[c].n THEN r ELSE charge[p][k + 1]
      BY <1>3, <2>4, <3>3
    <3>5. QED  BY <3>1, <3>2, <3>4 DEF Failed
  <2>6. Renewing(p)'
    <3>1. \A d \in Crons : ~ RenewalWork(d, p)'
      BY <1>2, <2>2, <2>3 DEF RenewalWork
    <3>2. charge'[p][0] = charge[p][0]  BY <1>3, <2>4
    <3>3. \A d \in Crons :
            cr'[d].p = p /\ cr'[d].pc \in {"create", "process", "charge", "mark", "fail"} =>
              cr'[d].n = 0
      BY <1>2, <2>3 DEF Sound, Renewing
    <3>4. QED  BY <2>4, <3>1, <3>2, <3>3 DEF Renewing, Sound
  <2>7. Retrying(p)'
    <3>1. ASSUME NEW d \in Crons, RetryWork(d, p)'
          PROVE  /\ cr'[d].n > 0 /\ cr'[d].n <= retry'[p]
                 /\ cr'[d].pc = "schedule" => Failed(p, cr[d].n)'
      <4>1. CASE d = c
        <5>1. cr'[c].n + 1 \in 0 .. MaxRetries /\ cr'[c].n = cr[c].n
          BY <1>2, <1>3, <2>3
        <5>2. cr'[c].pc = "schedule" => r = "declined"  BY <1>2, <2>3
        <5>3. QED  BY <2>2, <2>4, <4>1, <5>1, <5>2 DEF Failed
      <4>2. CASE d # c
        <5>1. cr'[d] = cr[d] /\ RetryWork(d, p)  BY <1>2, <2>3, <3>1, <4>2 DEF RetryWork
        <5>2. cr[d].n \in 1 .. MaxRetries - 1
          BY <1>1, <5>1 DEF CronRecord, BillingAssumption, Sound, Retrying
        <5>3. QED  BY <2>4, <2>5, <5>1, <5>2 DEF Sound, Retrying
      <4>3. QED  BY <4>1, <4>2
    <3>2. retry'[p] > 0 => charge'[p][0] # "ok"  BY <1>3, <2>2, <2>4 DEF Sound, Retrying
    <3>3. retry'[p] > 1 => Failed(p, 1)'
      <4>1. 1 \in 1 .. MaxRetries - 1  BY <1>3, <2>2
      <4>2. QED  BY <2>4, <2>5, <4>1 DEF Sound, Retrying
    <3>4. \A n \in 1 .. MaxRetries : charge'[p][n] # "none" => n > 1 /\ n - 1 <= retry'[p]
      BY <1>3, <2>2, <2>4 DEF Sound, Retrying
    <3>5. QED  BY <3>1, <3>2, <3>3, <3>4 DEF Retrying
  <2>8. QED  BY <2>6, <2>7 DEF Sound
<1>7. CASE Settle(c)
  <2>1. \A d \in Crons : ~ RenewalWork(d, p)
    BY <1>3, <1>7 DEF Settle, RetryWork, Sound, Renewing, Retrying
  <2>2. /\ pay'[p] = pay[p] \/ pay'[p] = "SUCCEEDED"
        /\ retry'[p] = retry[p] /\ charge'[p] = charge[p] /\ Finish(c)
    BY <1>1, <1>7 DEF Settle, SetsPayment
  <2>3. Renewing(p)'  BY <1>5, <2>1, <2>2 DEF Renewing, Sound
  <2>4. \A k : Failed(p, k) => Failed(p, k)'  BY <1>4, <2>2 DEF Failed, Elsewhere
  <2>5. Retrying(p)'  BY <1>5, <2>2, <2>4 DEF Retrying, Sound
  <2>6. QED  BY <2>3, <2>5 DEF Sound
<1>8. CASE SchedulePaymentRetry(c)
  <2>1. pay'[p] = pay[p] /\ retry'[p] = retry[p] + 1 /\ charge'[p] = charge[p] /\ Finish(c)
    BY <1>1, <1>8 DEF SchedulePaymentRetry
  <2>2. \A d \in Crons : d # c => ~ RenewalWork(d, p)
    <3>1. CASE cr[c].n = 0
      BY <1>8, <3>1 DEF SchedulePaymentRetry, RenewalWork, Sound, Renewing
    <3>2. CASE cr[c].n > 0
      BY <1>3, <1>8, <3>2 DEF SchedulePaymentRetry, RetryWork, Sound, Renewing, Retrying
    <3>3. QED  BY <1>3, <3>1, <3>2
  <2>3. charge[p][0] # "ok"
    <3>1. CASE cr[c].n = 0
      BY <1>8, <3>1 DEF SchedulePaymentRetry, RenewalWork, Sound, Renewing
    <3>2. CASE cr[c].n > 0
      BY <1>3, <1>8, <3>2 DEF SchedulePaymentRetry, RetryWork, Sound, Retrying
    <3>3. QED  BY <1>3, <3>1, <3>2
  <2>4. retry[p] > 0 => Failed(p, 1)
    <3>1. CASE cr[c].n = 0
      BY <1>8, <3>1 DEF SchedulePaymentRetry, RenewalWork, Sound, Renewing
    <3>2. CASE cr[c].n > 0
      <4>1. /\ cr[c].n <= retry[p] /\ Failed(p, cr[c].n)
        BY <1>8, <3>2 DEF SchedulePaymentRetry, RetryWork, Sound, Retrying
      <4>2. CASE cr[c].n = 1  BY <4>1, <4>2
      <4>3. CASE cr[c].n > 1  BY <1>3, <4>1, <4>3 DEF Sound, Retrying
      <4>4. QED  BY <1>3, <3>2, <4>2, <4>3
    <3>3. QED  BY <1>3, <3>1, <3>2
  <2>5. pay[p] # "NONE"
    <3>1. RenewalWork(c, p) \/ RetryWork(c, p)
      BY <1>3, <1>8 DEF SchedulePaymentRetry, RenewalWork, RetryWork
    <3>2. QED  BY <1>3, <3>1 DEF Sound, Renewing, Retrying
  <2>6. Renewing(p)'  BY <1>5, <2>1, <2>2, <2>5 DEF Renewing
  <2>7. Retrying(p)'
    <3>1. \A d \in Crons : RetryWork(d, p) => cr[d].n \in Nat  BY <1>1 DEF CronRecord
    <3>2. \A k : Failed(p, k) => Failed(p, k)'  BY <1>4, <2>1 DEF Failed, Elsewhere
    <3>3. QED  BY <1>3, <1>5, <2>1, <2>3, <2>4, <3>1, <3>2 DEF Retrying, Sound
  <2>8. QED  BY <2>6, <2>7 DEF Sound
<1>9. QED  BY <1>6, <1>7, <1>8

LEMMA UnansweredSound ==
  ASSUME BillingAssumption, TypeOK, NEW c \in Crons, NEW p \in Days, Sound(p), cr[c].p = p,
         Unanswered(c), p \notin unclear'
  PROVE  Sound(p)'
<1> USE DEF money
<1>1. /\ cr \in [Crons -> CronRecord] /\ charge \in ChargeTable /\ retry \in [Days -> Nat]
  BY Types DEF CrType, ChargeType, TypeOK
<1>2. ASSUME NEW l, Goto(c, l)
      PROVE  /\ cr'[c].pc = l /\ cr'[c].p = p /\ cr'[c].n = cr[c].n
             /\ \A d \in Crons : d # c => cr'[d] = cr[d]
  BY <1>1, <1>2 DEF Goto, CronRecord
<1>3. cr[c].n \in Nat /\ cr[c].n < MaxRetries /\ MaxRetries \in Nat /\ retry[p] \in Nat
  BY <1>1 DEF CronRecord, BillingAssumption
<1>4. pay'[p] = pay[p] /\ retry'[p] = retry[p]  BY DEF Unanswered
<1>5. CASE cr[c].pc = "charge"
  <2>1. RenewalWork(c, p)  BY <1>5 DEF RenewalWork
  <2>2. /\ retry[p] = 0 /\ pay[p] = "PROCESSING" /\ cr[c].n = 0
        /\ \A d \in Crons : ~ RetryWork(d, p)
    BY <1>1, <1>5, <2>1 DEF Sound, Renewing, Retrying, CronRecord, BillingAssumption
  <2>3. Goto(c, "fail") /\ charge'[p][0] # "ok"  BY <1>5 DEF Unanswered
  <2>4. charge'[p] = charge[p]
    BY <1>1, <1>5, <2>3 DEF Unanswered, Charge, ChargeTable, BillingAssumption
  <2>5. Renewing(p)'  BY <1>2, <1>4, <2>1, <2>2, <2>3, <2>4 DEF Renewing, Sound, RenewalWork
  <2>6. \A d \in Crons : ~ RetryWork(d, p)'  BY <1>2, <2>2, <2>3 DEF RetryWork
  <2>7. Retrying(p)'  BY <1>4, <2>2, <2>4, <2>6 DEF Retrying, Sound
  <2>8. QED  BY <2>5, <2>7 DEF Sound
<1>6. CASE cr[c].pc = "recharge"
  <2>1. RetryWork(c, p)  BY <1>6 DEF RetryWork
  <2>2. cr[c].n > 0 /\ cr[c].n <= retry[p] /\ \A d \in Crons : ~ RenewalWork(d, p)
    BY <1>3, <2>1 DEF Sound, Renewing, Retrying
  <2>3. Goto(c, "schedule") /\ charge'[p][cr[c].n + 1] # "ok"  BY <1>6 DEF Unanswered
  <2>4. \A d \in Crons : d # c => ~ (cr[d].p = p /\ cr[d].pc = "recharge" /\ cr[d].n = cr[c].n)
    BY <1>6 DEF Unanswered
  <2>5. charge'[p] = charge[p]
    <3>1. cr[c].n + 1 \in 0 .. MaxRetries  BY <1>3
    <3>2. QED  BY <1>1, <1>6, <2>3, <3>1 DEF Unanswered, Charge, ChargeTable
  <2>6. Failed(p, cr[c].n)'
    <3>1. charge[p][cr[c].n + 1] \in {"none", "ok", "declined"}  BY <1>1, <1>3 DEF ChargeTable
    <3>2. QED  BY <1>2, <2>3, <2>4, <2>5, <3>1 DEF Failed
  <2>7. \A k : Failed(p, k) => Failed(p, k)'  BY <1>2, <2>3, <2>5 DEF Failed
  <2>8. Renewing(p)'
    <3>1. \A d \in Crons : ~ RenewalWork(d, p)'  BY <1>2, <2>2, <2>3 DEF RenewalWork
    <3>2. \A d \in Crons :
            cr'[d].p = p /\ cr'[d].pc \in {"create", "process", "charge", "mark", "fail"} =>
              cr'[d].n = 0
      BY <1>2, <2>3 DEF Sound, Renewing
    <3>3. QED  BY <1>4, <2>5, <3>1, <3>2 DEF Renewing, Sound
  <2>9. Retrying(p)'
    <3>1. ASSUME NEW d \in Crons, RetryWork(d, p)'
          PROVE  /\ cr'[d].n > 0 /\ cr'[d].n <= retry'[p]
                 /\ cr'[d].pc = "schedule" => Failed(p, cr[d].n)'
      <4>1. CASE d = c  BY <1>2, <1>4, <2>2, <2>3, <2>6, <4>1
      <4>2. CASE d # c
        <5>1. cr'[d] = cr[d] /\ RetryWork(d, p)  BY <1>2, <2>3, <3>1, <4>2 DEF RetryWork
        <5>2. QED  BY <1>4, <2>7, <5>1 DEF Sound, Retrying
      <4>3. QED  BY <4>1, <4>2
    <3>2. QED  BY <1>4, <2>5, <2>7, <3>1 DEF Retrying, Sound
  <2>10. QED  BY <2>8, <2>9 DEF Sound
<1>7. QED  BY <1>5, <1>6 DEF Unanswered

LEMMA FindSound ==
  ASSUME BillingAssumption, TypeOK, NEW c \in Crons, NEW p \in Days, Sound(p), Find(c),
         p \notin unclear'
  PROVE  Sound(p)'
<1> USE DEF money
<1>1. cr \in [Crons -> CronRecord] /\ retry \in [Days -> Nat]  BY Types DEF CrType, TypeOK
<1>2. UNCHANGED <<pay, retry, charge>>
  BY DEF Find, FindDueForRenewal, FindPaymentsForRetry, FindExpiredTrial, FindExpiredGracePeriod,
     FindScheduledDowngrade
<1>3. CASE FindPaymentsForRetry(c, p)
  <2>1. /\ cr'[c].pc = "recharge" /\ cr'[c].p = p /\ cr'[c].n = retry[p] /\ retry[p] > 0
        /\ \A d \in Crons : d # c => cr'[d] = cr[d]
    BY <1>1, <1>3 DEF FindPaymentsForRetry, Retriable, IdleCron, CronRecord, BillingAssumption
  <2>2. \A d \in Crons : ~ RenewalWork(d, p)  BY <1>1, <2>1 DEF Sound, Renewing
  <2>3. Renewing(p)'  BY <1>2, <2>1, <2>2 DEF Renewing, Sound, RenewalWork
  <2>4. Retrying(p)'
    <3>1. \A d \in Crons : ~ Open(d, p, retry[p])
      BY <1>3 DEF FindPaymentsForRetry
    <3>2. ASSUME NEW d \in Crons, RetryWork(d, p)'
          PROVE  /\ cr'[d].n > 0 /\ cr'[d].n <= retry'[p]
                 /\ cr'[d].pc = "schedule" => Failed(p, cr[d].n)'
      <4>1. CASE d = c  BY <1>1, <1>2, <2>1, <4>1
      <4>2. CASE d # c
        <5>1. cr'[d] = cr[d] /\ RetryWork(d, p)  BY <2>1, <3>2, <4>2 DEF RetryWork
        <5>2. ASSUME cr[d].pc = "schedule" PROVE Failed(p, cr[d].n)'
          <6>1. Failed(p, cr[d].n)  BY <5>1, <5>2 DEF Sound, Retrying
          <6>2. cr[d].n = retry[p] => charge[p][cr[d].n + 1] # "none"
            BY <3>1, <5>1, <5>2 DEF Open, RetryWork
          <6>3. QED  BY <1>2, <2>1, <5>1, <6>1, <6>2 DEF Failed
        <5>3. QED  BY <1>2, <5>1, <5>2 DEF Sound, Retrying
      <4>3. QED  BY <4>1, <4>2
    <3>3. retry'[p] > 1 => Failed(p, 1)'
      BY <1>1, <1>2, <2>1 DEF Sound, Retrying, Failed
    <3>4. QED  BY <1>2, <3>2, <3>3 DEF Retrying, Sound
  <2>5. QED  BY <2>3, <2>4 DEF Sound
<1>4. CASE \E q \in Days : q # p /\ FindPaymentsForRetry(c, q)
  <2>1. \A d \in Crons : cr'[d] = cr[d] \/ cr'[d].p # p
    BY <1>1, <1>4 DEF FindPaymentsForRetry, IdleCron, CronRecord
  <2>2. QED  BY <1>2, <2>1, Untouched
<1>5. CASE ~ \E q \in Days : FindPaymentsForRetry(c, q)
  <2>1. \A d \in Crons : cr'[d] = cr[d] \/ Elsewhere(d)'
    <3>1. CASE FindDueForRenewal(c) \/ FindExpiredTrial(c) \/ FindScheduledDowngrade(c)
      BY <1>1, <3>1 DEF FindDueForRenewal, FindExpiredTrial, FindScheduledDowngrade, IdleCron,
         Elsewhere
    <3>2. CASE FindExpiredGracePeriod(c)
      BY <1>1, <3>2 DEF FindExpiredGracePeriod, Goto, Elsewhere, CronRecord
    <3>3. QED  BY <1>5, <3>1, <3>2 DEF Find
  <2>2. QED  BY <1>2, <2>1, Untouched
<1>6. QED  BY <1>3, <1>4, <1>5

\* What is sound stays so until the payment becomes unclear.
LEMMA SoundSets ==
  ASSUME BillingAssumption, TypeOK, NEW p \in Days, Sound(p), p \notin unclear', [Next]_vars
  PROVE  Sound(p)'
<1> USE DEF money, notes
<1>1. cr \in [Crons -> CronRecord]  BY Types DEF CrType
<1>2. CASE UNCHANGED <<pay, retry, charge, cr>>  BY <1>2, Untouched
<1>3. ASSUME NEW c \in Crons, CronStep(c) PROVE Sound(p)'
  <2>1. CASE cr[c].p # p  BY <1>3, <2>1, Others
  <2>2. CASE cr[c].p = p
    <3>1. CASE \/ CreatePayment(c) \/ Process(c) \/ ChargeRenewal(c) \/ MarkSucceeded(c)
               \/ MarkFailed(c)
      BY <2>2, <3>1, RenewalSound
    <3>2. CASE SchedulePaymentRetry(c) \/ Recharge(c) \/ Settle(c)  BY <2>2, <3>2, RetrySound
    <3>3. CASE CompleteRenewal(c) \/ EndTrial(c) \/ EndGrace(c) \/ ClearScheduled(c)
      BY <1>1, <3>3, Untouched DEF CompleteRenewal, EndTrial, EndGrace, ClearScheduled, Finish,
         IdleCron, Elsewhere
    <3>4. CASE ApplyDowngrade(c)
      BY <1>1, <3>4, Untouched DEF ApplyDowngrade, Goto, Elsewhere, CronRecord
    <3>5. QED  BY <1>3, <3>1, <3>2, <3>3, <3>4 DEF CronStep
  <2>3. QED  BY <2>1, <2>2
<1>4. ASSUME NEW c \in Crons, Unanswered(c) PROVE Sound(p)'
  <2>1. CASE cr[c].p # p  BY <1>4, <2>1, Others
  <2>2. CASE cr[c].p = p  BY <1>4, <2>2, UnansweredSound
  <2>3. QED  BY <2>1, <2>2
<1>5. ASSUME NEW c \in Crons, CronThrow(c) PROVE Sound(p)'
  BY <1>1, <1>5, Untouched DEF CronThrow, Finish, IdleCron, Elsewhere
<1>6. CASE Crash  BY <1>6, Untouched DEF Crash, IdleCron, Elsewhere
<1>7. ASSUME NEW u \in Users, UserStep(u) PROVE UNCHANGED <<pay, retry, charge, cr>>
  BY <1>7 DEF UserStep, Cancel, Reactivate, Schedule, Clear, Upgrade, Activate
<1>8. QED
  BY <1>2, <1>3, <1>4, <1>5, <1>6, <1>7, FindSound DEF Next, vars, Tick, AskCancel,
     AskReactivate, UserThrow, AskChange, AskActivate

AllSound == \A p \in Days \ unclear : Sound(p)

LEMMA UnclearStays == ASSUME [Next]_vars PROVE unclear \subseteq unclear'
<1> USE DEF notes
<1>1. ASSUME NEW c \in Crons, CronStep(c) PROVE UNCHANGED unclear
  BY <1>1 DEF CronStep, CreatePayment, Process, ChargeRenewal, MarkSucceeded, CompleteRenewal,
     MarkFailed, SchedulePaymentRetry, Recharge, Settle, EndTrial, EndGrace, ApplyDowngrade,
     ClearScheduled
<1>2. ASSUME NEW c \in Crons, Find(c) PROVE unclear \subseteq unclear'
  BY <1>2 DEF Find, FindDueForRenewal, FindPaymentsForRetry, FindExpiredTrial,
     FindExpiredGracePeriod, FindScheduledDowngrade
<1>3. ASSUME NEW u \in Users, UserStep(u) PROVE UNCHANGED unclear
  BY <1>3 DEF UserStep, Cancel, Reactivate, Schedule, Clear, Upgrade, Activate
<1>4. QED
  BY <1>1, <1>2, <1>3 DEF Next, vars, Tick, AskCancel, AskReactivate, UserThrow, AskChange,
     AskActivate, Unanswered, CronThrow, Crash

\* Two successful charges of a payment would be its first and a retry, or
\* two retries, the earlier of which has failed.
LEMMA OneCharge ==
  ASSUME BillingAssumption, TypeOK, MaxRetries <= 3, NEW p \in Days, Sound(p)
  PROVE  Cardinality({n \in 0 .. MaxRetries : charge[p][n] = "ok"}) <= 1
<1> DEFINE Ok == {n \in 0 .. MaxRetries : charge[p][n] = "ok"}
<1>1. retry[p] \in Nat /\ MaxRetries \in Nat  BY DEF TypeOK, BillingAssumption
<1>2. \A m, n \in Ok : m = n
  <2> SUFFICES ASSUME NEW m \in 0 .. MaxRetries, NEW n \in 0 .. MaxRetries, m < n,
                      charge[p][m] = "ok", charge[p][n] = "ok"
               PROVE  FALSE
    BY <1>1
  <2>1. n > 1 /\ n - 1 <= retry[p]  BY <1>1 DEF Sound, Retrying
  <2>2. m # 0  BY <1>1, <2>1 DEF Sound, Retrying
  <2>3. m > 1  BY <1>1, <2>2 DEF Sound, Retrying
  <2>4. m = 2 /\ retry[p] > 1  BY <1>1, <2>1, <2>3
  <2>5. QED  BY <2>4 DEF Sound, Retrying, Failed
<1>3. CASE Ok = {}  BY <1>3, FS_EmptySet
<1>4. CASE Ok # {}
  <2>1. PICK n \in Ok : TRUE  BY <1>4
  <2>2. Ok = {n}  BY <1>2, <2>1
  <2>3. QED  BY <2>2, FS_Singleton
<1>5. QED  BY <1>3, <1>4

\* With no more retries than the code allows, a payment is charged once, unless
\* an attempt ended without an answer and either Stripe had charged, or another
\* run was about to charge, or to read the payment, under the same key.
THEOREM ChargedAtMostOnce == MaxRetries <= 3 /\ Spec => []ChargedOnce
<1> SUFFICES ASSUME MaxRetries <= 3 PROVE Spec => []ChargedOnce  OBVIOUS
<1>1. Init => AllSound
  <2> SUFFICES ASSUME Init, NEW p \in Days PROVE Sound(p)  BY DEF AllSound
  <2>1. /\ pay[p] = "NONE" /\ retry[p] = 0 /\ \A n \in 0 .. MaxRetries : charge[p][n] = "none"
        /\ \A c \in Crons : cr[c] = IdleCron
    BY DEF Init
  <2>2. 0 \in 0 .. MaxRetries /\ \A n \in 1 .. MaxRetries : n \in 0 .. MaxRetries
    BY BillingAssumption DEF BillingAssumption
  <2>3. \A c \in Crons : ~ RenewalWork(c, p) /\ ~ RetryWork(c, p) /\ cr[c].pc = "idle"
    BY <2>1 DEF RenewalWork, RetryWork, IdleCron
  <2>4. QED  BY <2>1, <2>2, <2>3 DEF Sound, Renewing, Retrying
<1>2. TypeOK /\ AllSound /\ [Next]_vars => AllSound'
  BY SoundSets, UnclearStays, BillingAssumption DEF AllSound
<1>3. TypeOK /\ AllSound => ChargedOnce
  <2> SUFFICES ASSUME TypeOK, AllSound, NEW p \in Days,
                      Cardinality({n \in 0 .. MaxRetries : charge[p][n] = "ok"}) > 1
               PROVE  p \in unclear
    BY DEF ChargedOnce
  <2>1. ~ (Cardinality({n \in 0 .. MaxRetries : charge[p][n] = "ok"}) <= 1)
    <3>1. {n \in 0 .. MaxRetries : charge[p][n] = "ok"} \subseteq 0 .. MaxRetries  OBVIOUS
    <3>2. IsFiniteSet({n \in 0 .. MaxRetries : charge[p][n] = "ok"})
      <4>1. 0 \in Int /\ MaxRetries \in Int  BY BillingAssumption DEF BillingAssumption
      <4>2. QED  BY <3>1, <4>1, FS_Interval, FS_Subset
    <3>3. QED  BY <3>2, FS_CardinalityType
  <2>2. QED  BY <2>1, OneCharge, BillingAssumption DEF AllSound
<1>4. QED  BY <1>1, <1>2, <1>3, TypeCorrect, PTL DEF Spec
=============================================================================
