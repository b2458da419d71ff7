------------------------------ MODULE Billing ------------------------------
(***************************************************************************)
(* One subscription: the crons that renew it, end its trial and its grace  *)
(* period, apply a scheduled downgrade and retry failed payments, and the  *)
(* requests that cancel, reactivate, upgrade, downgrade and activate it.   *)
(*                                                                         *)
(* Every await is a point where the actors interleave; runs of the same or *)
(* of different crons may overlap; a crash forgets their progress.  The    *)
(* clock counts days, since a renewal's payment is keyed by its day; the   *)
(* hours between retries are abstracted: a failed payment may be retried   *)
(* at any moment.  A plan is its price, 0 a free one.  Stripe keeps the    *)
(* first result of an idempotency key and repeats it, but an attempt may   *)
(* also be reported failed with nothing kept, or with a charge made: see   *)
(* Unanswered.  A payment intent that does not succeed at once counts as   *)
(* declined; what Stripe does with it later is not seen by this code.      *)
(* Usage counters, invoices, events and audit records follow the steps     *)
(* they belong to and are left out.                                        *)
(***************************************************************************)
EXTENDS Naturals, FiniteSets

CONSTANTS
  Crons,         \* runs of crons that may be under way together
  Users,         \* requests that may be under way together
  MaxPlan,       \* plans by price, 0 .. MaxPlan
  Period,        \* days of a billing cycle
  Left,          \* days left of the trial, the period or the grace period at the start
  Grace,         \* days of the grace period
  MaxRetries,    \* payment.maxRetries
  MaxDay,        \* bound: the clock
  MaxRequests,   \* bound: requests in a run
  MaxFaults,     \* bound: faults in a run
  Faults         \* the kinds of fault that may occur: "crash", "db", "net"

ASSUME BillingAssumption ==
  /\ MaxPlan \in Nat /\ MaxDay \in Nat /\ MaxRequests \in Nat /\ MaxFaults \in Nat
  /\ Left \in Nat /\ Period \in Nat \ {0} /\ Grace \in Nat \ {0}
  /\ MaxRetries \in Nat \ {0}
  /\ Faults \subseteq {"crash", "db", "net"}

Plans == 0 .. MaxPlan
Days == 0 .. MaxDay
NoPlan == MaxPlan + 1

Status == {"TRIAL", "ACTIVE", "GRACE_PERIOD", "PAST_DUE", "EXPIRED", "CANCELLED"}
Live == {"TRIAL", "ACTIVE", "GRACE_PERIOD", "PAST_DUE"}   \* findActiveByOrg
Changeable == {"TRIAL", "ACTIVE"}                         \* updatePlan, scheduleDowngrade
PaymentStatus == {"NONE", "PENDING", "PROCESSING", "SUCCEEDED", "FAILED"}

VARIABLES
  day,        \* the clock
  status,     \* subscription.status
  plan,       \* subscription.planId and priceInCents
  ends,       \* currentPeriodEnd, trialEndsAt of a TRIAL, graceEndsAt of a GRACE_PERIOD
  next,       \* scheduledPlanId and scheduledChangeAt
  pay,        \* the payment row with the idempotency key of a day
  retry,      \* payment.retryCount
  charge,     \* Stripe: the result under each idempotency key
  cr,         \* local state of each run of a cron
  us,         \* local state of each request
  requests,   \* requests so far
  renewals,   \* history: days whose paid renewal moved the period
  calm,       \* history: when last cancelled, no renewal was under way
  unclear,    \* history: payments with a key that may still charge after the count moved on
  faults      \* history: faults so far

row   == <<status, plan, ends, next>>
money == <<pay, retry, charge>>
notes == <<renewals, calm, unclear>>
vars  == <<day, row, money, cr, us, requests, notes, faults>>

IdleCron == [pc |-> "idle", p |-> 0, plan |-> 0, n |-> 0]
IdleUser == [pc |-> "idle", plan |-> 0, at |-> 0]
NoChange == [plan |-> NoPlan, at |-> 0]

\* SubscribeUseCase: a plan with a trial starts as TRIAL, another as ACTIVE.  The
\* trial may already have turned into the grace period.
Init ==
  /\ day = 0
  /\ status \in {"TRIAL", "ACTIVE", "GRACE_PERIOD"}
  /\ plan \in Plans
  /\ ends = Left
  /\ next = NoChange
  /\ pay = [p \in Days |-> "NONE"]
  /\ retry = [p \in Days |-> 0]
  /\ charge = [p \in Days |-> [n \in 0 .. MaxRetries |-> "none"]]
  /\ cr = [c \in Crons |-> IdleCron]
  /\ us = [u \in Users |-> IdleUser]
  /\ requests = 0
  /\ renewals = {} /\ calm = FALSE /\ unclear = {}
  /\ faults = 0

-----------------------------------------------------------------------------
(* Shared steps                                                            *)

Fault(kind) ==
  /\ kind \in Faults
  /\ faults < MaxFaults
  /\ faults' = faults + 1

Tick ==
  /\ day < MaxDay
  /\ day' = day + 1
  /\ UNCHANGED <<row, money, cr, us, requests, notes, faults>>

\* transitionStatus: the compare-and-set, and the end of the new period.
Sets(from, to, end) ==
  /\ status' = IF status \in from THEN to ELSE status
  /\ ends' = IF status \in from THEN end ELSE ends

SetsPayment(p, from, to) == pay' = [pay EXCEPT ![p] = IF @ = from THEN to ELSE @]

-----------------------------------------------------------------------------
(* Requests                                                                *)

AskCancel(u) ==
  /\ us[u].pc = "idle" /\ requests < MaxRequests
  /\ status \in Live
  /\ us' = [us EXCEPT ![u].pc = "cancel"]
  /\ requests' = requests + 1
  /\ UNCHANGED <<day, row, money, cr, notes, faults>>

RenewalPcs == {"create", "process", "charge", "mark", "complete", "fail"}

Cancel(u) ==
  /\ us[u].pc = "cancel"
  /\ Sets(Live, "CANCELLED", ends)
  /\ next' = IF status \in Live THEN NoChange ELSE next
  /\ calm' = IF status \in Live THEN \A c \in Crons : cr[c].pc \notin RenewalPcs ELSE calm
  /\ us' = [us EXCEPT ![u] = IdleUser]
  /\ UNCHANGED <<day, plan, money, cr, requests, renewals, unclear, faults>>

\* findActiveByOrg never returns a cancelled or expired subscription: only one
\* in grace or past due gets this far ...
AskReactivate(u) ==
  /\ us[u].pc = "idle" /\ requests < MaxRequests
  /\ status \in {"GRACE_PERIOD", "PAST_DUE"}
  /\ us' = [us EXCEPT ![u].pc = "reactivate"]
  /\ requests' = requests + 1
  /\ UNCHANGED <<day, row, money, cr, notes, faults>>

\* ... but the compare-and-set takes what it was cancelled or expired to since.
Reactivate(u) ==
  /\ us[u].pc = "reactivate"
  /\ Sets({"CANCELLED", "EXPIRED", "GRACE_PERIOD", "PAST_DUE"}, "ACTIVE", day + Period)
  /\ us' = [us EXCEPT ![u] = IdleUser]
  /\ UNCHANGED <<day, plan, next, money, cr, requests, notes, faults>>

\* ChangePlanUseCase: a dearer plan at once, a cheaper one at the period's end.
AskChange(u, n) ==
  /\ us[u].pc = "idle" /\ requests < MaxRequests
  /\ status \in Live /\ plan # n
  /\ us' = [us EXCEPT ![u] =
       [pc |-> CASE n < plan -> "schedule"
                 [] n > plan /\ next # NoChange -> "clear"
                 [] OTHER -> "upgrade",
        plan |-> n, at |-> ends]]
  /\ requests' = requests + 1
  /\ UNCHANGED <<day, row, money, cr, notes, faults>>

Schedule(u) ==
  /\ us[u].pc = "schedule"
  /\ next' = IF status \in Changeable THEN [plan |-> us[u].plan, at |-> us[u].at] ELSE next
  /\ us' = [us EXCEPT ![u] = IdleUser]
  /\ UNCHANGED <<day, status, plan, ends, money, cr, requests, notes, faults>>

Clear(u) ==
  /\ us[u].pc = "clear"
  /\ next' = NoChange
  /\ us' = [us EXCEPT ![u].pc = "upgrade"]
  /\ UNCHANGED <<day, status, plan, ends, money, cr, requests, notes, faults>>

Upgrade(u) ==
  /\ us[u].pc = "upgrade"
  /\ plan' = IF status \in Changeable THEN us[u].plan ELSE plan
  /\ us' = [us EXCEPT ![u] = IdleUser]
  /\ UNCHANGED <<day, status, ends, next, money, cr, requests, notes, faults>>

\* verify-payment: the customer paid for a plan during the trial.
AskActivate(u, n) ==
  /\ us[u].pc = "idle" /\ requests < MaxRequests
  /\ status = "TRIAL" /\ n > 0
  /\ us' = [us EXCEPT ![u].pc = "activate", ![u].plan = n]
  /\ requests' = requests + 1
  /\ UNCHANGED <<day, row, money, cr, notes, faults>>

Activate(u) ==
  /\ us[u].pc = "activate"
  /\ Sets({"TRIAL"}, "ACTIVE", day + Period)
  /\ plan' = IF status = "TRIAL" THEN us[u].plan ELSE plan
  /\ us' = [us EXCEPT ![u] = IdleUser]
  /\ UNCHANGED <<day, next, money, cr, requests, notes, faults>>

UserThrow(u) ==
  /\ Fault("db")
  /\ us[u].pc # "idle"
  /\ us' = [us EXCEPT ![u] = IdleUser]
  /\ UNCHANGED <<day, row, money, cr, requests, notes>>

UserStep(u) ==
  Cancel(u) \/ Reactivate(u) \/ Schedule(u) \/ Clear(u) \/ Upgrade(u) \/ Activate(u)

-----------------------------------------------------------------------------
(* BillingCycleWorker: renewal                                             *)

Goto(c, l) == cr' = [cr EXCEPT ![c].pc = l]
Finish(c) == cr' = [cr EXCEPT ![c] = IdleCron]

\* Mutation: the status is not asked for.
FindDueForRenewalAny(c) ==
  /\ cr[c].pc = "idle"
  /\ ends <= day /\ plan > 0
  /\ cr' = [cr EXCEPT ![c] = [IdleCron EXCEPT !.pc = "create", !.p = day, !.plan = plan]]
  /\ UNCHANGED <<day, row, money, us, requests, notes, faults>>

FindDueForRenewal(c) ==
  /\ cr[c].pc = "idle"
  /\ status = "ACTIVE" /\ ends <= day
  /\ cr' = [cr EXCEPT ![c] = [IdleCron EXCEPT !.pc = IF plan = 0 THEN "complete" ELSE "create",
                                              !.p = day, !.plan = plan]]
  /\ UNCHANGED <<day, row, money, us, requests, notes, faults>>

\* Mutation: the key is not unique.
CreatePaymentAgain(c) ==
  /\ cr[c].pc = "create"
  /\ pay' = [pay EXCEPT ![cr[c].p] = "PENDING"] /\ Goto(c, "process")
  /\ UNCHANGED <<day, row, retry, charge, us, requests, notes, faults>>

\* The key renewal-<subscription>-<day> is unique: a second insert throws.
CreatePayment(c) ==
  /\ cr[c].pc = "create"
  /\ IF pay[cr[c].p] = "NONE"
     THEN pay' = [pay EXCEPT ![cr[c].p] = "PENDING"] /\ Goto(c, "process")
     ELSE Finish(c) /\ UNCHANGED pay
  /\ UNCHANGED <<day, row, retry, charge, us, requests, notes, faults>>

Process(c) ==
  /\ cr[c].pc = "process"
  /\ SetsPayment(cr[c].p, "PENDING", "PROCESSING")
  /\ Goto(c, "charge")
  /\ UNCHANGED <<day, row, retry, charge, us, requests, notes, faults>>

\* chargePayment: the n-th charge of p has an idempotency key of its own.
Charge(p, n, result) ==
  /\ charge[p][n] \in {"none", result}
  /\ charge' = [charge EXCEPT ![p][n] = result]

ChargeRenewal(c) ==
  /\ cr[c].pc = "charge"
  /\ \/ Charge(cr[c].p, 0, "ok") /\ Goto(c, "mark")
     \/ Charge(cr[c].p, 0, "declined") /\ Goto(c, "fail")
  /\ UNCHANGED <<day, row, pay, retry, us, requests, notes, faults>>

MarkSucceeded(c) ==
  /\ cr[c].pc = "mark"
  /\ SetsPayment(cr[c].p, "PROCESSING", "SUCCEEDED")
  /\ Goto(c, "complete")
  /\ UNCHANGED <<day, row, retry, charge, us, requests, notes, faults>>

\* completeRenewal: ACTIVE to ACTIVE with the new period; nobody asks whether
\* the subscription was still ACTIVE.
CompleteRenewal(c) ==
  /\ cr[c].pc = "complete"
  /\ Sets({"ACTIVE"}, "ACTIVE", cr[c].p + Period)
  /\ renewals' = IF status = "ACTIVE" /\ cr[c].plan > 0
                 THEN renewals \cup {cr[c].p} ELSE renewals
  /\ Finish(c)
  /\ UNCHANGED <<day, plan, next, money, us, requests, calm, unclear, faults>>

\* Mutation: a declined renewal is completed all the same.
MarkFailedCompletes(c) ==
  /\ cr[c].pc = "fail"
  /\ SetsPayment(cr[c].p, "PROCESSING", "FAILED")
  /\ Goto(c, "complete")
  /\ UNCHANGED <<day, row, retry, charge, us, requests, notes, faults>>

MarkFailed(c) ==
  /\ cr[c].pc = "fail"
  /\ SetsPayment(cr[c].p, "PROCESSING", "FAILED")
  /\ Goto(c, "schedule")
  /\ UNCHANGED <<day, row, retry, charge, us, requests, notes, faults>>

\* Mutation: the count stays, and with it the key of the next attempt.
SchedulePaymentRetryStays(c) ==
  /\ cr[c].pc = "schedule"
  /\ retry' = [retry EXCEPT ![cr[c].p] = IF @ = 0 THEN 1 ELSE @]
  /\ Finish(c)
  /\ UNCHANGED <<day, row, pay, charge, us, requests, notes, faults>>

\* The increment looks neither at the status nor at the count.
SchedulePaymentRetry(c) ==
  /\ cr[c].pc = "schedule"
  /\ retry' = [retry EXCEPT ![cr[c].p] = @ + 1]
  /\ Finish(c)
  /\ UNCHANGED <<day, row, pay, charge, us, requests, notes, faults>>

-----------------------------------------------------------------------------
(* PaymentRetryWorker                                                      *)

\* Rows whose retries are used up are not found: the branch of retryPayment
\* that makes the subscription PAST_DUE is never reached.
Retriable(p) == pay[p] = "FAILED" /\ retry[p] \in 1 .. MaxRetries - 1

\* A retry that got no answer, and whose key Stripe has not seen, is about to be
\* counted: whoever finds the payment now uses that key once more.
Open(d, p, n) ==
  cr[d].pc = "schedule" /\ cr[d].p = p /\ cr[d].n = n /\ charge[p][n + 1] = "none"

\* A run works through the payments it has found one after the other: each is a
\* run of its own here, which reads its row as early as it likes.
FindPaymentsForRetry(c, p) ==
  /\ cr[c].pc = "idle"
  /\ Retriable(p)
  /\ cr' = [cr EXCEPT ![c] = [IdleCron EXCEPT !.pc = "recharge", !.p = p, !.n = retry[p]]]
  /\ unclear' = IF \E d \in Crons : Open(d, p, retry[p]) THEN unclear \cup {p} ELSE unclear
  /\ UNCHANGED <<day, row, money, us, requests, renewals, calm, faults>>

\* The key is made from the count the run has read.
Recharge(c) ==
  /\ cr[c].pc = "recharge"
  /\ \/ Charge(cr[c].p, cr[c].n + 1, "ok") /\ Goto(c, "settle")
     \/ Charge(cr[c].p, cr[c].n + 1, "declined") /\ Goto(c, "schedule")
  /\ UNCHANGED <<day, row, pay, retry, us, requests, notes, faults>>

\* The renewal that the payment was for is not completed.
Settle(c) ==
  /\ cr[c].pc = "settle"
  /\ SetsPayment(cr[c].p, "FAILED", "SUCCEEDED")
  /\ Finish(c)
  /\ UNCHANGED <<day, row, retry, charge, us, requests, notes, faults>>

\* chargePayment's catch: a connection, rate-limit or conflict error reports a
\* failure, whether Stripe has charged or has done and kept nothing.
Unanswered(c) == LET p == cr[c].p n == IF cr[c].pc = "charge" THEN 0 ELSE cr[c].n + 1 IN
  /\ Fault("net")
  /\ cr[c].pc \in {"charge", "recharge"}
  /\ Charge(p, n, "ok") \/ UNCHANGED charge
  /\ unclear' = IF \/ charge'[p][n] = "ok"
                   \/ \E d \in Crons \ {c} :
                        cr[d].pc = "recharge" /\ cr[d].p = p /\ cr[d].n + 1 = n
                THEN unclear \cup {p} ELSE unclear
  /\ Goto(c, IF cr[c].pc = "charge" THEN "fail" ELSE "schedule")
  /\ UNCHANGED <<day, row, pay, retry, us, requests, renewals, calm>>

-----------------------------------------------------------------------------
(* BillingCycleWorker: trials, grace periods, downgrades                   *)

FindExpiredTrial(c) ==
  /\ cr[c].pc = "idle"
  /\ status = "TRIAL" /\ ends <= day
  /\ cr' = [cr EXCEPT ![c] = [IdleCron EXCEPT !.pc = "trial", !.plan = plan]]
  /\ UNCHANGED <<day, row, money, us, requests, notes, faults>>

\* A free plan becomes ACTIVE and keeps its period's end.
EndTrial(c) ==
  /\ cr[c].pc = "trial"
  /\ IF cr[c].plan = 0 THEN Sets({"TRIAL"}, "ACTIVE", ends)
     ELSE Sets({"TRIAL"}, "GRACE_PERIOD", day + Grace)
  /\ Finish(c)
  /\ UNCHANGED <<day, plan, next, money, us, requests, notes, faults>>

FindExpiredGracePeriod(c) ==
  /\ cr[c].pc = "idle"
  /\ status = "GRACE_PERIOD" /\ ends <= day
  /\ Goto(c, "grace")
  /\ UNCHANGED <<day, row, money, us, requests, notes, faults>>

EndGrace(c) ==
  /\ cr[c].pc = "grace"
  /\ Sets({"GRACE_PERIOD"}, "EXPIRED", ends)
  /\ Finish(c)
  /\ UNCHANGED <<day, plan, next, money, us, requests, notes, faults>>

FindScheduledDowngrade(c) ==
  /\ cr[c].pc = "idle"
  /\ next # NoChange /\ next.at <= day /\ status \in Changeable
  /\ cr' = [cr EXCEPT ![c] = [IdleCron EXCEPT !.pc = "apply", !.plan = next.plan]]
  /\ UNCHANGED <<day, row, money, us, requests, notes, faults>>

\* updatePlan to the plan that was read, ...
ApplyDowngrade(c) ==
  /\ cr[c].pc = "apply"
  /\ plan' = IF status \in Changeable THEN cr[c].plan ELSE plan
  /\ Goto(c, "unschedule")
  /\ UNCHANGED <<day, status, ends, next, money, us, requests, notes, faults>>

\* ... and whatever is scheduled by now is cleared.
ClearScheduled(c) ==
  /\ cr[c].pc = "unschedule"
  /\ next' = NoChange
  /\ Finish(c)
  /\ UNCHANGED <<day, status, plan, ends, money, us, requests, notes, faults>>

\* Each row is handled in a try block of its own.
CronThrow(c) ==
  /\ Fault("db")
  /\ cr[c].pc # "idle"
  /\ Finish(c)
  /\ UNCHANGED <<day, row, money, us, requests, notes>>

Find(c) ==
  \/ FindDueForRenewal(c) \/ (\E p \in Days : FindPaymentsForRetry(c, p))
  \/ FindExpiredTrial(c) \/ FindExpiredGracePeriod(c) \/ FindScheduledDowngrade(c)

CronStep(c) ==
  \/ CreatePayment(c) \/ Process(c) \/ ChargeRenewal(c) \/ MarkSucceeded(c)
  \/ CompleteRenewal(c) \/ MarkFailed(c) \/ SchedulePaymentRetry(c)
  \/ Recharge(c) \/ Settle(c)
  \/ EndTrial(c) \/ EndGrace(c) \/ ApplyDowngrade(c) \/ ClearScheduled(c)

-----------------------------------------------------------------------------
Crash ==
  /\ Fault("crash")
  /\ cr' = [c \in Crons |-> IdleCron]
  /\ us' = [u \in Users |-> IdleUser]
  /\ UNCHANGED <<day, row, money, requests, notes>>

Next ==
  \/ Tick
  \/ \E u \in Users : AskCancel(u) \/ AskReactivate(u) \/ UserStep(u) \/ UserThrow(u)
  \/ \E u \in Users, n \in Plans : AskChange(u, n) \/ AskActivate(u, n)
  \/ \E c \in Crons : Find(c) \/ CronStep(c) \/ Unanswered(c) \/ CronThrow(c)
  \/ Crash

Spec == Init /\ [][Next]_vars

(* Fairness: the crons are started again and again, and the event loop     *)
(* runs every pending continuation.  Nobody has to ask anything.           *)
Fairness ==
  /\ \A u \in Users : WF_vars(UserStep(u))
  /\ \A c \in Crons : WF_vars(CronStep(c))
                     /\ \A p \in Days : SF_vars(FindPaymentsForRetry(c, p))

FairSpec == Spec /\ Fairness
-----------------------------------------------------------------------------
CronPcs == RenewalPcs \cup {"schedule", "recharge", "settle", "trial", "grace",
                            "apply", "unschedule"}

TypeOK ==
  /\ day \in Days
  /\ status \in Status
  /\ plan \in Plans
  /\ ends \in Nat
  /\ next \in [plan : Plans, at : Nat] \cup {NoChange}
  /\ pay \in [Days -> PaymentStatus]
  /\ retry \in [Days -> Nat]
  /\ charge \in [Days -> [0 .. MaxRetries -> {"none", "ok", "declined"}]]
  /\ cr \in [Crons -> [pc : CronPcs \cup {"idle"}, p : Days, plan : Plans,
                       n : 0 .. MaxRetries - 1]]
  /\ us \in [Users -> [pc : {"idle", "cancel", "reactivate", "schedule", "clear", "upgrade",
                             "activate"}, plan : Plans, at : Nat]]
  /\ requests \in 0 .. MaxRequests
  /\ renewals \in SUBSET Days /\ calm \in BOOLEAN /\ unclear \in SUBSET Days
  /\ faults \in 0 .. MaxFaults

(* A payment is charged successfully once, however its renewal, its        *)
(* retries and overlapping runs of the retry cron interleave, wherever     *)
(* they die and whatever errors they meet.  The exceptions are the two     *)
(* where the next attempt has a new idempotency key too early: Stripe      *)
(* charged and its answer was lost; or an attempt failed with nothing kept *)
(* by Stripe while another run had read the same count, and that run's     *)
(* charge under the old key succeeds.                                      *)
ChargedOnce ==
  \A p \in Days :
    Cardinality({n \in 0 .. MaxRetries : charge[p][n] = "ok"}) > 1 => p \in unclear

(* The period of a paid plan moves only for a renewal that was charged.    *)
RenewedIfPaid == \A p \in renewals : charge[p][0] = "ok"

(* A subscription cancelled while no renewal was under way is never        *)
(* renewed: no payment is created for it while it stays cancelled.         *)
CancelHolds ==
  [][calm /\ status = "CANCELLED" => \A p \in Days : pay[p] = "NONE" => pay'[p] = "NONE"]_vars

(* Every failed payment that has a retry scheduled is retried until it     *)
(* succeeds or its retries are used up.                                    *)
Dunning ==
  \A p \in Days : Retriable(p) ~> pay[p] = "SUCCEEDED" \/ retry[p] >= MaxRetries
=============================================================================
