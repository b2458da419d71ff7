# TLA+ models of the Wazelo back end

Wazelo is a WhatsApp CRM: a NestJS back end (`src/backend`), React front ends and
web sites. This directory holds TLA+ specifications of the parts of the back end in
which several activities share rows, jobs and sockets: the two engines that send messages,
bulk campaigns, the lifecycle of a WhatsApp session, scheduled messages, drip sequences,
inbound messages with their SLA tracking, and the billing cycle. TLC checks them on small
instances, TLAPS proves their safety properties for every instance.

Paths below are relative to `src/backend/src/` unless they start with `src/`.

Contents: [1 The system](#1-the-system) · [2 Plan](#2-plan) ·
[3 Common modelling decisions](#3-common-modelling-decisions) ·
[4 Outbound](#4-outbound-the-message-send-engine) · [5 Campaign](#5-campaign) ·
[6 Session](#6-session) · [7 Scheduled](#7-scheduled) · [8 Sequence](#8-sequence) ·
[9 Inbox and Sla](#9-inbox-and-sla) · [10 Channel](#10-channel) · [11 Billing](#11-billing) ·
[12 Runs](#12-runs) · [13 Proofs](#13-proofs) ·
[14 Disagreements](#14-what-the-models-show-about-the-code) ·
[15 Not modelled](#15-what-is-not-modelled) · [16 How to run](#16-how-to-run)

## 1 The system

One Node process serves the API, holds the WhatsApp sockets (Baileys), runs the crons
and the job workers, and dispatches in-process events (EventEmitter2). State lives in
PostgreSQL (Prisma, almost always one statement at a time, no transaction around a
handler) and in pg-boss queues in the same database. So every `await` is a point where
another request, worker, timer or event handler may run, and a crash loses everything
but the rows and the jobs.

### Components

| Component | State | Operations | Talks to | Hard behaviour | Correct means |
|---|---|---|---|---|---|
| **Job queue** `infrastructure/queue/queue.service.ts` over pg-boss | jobs: created, active, completed; a `singletonKey` admits one unfinished job | `publish`, `publishOnce`, `publishDelayed`, `subscribe`, `subscribeConcurrent` | every worker | at least once; a publish under the key of a running job is lost without an error | a job is run until it completes or its retries are used up |
| **Message send engine** `jobs/whatsapp/send-message.worker.ts`, `jobs/messaging/message-recovery.worker.ts`, receipts, dead letters | `messages.status`, `whatsappMessageId`, `retryCount`; `dead_letter_messages` | claim, rate-limit, send, record, retry, bury; two recovery crons; receipts; reprocess | queue, session's socket, events | duplicate jobs, lost answers, stale recovery, receipts out of order | at most once, exclusive claim, one dead letter, no step back from delivered, every message settles |
| **Campaign execution** `jobs/campaign/*`, `events/handlers/campaign-events.handler.ts`, `modules/campaigns` | `campaigns.status` and counters, `campaign_recipients.status`, `messageId` | schedule, execute, pause, resume, cancel; executor, batches, message events, safety net | queue, send engine's events | requests race executor and batches; events and receipts race each other; completion by the last event | status follows the state machine; nothing before the run; honest recipients and counters; completed means done; it ends |
| **WhatsApp session** `infrastructure/external/whatsapp/*`, `modules/whatsapp`, `jobs/whatsapp/session-health.worker.ts` | `whatsapp_sessions`: status, credentials, heartbeat, reconnectCount; in memory `connections`, `initializing`, timers | initiate, refresh QR, reconnect, disconnect; socket events; health cron and job; restart | WhatsApp, queue, events | five callers of `createConnection`; socket callbacks against requests; restart | one socket per session, no ghost, credentials survive, retries bounded but for faults, it comes back |
| **Scheduled messages** `jobs/scheduler`, `modules/scheduler` | `scheduled_messages.status`, `scheduledAt`, `pgBossJobId` | create, edit, cancel; the cron's claim; execution with retries | queue, session | crash after the compare-and-set; edit or cancel against claim and execution; two retry counts | handed over once, not early, never after a cancel; a true verdict; every message gets one |
| **Inbound messages** `jobs/messaging/incoming-message.worker.ts`, `handle-incoming-message.use-case.ts` | message rows, `conversation.unreadCount` | deduplicate, create, identify, count, evaluate | WhatsApp, queue, SLA | redelivery; a retry after a partial run; the id comes after the row | one row per message, counted once, none lost |
| **Sequences** `jobs/sequence`, `modules/sequences` | recipient's step, status, due time; `sequence.status` | check, step, advance; start, pause, resume, cancel | queue, send engine | stop against a step; several jobs of one recipient; partial step; the check's own job | no step skipped, none after a stop, nobody stuck but by a fault |
| **Channel messages** `jobs/channel`, `modules/channels` | message rows of the other channels | send, retry, fail, status updates; inbound | queue, adapters, recovery crons | retry under its own active key; adoption by the other engine | as for the send engine |
| **SLA tracking** `jobs/sla`, `modules/sla` | `slaTracking`, `slaBreachLog` | evaluate, breach check, escalate, acknowledge | inbound messages, replies | three evaluations at a time; the check works on a list; several writes per breach | an answered one is not reported, an unanswered one is, an acknowledged one not escalated |
| **Billing cycle** `jobs/billing`, `modules/billing` | subscription status, period, plan; payments | renew, retry, expire, downgrade; cancel, reactivate, change plan, activate | crons, Stripe | charge, record and move in separate steps; overlapping runs | a payment charged once unless Stripe gave no answer; a period that moves is paid; cancel is final |
| **Outgoing webhooks** `jobs/webhook` | delivery log, failure count | deliver, retry, disable | queue | concurrent counting | bounded retries, disabled once |
| **Authentication sessions** `modules/auth` | refresh-token sessions | log in, rotate, revoke | API | rotation is find, revoke, create | a token is used once |
| **Automation, follow-ups** `jobs/automation`, `modules/automation` | execution log, cooldowns | evaluate, act | events, queue | check-then-act cooldown, repeated actions | each trigger acts once per cooldown |
| **Message submission** `send-message.use-case.ts`, rate limiter | message row, rate windows | validate, deduplicate, persist, publish | send engine | check-then-create | no duplicate for one idempotency key |
| Chatbot; contacts, deals, products; organisation, users, roles; analytics, scoring, CSAT, observability; notifications, e-mail; lead ads, Shopify, widget; AI, knowledge base, search; developer API, GDPR, super-admin; schema; user interfaces | rows of their own | CRUD, derived data, best-effort output | — | little: one row at a time, or nothing depends on it | local checks |

Every file named in `PROJECT.json` belongs to one of these. The `hazards` there list what
is hard to test in each, at its line.

### How the modelled parts interact

    API requests ──► campaigns, sequences, scheduled ──send jobs──► SendMessageWorker
                        ▲                                                │  socket.sendMessage
                        │                                                ▼
                        └── SENT / DELIVERED / READ / FAILED ◄── receipts ◄── WhatsApp session
                                    │                                         ▲      │ inbound
                     requests, timer, health cron and job, restart ───────────┘      ▼
    other channels ──► SendChannelMessageWorker     SLA evaluation ◄── IncomingMessageWorker
                        ▲ the same message table: MessageRecoveryWorker

The send engine needs the session only through "is it connected, and does the send call
return, throw or lose its answer"; campaigns and sequences need the send engine only through the fate
of each message and the events that report it. The models are cut along these lines.
`Delivery` is the contract at the second cut: `Outbound` implements it (run
`outbound_receipts`), and `Campaign` uses messages the way it describes: `msg` is the ledger's message, which
never comes back once it is out (`MessageSent`, `MessageFailed`, with `Settles` as fairness assumption).
Beside it `Campaign` keeps the row, which a receipt or an error after the send can set back, because the events that
are counted depend on what a receipt finds there. Two compositions cross a cut because the
hazard does: `Inbox` EXTENDS `Sla`, since a message that is stored starts the tracking and a
fault between the two is what loses it; and `Channel` contains the recovery crons and the claim of the
WhatsApp engine, which share the message table with it.

## 2 Plan

In the order in which the modules are written; 1 to 7 are done.

1. **Outbound** with **Delivery** as its abstract specification — everything else sends
   through it. Three runs; all safety properties and the refinement of `Delivery` proved.
2. **Campaign** — the largest state machine of the system. Two runs, all safety properties proved.
3. **Session** — sockets, timers and rows. Two runs, all safety properties proved.
4. **Scheduled** — claim, execution, retries, edits, cancels. One run, all safety properties proved.
5. **Inbox** on top of **Sla** — from the socket's event to the escalation of a breach. One run, all
   safety properties proved.
6. **Sequence**, **Channel** — one run each, all safety properties proved.
7. **Billing** — one run, all safety properties proved.
8. **Webhooks** (delivery, retry, disabling after repeated failures), **AuthRefresh** (rotation of
   refresh tokens), **Automation** (cooldown and repeated actions), inbound messages of the other
   channels — one state machine each. Not yet.

Every safety property that a run checks is stated by a theorem of section 13. Worth proving next: what
completes a campaign that was paused and resumed (`CompletedMeansDone` needs a condition on the messages
under way instead of `Single`), and the safety half of the liveness properties (whatever is
not settled is in somebody's hands, or where a cron will find it). The modules have no RECURSIVE
operator, so all of them can be proved about.

## 3 Common modelling decisions

- **One action is what runs between two awaits.** A handler's program counter names the
  await it is at. A read and a write are one action only when no await separates them,
  or when they are one SQL statement (`updateMany ... where status = from`).
- **A crash** resets the local state of all actors (one process) and keeps rows and jobs.
- **pg-boss** is external and modelled from how the code uses it: `Offered` (a publish has no
  effect while a job with that key waits or runs), fetch, completion, return to the queue when a
  handler throws, expiry when the handler is gone. In `Scheduled`, `Inbox`, `Sla` and `Channel` a job counts its
  attempts up to `RetryLimit` (`AfterFailure`) and is gone after that. In `Outbound` a job may be lost for
  good because its retries are used up; in `Campaign`, `Session` and `Sequence` the bound on faults is below
  the retry limit, so a job whose handler throws or dies runs again.
- **Time** is abstracted: a delay may elapse at any moment, a heartbeat or a row may be stale at any
  moment. A handler that outlives the staleness threshold of two minutes is the fault "slow". Only where a
  property is about a date is there a clock: `Scheduled` (the time of a message), `Sla` (the threshold)
  and `Billing` (days).
- **Faults** have names and a common bound `MaxFaults`. A run lists the kinds it admits.
- **History variables** (marked "history" where they are declared: `sends`, `lapse`, `astray`, `ran`, `torn`, `ended`, `calm`,
  `quiet`, `hit`, `unclear`, `lost` and their like) are read by properties only; the exceptions are counters that a bound
  mentions. Those that record a fault or a race (`lapse`, `astray`, `hit`, `raced`, `torn`, `unclear`, `cut`, `lost`) say exactly which
  moment excuses a message, a payment or a session; section 14 says what happens then.
- **Bounds** other than the sizes of the sets: `MaxRows`, `RetryCap` (Outbound), `MaxReceipts` (Campaign), `MaxRequests`,
  `MaxFaults` (all that have them), `MaxSessions`, `Sockets` (Session), `MaxTime`, `MaxJobs` (Scheduled), `MaxTime`,
  `MaxDeliveries` (Inbox), `MaxDay` (Billing). They stand in guards of the environment: a
  request, a fault, a receipt, a tick, an operator, a socket, a delivery. Two are in guards of the code and are chosen out
  of its reach: `RetryCap`, the retry count from which no stale recovery is made (each needs a crash, an error or a slow
  worker, so the bound on faults keeps the count below it), and `MaxJobs`, the executor jobs in a run (a fifth adds no state). The ghost of
  `NoGhost` needs one socket more than there are sessions, which `session_requests` has.
- **Deadlock** is not checked (`CHECK_DEADLOCK FALSE`) because each bounded system comes to
  rest: all messages are out or failed, all requests used. Stuck states show in the liveness
  properties instead.
- Definitions marked *Mutation* in the modules are never used by the specifications; each is the
  plausible bug that the property named with it in `PROJECT.json` excludes.

## 4 Outbound: the message send engine

| State in the model | In the code |
|---|---|
| `status`, `wa`, `retry` | `message.status`, `whatsappMessageId` set, `retryCount` |
| `open`, `buried` | `dead_letter_messages`: rows not yet reprocessed, rows ever |
| `job[m][key]` | send jobs by `singletonKey` (`send-`, `delayed-`, `retry-n`, `recover-`, `stale-queued-`, `reprocess-`) |
| `pending` | requests between `messageRepo.create` and `publishOnce` |
| `wk`, `cr`, `rx`, `op` | the handlers under way: worker, recovery iteration, receipt, reprocess |

| Actions | Code |
|---|---|
| `Submit`, `Enqueue`, `RequestThrow` | `SendMessageUseCase` |
| `Fetch`, `Load`, `Claim`, `Limit`, `Postpone`, `Admit`, `Refuse`, `Accepted`, `Rejected`, `AckLost`, `MarkSent`, `Report`, `FailRetry`, `ScheduleRetry`, `FailFinally`, `Bury`, `Throw`, `ThrowAfterSend` | `SendMessageWorker` |
| `FindStale`, `RecoverRetry`, `RecoverPublish`, `RecoverFail`, `RecoverBury`, `FindQueued`, `RepublishQueued`, `CronThrow` | `MessageRecoveryWorker` |
| `Receive`, `ApplyReceipt`, `ReceiptThrow` | `HandleStatusUpdateUseCase` |
| `Reprocess`, `ResetMessage`, `PublishReprocess`, `MarkReprocessed`, `OperatorThrow` | `ReprocessDeadLetterUseCase` |
| `Expire`, `Crash` | pg-boss, the process |

Details of data left out: the rate limiter's windows (`Limit` and `Admit` are both possible), the
payload (a refusal of an interactive message without payload is `Refuse`), which error is thrown
(`retryable` is chosen), the events a worker emits (the campaign model has them). A cron takes up one
message of its list per iteration, which stands for every order in which the loop reaches them; what it
knows of the message is as old as the list.

`lapse[m]` marks a message whose fate a fault has made uncertain: the answer of an accepted send was lost, a
database call after the send threw, the process died between send and record, a recovery acted on a
list that was out of date, or an operator asked for the message again. The safety properties say what
holds without that, under crashes, errors and recoveries anywhere else; what happens with it is in
section 14.

**Properties.** `AtMostOnce`, `ExclusiveClaim`, `ClaimSound` (the inductive claim invariant),
`OneDeadLetter`, `DeliveredStays`, `Settles`, and `LedgerSpec`: with
`Phase(m)` as refinement mapping the engine implements `Delivery`, in which a message that is out
never comes back.

`LedgerSpec` is checked without operators (reprocessing puts a failed message back in the queue, which is what it is
for) and without the fault "slow" and database errors in worker and cron (each breaks the ledger, see section 14).

**Fairness.** Weak fairness for the steps of running handlers: the event loop runs every pending
continuation. Strong fairness for `Fetch` (pg-boss polls; a job that waits again and again is
fetched), for the two finders (crons every 30 and 60 seconds) and for `Admit` (a rate window of one
minute does not stay full for ever). None for requests, receipts, operators or faults.

## 5 Campaign

| State in the model | In the code |
|---|---|
| `status`, `count` | `campaign.status`, the four counters |
| `rcp`, `linked` | `campaign_recipients.status`, `messageId` set. `INVALID` is SKIPPED for a deleted or opted-out contact, which `resetSkippedToPending` tells apart by its failure reason |
| `msg` | the message with the recipient's idempotency key, in the terms of `Delivery` |
| `row`, `sending` | its `message.status`, which receipts are compared with; its sender has written SENT and not returned |
| `astray` | history: two receipts of the message were handled at once, or its sender met a database error after the send |
| `ejob`, `flag`, `bjob`, `check` | executor jobs by key, batch jobs, the safety net's job |
| `ex`, `bw`, `us`, `found` | executor, batch handlers, requests, safety net |
| `ev[c][<<kind, i>>]` | receipts and event handlers: `i = 0` is an event of the sender, the other numbers are receipts of one kind that are handled at the same time |

| Actions | Code |
|---|---|
| `Ask`, `Reset`, `Set`, `Skip`, `Publish`, `UserThrow` | the five use cases (load and assert the transition; resume resets skipped recipients; compare-and-set; skip pending; publish) |
| `FetchCheck`, `FindScheduled`, `FinishCheck`, `ExpireCheck`, `Due` | `CampaignSchedulerWorker` |
| `FetchExec`, `ELoad` … `EFail`, `ECatch`, `EThrow`, `ExpireExec` | `CampaignExecutorWorker` |
| `FetchBatch`, `BLoad` … `BTally`, `BCatch`, `BThrow`, `ExpireBatch` | `CampaignBatchWorker` |
| `MessageSent`, `SendThrow`, `MessageFailed`, `MessageBuried` | the send engine, as `Outbound` lets it act |
| `Receive`, `VMark` | `HandleStatusUpdateUseCase`: look at the row; after an await write it and emit the event |
| `VFind`, `VWrite`, `VCount`, `VLook`, `VTally`, `VComplete`, `HandlerThrow` | `CampaignEventsHandler` |

The executor inserts recipients in chunks; a chunk is the recipients of one batch. Which contacts the audience
query returns is chosen freely, the empty set included (which throws). A message can be sent from when its
handler has published it, or when that handler is gone (the stale-queue cron publishes it then); the
dead-letter path of the recovery cron, which emits no event, needs a crash first.

A receipt looks at the row and writes it after an await, so two at once can both pass, and then both events are
counted. A database error once SENT is written makes the sender take the row back (`SendThrow`), after which a
receipt passes that had passed before. Both mark the message `astray`.

**Properties.** `StatusMoves` (an action property: every change is an edge of
`VALID_TRANSITIONS`), `RecipientsHonest` (which includes that nothing exists before the campaign has been
RUNNING), `CountersHonest` (as long as no message is astray), `InvalidStays`, `CompletedMeansDone` (which includes that
the whole audience was inserted), `Finishes`.

`CompletedMeansDone` and `Finishes` hold for one execution without a resume and without skipped
recipients (`campaign_run`), and not beyond that: see section 14.

**Fairness.** Weak for running handlers, expiry and the first poll; strong for the fetch of executor and batch
jobs, which compete for handlers; weak for `MessageSent \/ MessageFailed`: the send engine settles
every message, which is `Settles` of `Outbound`. Nobody has to ask for anything.

## 6 Session

| State in the model | In the code |
|---|---|
| `status`, `creds`, `known`, `count`, `deleted` | the row: status, `encryptedCreds`, phone number and heartbeat, `reconnectCount`, `deletedAt` |
| `aged` | sessions created more than five minutes ago (they are created in order) |
| `linked` | WhatsApp has the session among the phone's devices |
| `sock`, `conn` | the Baileys sockets; the `connections` map |
| `mk` | calls of `createConnection` that are under way, their stage (`initializing`) and their caller |
| `timer` | how many automatic reconnects (after 1.5 s) are due |
| `closing`, `saving`, `pend` | close, `creds.update`, and connected or logout handlers under way |
| `dis[s]` | the handlers of `disconnected` events, each named by the number of the fault it comes from |
| `torn`, `ended` | history: a disconnect dropped a live socket; the user or the phone asked for the end |
| `boot` | sessions `onModuleInit` has yet to reconnect |
| `jobs`, `hw`, `cl` | the health queue, its worker, the requests |

| Actions | Code |
|---|---|
| `Begin`, `LoadAuth`, `MakeSocket`, `FailCreate`, `Boot` | `createConnection`, `onModuleInit` |
| `Scan`, `Open`, `Lose`, `LoggedOut`, `ClearAuthState`, `CredsUpdate`, `SaveCreds`, `Timer`, `PhoneLogout` | socket callbacks, `BaileysAuthStateService` |
| `HandleConnected`, `HandleLogout`, `FindDisconnected`, `WriteDisconnected`, `PublishDisconnected`, `HandlerThrow`, `DisconnectedThrow` | `BaileysBridgeHandler`, `HandleSessionEventUseCase` |
| `CheckStaleHeartbeats`, `Fetch`, `WLoad`, `WReconnect`, `WCheck`, `WWrite`, `WPublish`, `WThrow` | `SessionHealthWorker` |
| `Initiate`, `DestroyForNew`, `Invalidate`, `Create`, `Start`, `Rollback` | `InitiateSessionUseCase` |
| `RefreshQr`, `DestroyForCode` | `RefreshQrUseCase` |
| `ReconnectSession`, `Reset`, `Start` | `ReconnectSessionUseCase` |
| `Disconnect`, `Logout`, `Forget`, `Clear`, `EndSession` | `DisconnectSessionUseCase`, `destroyConnection` |
| `Age`, `Crash` | five minutes pass; the process restarts |

All sessions belong to one user: sessions of different users share nothing. Several handlers of `connected`, of
`logout` or of `creds.update` for one session are one: the second would do the same again. Handlers of
`disconnected` are not: each counts an attempt, so every failed automatic reconnect has one of its own
(`FailCreate`), whatever is still being handled. Ending a socket and the callback that follows are one step (`sock.end`
calls it without an await). A row that is deleted after `findById` found it is still written, so both outcomes are
possible for a deleted row. A database error in the close handler of a logged-out socket is left out. The Signal
key store and the QR images are data.

**Properties.** `NoGhost` (a live socket is the one the map has, unless a disconnect dropped it),
`OneMaker` (one caller makes a connection, and only while there is none), `KeepsCreds` (an action property: only
the user or the phone cost a session its credentials, or the request that created it, which deletes the row when its
own `createConnection` has failed: `RolledBack`), `AttemptsBounded` (`reconnectCount` passes its limit by no more than
there were faults), `Recovers`. That a user has one active session — EPIC 3, line 23 — is not
true of the code, see section 14.

**Fairness.** Weak for handlers, timers and the cron (every ten seconds), strong for the fetch of jobs, weak for `Open`
and `LoggedOut`: WhatsApp answers a device it knows, and tells one it does not know. Nobody has to scan.

## 7 Scheduled

| State in the model | In the code |
|---|---|
| `now`, `due` | the clock, `scheduledAt` |
| `status`, `jobId` | `scheduledMessage.status`, `pgBossJobId` |
| `job` | executor jobs, each with the retry number in its payload and pg-boss's own attempts |
| `cr`, `ex`, `us` | runs of the cron, the executor, requests under way |

| Actions | Code |
|---|---|
| `CreateScheduled`, `AskUpdate`, `Update`, `AskCancel`, `Cancel`, `Unqueue`, `UserThrow` | the three use cases, `updatePending`, `queueService.cancel` |
| `FindDueMessages`, `Take`, `Publish`, `UpdatePgBossJobId`, `CronThrow` | `checkDueMessages` |
| `Fetch`, `Load`, `CheckSession`, `PublishDelayed`, `Fail`, `PublishSend`, `MarkSent`, `Done`, `Catch`, `FailJob`, `Rethrow`, `GiveUpThrow` | `handleExecute` |
| `Tick`, `Crash` | time, the process |

There are two layers of retries: the executor publishes a delayed job with the next number while the session is
down or the publication fails, and an error that is rethrown makes pg-boss run the same job again. `misses`
counts failed attempts whichever layer they belong to. A row is claimed by the compare-and-set in `Take`, and an
edit or a cancel is one that requires PENDING, or PENDING or QUEUED.

**Properties.** `SentOnce` (unless a fault hit between hand-over and its record), `NotEarly` (unless the edit came
while a run of the cron had the message listed), `VerdictSound`, `CancelHolds`, `Settles` (unless a fault lost
the job). **Fairness.** Weak for the clock, the cron, requests and the executor, which the event loop
and the interval drive; strong for `Fetch`.

## 8 Sequence

| State in the model | In the code |
|---|---|
| `seq` | `sequence.status` |
| `rcp`, `cur`, `at` | the recipient's status, `currentStep`, `nextStepAt` (none, waiting, due) |
| `line` | the answer of `getActiveRecipientsForStep`: ACTIVE and due, most overdue first |
| `msg` | the messages of a recipient, by the step in their idempotency key |
| `job`, `check` | step jobs by key, the check's job |
| `chk`, `wk`, `us` | the check, the step workers, requests under way |

| Actions | Code |
|---|---|
| `Ask`, `Enroll`, `SetStatus`, `UserThrow` | start, pause, resume, cancel of `SequencesController` |
| `FetchCheck`, `Look`, `PublishStep`, `FinishCheck`, `CheckThrow` | `checkDueSteps` |
| `Fetch`, `Load`, `Finish`, `Create`, `Advance`, `Complete`, `Catch`, `Throw` | `sendStep` |
| `Due`, `Crash` | time, the process |

The re-fetch in `sendStep` asks for the organisation's most overdue recipient and goes on only if that is the one of the
job: `Load` reads the head of `line`. A recipient leaves the line by the position it has there (`Leaves`),
which is how the proofs follow the line. The requests read the status and then write without looking again.

`SequenceEventsHandler`, which should move a recipient to another step or out of the sequence when the contact
replies, returns at its first line (`sequence-events.handler.ts:26`), because no emitter of the event it listens to names the
contact. So a reply is no action of the model, no recipient is EXITED, and `currentStep` changes by advancing alone.

**Properties.** `StepsAccounted` (no step is skipped, COMPLETED means all of them), `StopHolds` (a sequence stopped while
nothing of it was under way sends nothing), `StuckByFault` (a recipient no worker can take on got there by a fault between
sending and advancing). No liveness is claimed, because none holds: section 14.

## 9 Inbox and Sla

| State in the model | In the code |
|---|---|
| `inj`, `hd`, `iw` | jobs by WhatsApp message id; calls of `HandleIncomingMessageUseCase`; the worker |
| `rows`, `wid`, `unread` | message rows per message, those that have the id, `conversation.unreadCount` |
| `job`, `at`, `ev` | evaluation jobs, their `messageCreatedAt`, the three evaluations under way |
| `track`, `log`, `told` | `slaTracking`, `slaBreachLog.status`, escalations dispatched |
| `ck`, `esc`, `xw`, `us` | the breach check with its list, escalation jobs and worker, acknowledgements |

| Actions | Code |
|---|---|
| `Deliver`, `Queue` | `HandleIncomingMessageUseCase` |
| `IFetch`, `ICreate`, `IIdentify`, `ICount`, `IEvaluate`, `IThrow` | `IncomingMessageWorker` |
| `Reply` | the evaluation the send engine publishes when a reply is out |
| `EFetch`, `EFindInbound`, `EUpsert`, `EFindReply`, `EUpdate`, `EThrow` | `SlaEvaluateWorker` |
| `CheckFind`, `CheckNext`, `CheckMark`, `CheckLog`, `CheckEscalate`, `CheckThrow` | `SlaBreachCheckWorker` |
| `XFetch`, `XDispatch`, `XThrow`, `AskAcknowledge`, `Acknowledge` | `SlaEscalationWorker`, `AcknowledgeSlaBreachUseCase` |

`Inbox` extends `Sla`: its `Next` has `SlaNext`, and `IEvaluate` publishes the evaluation (`Evaluates`) as its last
step, after the row has its id, by which later attempts skip the message.

**Properties.** `StoredOnce`, `Accounted` (row, unread count and evaluation agree), `NeverLost` (the AC1 of the code's
comment, as long as attempts are left), `AnsweredHolds`, `AcknowledgedHolds`, `BreachReported`. The conditions `torn`, `cut`,
`lost`, `safe`, `calm` name the moments in which a fault or a race defeats them. **Fairness.** Weak for the worker
and for the check, which an interval starts; strong for the fetch of inbound jobs. None for evaluations, replies and
escalations, on which no liveness property depends.

## 10 Channel

| State in the model | In the code |
|---|---|
| `status`, `ext`, `retry`, `dead` | the row: status, `externalMessageId`, `retryCount`; its dead letters |
| `job`, `wajob` | the channel's send job and the WhatsApp engine's for the same row |
| `rq`, `wk`, `hk` | requests between row and job, workers, status updates |
| `cr`, `en` | `MessageRecoveryWorker`, `SendMessageWorker` as far as they touch the row |

| Actions | Code |
|---|---|
| `Submit`, `Publish` | `SendChannelMessageUseCase` |
| `Load`, `Claim`, `Inactive`, `Send`, `Refused`, `AckLost`, `MarkSent`, `Requeue`, `Republish`, `Fail`, `FailBury`, `Throw` | `SendChannelMessageWorker` |
| `FindStale`, `Recover`, `RecoverBury`, `FindQueued`, `Adopt` | `MessageRecoveryWorker` |
| `EngineClaim`, `EngineFail`, `EngineBury` | `SendMessageWorker` |
| `Receive`, `ApplyUpdate` | `ChannelWebhookService.handleStatusUpdate` |

The recovery queries have no condition on the channel, so the WhatsApp engine adopts channel messages. It finds no
connected session for them and buries them; whether the session's absence is seen at the first or at a
later attempt is left out.

**Properties.** `SentOnce`, `BuriedUnsent`, `SentStays`, each unless a fault hid that the provider has the
message, and `Settles`. **Fairness.** Weak for running handlers, strong for the two finders and the adoption, which are
periodic. None for the channel's own `Load`: `Settles` shows that the row comes to an end even so.

## 11 Billing

| State in the model | In the code |
|---|---|
| `day` | the clock; a renewal's idempotency key contains the day |
| `status`, `plan`, `ends`, `next` | the subscription: status, plan (its price), end of trial, period or grace, scheduled change |
| `pay`, `retry` | payments by the day in their key, `retryCount` |
| `charge` | Stripe: the result it keeps under each idempotency key (payment and attempt) and repeats |
| `cr`, `us` | runs of the crons, requests under way |

| Actions | Code |
|---|---|
| `FindDueForRenewal`, `CreatePayment`, `Process`, `ChargeRenewal`, `MarkSucceeded`, `CompleteRenewal`, `MarkFailed`, `SchedulePaymentRetry` | `handleCycleRenewal`, `renewSubscription`, `completeRenewal` |
| `FindPaymentsForRetry`, `Recharge`, `Settle` | `PaymentRetryWorker` |
| `Unanswered` | the catch block of `chargePayment`: a connection, rate-limit or conflict error is reported as a failure |
| `FindExpiredTrial`, `EndTrial`, `FindExpiredGracePeriod`, `EndGrace`, `FindScheduledDowngrade`, `ApplyDowngrade`, `ClearScheduled` | the other crons |
| `AskCancel`, `Cancel`, `AskReactivate`, `Reactivate`, `AskChange`, `Schedule`, `Clear`, `Upgrade`, `AskActivate`, `Activate` | the four requests and `verifyPayment` |

Each cron works through one subscription per run, which stands for every place it has in the list. A free
plan is completed without a payment. The subscription starts as TRIAL or ACTIVE with `Left` days to go, or in its grace period.

When an attempt is `Unanswered`, Stripe has either charged or kept nothing, and a later attempt under the same key may
still succeed. `unclear` has the payments for which the next attempt gets a new key too early: Stripe charged without
an answer; or another run had read the same count as the attempt that failed, or reads it before it moves (`Open`),
and charges under the old key.

**Properties.** `ChargedOnce` (unless `unclear`), `RenewedIfPaid`, `CancelHolds` (if no renewal was under
way), `Dunning`. **Fairness.** Weak for running handlers, strong for the retry cron's look-up, per payment: every run
looks at all that are due. Nobody has to ask for anything, and no other cron has to run.

## 12 Runs

| Run | Instance | Faults | Distinct states | Shows |
|---|---|---|---|---|
| `outbound_receipts` | 1 message, 2 workers, 1 cron, 2 receipts | 1 of crash, ack, receipt | 1.56 M | `AtMostOnce`, `ExclusiveClaim`, `ClaimSound`, `DeliveredStays`, `LedgerSpec` |
| `outbound_overlap` | 1 message, 1 worker, 1 cron, 1 operator | 2 of slow, db | 2.75 M | `OneDeadLetter` with reprocessing and late workers |
| `outbound_settles` | 1 message, 1 worker, 1 cron | 2 of crash, ack | 84 k | `Settles` |
| `campaign_run` | 2 contacts in 2 batches, 1 runner, execute, 1 receipt of each kind | none | 242 k | `CompletedMeansDone`, `Finishes` |
| `campaign_requests` | 1 contact, 2 users, 2 requests of all five kinds, or 1 execution and 1 receipt of each kind | 1 of crash, db | 1.88 M | `RecipientsHonest`, `CountersHonest`, `StatusMoves`, `InvalidStays` |
| `session_requests` | 1 session, 2 sockets, 2 requests of all four kinds, 1 attempt | 2 of crash, db, net, phone | 1.79 M | `NoGhost`, `OneMaker`, `KeepsCreds`, `AttemptsBounded` |
| `session_recovers` | 1 session, 1 socket, 2 attempts | 3 of crash, db, net | 122 k | `Recovers` |
| `scheduled_settles` | 1 message, 2 crons, 2 requests, 1 retry on each layer, 3 moments | 2 of crash, db | 134 k | `SentOnce`, `NotEarly`, `VerdictSound`, `CancelHolds`, `Settles` |
| `sequence_steps` | 2 recipients, 2 steps, 2 workers, 4 requests | 1 of crash, db | 346 k | `StepsAccounted`, `StuckByFault`, `StopHolds` |
| `inbox_answers` | 2 messages, 1 reply, 2 evaluations, 1 acknowledgement, 2 deliveries | 1 of crash, db | 212 k | `StoredOnce`, `Accounted`, `AnsweredHolds`, `AcknowledgedHolds`, `BreachReported`, `NeverLost` |
| `channel_sends` | 1 message, 2 workers, 2 crons, 1 status update, 1 retry | 2 of crash, db, ack, slow | 186 k | `SentOnce`, `BuriedUnsent`, `SentStays`, `Settles` |
| `billing_cycle` | 1 subscription, 2 crons, 2 requests, 2 plans, 3 retries, 1 renewal | 2 of crash, db, net | 262 k | `ChargedOnce`, `RenewedIfPaid`, `CancelHolds`, `Dunning` |

**Why the bounds are enough.** Messages do not interact in the engines but through the rate limiter,
which is nondeterministic, so one message shows every interleaving about it; two workers show every
conflict about a claim, and the number of retries only repeats the same loop (with one retry both the
retry and the final failure are reached). Campaign recipients interact
through the counters and the completion check: two suffice for "the last one completes", one for the
races on a single recipient, which are what `campaign_requests` is about. What becomes of messages (`Fates`) is split between
the two runs: failures are in the first, the delivered receipt in the second. The constraint `OneRace` of `MCCampaign` keeps
`campaign_requests` small: states in which a receipt has been seen are checked, but not explored further when there
is a second request or a scheduled start, nor when a message is astray, of whose counters `CountersHonest` says
nothing. Two receipts of a message at once are still reached, as receipts of two kinds. Two requests are every pair of
request kinds in every order and overlap. A session's rows and sockets are its own; a second
socket is there to be the ghost. Four requests let a sequence be started, paused, resumed and cancelled; two recipients are what the head of the line can tell apart. Two messages
are needed in `inbox_answers` because a reply answers the newest of two trackings, two deliveries because
the second may be the redelivery of the first. Three retries are the value in the schema. For all
safety properties the proofs of section 13 remove the bounds.

**Symmetry** is used for workers, recipients, sockets and requests in runs without liveness properties
(`outbound_receipts`, `campaign_requests`, `session_requests`, `sequence_steps`); no property tells the permuted
values apart.

## 13 Proofs

All theorems hold for any values of the constants that satisfy the module's named assumption (sets and bounds are
of the right type and sentinels are no members; TLC evaluates them in every run). Where a theorem needs more, its
statement says so: the column "needs".

| Module | Theorem | Says | Needs |
|---|---|---|---|
| `OutboundProofs` | `TypeCorrect` | `Spec => []TypeOK` | |
| | `ClaimCorrect` | `Spec => []ClaimSound` | |
| | `SentAtMostOnce`, `ClaimIsExclusive` | `AtMostOnce`, `ExclusiveClaim`, from `ClaimCorrect` | |
| | `BuriedOnce` | `Spec => []OneDeadLetter` | |
| | `DeliveredUnlessStale` | a delivered message whose `lapse` is not set is taken back only by a recovery that acts on an old list | |
| | `DeliveredForGood` | `Spec => DeliveredStays` | `Punctual` |
| | `EngineKeepsLedger` | `Spec => LedgerSpec`: `Outbound` implements `Delivery` | `Undisturbed` |
| `CampaignProofs` | `TypeCorrect` | `Spec => []TypeOK` | |
| | `EdgesOnly`, `InvalidIsFinal` | `StatusMoves`, `InvalidStays` | |
| | `RowsCorrect` | `Spec => []RecipientsHonest` | |
| | `CountersCorrect` | `Spec => []CountersHonest`, which speaks of the time until a message is astray | finitely many contacts |
| | `CompletedCorrect` | `Spec => []CompletedMeansDone` | `Single` |
| `SessionProofs` | `TypeCorrect` | `Spec => []TypeOK` | |
| | `MadeByOne`, `NoGhostSockets` | `OneMaker`, `NoGhost` | |
| | `CredsAreKept` | `Spec => KeepsCreds` | |
| | `AttemptsAreBounded` | `Spec => []AttemptsBounded` | |
| `ScheduledProofs` | `TypeCorrect` | `Spec => []TypeOK` | |
| | `NeverEarly`, `VerdictsHold`, `SentAtMostOnce` | `NotEarly`, `VerdictSound`, `SentOnce` | |
| | `CancelIsFinal` | `Spec => CancelHolds` | |
| `SequenceProofs` | `TypeCorrect` | `Spec => [](TypeInv /\ RcpSound)` | |
| | `NoneSkipped`, `OnlyFaultsStick` | `StepsAccounted`, `StuckByFault`, from `TypeCorrect` | |
| | `RestCorrect` | each worker has an active job of its own, and a sequence stopped at rest stays at rest | |
| | `StopIsFinal` | `StopHolds` | |
| `InboxProofs` | `TypeCorrect` | `Spec => []TypeInv`: types, and no actor at work on nothing | |
| | `StoredRight` | `Spec => []StoredOnce` | |
| | `AccountedFor` | `Spec => []Accounted` | finitely many messages |
| | `AnswersHold`, `AcknowledgementsHold` | `AnsweredHolds`, `AcknowledgedHolds` | |
| `ChannelProofs` | `TypeCorrect` | `Spec => []TypeInv` | |
| | `OneSend`, `NoLiveBurial` | `SentOnce`, `BuriedUnsent` | |
| | `NoReturn` | `Spec => SentStays` | |
| `BillingProofs` | `TypeCorrect` | `Spec => []TypeOK` | |
| | `RenewalsPaid` | `Spec => []RenewedIfPaid` | |
| | `CancelIsFinal` | `Spec => CancelHolds` | |
| | `ChargedAtMostOnce` | `Spec => []ChargedOnce`, whose exceptions are `unclear` | `MaxRetries <= 3` |

**What the conditions mean.** `Punctual`: one recovery runs at a time and no handler outlives the staleness
threshold. The crons do not wait for one another, so this is how the system normally runs and not what the code
enforces; without it a recovery may act on an old list (section 14), and `DeliveredUnlessStale` says
that this is the only step that takes a delivered message back, as long as neither a fault after the send nor an operator has
set its `lapse`. `Undisturbed`: moreover nobody reprocesses dead letters and no database call throws;
crashes, lost answers, failing receipts and any number of workers and messages remain. Each of the three is
needed, because each takes a message back that the ledger has as failed or sent. `Single`: the requests are
executions and cancels, and there are no faults. A second executor completes a campaign whose messages are
under way (section 14), so the property does not hold beyond that. The conditions are those of the runs that check the
three properties. `IsFiniteSet` makes cardinalities numbers. `MaxRetries <= 3` is explained below.

**The claim protocol.** `AtMostOnce` is not inductive: nothing in it says that a worker about to send has a message
that is not out yet. `Sound(m)` adds the rest: a claim has one holder and shows in the row; while held, the
message has no WhatsApp id and was sent exactly if its holder is about to record it; while not held, it was
sent exactly if its id is on record; a recorded message is out; a receipt under way belongs to a
recorded message. Each is needed for the next: the last one, for instance, because a receipt writes a status
without looking, and would otherwise be able to disturb a claim. The proof has a lemma for each
group of actors and under it a step per action; `Unmoved`, `Taken` and `Released` are the three ways a step can
touch a claim.

**Dead letters.** `Grave(m)` counts not only the rows but also the actors that have marked a message FAILED
and are about to write its row: at most one of all of them exists, and the status stays FAILED. `FirstBurial`
(somebody marks it), `LastRites` (they write the row) and `NoBurial` are again the three kinds of step.

**Delivered stays, and the ledger.** `RowStep` says once and for all who may write a row and what: a claim, the worker that lets
its claim go, a recovery at a stale list, a receipt, a reprocess. Of these only the recovery and the reprocess could
take a delivered message back. `Kept`: a reprocess under way has a dead letter, so by `OneDeadLetter` its message
is FAILED or its fate uncertain; a receipt under way is news. `Orphans`: what a recovery has found is still an
orphaned claim, if it is `Punctual`. For the ledger, `Firm` says of every message, whatever hit it, what `Sound` says of untouched
ones but for the count of sends: one holder, a row that shows it, an id on record exactly when the ledger has it out. Each way of
`RowStep` is then a ledger step or a stutter.

**Campaigns: status, rows and counters.** `StatusMoves` needs `Asked`: a request that is about to set the status saw one
from which it may; `MoveStep` lists who sets it. `Onward` (a message only goes on, a link stays) makes what an event or a row
claims stable: `EventSound` for events under way, `RowSound` for rows. The hard part is a batch handler, which
writes rows it looked at some awaits before: `JobHeld` (its batch is in no other hands) and `Lists` (who is on its list waits, and
the one it works on has not been written) make its writes right, since what others do meanwhile (`Outside`) to a recipient on a list is a pause
or a resume. `InvalidStays` follows: an INVALID recipient is on no list and linked to no message. `Unseen` is the second half of
`RecipientsHonest`: before the first RUNNING all executors stop at `verify`. `CountSound` counts a contact when its row has reached
a state and the event for it is neither under way nor to come; what the row says, the message has reached (`RowBehind`). `Calm`
makes that enough while nothing is astray: one receipt of a message is handled at a time and is new to the row, and an
event still to be counted is the only one of its kind. `NotRequeued` adds that no message that is out is queued again. A step that
puts a message astray ends the claim.

**Campaigns: completion.** Nothing in the code makes the last event handler the one that completes: it asks whether anybody is open and then sets
the status, with an await in between. Three invariants are needed together. `Token`: one execution exists, in the hands of the request that made the
campaign RUNNING, of the job, or of the executor. `Phase`: until the last insert nothing is sent and no event is under way, and from
then on everybody in the audience has a row. `Cleared`: while a handler is about to complete, nobody is open. The last is stable (`OpenStep`)
because rows only reopen through a batch handler's list, an insert or a resume, and none of these is left.

**One connection per session.** `NoGhost` and `OneMaker` need each other and `MapSound`: what the map has for a session is
a live socket of that session. A call of `createConnection` checks the map and the calls under way before
its first await; `OneMaker` then keeps the map empty until that call writes it. The conjunction with `TypeOK` is
inductive. `ConnectionMade`, `ConnectionClosed` and `ConnectionForget` are the steps that matter.

**Credentials.** `KeepsCreds` is proved from two invariants. `Asked`: whoever is about to clear
credentials — a closing socket, a logout event, a request past its first step — acts on a session whose end was
asked for; the one writer outside it is the roll-back, which the property names. `Unlinked`: a session WhatsApp does not know,
and whose end nobody asked for, has no credentials anywhere, neither in the row nor with a socket or a call
under way; so a socket WhatsApp logs out belongs to a session that the phone or the user ended.

**Attempts.** `CountBound` counts the writers that have read a count below the limit and have yet to
increment it: the health worker (`Waits`) and the handlers of `disconnected` events (`Rising`), each of which is the handler
of a failed automatic reconnect. As they are named by the fault they come from (`Numbered`), there are never more of them than
faults, so count and writers together never exceed `MaxAttempts + faults`.

**Scheduled messages.** `NotEarly` needs `Listed`: what a run of the cron has in its list is due, or was edited while
listed. `VerdictSound` needs `Counted`: the number in a job's payload is at most the misses so far, so the number that
makes the executor give up has been earned. `CancelHolds` rests on `Forward` (a status that is final stays
final, CANCELLED stays CANCELLED) and on `Moves`, which describes every step of the executor by where it
leads: `Quiet` then says that a message cancelled in its absence meets it only at steps that hand nothing
over. `SentOnce` needs `Claimed` (whatever concerns a message in a job, a cron or the executor comes after its claim) and
`Once`: after the first hand-over the message is about to be marked, or its row is final and every other
job will find that out.

**Inbound messages.** `StoredOnce` is inductive together with `Stored`: what the one worker is about to create has no id
yet, and a row without a fault is the stored one or the one about to get its id. `AnsweredHolds` needs `Answered`
(answered is for good, and neither in the check's list nor at its hand) and `Asked` (an acknowledgement is about a
logged breach, so it cannot write the first entry). `AcknowledgedHolds` needs `Acknowledged`: the only way
for the escalation worker to take a breach up is to find it ACTIVE, and an acknowledged one never is again.

`Accounted` is about three things that one worker does one after the other, and that a retry skips. `AtNew`: what it is about to create is not stored yet, what
it is about to count is. `Evaluated`: the evaluation of a stored message was published, or the worker is about to, unless a fault hit. `Tallied`: the unread
count is the number of messages in `Done`, those the worker is not about to count, but for the ones that a fault may have skipped.

**Sequences.** `Progress` is the invariant of a recipient: messages exist for every step before `currentStep` and for none
after it, and one worker at most is between creating the message of `currentStep` and advancing: every other worker at that step finds the message and
gives up. `Placed` says who is in the line, `Attended` that without a fault the worker that advances exists when the message does. `StopHolds` needs
`JobHeld` (a worker has an active job of its own) and `Quiet`: a sequence stopped at rest has no jobs and no
worker, and only the check, which looks at its status, publishes any (`RestCorrect`). The proofs follow the line of due recipients only through what
`Load` takes from its head, an ACTIVE and due recipient.

**Channels.** Two engines share the message table. `Sole`: whoever holds an untouched message is its only holder, and the row says PROCESSING. `Sent`: what
is known of one that went out, namely that its holder is about to record it or that the row has the provider's id, so that
neither engine's recovery takes it for stale. `BuriedUnsent` and `SentStays` follow from these two.

**Billing.** `RenewedIfPaid` needs `Paid` (a run about to record or complete a paid renewal has Stripe's yes) and
`ResultsStay` (a result Stripe keeps under a key stays). `CancelHolds` needs `Still`: no renewal is under way at a quietly
cancelled subscription, and none begins. `ChargedOnce` needs two invariants per payment, for all that are not
`unclear` (`AllSound`). `Renewing`: the unique key gives the first charge to one run. `Retrying`: runs of the retry cron that have read
the same count charge under the same key, and the count passes a number only when the attempt under it has failed for good:
declined, or with nothing kept and no run left that would charge under the same key (`Failed`). That is why the theorem asks
for at most three retries, the schema's default (`payment.repository.ts:105` compares with `maxRetries`): from
the fourth on, three overlapping runs can be at three counts at once.

**Only model-checked.** Liveness (`Settles` of three modules, `Finishes`, `Recovers`, `NeverLost`, `BreachReported`, `Dunning`): the
proof system does not do fairness and ENABLED. Every invariant and action property of the runs has a theorem. The inductive invariants of
`Campaign`, `Inbox` and `Sequence` were checked with TLC before they were proved, `Token`, `Phase` and `Cleared` with two contacts, batches,
runners and requests, which is more than `campaign_run` has.

## 14 What the models show about the code

Each of these is reached by the models above with other faults, requests or bounds, and is the reason why a
property has the condition it has, or why there is none.

*Send engine.* A message that WhatsApp accepted is sent again when the answer is lost
(`send-message.worker.ts:240`). A database error after `setWhatsAppMessageId` (`:244`) is handled as a
failed send, and leaves a message that is out but QUEUED: every later job skips it, so it stays QUEUED for ever
(excluded from `Settles` by its faults). A retry granted on a count read before the claim passes the
limit (`:261`). A recovery that acts on an old list (`message-recovery.worker.ts:48`) puts a sent message back
in the queue. Reprocessing does not look at the status (`reprocess-dead-letter.use-case.ts:43`) and keeps the
WhatsApp id, so a second click can queue a message that is out. Two receipts at once may turn READ into DELIVERED,
and the same event may be emitted twice (`handle-status-update.use-case.ts:82`; WhatsApp's statuses 4 and 5 both say read, `baileys-connection-manager.service.ts:264`). A rate-limited job postpones itself under a key that may
be its own, which is lost; the stale-queue cron brings it back after five minutes.

*Campaigns.* The executor asks for PENDING recipients only (`campaign-executor.worker.ts:98`): when all of them are QUEUED
and a second executor job runs (a pause and resume, or a schedule and an execution, suffice), it takes the campaign for processed and
completes it while messages are still on their way. Completion is checked by message events only
(`campaign-events.handler.ts:170`): when the last open recipients are skipped by the batch worker
(`campaign-batch.worker.ts:123`), no event follows and the campaign is RUNNING for ever. A message that fails counts twice (its FAILED and DEAD_LETTERED events both pass the check,
`campaign-events.handler.ts:101`), which is why `CountersHonest` says nothing of `failed`. Two receipts of a message at once,
or a database error after its send, let an event be emitted and counted twice: TLC refutes `CountersHonest` without the condition `astray = {}`, by
either of them. SENT may overwrite DELIVERED
on the recipient (`:41`). A batch under way does not see a pause or cancel (`campaign-batch.worker.ts:84`). A cancel
during the insertion of the audience leaves PENDING recipients in a cancelled campaign (`campaign-executor.worker.ts:177`);
a crash there leaves a part of the audience that a restart takes for all of it. The safety net re-queues itself under its own
active key (`campaign-scheduler.worker.ts:90`) and therefore runs once per process start, and a crash between
transition and publication (`schedule-campaign.use-case.ts:79`) leaves a campaign only it could start.

*Sessions.* `findActiveByUserId` (`whatsapp-session.repository.ts:75`) forgets a CONNECTING session after five minutes, but its socket keeps showing codes: the user
starts a second one, both codes are scanned and both sessions are CONNECTED, where EPIC 3 (line 23) wants one. Two concurrent initiates
have the same effect without the five minutes. `sock.logout` on a socket with credentials that is not open yet throws; the map's entry is deleted all the
same and the socket lives on unseen — the ghost that `torn` excludes from `NoGhost`. A `createConnection` under
way, or a timer that is due, while the user disconnects brings the session back (EPIC 3, line 190, wants it
gone). When the request that creates a session
fails in `createConnection`, its clean-up deletes row and credentials after an await (`initiate-session.use-case.ts:77`), although a refreshed code may have
been scanned in between: the exception of `KeepsCreds`. Each failed automatic reconnect has a handler of its own that reads the count and then increments
it (`baileys-connection-manager.service.ts:214`), so `reconnectCount` can pass the limit by as many. A worker that gives up races the `connected` event and leaves DISCONNECTED in the row of an open socket. `saveCreds`
under way may restore credentials just cleared. A close for another reason than logout writes nothing to the row: until
the health cron notices, it says CONNECTED. EPIC 3 (line 87) allows three reconnect attempts, the code fifteen.

*Scheduled messages.* The send job the executor publishes (`scheduled-message.worker.ts:177`) carries no `messageId`,
and nothing creates a message row: `SendMessageWorker` looks for the row of an undefined id. What
the model counts as handed over is therefore this job, and whether the customer gets the text is outside the model. A crash between the
compare-and-set and the publication (`:64`) leaves a QUEUED message that no poll finds again. An edit that comes while
the cron has the message in its list does not postpone it.

*Sequences.* The handler's comment (`sequence-events.handler.ts:9`) says that a reply jumps to another step or, with `exitOnReply`, exits
the sequence. It returns unless the event has a `contactId` (`:26`), and later wants a `body` (`:44`). Neither emitter of
`WHATSAPP_MESSAGE_RECEIVED` (`incoming-message.worker.ts:139`, `process-channel-inbound.worker.ts:166`) sets them, so a contact who replies is sent the next step all the same.
The check re-publishes itself under the key of its own running job (`sequence-step.worker.ts:82`), which takes
effect only once the throttle of the first is over: it may be the last one until a restart. The most overdue
recipient of a paused sequence is at the head of the query every worker goes by (`:107`), so that nobody in the organisation
advances. A pause or cancel does not stop what the check has published. A fault between creating the message and
advancing leaves a recipient whose next attempt fails on the idempotency key for ever. A sequence that is deleted softly goes on.

*Inbound messages and SLA.* A fault between the row and its id (`incoming-message.worker.ts:101`) makes the next attempt create a second
row; one after the id costs the unread count, the event and the SLA evaluation, since the next attempt skips the message.
`setWhatsAppMessageId` writes SENT and turns the DELIVERED of an inbound row into it. A reply whose
evaluation runs before that of the message it answers stops no clock, and the breach is reported. Two messages evaluated at
once start two trackings, of which a reply answers the newest. The check marks a tracking answered after it was
listed, and an evaluation that ends later may set `isBreached` to false on one whose breach is logged. A fault between
mark and log (`sla-breach-check.worker.ts:121`) loses the breach. Trackings of resolution time are never created.

*Channels.* The retry is published under the key of the running job (`send-channel-message.worker.ts:209`) and takes no effect. The
row stays QUEUED until `recoverStaleQueued`, which does not ask for the channel, gives it to the WhatsApp engine, which buries it for
want of a session. So no retry of a channel message is ever made, but by a crash or an error that makes pg-boss repeat the job. An operator who
reprocesses the dead letter of a channel message (`reprocess-dead-letter.use-case.ts:43`) puts it back in the WhatsApp engine's queue, which
buries it a second time; `Channel` has no operators.

*Billing.* Stripe keeps nothing for a connection, rate-limit or conflict error, and may have charged when a connection
breaks, but `chargePayment` (`stripe-payment.service.ts:80`) reports each as a failed payment; the next attempt has a new key
(`payment-retry.worker.ts:85`), so that the customer may be charged twice (`unclear`). A payment that succeeds on retry does not move the period, so the next day's renewal charges anew; the branch that would end the
past-due state (`payment-retry.worker.ts:53`) is never reached. Retries go on after a cancel. A crash between creating
the payment and marking it leads to a second payment the next day. An applied downgrade overwrites an upgrade made since it was
listed, and clears a newer schedule. A reactivation's compare-and-set accepts what has expired
in the meantime. With four or more retries three overlapping runs could charge twice (section 13).

## 15 What is not modelled

- Component 8 of the plan, not yet: outgoing webhooks, token rotation, automation rules, inbound messages of other channels.
- CRUD modules, derived data, notifications and third-party intake: no protocol between processes.
- The content of messages, templates, audience queries, encryption, the Signal protocol, QR images, websocket output, invoices, usage
  counters, proration, business hours and pauses of the SLA clock.
- Several processes: the back end keeps sockets and rate windows in memory and is deployed once.
- Reprocessing of channel messages by operators; the reply handler of sequences, which never gets past its first line.
- Rate limiting as counting: both outcomes are always possible.
- Real time: the models cannot say how long anything takes (EPIC 3, AC1: ten seconds).
- The user interfaces, which are half of the lines of the repository.

## 16 How to run

    tlc -workers 2 -config outbound_receipts.cfg MCOutbound
    tlc -workers 2 -config campaign_run.cfg MCCampaign
    tlc -workers 2 -config scheduled_settles.cfg MCScheduled
    tlapm OutboundProofs.tla

The module of a run is the one its configuration's constants are declared in: `MCOutbound`, `MCCampaign`, `MCSession`, `MCScheduled`,
`MCSequence`, `MCInbox`, `MCChannel`, `MCBilling`. `PROJECT.json` lists every run with its
properties, the mutant that shows each property to be sensitive to the code, and the source lines of each definition.
