# OpsNinja: formal models

OpsNinja is a multi-tenant ticketing system: a NestJS API on Postgres (row level
security per tenant), workers fed by SQS queues and a transactional outbox, Redis
for sessions, rate limits and dashboard aggregates, a websocket gateway, and
integrations with Jira, webhooks, SES and an LLM. This directory holds TLA+ models
of the parts whose correctness depends on the order in which several processes act,
the TLC runs that check them on small instances, and TLAPS proofs of what the runs
suggest for instances of any size.

## 1. Inventory

Per component: what it keeps, what it does, what is hard about it, what makes it
correct. Paths are relative to `src/`.

**SLA engine** (`apps/api/src/workers/sla-scheduler`, `apps/api/src/modules/sla`).
State: `sla_timers` (one row per ticket and clock type), `sla_fired_boundaries`,
`outbox_events`, SLA policies. The API creates timers with the ticket, recomputes
them on a priority change and edits policies; scheduler pods tick every 15 s: claim
due rows (`FOR UPDATE SKIP LOCKED`), fire the boundaries that are due (first
reminder, second reminder, breach), write one outbox event per boundary, advance
`next_fire_at`, commit. Hard: several pods, requests that update a claimed row,
policies that change between claim and classification, statements that fail in a
transaction without savepoints, crashes between write and commit. Correct: each
boundary is fired once, in order, with one event; `breached` and the breach event
go together; no running timer is forgotten.

**SLA reminder notifications** (`apps/workers/notification-worker`). State: the
SQS queue, `sla_reminder_emissions` (unique per timer, threshold, channel). A
handler takes a message and, per channel, opens a transaction, inserts the
idempotency row, checks the timer and the ticket, finds the recipient, sends,
records the outcome, commits; then deletes the message. Hard: a message received
again while it is being handled, a send that cannot be rolled back, errors worth a
retry, a crash anywhere. Correct: no alert lost, none repeated by redelivery alone,
the queue drains.

**Dashboard stream** (`apps/workers/dashboard-aggregator`,
`apps/realtime-gateway`, `apps/web-agent/features/dashboard/state`). State: Redis
aggregates and a sequence counter per tenant, a ring of recent frames, per-connection
queues, the client's snapshot. Events change aggregates by scripts; a publisher
turns differences into numbered frames; the gateway backfills a connection from the
ring and then follows the channel; the client applies frames and asks for a
snapshot when it sees a gap. Hard: the number is read and allocated at different
moments by ticks that may overlap, frames published during the backfill's read, a
reconciler that overwrites aggregates. Correct: the aggregates and the last frame come to
show what Postgres says, and a client never applies a delta to data it does not go with.

**Tickets** (`apps/api/src/modules/tickets`). State: tickets with a status and a
version, comments, status history. Agents, the portal and Jira change a ticket at
once under optimistic versions. Correct: the history is the path the status took,
a closed ticket reopens only as the rules say.

**Jira sync** (`apps/jira-sync-worker`, `apps/jira-webhook-receiver`). Outbound
creates and updates issues from outbox events; inbound applies Jira's events;
a reconciliation job repairs drift. Hard: create-then-persist, out-of-order
events, echoes of our own updates. Correct: one issue per ticket, no status change
lost or bounced for ever. As wired at this commit none of it gets that far (section 7).

**Webhook delivery** (`apps/workers/webhook-worker`, `packages/webhooks`). Deliveries
are claimed by an idempotency row, gated by a rate limit and by concurrency slots in
Redis, retried by a classifier; consecutive failures disable an endpoint. Hard: the
check for a duplicate and the record are two transactions on two connections with the
post between them, and the error path gives the first connection back twice. Correct:
posts hold slots, a recorded delivery is not posted again, only failures disable, no
connection is lost on the way.

**AI synthesis** (`apps/workers/ai-synthesis`). State: the queue of
`ticket.resolved` messages, `ticket_ai_summaries` (a status and an attempt counter
per ticket), `ai_synthesis_idempotency` (claimed event ids). A worker claims a
message and counts the attempt in one transaction, calls the LLM outside of any,
stores the answer in a second one and deletes the message; a job re-enqueues or
fails rows that stay `pending` or `running` too long. Hard: redelivery, crashes
between the two transactions, a worker that is slower than the job's patience, two
messages for one ticket. Correct: one LLM call per message, attempts within the cap,
no summary stuck for ever, a settled one final.

**Exports** (`apps/workers/export-worker`). Jobs are claimed, rendered under a timeout
and marked. Correct: a terminal job stays terminal.

**Sessions** (`apps/api/src/modules/identity`). Refresh tokens rotate by a Lua script
with a grace window; reuse revokes the family. Correct: a revoked family stays
revoked, two tabs that refresh at once both stay signed in. As wired every refresh
fails (section 7).

**General notifications, CSAT, portal signup, onboarding, reporting, organizations,
views, retention, API client**: smaller protocols or plain reads and writes;
`PROJECT.json` says for each why it is not modelled or when it is planned.

The hazards found while reading, each at its line, are the `hazards` list of
`PROJECT.json`.

## 2. Plan

| order | module | composes / abstract specification | state |
|---|---|---|---|
| 1 | `SlaScheduler` | implements `SlaTimerContract` | modelled, checked, safety proved |
| 2 | `SlaReminders` | its producer is checked against `SlaTimerContract` | modelled, checked, safety and the producer's refinement proved |
| 3 | `AiSynthesis` | claim, call, persist, reconciliation | modelled, checked, safety proved |
| 4 | `DashboardAggregator`, `DashboardStream` | both meet in `FrameSource`: the pods implement it, overlapping ticks included, the gateway and the client run on top of it | modelled, checked, safety and refinement proved |
| 5 | `Tickets` | one row under concurrent requests | modelled, checked, safety proved |
| 6 | `WebhookDelivery` | slots, idempotency, failure counting, connection pool | modelled, checked, safety proved |
| 7 | `Onboarding` | wizard steps under a version compared in memory | next |
| 8 | pure algorithms | next run of a schedule, aggregate differences, retry classification | planned |

Jira sync, session rotation, portal signup and the export worker left the plan: section
7 says why.

Every invariant, action property and refinement the passing runs check is stated by a
theorem. What stays with TLC are the five liveness properties and the four counterexamples.

## 3. The modules

### `SlaTimerContract`

What the engine promises about one timer: created once; boundaries recorded in
order and at most once, one event each; the breach and the state `breached` in one
step; settled is for ever. A step may move several timers, because a tick commits a
batch.

### `SlaScheduler` (+ `MCSlaScheduler`)

`timer`, `fired`, `outbox` are the committed rows; `lock` the row locks; `snap`,
`todo`, `batch`, `aborted` the open transaction of each pod: the rows as its claim
read them, the claimed timers still to visit, the writes that will appear at COMMIT,
and whether Postgres has put the transaction in the aborted state. Correspondence:

| code | model |
|---|---|
| `createTimersForTicket` | `createTimersForTicket` (both clocks at once, in the caller's transaction; a retry finds the rows) |
| `recomputeForPriorityChange` | `BeginRecompute` (read), `RecomputeTimer` (an UPDATE that has got the row's lock), `CommitRecompute`, `AbortRecompute` |
| `SlaPoliciesService.update` | `EditPolicy` |
| a policy row that is gone | `DeletePolicy` (no service deletes one; `processTimer` copes with it) |
| ticket status seen by `isTerminal` | `TicketChanges` |
| `claimDueTimers` | `claimDueTimers`, `Claimable` |
| `processTimer` | `SettleClosed`, `SettleOrphan`, `NothingDue`, `FireDue` |
| the catch of `runTick` | `FailTimer` |
| COMMIT / ROLLBACK of `runTick` | `CommitTick`, `CommitAborted`, `CommitFails`, `EndTransaction` |
| death of a pod | `Crash` |
| `boundaryInstant`, `boundaryPct`, `classifyDueBoundaries`, `computeNextFireAt`, `advanceTimerState` | operators of the same names (`dueBoundaries`, `nextFireAfter`, and `firstFireAt` for the API's version) |

The visit of one timer is one action. Everything `processTimer` reads about the
timer itself is protected by the row lock; the policy and the ticket are separate
reads of rows nobody holds, and reading them together is the same as reading them
at some moment of the visit, because none of the writes between them is visible
before COMMIT.

Abstractions. Time is a number of units and a policy's target a table `Span`: the
calendar arithmetic that produces a target is not modelled. `paused_ms` is 0 because
nothing in the repository pauses a timer. There is one clock for database and pods.
`createTimersForTicket` and `recomputeForPriorityChange` have no callers outside
tests at this commit; they are modelled as their comments say they are used, inside
the caller's transaction.

### `SlaReminders` (+ `MCSlaReminders`, `SlaRemindersProofs`)

`queue`, `acked`, `dead`, `receives` are the queue as the consumer uses it;
`emission` the committed idempotency rows, `holder` the open transaction that has
inserted a key; `job` what each concurrent `handleMessage` is doing. `sent` counts
alerts a mailer or an endpoint accepted, `lost` those whose transaction did not
survive, `undone` the keys whose row an audit failure rolled back. These last three
only observe.

| code | model |
|---|---|
| outbox relay, SQS | `TimerFires` puts messages in `queue`; `Receive`, `DeadLetter` (external) |
| step 4, the idempotency INSERT | `InsertEmission` (waits while another open transaction has the key) |
| steps 5 and 6, guards and recipient | `ReadGuards` |
| step 7, dispatch | `Dispatch`, outcomes `sent`, `failed`, `retryable`, `partial` |
| step 8, COMMIT, and the catch that commits and rethrows | `CommitEmission`, `AfterCommit` |
| step 9, an audit insert that fails and is swallowed | `AuditFails` |
| `deleteMessage` | `Acknowledge` |
| a failed statement, a crash | `HandlerFails` |

`retryable` and `partial` are rows stored as `failed`; the model keeps apart why
they failed. The relay is outside `src/`'s reach (the scheduler's payload lacks
fields the handler's schema requires, so something must add them): it is modelled as
delivering every event at least once.

### `AiSynthesis` (+ `MCAiSynthesis`, `AiSynthesisProofs`)

`status`, `attempts` are a ticket's row of `ticket_ai_summaries` (`none`: there is no
row), `stale` the rows whose `updated_at` is beyond the job's threshold, `claimed` the
committed idempotency rows; `published`, `queue`, `dead`, `receives` the messages;
`job` what each concurrent `processMessage` is doing. `resolves`, `calls` and `early`
only observe. A message is `<<t, n>>`, the n-th of its ticket: every event, the job's
included, has an id of its own.

| code | model |
|---|---|
| `TicketsService.resolve`, outbox relay | `Resolve`, `Publish` (a reopen in between is implied) |
| `pollLoop`, `deleteMessage`, redrive | `Receive`, `Delete`, `DeadLetter` |
| Tx-1: `IdempotencyRepository.claim` | `Claim` (waits for an open transaction with the same key) |
| Tx-1: policy, upsert, COMMIT | `Skip`, `Start` |
| thread load, LLM call | `LoadThread`, `CallLlm` (outcomes chosen freely) |
| Tx-2 | `Writeback` |
| `markFailedPermanent` | `MarkFailed` (its own error is swallowed) |
| a failed statement, COMMIT or delete call, a crash | `Abandon` |
| `ReconciliationJob.run` | `Ages` (the thresholds), `Reconcile` (one transaction over all stuck rows; its failure changes nothing) |

Two details of the code are in the model only through their effect. A client that is
released in a `catch` and again in the `finally` makes `handle` throw; that is a
message left in the queue, the same as the retryable outcome those paths return, but
for a missing ticket, where it undoes the intended deletion (`MarkFailed`). And the
`SELECT ... FOR UPDATE` of Tx-1 has no action: its lock is gone with the COMMIT on the
next line. `MaxFaults` counts crashes, failed statements and rows that age while
something is still under way for the ticket (a worker slower than 15 minutes, a queue
not drained for 30); a row nobody works on ages freely. The model assumes a database
role that sees the rows of every tenant: the thread load and the job run their
statements without the tenant setting (`set_config(..., true)` outside a transaction
ends with its statement).

### `WebhookDelivery` (+ `MCWebhookDelivery`, `WebhookDeliveryProofs`, `WebhookOutcomeProofs`)

`queue` is what SQS holds; `endpoint`, `row`, `notified` the committed rows of
`webhook_endpoints`, `webhook_deliveries` and the auto-disable notifications; `slots`
the Redis counters; `idle`, `tx` the worker's connection pool and the transaction open on
each connection; `job` what each concurrent `handleMessage` is doing. `expired`, `abandoned`, `torn`,
`charged`, `failedPosts` only observe. `failedPosts` counts the posts to an endpoint that
failed since its last recorded success: a COMMIT that records one sets it to the failures
that are posted and still to be recorded. "Since" is therefore in the order in which
outcomes are recorded, which is the order `consecutive_failures` has.

| code | model |
|---|---|
| `ReceiveMessage`, `pool.connect()`, BEGIN | `Receive` (an overlapping reception counts as a fault) |
| endpoint inactive or attempt recorded, COMMIT, return | `LoadStops` (the connection is not released on these returns) |
| COMMIT and release of the first transaction | `LoadGoesOn`, `LoadFails` |
| `acquireConcurrencySlot`, `checkTenantRateLimit`, requeue | `GateAdmits`, `GateRequeues`, `GateFails` (slots kept, as the code does) |
| `dispatchWebhook`, `releaseConcurrencySlot` | `Dispatch`, `ReleaseSlot` |
| expiry of `wh:conc:<endpoint>` | `Expire`, at any moment the counter is above 0: a dispatch may take longer than the 30 s (10 s to connect, 10 s for the headers, 20 s for the body), and `expired` marks the endpoints where it hit one |
| `recordAttempt`, failure counting, COMMIT | `RecordAttempt`, `CountOutcome`, `CommitOutcome`, `OutcomeFails`, `ReconnectTimesOut` |
| the outer `catch` | `CatchRollback`, `CatchRelease`: on the FIRST connection, whoever uses it by then |
| `WebhookEndpointsService` disable, enable, delete | `EditEndpoint` |
| a pod that dies | `Restart` |

The pool hands out the connection released last (pg-pool); `release()` on a connection
nobody holds throws. The unique index of `webhook_deliveries` is the one of the Drizzle
schema. Nothing publishes an attempt above 1, so `MCWebhookDelivery` gives every message
attempt 1. A message `parseEnvelope` refuses is deleted without a row and touches nothing
else (`delivery.handler.ts:58-66`); `Messages` are the others, and `DeletedHasRow` is about
them. The auto-disable notification's dedupe key is made of the endpoint, so `notified` is
the row that exists, not how often anybody was told: of an endpoint that is enabled, keeps
its count and is disabled again nobody is told. Edits of URL and secret, rotation, test deliveries and the replay endpoint
(which calls `endpointsRepo.findById` with one argument and always answers 409) are
not modelled.

### `FrameSource`, `DashboardAggregator` (+ `MCDashboardAggregator`, `DashboardAggregatorProofs`), `DashboardStream` (+ `MCDashboardStream`, `DashboardStreamProofs`)

`FrameSource` is what the consumers of the dashboard may rely on: a counter that only
grows, bumped by events as well as by frames; frames under way (`Readers`), any number at
once, each with the value of the counter it has read as its `prev`; a ring of the latest
frames. Two frames that read the same value bear the same number.

`DashboardAggregator` is one tenant's Redis keys and the three processes that use them.
Its property `IsFrameSource` is the refinement: all ticks together are one `FrameSource`,
`reading` being, for each tick between its read of the counter and its publication, what it
has read.

| code | model |
|---|---|
| ticket services, outbox | `create`, `createFromPortal`, `resolve` (agents' tickets emit no `ticket.created`, so the KPI is off until reconciled) |
| consumer and its script | `ApplyEvent` (dedup, clamped increment and `seq` in one script), `MarkActive` (the SADD awaited after it), `ConsumerFails` (the SADD fails or the process ends; a redelivery is deduplicated and does not repeat it), `DeleteMessage` |
| `ReconcilerService.runAll`, `reconcileTenant` | `ReadPostgres` (of active tenants only), `CompareRedis`, `overwriteKpi`, `FlagDrift`, `ReconcileFails` |
| `DeltaPublisherService.tick`, `publishTenant` | `Claim` (active tenants only; SET NX, GETDEL of the flag), `ReadKpi`, `ReadFeed`, `ReadSeq` (each Redis read a step), `NothingToPublish`, `ReadPublished`, `PublishFrame`, `PublishFails` |
| the interval of the claim's key | `NextInterval` |

One counter stands for the KPIs, the set of applied events for everything every event
changes. SET NX and GETDEL are one step because nobody can tell them apart. A failed
publication after GETDEL loses the forced snapshot, as in the code. There is one reconciler,
while each aggregator pod runs one; breakdowns by category and by area, and deltas too
large to be sent as one, are left out.

Ticks overlap. The claim is a key named `floor(tickStart / 5000)`, so two ticks of one
interval exclude each other, but the pods' timers have phases of their own: one may begin
the tick of an interval while another is in that of the interval before, however short the
ticks are, and a slow tick (the code only warns) is caught up by the next. `NextInterval`
opens a new interval at any moment; how often it does so during a tick is bounded together
with the errors by `MaxFaults`. Overlapping ticks may both follow on from the same number,
bear the same number, and restore an older `published`.

A tenant is looked at by reconciler and publisher only when it is in `dash:active_tenants`,
and it gets there only by the SADD after an applied event. An agent's `create` emits no
event, and a failed SADD is not repeated by the redelivery, so a tenant may stay outside
until another event is applied; `DashboardConverges` is about tenants that get there.

`DashboardStream` extends `FrameSource` with the channel, the gateway and one client;
what the client shows is the number `no` of the frame its data goes back to.

| code | model |
|---|---|
| snapshot fetch and subscribe of `use-dashboard-stream` | `FetchSnapshot` |
| `apply-delta.ts` | `Seen`, `Gap`, `Applies`, `HandleFrame` |
| socket closed, tab asleep | `Disconnect` |
| `BackfillService.handleSubscribe` | `ReadRing` (the awaited LRANGE), `Backfill`: `Refuse`, `CaughtUp`, `SendMissed` |
| `PubSubSubscriber.handleMessage`, `deliverLiveFrame`, `OutboundQueue` | `Relay` |

Frames on the wire are handled before anything else moves: they concern nobody but the
client, so this loses no behaviour the properties tell apart. The snapshot endpoint
(`GET /api/v1/dashboard/snapshot`) has no implementation in `apps/api`; it is modelled
as the client uses it, numbers and data read together. What the client has is judged by
`base`, the frames published when a delta's counter was read: `NoSkippedDelta` says that a
client that applies a delta has all of those. It says nothing of a frame an overlapping
tick publishes between that reading and the delta. Such a frame may bear the delta's own
number, the delta may have been computed from it, and a client that missed it, for instance
between LRANGE and subscription, sees no gap. Size limits of backfill and
publisher, contents of frames, the polling fallback and a restart of Redis are left out.

### `Tickets` (+ `MCTickets`, `TicketsProofs`)

One ticket. `ticket`, `history`, `announced` are the committed row, its
`ticket_status_history` and the number of its `ticket.resolved` events; `lock` the
row's lock; `req` what each request has read (`seen`) and is going to write;
`stamped`, `accepted` what clients were told.

| code | model |
|---|---|
| `TicketsService.update`, up to its UPDATE | `Patch` (reads, validates, merges) |
| `TicketsService.resolve`, up to its UPDATE | `Resolve` |
| `CommentsService.create`, a public comment of an agent | `Comment` |
| portal reply, `reopenFromPortal` | `Reply`, `reopenFromPortal` (a second read of its own) |
| `TicketRepository.updateTicket`, `stampFirstResponseAt` | `updateTicket` (lock, then test the row found), `Conflict` |
| history, outbox, COMMIT | `Commit` with `Written`, `appendStatusHistory`, `Announces` |
| an error, a statement timeout, a crash | `Rollback` |
| `transition-table.ts`, `ticket-state-machine.ts` | `TRANSITION_TABLE`, `requiredPermission`, `validateTransition` |

Columns nothing depends on are one column, `custom`, which a PATCH writes whole from
what it read, as it does `custom_fields`. Transactions are READ COMMITTED: an UPDATE waits
for the lock and then tests the row it finds. The service is modelled as the tests call
it, with a principal that carries permissions (`test/ticket-lifecycle.e2e-spec.ts:112`);
the interceptor of the running API builds a principal without them, so that every status
change over HTTP is refused. `portalReopenOnReply` is not a column of the tenant settings,
so both its values are possible. A client knows a version because it read it.

## 4. Runs

| run | shows | instance |
|---|---|---|
| `sla_scheduler` | the five invariants, `NoEarlyBreach`, that the scheduler implements the contract, and `OverdueIsSettled` under fairness | 2 pods, a ticket with 2 clocks, 2 policies of different targets, 2 pairs of percentages, claims of 2, 4 instants, 1 fault, 1 edit |
| `sla_bad_row` | violated: a bad row costs the good ones of its batch their writes | one poisoned timer, no other fault, 2 edits |
| `sla_reminders` | `AckedHasOutcome`, `AlertsMatchRows`, `HoldersWork`, the producer against the contract | 1 timer (3 messages, 6 keys), 2 handlers, 2 receptions, 1 failure |
| `sla_queue` | `QueueDrains` under fairness | the same, no failure, recipient that may be missing |
| `sla_breach_alert` | violated: every breach alert is suppressed | as `sla_reminders` |
| `ai_synthesis` | four invariants, `SettledIsFinal`, and `StuckIsHealed` under fairness | 1 ticket resolved twice, 2 workers, 2 attempts, 2 receptions, 1 fault, 4 messages |
| `ai_duplicates` | violated: the message left in the queue is let through beside the re-enqueued one | 1 resolution, 3 attempts, 1 fault |
| `webhook_delivery` | posts hold slots, no message that parses goes without a record, auto-disabling only after `Threshold` failures since the last recorded success, no error path loses a connection, a recorded post is not repeated | 2 calls, 2 messages to one endpoint, 2 connections, 1 slot, threshold 2, 1 refusal, 1 fault, 1 edit |
| `webhook_retry` | violated: a retryable failure is never retried | the same, no fault, no edit |
| `dashboard_aggregator` | the ticks implement `FrameSource`; `DashboardConverges` under fairness | 1 ticket (2 events), 2 ticks, a ring of 1, 1 error or 1 interval that begins during a tick |
| `dashboard_stream` | `MissedIsNoticeable`, `NoSkippedDelta`; `ClientSettles` under fairness | any frame source with 2 frames under way, a ring of 2, counter up to 4, 2 frames of lag, 1 lost socket |
| `tickets` | five invariants and `LegalMoves` | an administrator and an agent, three requested statuses, both settings, 5 versions |

Why the bounds are enough. *Scheduler*: two pods and two timers give every pair of claims
that may overlap (with `SKIP LOCKED`, a pod claims both timers, one or none) and let one
aborted transaction hurt a second timer. Four instants are enough to create a timer, fire
each of its boundaries in ticks of their own or all in a late one, and to move the target
once. Reminder percentages only matter through their order and through integer division;
the two pairs put reminders on the same instant and on different ones. One edit is a
policy edit, a deletion, a recompute or a ticket that closes; two of them in one behaviour
are covered by the proofs, for the safety properties. With claims of 1 `OverdueIsSettled`
does not hold: a row whose visits change nothing stays the oldest and fills the batch,
which the 500 rows of the code make unlikely and not impossible.
*Reminders*: one timer has three boundaries, hence three messages that share no key, and
two handlers can hold the same message or different ones; two receptions are what
separates a redelivery from a dead letter. *Synthesis*: tickets do not interact except that
the job treats them in one transaction; two attempts are a first and a last one, and two
resolutions with one fault give two or three messages of one ticket at work at once.
`MaxMessages` is never reached by a step that would go beyond it: two resolutions, one
retry below the cap and one row that ages early make four. (Checked once also with three
attempts and three receptions, without liveness.) *Webhooks*: messages meet only in an
endpoint's counters and in the pool, so one endpoint and two messages show every meeting;
two connections are the least with which a call can post while another holds the
connection it gave back, one slot makes the second call wait, and a threshold of 2 needs
the failures of both. *Aggregator*: one ticket has the two events that can be reordered,
one of which the clamp loses; two ticks can want the same interval, and with the one fault
spent on it overlap, each step of one before or after each step of the other. *Stream*: a
ring of 2 and a counter of 4 let a client miss a frame inside and outside the window, before
and after events that bump the counter without a frame, and two frames under way can read
the same number or one behind the other; that more of either changes nothing is proved for
the two invariants. A run that reaches the counter's bound is one whose source rests. *Tickets*:
version conflicts and the wait for the lock are matters of two requests; five versions let a ticket be resolved,
closed, reopened and resolved again.

Deadlock checking is off in the `sla_*`, `ai_*`, `webhook_*` and `dashboard_aggregator` runs,
whose models may come to rest (time at the horizon, every timer settled, an empty queue, a
tenant that was never marked active). The `dashboard_stream` and `tickets` runs check it.

Fairness. `FairSpec` of `SlaScheduler` asks that time passes, that a pod's own
steps go on (`scheduleTick` runs in the `finally` of the previous tick, so there is
always a next one; nothing in a tick waits for ever) and that a recompute that has
begun goes on. The latter is strong fairness, because its UPDATE waits in the row's
lock queue: Postgres hands it the lock when the holder ends, even when pods keep
claiming the row. Faults, crashes, edits and ticket changes are never fair.
`FairSpec` of `SlaReminders` asks that the poll loop and each started call go on and
that the queue moves exhausted messages; `sla_queue` has no failures, as a finite
number of them only shortens the time a message has left.
`FairSpec` of `AiSynthesis` asks the same of its workers and queue, that the job runs
(a `setTimeout` every five minutes that re-arms itself even after an error) and that a
row nobody works on passes the threshold. That the LLM or the database ever succeeds
is not assumed. `FairSpec` of `DashboardAggregator` asks that the consumer goes on
(undeleted messages are redelivered), that the reconciler's timer and the interval timer go
on, and that some pod ticks in every interval; nothing is asked of tickets or of any
particular pod. `DashboardConverges` has its premise in the formula: the tenant is marked
active at some time. `FairSpec` of `DashboardStream` asks that the client handles frames and
fetches snapshots and that the gateway answers and relays. What `ClientSettles` needs of the
source is its two premises. The counter comes to rest: while events go on, each bumps it
(`apply-event.lua:61`) without a frame, so that nearly every later delta has a `prev` the
client does not hold, is a gap, and costs it a snapshot and a new subscription; it refetches
as long as there is activity. And the ring is not empty in the end: an empty one makes
client and gateway refuse and fetch in a loop without a delay (`backfill.service.ts:102`).
No liveness is stated for `WebhookDelivery`: two calls that share a
connection after one fault can end each other's transactions for ever. None for `Tickets`:
which waiter gets the row's lock is the database's business.

Symmetry is used for handlers, workers and messages, in runs without liveness only.

## 5. Proofs

`SlaSchedulerProofs` proves, for every number of pods, tickets, clocks and policies
and for every value of the bounds, what `sla_scheduler` checks on its instance:
`TypeCorrect`, `FiringIsExactlyOnce`, `BreachIsRecorded`, `WakeUpByTarget`,
`ClaimsAreCurrent`, `BreachIsNotEarly`, `SchedulerImplementsContract`.

Assumptions: `ConstantTypes`, `PctPairsOrdered` (the DTO and a CHECK of the table
enforce 0 < first < second < 100) and `DistinctNames`, all checked by TLC on each
run's constants.

The inductive invariant `IInv` has four parts beside `TypeOK`:

- `DataInv`, about committed rows: a row that exists has a target not before its
  start; boundaries are fired in order; fired boundaries and events agree;
  `breached` and the recorded breach agree; a running row has a wake-up by its
  target. None of these is inductive alone: that firing keeps the order needs
  boundary instants to be ordered, hence the first clause.
- `LocksOK`, about transactions: a timer being visited, or with a write in a
  buffer, is locked by that pod; a pod that is not in a tick holds nothing; an open
  recompute holds the locks of what it has written.
- `ClaimIsCurrent`: what a pod read is still committed while it holds the lock.
  It needs `LocksOK`, and it is what lets a write that was computed from `snap` be
  judged against the committed row.
- `BatchOK`: each buffered write, if committed now, keeps `DataInv` and is one of the
  contract's steps. This is the link between the visit of a timer, where the guard is
  evaluated, and the commit, where the effect appears. The clock may have moved on and
  the policy may have changed in between, so the write's facts are stated about the
  row, the boundaries and the clock only (`WriteOK`).

The arithmetic is in lemmas about the operators: `PercentOf` and `InstantFacts` (a
boundary's instant lies between start and target and grows with its percentage),
`FirstFireAtBound`, `NextFireAfterBound`, `DueInOrder` (what is due is closed under
order). `InductiveStep` has one lemma per action; `WhoWrites` says that only
`createTimersForTicket`, `CommitRecompute` and `CommitTick` change committed rows,
and `ContractStep` maps these to the contract.

`AiSynthesisProofs` proves, from `ConstantTypes` alone, `TypeCorrect`,
`MessageCallsOnce` and `TicketsNotForgotten` for any numbers of tickets, workers,
messages and faults. Its invariant adds to `TypeOK` and `NoTicketForgotten`:
`ClaimsOK`, which side of Tx-1's commit each worker is on (a deleted message is
always a claimed one, so deleting loses no ticket); `CallsOK`, that the right to call
the LLM for a message is held by one worker and passes from `start` over `load` to
`call` (the wait at the unique index is what makes it exclusive); and
`ClaimedHasStatus`, that claim and status are one commit. There is one lemma per
action.

The same module proves `AttemptsWithinBudget` and `SettledStaysSettled`. Both are about how
many messages of a ticket can still do something, and neither is inductive: an attempt is
counted at one step, the message that pays for it may have been queued by a resolution, a
redelivery or the job long before. `Books` keeps the accounts per ticket as cardinalities:
the messages that cost a call (`Spent`) are covered by the attempts; those that may still
settle the ticket (`Live`) each have a resolution or an early aging to their name, with one
to spare once the row is stale or settled; and the attempts together with the messages
nobody has claimed (`Unclaimed`) stay below the budget. With one resolution and no early
aging a settled row therefore has no live message left. The accounts need `WorkOnce` (one
worker per message that may settle something), `HeldIsQueued` and `ResolvedFirst`. Most steps
only shrink the three sets (`BooksKept`); `StartBudget`, `AgesBudget`, `ResolveBudget` and
`ReconcileBudget` are the ones that move an amount from one side to the other.

`SlaRemindersProofs` proves `TypeCorrect`, `AckedMessagesHandled`, `AlertsAreAccounted`,
`NoCircularWait` and `ProducerImplementsContract` for any timers, policies and recipients, any number of
concurrent calls and any number of failures, from `Bounds` and `NoneAssumption`. The
invariant adds `CallsOK` (what a call's record says at each step), `HoldersOK` (a call between
its insert and the end of its transaction is the one holder of its key, and a held key has
no committed row: the unique index) and `ChannelsDone` (a call has an outcome for the channel
it left behind; a later audit failure moves it to `undone`, not away). `BooksBalance` is the
equation of `AlertsMatchRows` as every action needs it: for one key at a time, what leaves a
term of the sum enters another. `NoCircularWait` is proved on top of it: `HoldersOK` says
that a working call holds its key, `HoldersWork` the converse, that a held key has a call at
work on it. A call that waits is not at work, so it holds nothing, and the wait-for relation
has no chain longer than one; that the holder then does go on is what `sla_queue` checks
under fairness. The refinement needs `UnbreachedIsOpen`, that a timer the
producer may still move has no breach event.

`TicketsProofs` proves all six properties of the `tickets` run, for any number of
requests, any permissions and any settings: `TypeCorrect`, `HistoryHasNoGap`,
`UpdatesAreKept`, `EachResolutionAnnounced`, `FirstResponseIsUnique`, `MovesAreLegal`. The
assumption is `TicketConstants`, checked by TLC on the run's constants. The difficulty is
that everything a request writes was decided on a row it read without a lock. The
invariant orders three versions: the one a client sent is at most the one its request read
is at most the committed one, and equal versions mean equal rows up to the first-response
stamp (`ReadsAreOld`). So when the guard of an UPDATE matches, the row it locks is the row
that was read; as long as the request holds the lock this stays true
(`LockedRowMatches`), and what it is going to write was legal for the row it changes
(`DecidedOnSeen`). From there each property is a matter of what COMMIT appends; comments
are apart, because their UPDATE neither tests nor bumps the version (`CommentOnlyStamps`).
There is one lemma per action.

`DashboardAggregatorProofs` proves `TypeCorrect` and `ImplementsFrameSource` for any
tickets, any number of ticks that overlap as they like, any retention and any number of
faults, from `TicketsAssumption`, `RetentionAssumption`, `FaultsAssumption` and
`NoneAssumption`. Nothing about ticks excluding each other is used: the frames under way of
`FrameSource` are the ticks between the read of the counter and the publication, each with
what it has read (`Reading`). The invariant beside the types is what makes the first frame a
snapshot: nothing is published before it (`FirstIsUnpublished`), so a tick that has found a
delta has seen an earlier frame's `published` (`DeltaIsNotFirst`).

`DashboardStreamProofs` proves `TypeCorrect`, `MissedAlwaysNoticeable` and
`NeverSkipsDelta` for any number of frames under way at once, any retention, any lag of the
gateway and any number of lost sockets, from `RetentionAssumption`, `NoneAssumption` and `BoundsAssumption`. `NoSkippedDelta` speaks
of the frame the client looks at, but a frame goes through ring, channel, backfill and wire
before it gets there, and the client's own position is that of a frame it once applied. The
invariant therefore compares all *positions* (`no`, `seq`) with each other, those of the
frames on their way to the client (`Flying`) and the client's: one that lacks published
frames is behind the counter, and behind what every tick has read of it that read it after
a frame it lacks (`Placed`); and one that lacks a frame that was there when a frame's
counter was read is below the number that frame follows on from (`NotBefore`).
Two lemmas carry it: `MovingFrames`, for all steps of gateway and client,
which only move frames and set the client to the position of one of them or of the source;
and `NewFrame`, for the one step that adds a frame. There is one lemma per action for the
types and for where frames go.

`WebhookDeliveryProofs` proves `PostsAreCovered` and `ConnectionsAccounted` for any numbers of
endpoints, messages, concurrent calls and connections, any cap and any bounds, from `Bounds`
and `FiniteCalls`. Neither property is inductive alone: what a call holds depends on where it
is, so `CallsEquipped` says that a call with a message has its first connection and that the
second one is there exactly from `recordAttempt` to COMMIT. For the slots the argument is
about cardinalities: a call that begins to post adds one to the counter and at most one to
the posts under way, a call that gives its slot back leaves the set it is counted in, and
everything else only raises the counter (`NobodyPosts`) or takes the endpoint out by
expiring it. For the pool, `OneCall` says what a step of one call must do with every
connection it holds; `QuietCall` applies both to the steps that begin no post and give no
slot back, which are most of them. That the outer catch may release a connection another
call uses by then needs no case of its own: releasing only makes more connections idle.

`WebhookOutcomeProofs` proves the other four invariants of `webhook_delivery`, from the same
assumptions: `TypeCorrect`, `DeletedIsRecorded`, `DisabledOnlyByFailures`, `PostsNotRepeated`.
What makes them hard is that a call may find its connection shared, its transaction ended or
another call's writes in it, so that a COMMIT shows whatever the connection had collected.

- *What a COMMIT shows.* `Committed` runs through the writes of a transaction as a recursive
  function. That the function exists needs an induction over the number of writes. The
  library's induction rules take an operator, so `SetInduction` states induction for a set
  of numbers and gets it from the well-foundedness of `<` on `Nat` (`WFMin`); `RunExists` applies
  it to the lengths for which a run exists, `CommittedOutcome` to those after which the
  database is what `Outcome` says. `Visible` is what the steps use of it: rows stay, written
  rows are there, a counter grows by the failures among the writes at most, or is 0 and what
  followed when a success is among them, and an endpoint becomes disabled only when the
  counter has got there.
- *The ledger.* `DisabledByFailures`, an action property, compares a counter with the posts
  that failed since the last recorded success, which reach it late, in any order, on
  connections they share and perhaps never. `Ledger` says, below the threshold, that
  counter, failures written in open transactions (`Written`) and failures not yet written
  (`Unwritten`) never exceed these posts. `CommitLedger` moves what one connection
  holds from the second amount to the first. A recorded success sets the posts back to the
  calls that have a failure to record (`Pending`), and that this is still enough for the
  failures other transactions hold is `Owned`: each of them belongs to a call of its own,
  which stands before the COMMIT of that connection. `WritesHeld` (one write for each call past
  `recordAttempt` and one more for each past the counter) keeps the sets finite and gives
  the bound in `TypeOK`.
- *The posts.* `OnePostPerRecord` needs `OneUndisturbed`: of the calls that handle a message
  at once, at most one does not know of another. Then a charged post has its row or the one
  call that will write it (`PostsRecorded`), and a call that passed the idempotency check
  undisturbed finds nothing charged (`CallsToPost`).
- *The rest.* `DeletedHasRow` follows from `Visible` and `RowsKept`; that the pool holds no
  connection twice (`OnceStep`) from `Released` looking before it appends.

Only model-checked: liveness (`OverdueIsSettled`, `QueueDrains`, `StuckIsHealed`,
`DashboardConverges`, `ClientSettles`), which is out of the prover's reach as is everything
that needs ENABLED; and that the four sentences of section 6 are not true of the code.

## 6. Where code and comments disagree

Four runs end in a counterexample, each to a sentence of the repository
(`PROJECT.json`, `findings`): one bad row aborts the batch; breach alerts are always
suppressed; a message left in the queue is not deduplicated against the one the
reconciliation job adds; a webhook delivery is never retried.

Others were met while modelling and are described here only.

- *SLA.* `sla.service.ts:185` has settled timers left untouched by a recompute, but its
  UPDATE by id (`sla-timers.repository.ts:62-73`) waits for the scheduler's lock and then
  rewrites the row that was settled meanwhile. A retryable dispatch failure is committed as
  `failed` (`sla-reminder.handler.ts:467`), which the redelivery takes for done. The comment
  on line 297 of `scheduler.service.ts` speaks of percentages captured at the timer's
  creation while the loader reads the live policy; emissions are keyed by percentage, so
  that after a policy edit two boundaries may share a key; `invalidateForPolicy` has no
  caller, so a policy edit reaches the resolver up to 60 s later; `met` is written for a
  ticket that was resolved after its target but before the tick that would have seen the
  breach.
- *Synthesis.* `schema/ai-synthesis.ts:42` has a `pending` summary row "created by ticket
  resolution", but `resolve` writes `tickets.ai_status` only and no code outside the
  reconciliation job writes a pending row, so a message that is dead-lettered before its
  first transaction commits leaves nothing the job could find (`NoTicketForgotten` is exact
  about this); `synthesis.service.ts:153` says the row lock lets only one worker proceed.
- *Webhooks.* The returns at `delivery.handler.ts:101-103` and `:121-125` keep their
  connection; a slot is kept when the rate limit refuses or the decryption fails; the outer
  catch (261) rolls back and releases a connection another call may hold; the worker asks for
  `auto_disabled` only and delivers to endpoints an administrator has disabled; enabling
  keeps `consecutive_failures`; the auto-disable notification is deduplicated per endpoint
  for ever.
- *Dashboard.* `apply-delta.ts:9` says frames already seen are rejected, snapshots are not;
  frames carry KPI names in snake case that the client reads in camel case; the client's
  socket URL `/ws` is not the gateway's `/ws/v1/dashboard`.
- *Tickets.* `transition-table.ts:53` has a status change event emitted with every
  transition, `resolve` emits `ticket.resolved` only; a PATCH to `resolved` sets neither
  `resolvedAt` nor the AI status; a reopened ticket keeps its `resolvedAt`; history rows are
  stamped with the start of their transaction and may sort out of the order they were
  committed in; a portal reply can add a comment to a ticket closed meanwhile.
- *Onboarding.* `portal-onboarding.service.ts` promises "Optimistic concurrency: 409 on stale
  version", but compares the version in memory and updates the row without it.

## 7. Not modelled

Of the modelled components: business calendars and time zones; edits of a policy's
target minutes; the 60 s resolver cache; two clocks with skew; the grants of the
scheduler's database role; frame contents and size limits; a restart of Redis; a
second reconciler; the synthesis workers' connection pool (`synthesis.service.ts:186`
releases a client the `finally` releases again, which a waiter may have got meanwhile); tags,
attachments, internal comments and queue listings; metrics, health and logging.

Components that reach no state worth modelling at this commit, because of how they are
wired:

- *Jira inbound*: the consumer passes `webhookEventId` where the handler reads
  `jiraEventId` (`inbound.handler.ts:127`), so every event is skipped and deleted. Its
  reconciliation job binds a parameter in `SET LOCAL`, which PostgreSQL refuses.
- *Jira outbound*: the context is loaded without binding the tenant, so row level security
  hides every row and the message is skipped.
- *Session rotation*: sessions are stored with camel-case hash fields, the rotation script
  reads snake-case ones, every refresh fails before anything can race.
- *Portal signup*: the row policy of `portal_signup_requests` (`0012_portal_signup.sql:52`)
  wants `app.current_tenant` for an INSERT, the service sets the bootstrap flag only.
- *Export worker*: nothing calls `runExportJob`, and its claim sets `updated_at`, a column no
  migration gives `export_jobs`.

The general notification worker has the claim, send and record of the SLA reminders with
other templates; a module would repeat `SlaReminders`. Reporting, CSAT, organizations,
views, the API's infrastructure, shared packages, user interfaces and generated clients
are request handlers, libraries and presentation without a protocol of their own;
`PROJECT.json` has a line on each. The onboarding wizard is next on the plan.
