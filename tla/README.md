# tutor-mcp: TLA+ models, model checking and proofs

tutor-mcp is an MCP server for tutoring: a Go program with a SQLite (local) or PostgreSQL (hosted)
store, a cron scheduler in every process, learner webhooks, a multi-tenant back office with its own
outbox and job queue, and tools that a language model calls and retries. The code is in `../src`;
paths below are relative to it. This directory holds TLA+ models of its durable protocols, the TLC
configurations that check them, and TLAPS proofs.

Contents:

1. Parts of the system
2. Modules and their correspondence with the code
3. Runs: what is checked, bounds, fairness
4. Proofs
5. Where the code and its documentation disagree
6. Plan
7. What is not modelled

## 1. Parts of the system

**State.** Almost all of it is rows in the database. What is not: narrative files of the local
profile (`memory/`), in-memory budgets of `auth/`, the channels of the SaaS consumer
(`engine/saas_consumer.go`), and the journal of the desktop agent (`client/local-agent`).

**Actors.** Any number of server processes over one PostgreSQL database. Each has request handlers,
cron goroutines (`engine/scheduler.go`), a retry poller, and, in the hosted profile, a pool of four
job consumers. Outside are MCP clients, webhook receivers, and operators with `cmd/tutor-*-admin`.

**Transactions.** A store call is one transaction (`db/store.go`, `WithTx`, `WithTenantTx`), so it is
one action, except where READ COMMITTED lets another transaction commit between two of its
statements and the code relies on row locks; then the statements are separate actions. Rows read
with `FOR UPDATE`, unique constraints, `ON CONFLICT` and foreign keys are part of the models. SQLite
has one writer at a time.

| Part | State | Operations | Interacts with |
|---|---|---|---|
| Job leases (`db/scheduler.go`, `engine/scheduler.go`) | `scheduled_job_runs` | acquire, heartbeat, complete, fail, list runnable, purge | every cron job |
| Learner webhooks (`db/webhook_queue.go`, `db/availability.go`) | `webhook_message_queue`, `scheduled_alerts` | enqueue, claim, prepare, begin, complete, fail, quarantine, sweep, expire, resolve | cron jobs, operator, domain archival, erasure |
| Outbox and tenant webhooks (`db/saas_runtime.go`, `db/saas_worker.go`, `db/async_job_attempt.go`) | `outbox_events`, `async_jobs`, `integration_deliveries` | append, relay, claim, begin delivery, POST, finalise | publication of formations, job consumers |
| Job consumers (`engine/saas_consumer.go`) | goroutines, two channels, `saasDrainState` | sweep, send, claim, announce, execute, report, stop | async jobs, scheduler shutdown |
| DSAR (`db/saas_governance*.go`) | `tenant_dsar_requests`, `tenant_dsar_phases`, memberships, holds | request, batch per phase, park, resume, complete | async jobs, memberships, learner webhooks |
| Tool calls (`tools/idempotency.go`, `tools/tools.go`, `db/idempotency.go`) | `tool_call_idempotency`, the call's transaction | reserve, replay, execute, abort, complete, commit | every mutating tool, retention |
| Narratives (`memory/`, `db/narrative_store.go`) | `narrative_objects` or files | read, compare-and-swap, rename | tool calls, consolidation, retention |
| OAuth, accounts, second factor (`auth/`, `db/store.go`, `db/mfa.go`) | codes, refresh token families, account tokens, challenges | issue, consume, rotate, revoke, reset | memberships, dynamic clients |
| Retention and holds (`db/retention*.go`) | `retention_jobs`, holds | lease, phases, file phases, purge | all tables |
| Consolidation (`db/consolidation*.go`) | consolidation queue, batches | claim, release, requeue, complete | narratives |
| Catalogue, cohorts, enrolment (`db/catalog*.go`, `db/formation_*.go`) | seats, versions | publish, join, leave, migrate | outbox, erasure |
| Training and assessment (`db/training*.go`, `db/assessment*.go`) | proposals, receipts, reviews | propose, decide, submit, review, adjudicate | certification |
| Entitlements (`db/saas_commercial.go`) | counters, reservations | reserve, consume, release, expire | plan changes |
| Teaching engine (`engine/`, `algorithms/`) | phase, mastery, cards | evaluate phase, select, schedule | tools |

`PROJECT.json` lists all 43 parts with their source files and says of each whether it is modelled.

**What makes it hard.** Clock readings are taken before a transaction and used in it, or for a whole
page of rows. Claims on learner webhooks have no owner column. HTTP requests ignore the context of the
goroutine that makes them. Rows of one request share a reservation under a foreign key. A COMMIT may
succeed and its acknowledgement be lost. A narrative file is renamed outside the transaction that
protects it. Erasures run for hours next to the writers of what they erase. The hazards of
`PROJECT.json` name the lines.

## 2. Modules

### JobRunLease

`scheduled_job_runs`, one row per cron window, and the goroutines of `runDistributedJob` and
`retryRunnableJobs`. The code stores absolute instants and compares them with a `now` its caller read
earlier; a row of the model keeps the time that *remains* until each instant, `Tick` lets one unit
pass, and a caller whose reading is `d <= Staleness` old sees every remaining time `d` larger. That
keeps the state finite and makes old readings explicit. Readings are old, never ahead: `now` comes
from the host (`engine/scheduler.go:662`), and a host whose clock is ahead of the one that wrote the
lease takes a live lease over early. `NoStealOfLiveLease` and its theorem assume there is none.

`AcquireJobRunLease` is the terminalisation, the upsert with its conflict guard, and the fresh random
owner (a token no row and no goroutine remembers). `Heartbeat`, `CompleteJobRun`, `FailJobRun`
carry the code's two different guards: completion needs a live lease, failure only ownership.
`Registered` says which process still registers the job of a window, so a rolling deploy is a value
of a constant. A crash forgets one goroutine's locals.

### WebhookDelivery

One learner's rows of `webhook_message_queue` and `scheduled_alerts`, the goroutines of the webhook
jobs, the hourly cleanup and the operator. Each store call is an action; a goroutine may stop between
any two (`StopTarget`), and its context may end while the request is about to leave
(`DeadlineExpires`), after which only the POST itself still happens. The transport may hide
whether the endpoint accepted. `Deletable` is the foreign key: deleting a reservation that a row
still references rolls the transaction back. Any claimed row may be stale when the sweep looks, since
`claimed_at` is the start of the job (`StaleClaims`), and a sweep takes any of them: `LIMIT 1000` and
`SKIP LOCKED` may return some rows of a request without the others. The backoff of at least one minute
against the 30 s work deadline is the guard of `BackoffElapses`.

### AsyncJobs, SaaSDelivery, AtLeastOnceDelivery

`AsyncJobs` says what each statement does to one row of `async_jobs`: enqueue, the reconciliation that
opens every claim, claim, the compare-and-swap on owner, attempt and lease, and finalisation with its
four outcomes. Its assumption `ClaimAge + JobTimeout < Lease` is the relation of the constants 20 s,
45 s and 2 min in the code. `SaaSDelivery` puts rows, workers, the relay of the outbox (three
transactions), integrations and delivery records around it. `AtLeastOnceDelivery` is the contract with
the receiver, without jobs and leases; `SaaSDelivery` implements it with
`debt <- [p |-> Debt(jobs[p])]`.

### TenantDSAR

Export and erasure of a learner's data as an async job: a request, its phases in the order of
`dsarErasurePhases` (access, four representative tables, the learner row), batches of `BatchLimit`
rows, `Quantum` batches per attempt, legal holds that park the job, resume, memberships with the
last-owner rule, the learner who goes on writing while signed in, and the scheduler that goes on
queueing notifications. The tables stand for the two kinds of writers: `interactions` and
`availability` are written by an authenticated member, `webhook_message_queue` and `scheduled_alerts`
by the scheduler.

### ToolCalls

Mutating tool calls of one learner, with an idempotency key and its retries or without a key: the
transaction of `toolTenantTransactionMiddleware`, the reservation, replay or refusal in
`idempotencyMiddleware`, the handler, completion and COMMIT, with interruptions everywhere. The handler
is `update_learner_memory`, which appends to a narrative with a compare-and-swap in the database, or to
a local file outside the transaction. `deployment` is chosen in `Init` and never changes: PostgreSQL,
SQLite, or SQLite with local files.

The locks of PostgreSQL are state of the call that holds them. Inserting the tuple takes `FOR KEY
SHARE` on the learner through the foreign key (`KeyShare`), the swap takes `FOR UPDATE` (`locked`), both
to the end of the transaction, and the two conflict (`LearnerShareable`, `LearnerFree`). Two calls with
different keys that are both at their swap wait for one another (`Deadlocked`); `DeadlockDetected` is
the server that aborts one of them.

### SaaSDrain

The consumer pool of one process: cron ticks and the retry poller that start a drain, the coordinator
`consumeSaaSJobs` with its sweep, capacity and in-flight map, the goroutines, the unbuffered work channel
and the buffered results channel, cancellation, and `stop`. Each channel operation and each critical section
is an action.

The `MC*` modules only give constants their values.

## 3. Runs

Twelve runs: eight that must pass, four that exhibit a disagreement (section 5). Every property of a
passing run has a mutant in `PROJECT.json`: a small change of one mapped definition (a dropped guard,
a missing reset, a swapped order) under which TLC finds that property violated with the same
configuration.

| Run | Configuration | Properties | States |
|---|---|---|---|
| `jobrun` | 3 goroutines in 2 processes, one process no longer registers the job, 2 attempts, lease 2, staleness 1 | `BudgetIsExact` `LostLeaseStaysLost` `FencedWrites` `NoStealOfLiveLease` `TerminalIsFinal` `EventuallyTerminal` | 40 thousand |
| `webhook_safety` | 2 goroutines, 2 OLM rows that may share a request, 2 attempts, symmetric, one row per sweep or both | `NoUnauthorisedDuplicate` `SingleHolder` `ReservationFollowsRows` `NoOrphanReservation` `SettledIsFinal` | 500 thousand |
| `webhook_live` | 1 goroutine, 2 mirror messages that reserve at enqueue, 2 days | `EventuallySettled` | 54 thousand |
| `saas_delivery` | 2 workers, 1 relay, 1 integration, 1 event, 2 attempts | `LeaseOutlivesAttempt` `SettledTogether` `OnePostPerAttempt` `NoSubscriberMissed` `ImplementsAtLeastOnce` `EventuallySettled` | 170 thousand |
| `dsar_erasure` | 2 workers, 2 members of whom 1 is a learner, export and erase, 2 attempts of 3 batches | `TenantKeepsOwner` `ErasedLearnerIsOut` `JobCompletedWithRequest` `OnlyFailuresSpendAttempts` `EventuallyDecided` | 450 thousand |
| `toolcalls` | 3 calls, 2 keys, one sent with two argument sets, or no key, 3 deployments | `AppliedAtMostOnce` `SuccessIsTheOriginal` `ReservedWithItsWrite` `TwoSwapsSuffice` `NoAppendLost` `EveryCallEnds` | 240 thousand |
| `drain` | 2 tenants, 2 goroutines, 1 cron tick and the retry poller | `StopJoinsEverything` `OneJobPerTenant` `DrainLeavesNothing` `StopReturns` | 260 thousand |
| `drain_serve` | 2 tenants, 1 goroutine | `EveryTenantIsServed` | 15 thousand |

Each passing run but the two that only ask a liveness question (`webhook_live`, `drain_serve`) also
checks the module's `TypeOK`.

**Why these bounds.** Every hazard below needs two actors on one row, at most two attempts (the one
that is lost and the one that replaces it), and the last attempt of a budget; two attempts give both.
A third goroutine in `jobrun` lets two of one process overlap while another process takes over. Two
OLM rows are the smallest batch that shares a reservation. In `toolcalls` three calls without a key are
needed for one to lose the swap twice, which `TwoSwapsSuffice` excludes, and two keys for a deadlock.
`drain_serve` has fewer goroutines than
tenants, the case in which starvation is possible; `drain` has two, the case in which two jobs of one
tenant could overlap. Durations are scaled, and keep the order the code's constants have: retry delay
below lease, `ClaimAge + JobTimeout < Lease`.

**What the bounds leave out.** `saas_delivery` has one relay and one relaying attempt, so a relay is
taken over by its own next turn; with `Relays = {r1, r2}`, and with `MaxRelays = 2`, the same properties
hold (one million and 290 thousand states, up to seven minutes). `dsar_erasure` has one learner and one
request; two owners erased by two interleaved requests were checked for `TenantKeepsOwner`,
`ErasedLearnerIsOut` and `JobCompletedWithRequest` with `Learners = Members`, `Requests = {q1, q2}`,
`Kinds = {"erase"}`, `MaxAttempts = 1`, `Quantum = 1`, `MaxRows = 0` and `SYMMETRY AllSymmetric` (1.6
million states, three minutes). `webhook_safety` has OLM rows only, which no once-per-day enqueue makes;
`webhook_live` has one goroutine, one attempt and no batch. With two attempts, or with two goroutines,
it also holds (490 and 960 thousand states, three and seven minutes); with batches TLC finds it
violated by the split request of section 5.

**Symmetry** is used in `webhook_safety` and `webhook_resolve`, which check no liveness: goroutines and messages are
interchangeable, and no definition chooses among them. Deadlock checking is off where the
system may come to rest: a webhook queue with nothing to do, calls that have all ended, a scheduler
that was stopped. It stays on in `saas_delivery` and `dsar_erasure`; in `jobrun` too.

**Fairness**, and what in the code justifies it:

- `JobRunLease!FairSpec`: time passes, the retry poller of a process lists and acquires due rows (cron
  fires it every minute in every process), and a goroutine that runs a job returns or crashes. No job
  is assumed to succeed. Acquiring a listed row has strong fairness: a poller that lists it again and
  again does not crash every time before it gets to it.
- `WebhookDelivery!FairSpec`: only the clock and the hourly cleanup. No goroutine and no operator is
  assumed to do anything, so `EventuallySettled` does not depend on a dispatcher being up.
- `SaaSDelivery!FairSpec`, `TenantDSAR!FairSpec`: cron fires `saas_async_jobs` every minute, goroutines
  run or stop, and the clock advances. No request and no transaction is assumed to succeed; nobody
  resumes or releases anything.
- `ToolCalls!FairSpec`: a call whose next statement can run runs it, and PostgreSQL finds a deadlock
  after `deadlock_timeout`. Waiting for a tuple or for the learner row disables the statement, so
  `EveryCallEnds` says that every wait is for a call that can go on or belongs to a deadlock the server
  ends. It does not say that there are no deadlocks: section 5.
- `SaaSDrain!FairSpec`: goroutines that can go on do. `ServedSpec` adds that a lease, a listing and the
  claims of a tenant, tried for ever, do not fail for ever: without it a database that refuses one
  tenant's claims starves that tenant, whatever the pool does.

**What the runs show.** Leases fence: a goroutine that outlives its lease, with any age of its clock
reading, cannot close the attempt that replaced it, and the budget is exact although three statements
compare it. A learner webhook is accepted at most once per authorisation in spite of ownerless
claims; the argument that makes it true is the backoff that outlasts the work deadline, and
dropping it is the mutant of `SingleHolder`. The tenant webhook pipeline is an at-least-once delivery
with a bounded number of sends. An erasure that completes leaves the learner out, and the tenant with
an owner. A retry under the same key is applied once, on every deployment whose narratives are in
the database. `stop` joins everything and returns.

## 4. Proofs

`JobRunLeaseProofs` proves, for every fleet, every lease duration, retry delay and attempt budget and
every age of the callers' readings (`JobRunAssumption`):

| Theorem | States |
|---|---|
| `TypeCorrect` | `Spec => []TypeOK` |
| `BudgetHolds` | `Spec => []BudgetIsExact` |
| `LostLeaseHolds` | `Spec => []LostLeaseStaysLost` |
| `FencedWritesHolds` | `Spec => FencedWrites` |
| `NoStealHolds` | `Spec => NoStealOfLiveLease` |
| `TerminalIsFinalHolds` | `Spec => TerminalIsFinal` |

All rest on `Invariance == Spec => []IInv`, where `IInv` is `TypeOK`, `BudgetIsExact` and
`LostLeaseStaysLost` with three strengthenings:

- `LocalsOK`: what a goroutine's locals are at each program counter. Without it a heartbeat of a
  goroutine that holds no token could not be told from one that does.
- `RowsOK`: only a processing row has an owner, and an absent row is blank. This is why a closed row
  cannot be written by the token that closed it.
- `OwnerIsLatest`: a goroutine whose token owns a row works for that window and is its newest attempt.
  This is the fence. It is preserved because an acquisition draws a token nobody remembers
  (`FreshOwner`) and because tokens leave the row whenever it is closed.

`NextIInv` has one lemma per action (`AcquireStep`, `ListStep`, `HeartbeatStep`, `CompleteStep`,
`FailStep`, `CrashStep`, `PurgeStep`, `TickStep`), with one step per conjunct under it; completion and failure share
`LeaveStep`. The action properties follow from `IInv` and a step. `NoStealHolds` needs
`AcquireOnlyDue`: the guard of the upsert, evaluated with an old reading, still implies that no time
is left, because an old reading only makes a lease look longer.

Only model-checked: everything about the other modules, and all liveness. Liveness under
fairness, and `ENABLED`, are out of the reach of the proof system.

## 5. Where the code and its documentation disagree

With a run that shows it:

- `toolcalls_file`: with local narrative files, an interrupted call keeps its append and loses its
  tuple, and the retry the client was told to make appends again (`memory/store.go:328`).
- `webhook_resolve`: rows of one OLM request share a reservation, and once the operator resolved the
  first as delivered the others cannot be (`db/webhook_queue.go:817`).
- `dsar_suspension`: the refusal to erase the last owner rolls back with its batch, so the request is
  never `blocked`, cannot be parked, and ends as a dead letter nobody can resume
  (`db/saas_governance_erasure.go:48`).
- `dsar_leftovers`: notifications queued between two phases survive a completed erasure
  (`db/saas_governance.go:502`).

Seen while modelling, without a run:

- `ClaimOutboxEvent` has no attempt cap. A relay that always stops before `FinishOutboxEvent` is
  repeated for ever, while `docs/tenant-data-inventory.md` speaks of bounded retries.
- `RequeueStaleWebhookClaims` reads 1000 rows and skips locked ones. If that cuts a request in two and
  the quarantined half is resolved as delivered, the reservation is closed, and every later sweep that
  meets the other half fails as a whole ("stale dispatch reservation is not active"), for all learners.
  `ReservationFollowsRows` says that this is the only way to close the reservation of a dispatching row.
- Two calls of one learner with different keys deadlock when both have inserted their tuple before
  either swaps: each holds `FOR KEY SHARE` on the learner (`db/postgres.go:327`) and asks for `FOR
  UPDATE` (`db/narrative_store.go:252`). PostgreSQL aborts one, whose client gets "memory write failed"
  and must retry, while `db/store.go:279` says of `FOR UPDATE` that it "blocks rather than aborting" and
  protects "without retries". TLC finds `\A c \in Calls : ~Deadlocked(c)` violated in six steps.
- `expireWebhookMessagesForDomain` keeps the reservation of the rows it expires, so archiving a domain
  leaves a notification slot of the day taken by a message that will not be sent.
- A mirror message reserved on one day and sent on the next does not count against the next day's cap.
- `PurgeJobRunsBefore` goes by the first claim of a window, so a poller that still holds the purged
  window in its page runs it again. It takes a window that is retried past the retention.

## 6. Plan

Order of work, with the hazard that decides it. Each module gets one run that holds its safety and
liveness questions together; where a question needs other constants it replaces one of the runs of
section 5.

1. `OAuthTokens`: codes, refresh families, account tokens and login challenges in the tables they
   share. Two rotations of one token at once (`db/store.go:1009`), a revocation that commits although
   the rotation fails (`:985`), a code validated by one read and consumed later (`:2476`), the expiry of
   dynamic clients between (`:2741`). Abstract specification: a family has one live token or is
   revoked.
2. `RetentionJobs`: lease, phases, file phases with effects outside the transaction
   (`db/retention_jobs.go:206`, `:293`), holds.
3. `Consolidation`: claims, release, requeue of stale deliveries, paged maintenance
   (`db/consolidations.go:123`, `:181`, `db/consolidation_maintenance.go:482`).
4. `Enrolment` and `Entitlements`: seats and counters under join, migration, erasure, expiry and plan
   changes (`db/formation_migration.go:133`, `db/saas_commercial.go:251`, `:361`).
5. `SecondFactor` and `RequestBudgets`: one use of a TOTP step (`db/mfa.go:233`), buckets with clocks of
   several nodes (`db/ratelimit_backend.go:84`).
6. `TrainingEdits`, `AssessmentReview`, `PedagogicalTurn`, `PhaseControl`: receipts, reviews and the
   phase compare-and-swap (`db/training.go:92`, `db/phase.go:45`).
7. Pure operators against a reference definition: `Scoring`, `Cards`, `KnowledgeSpace`.
8. `MemoryIndex`, `Readiness`, `Shutdown`, `TenantArchive`, `Memberships`, `NativeIdentity`,
   `DynamicRegistration`, `AgentJournal`.

Composition: `TenantDSAR` with `WebhookDelivery` on the learner's queue, and `Shutdown` with `SaaSDrain`.

Proofs, in order: the invariants of `AsyncJobs` rows (`LeaseOutlivesAttempt`, `SettledTogether`,
`OnePostPerAttempt`) and the refinement of `AtLeastOnceDelivery`; `AppliedAtMostOnce`,
`ReservedWithItsWrite` and `NoAppendLost`; `NoUnauthorisedDuplicate` and `ReservationFollowsRows`;
`TenantKeepsOwner` and `OnlyFailuresSpendAttempts`; then the token family of `OAuthTokens`.

## 7. What is not modelled

- Rendering, HTTP decoding, URL and JSON parsing, configuration, observability, deployment scripts:
  no state of their own.
- Cryptography (JWT, JWKS, key rings, signatures) and operating-system permissions.
- Floating-point algorithms (BKT, FSRS, IRT) as numbers; their state machines are in the plan.
- Migrations and DDL, except the constraints the models use.
- Code that has no caller outside tests: `ClaimJobRun`, `HeartbeatAsyncJob`, `FinishAsyncJob`,
  `FinishIntegrationDelivery`, `MarkWebhookSent`.
- In the modelled parts: cohort seats released by an erasure and manual rectification (`TenantDSAR`);
  narrative quotas, the session index and the `narrative_mutations` lookup, which finds nothing as long
  as tuples are kept (`ToolCalls`, which also takes narrative memory to be enabled: when it is not, the
  tool answers `not_enabled` and completes a tuple without a write, `tools/learner_memory.go:83`); the
  queue's transition log and the retention that deletes settled rows (`WebhookDelivery`); the wait for the
  results channel between a claim and the start of the job's 45 s, which must stay below the 55 s that
  `Lease - ClaimAge - JobTimeout` leaves (`SaaSDelivery`).
