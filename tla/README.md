# ChronoSynth OS: TLA+ models

This directory models the parts of ChronoSynth OS whose correctness depends on
interleavings of replicas that share one database. The server is written in
TypeScript; a replica runs JavaScript on one thread, its database calls are
synchronous statements or synchronous transactions, and several replicas work
on the same tables (Postgres, or SQLite in one process). What is atomic is a
statement or a transaction; everything a handler reads in one statement and
uses in the next may be stale by then. A handler may be cut short by a crash at
any statement, and a process may freeze (garbage collection, a suspended
container) and go on later.

Paths below are relative to `src/`, the repository's root, so the server's own
code is `src/src/...`.

## 1. Inventory

The system gives "personas" a core state (values, memories, policies) per
tenant, lets them learn through a gate, work on a market and be paid, and sells
the whole as a service to organisations that employ personas as digital
workers. 40 parts are listed in `PROJECT.json`; this table describes those that
are modelled, the last paragraph names the others.

| Part | State | Operations | Hard behaviour | What makes it correct |
|---|---|---|---|---|
| Task queue, worker (`src/src/queue`) | table `tasks`; per process: slots, candidate, stall counter, abort controllers | enqueue with quota, dequeue, complete, fail, reschedule, cancel, reap, purge, start, stop, isHealthy | claim races of replicas; late answers of timed-out attempts; updates by id only; crash with claimed rows; hung handlers; types whose timeout exceeds the reaper's threshold | an attempt owns its row until the reaper takes it; runs are bounded; settled is final; every task ends; only stuck tasks are reaped; a cancellation is final |
| Persona leases (`storage/persona-lease-store.ts`) | table `persona_leases` (key, holder token, expiry) | acquire, refresh, release, withLease | takeover of expired rows, a holder that wakes up late, a holder that dies | exclusive use within the TTL; refresh is a fence; a lease comes free |
| Earning cycle (`intelligence/persona-earning-service.ts`) | the cycle's counts of exposure and open tasks, applications | run a cycle, decide, apply; publish, assign, answer, complete | reads at the start, awaits between applications; a lease that a hanging cycle outlives; a publisher who assigns meanwhile | no more than its cap a day and its number of tasks |
| Token quota (`multi-tenant/quota-manager.ts`, `intelligence/model-router.ts`) | limit, usage rows per window | consume, refund, record, set and clear limit, prune | late failures refund another window; plan changes and pruning between two calls | a window grants no more than its limit |
| Distillation (`intelligence/distillation-service.ts`) | `distilled_artifacts`, the persona's core, the rule and template tables, snapshots | ingest, approve, reject, compile, compensate | checks outside the lease; compile, status advance and rollback are separate statements, each can fail | budget never exceeded; compiled means in effect; rejected means no effect |
| Marketplace (`persona-core/persona-marketplace-service.ts`) | tasks, applications, assignments, results | apply, assign, accept, submit, accept or reject or dispute a result, complete | every handler reads first and writes later, also inside one transaction; two ways to finish a task, one of which may round to no pay | one outcome, one growth, one payment |
| Wallets (`persona-core/persona-wallet-service.ts`) | wallets, transactions, settlements, payout requests | settle, payout | concurrent payouts, retried keys, rounding of shares | the books agree; no overdraft |
| Runtime sessions (the same service, `runtime-recovery-worker.ts`) | `runtime_sessions`, the assignment they serve | plan, execute, evaluate, complete, submit, recover | handlers write by id what they decided on an earlier read; recovery workers of all replicas race with them | retries bounded; an active session is watched; a submission stands; no session stays overdue |
| Delegated work (`workforce/worker-execution-service.ts` and around) | `org_tasks`, `learning_requests`, `org_approvals`, `org_handoffs` | execute, dispose of a gap, learn, wake, sweep, approve, hand over, offboard | a dozen statements between the first check and the tool; lost events; replays of side effects | one run at a time, by a worker with the skills, on an unspent approval; a suspended task resumes |
| Organisation chart (`workforce/org-*.ts`) | `org_workers`, reporting edges, `org_escalations` | reparent, offboard, absorb, hire; raise, resolve, re-escalate, cancel | checks on one chart, writes on another | one tree per company; nobody orphaned; one answer per escalation |
| Organisations in the market (`org-bidding-service.ts`, `org-wallet-service.ts`) | the market's task row, org assignments, wallets, settlements | apply, assign, start, submit, accept, settle | goal decomposition between claim and record; personas on the same task row; wallet credits by read and compare-and-set | accepted once; books balance; one goal tree |
| Agent tools (`agent/tool-invocation-pipeline.ts`) | `tool_invocations`, confirmation tokens, a circuit breaker per process | invoke, confirm, consume, execute, record | quota and budget read before, recorded after; a token on two replicas; a call that was given up acts later | overruns bounded; a confirmation acts once, for what was confirmed; probes accounted |
| Idempotent requests (`server/plugins/idempotency.ts`) | `idempotency_keys` | clean up, look up, claim, store, release, replay | retries during execution, crash in between, expiry | one handler per key; a replay is faithful |
| Billing outbox (`billing/billing-outbox.ts`) | `billing_outbox` | enqueue, requeue, fetch, claim, report, mark | crash between report and mark, overtaken flushes | sent means reported; a row is never stuck |
| Stripe events, subscriptions (`billing/stripe-webhook-service.ts`, `plans.ts`, `entitlement-service.ts`) | `webhook_events`, `subscriptions`, quotas, entitlements, add-ons | webhook, purchase, change of plan | redelivery, reordering, a change of plan without a transaction, rows that are written and never deleted | an event acts once; limits follow the plan, features their add-ons |
| Observability (`observability/`, `events/platform-dlq.ts`) | outbox rows, rollups, projection claims, dead letters | publish, drain, fail, bury, replay | stalled drains and requeues; a replay under a new id | a row counts once; what is given up is buried; everything settles |
| Audit chain (`audit/`) | log rows with hashes, anchors | append inside and outside of transactions, anchor, verify | two writers on one tail; a KMS that answers late | no gap, no fork; anchors cover the log |
| Accounts (`identity/tenant-*.ts`, `auth-service.ts`) | directory in the coordinator database, users in shards | register, change the address, log in, reconcile | crash between the two databases, races for one address | a user can be found; an active address has its user |

How they meet: HTTP routes call the services synchronously; long work is put
into the task queue and drained by the workers of all replicas. The
distillation service and the earning cycle take a persona lease around their
work; the service calls back into the tenant's instance for snapshot and
restore. The marketplace settles through the wallet tables, in the same
transaction for `completeTask`, in one of its own for an accepted result. An
organisation takes tasks of the same market row as personas do. Delegated work
runs tools through the agent pipeline and learns through the distillation of
its personas; the event that a skill was learned is in-process. Timer driven
workers (task queue, outboxes, recovery, sweep, reconciler, anchors, reaper)
run in every replica and meet only in the tables.

Numeric scoring, language models, retrieval, simulations, text of
conversations, GitHub clients, provisioning, privacy exports, imports, avatars,
the web and mobile clients, the storage layer and HTTP plumbing are listed in
`PROJECT.json` as not modelled, each with its reason.

The list of hazards in `PROJECT.json` names the line where each one bites and
the properties that would show it going wrong; a hazard without a property says
why.

## 2. Structure

| Group | Modules | Abstract specification or composition |
|---|---|---|
| queue | `TaskQueue` | |
| lock | `LeaseTable`, `PersonaLease` | `ExclusiveUse`, implemented by `PersonaLease` |
| earning | `EarningCycle`, `TokenQuota` | `EarningCycle` composes `LeaseTable` with the market a persona sees |
| learning | `Distillation` | composes `LeaseTable` with the gate to the core |
| market | `Marketplace`, `RuntimeSession`, `OrgMarket` | tasks with wallets; organisations next to personas on one task row |
| organisation | `Workforce`, `OrgChart` | calls, learner, wakers, approvers on the same rows |
| delivery | `BillingOutbox`, `ObservabilityPipeline`, `SubscriptionBilling` | outbox with its external receiver; outbox, worker and dead letters |
| requests | `IdempotentRequest`, `ToolInvocation` | tokens, breakers and records |
| trust | `AuditChain`, `IdentityDirectory` | log with anchors; two databases with their reconciler |

The specifications are written to be proved about: constants with named
assumptions, one action per statement or transaction, no recursive operator.
Names carry a prefix where two modules are used together (`toolVars`,
`ToolNext`). The modules of the second half share no state in the code, which
lets one instance, `MCPlatform`, check them all: a variable `scenario` chooses
at the start which component a behaviour steps, so the state space is the sum
of theirs and not the product. `MCServices` does the same for the queue, the
leases, the earning cycle and the token quota, with a variable `service`.

Each proof module stands next to the components it is about: `Services_proofs`
(queue, leases, quota, earning cycle), `Distillation_proofs`,
`Marketplace_proofs`, `Outboxes_proofs`, `Requests_proofs` (idempotent requests,
tools, subscriptions), `Runtime_proofs` (sessions, delegated work, charts),
`Records_proofs` (audit chain, organisations in the market, accounts), and
`Sums_proofs` with the lemmas about finite sums that several of them need.

Candidates for more: the edge queues and their conflict resolution, the
kernel's resolver and allocator as operators against reference definitions,
legal hold against deletion, the token budget of a tenant.

## 3. Modules and the code they stand for

`PROJECT.json` maps each definition to its lines. In all modules an operator
`X_y` is the variant of `X` with a plausible defect `y`; no specification uses
it, it serves to show that a property can fail.

### TaskQueue

State: one variable per column of table `tasks` that matters (`status`,
`retryCount`, `wait` for `available_at`, `claimedBy`, `age` for
`claimed_at`/`updated_at`, `older` for the order of `created_at`) and the memory
of a worker process (`proc`, `candidate`, `slot`, `saturated`). Timestamps are
relative timers, capped where a longer wait makes no difference.

Every SQL statement is a step. The enqueue statement is two steps, count and
insert, since two replicas' statements count on their own snapshots. A dequeue
is `SelectCandidate` then `ClaimWon` or `ClaimLost`: the transaction runs at
READ COMMITTED. `HandlerSucceeds`, `HandlerFails`, `AbortSettles`,
`RejectUnknown` are the four ends of `handleTask`; they write the row by id, as
the code does. `CancelTask` is the API's cancellation on the worker that runs
the task; a worker's list of controllers has one per task id (`listed`), so of two
attempts of one task in a worker the cancellation finds the later. `Reap`,
`PurgeCompleted` are the timers; `Crash`, `Stop`, `Exit`, `Restart`, `Stall`,
`Resume` are what happens to processes. `Tick` lets time pass only when no
running event loop is overdue with a timer (`NothingOverdue`).

A task's timeout is that of its type (`Timeout`), and nothing relates it to the
reaper's threshold: most types are within it (120 s against 300 s), but
`bulk_knowledge_import` is registered with 600 s, and such an attempt is reaped
while it runs in good health. Two histories tell the causes from the effect:
`slept` are tasks of an attempt whose process was frozen while time passed,
`overtaken` are those the reaper took from an attempt that was still held.
What the code can promise for an attempt that has its row ends when the task is
overtaken, so `AttemptOwnsRow`, `RunBudget`, `SettledIsFinal` and
`RetryNeverForgotten` are about the tasks that were not; `AttemptOwnsRow` also
says that a task is overtaken only for one of the two causes
(`OvertakenForCause`). That the first cause exists is against what the reaper's
comments say, see the run `TaskQueue_overtaken`. `crowded` are the tenants of
which two inserts overlapped: `QuotaBound` holds always, with an excess of at
most one for each other API thread for these, over the live tasks that have not
come back from a cancellation or from the reaper.

### LeaseTable, ExclusiveUse, PersonaLease

`LeaseTable` has the predicates and results of the three statements on one row
of `persona_leases`. `PersonaLease` adds clients that follow the protocol of
`withLease` and `compileApproved`: acquire, work, at most one refresh, release
in a finally block; they may crash or freeze at any time. `ExclusiveUse` is the
abstract promise: a key is entered only when everybody else inside is late. The
property `GrantsAreExclusive` is that specification under the mapping
`late <- Late`, the clients that used their key for a full TTL or longer.
Names start with `Lease` where a module that is used beside this one has the
same (`LeaseInit`, `LeaseNext`, `LeaseTypeOK`, `leaseVars`).

### EarningCycle, TokenQuota

`EarningCycle` is `runEarningCycle` for one persona whose cycles may run on
several replicas. `BeginCycle` takes the lease of `LeaseTable` and reads what is
open, what the persona has at stake and how many tasks it has; then each task of
the list is declined (`Decline`), or admitted (`DecideAccept`) and applied for
through the tool pipeline, with one of three outcomes: applied, refused, or an
application made by a call that then failed. A cycle ends with the release of
its lease or dies without it. Publishers assign, answer, complete, close tasks
at any time; after `DayPasses` an acceptance no longer counts. The order of
`updated_at` is a relation, `updated`, of which the two queries take the newest
rows. The cap of ADR-0048 counts accepted tasks only, those of them that are
among the 12 last touched rows (`RecentRows`), as of the start of the cycle, and
the number of open tasks does not grow within a cycle. `earnSlips` records when
one of these windows was met:

| slip | what happened |
|---|---|
| `pending` | a cycle began while an application of the persona was undecided |
| `unseen` | a cycle began with an accepted task beyond the recent rows |
| `overrun` | a cycle began because another one outlived its lease of 120 s |
| `half` | an application was inserted by a call that failed afterwards |
| `batch` | a cycle applied for a second task |

`CapKept` is about histories without the first four, `OpenGigsKept` about those
without any.

`TokenQuota` is one resource of one tenant: the limit in force, the usage row of
each window, and model calls that consume (`ConsumeQuota`) or record afterwards
(`RecordUsage`), are served, or fail. A failed call refunds its estimate
to the window that is current then (`ChatFails`); if the window has changed,
the refund makes room there for calls that the limit forbids, contrary to the
comment at `quota-manager.ts:125`. `PruneUsageBefore` deletes rows older than
the window of the limit as it is now; without a limit, that may be the
row that counts. These two are `quotaSlips`, which `QuotaHolds` excepts.
`granted` and `peak` are histories: the estimates of the calls of a window that
ran or run, and the highest limit that was in force in it.

### Distillation

One persona. State: the columns of `distilled_artifacts`, the set of artifacts
in effect in the core and in the rule and template tables, the lease row of
`LeaseTable`, and per replica a program counter with what the running operation
has read (`seen`, `snap`, `token`). Each statement of `ingest`, `approve`,
`reject`, `compileApproved` and `compensateAfterCompile` is an action. `Throws`
is a statement that throws, with the outcome the surrounding `catch` or
`finally` gives it; `RollbackFails` is the restore that returns false. A
replica runs one operation at a time because they are synchronous.

### Marketplace

One task of the market. A request is a read step (its guards are the early
returns of the handler) and a write step (its transaction); in between others
run. `completeTask` has a second read, of the assignment its settlement is
anchored to. A settlement too is a read step (`ReadToSettle`, `ReadToPay`) and a write
step (`SettleByRoute`, `SettleAccepted`): `settleTaskPaymentInTx` reads task and
assignment and writes later, in a READ COMMITTED transaction that locks neither,
and only the unique index on the assignment stops a second one. Money is
in minor units; `Floor` is the rounding of a share, `PlatformShare` the rest.
`slips` records the windows in which the code's guards do not tell one round of
the task from the next; the properties name the windows they do not cover:

| slip | what happened | where |
|---|---|---|
| `stray` | an assignment was inserted although the task was taken: the claim's row count is not looked at | `assignTask`, `acceptTask` |
| `swapped` | a decision read in one round was carried out in a later one: the claim looks at the status only | accept, reject, complete |
| `reopened` | a task was rejected after it had been paid | `rejectSubmittedTask` |
| `older` | an assignment that is not the latest was settled | `settleTaskPaymentInTx` |
| `late` | the task left the persona between the reads of a settlement and its writes | `settleTaskPaymentInTx` |
| `rounded` | a task was completed for a payout that rounds to nothing: no settlement is written | `completeTask` |
| `cut` | the process died between acceptance and settlement | `acceptSubmittedTask` |

Abstractions: personas and wallets are active throughout (nothing in the code
changes a wallet's status); assignments are ordered as inserted (equal
`assigned_at` are left out); the reads of one request are one step except the
anchor read; `in_progress` is one with `assigned`; governance cases, the token
balance, memories and audit rows are left out. `QualityPay` are the payouts a
quality may come to, from 0 to the reward: `completeTask` multiplies and rounds, and
pays under `if (payoutMinor > 0)`, so the row of a settlement that its comment
speaks of may be missing. A reward of 0 is refused by the other routes.

### Workforce

A call of `WorkerExecutionService.execute` is a program counter with what the
call has read: `Begin` (the executable task and the learned skills), `Register`
(one learning request per gap), `Dispose` with its three outcomes `Delegate`,
`Degrade`, `Suspend`, or `Gate` (arguments and risk), `Consume` (the approval),
`Claim` (the compare-and-set on the task), the tool, `Finish`. `Crash` ends a
call anywhere, and with it nothing is undone. `TakeRequest`, `PassRequest`,
`FailRequest` are the deterministic learner; `DeliverEvent` and `LoseEvent` the
in-process event; `Sweep`, `WakeRead`, `WakeWrite` the wake handler and its
reconciler, a read of the task and the conditional write of what was decided on
it. Approvals, handoffs and offboarding change the same rows. `paid` is a
history of how often an approval let a run through, `resumes` of how often a
task was resumed. The write of a wake checks that the task is still blocked and
that its own event was not the last one, but neither the count of attempts nor
the reason, which the replica read before: `outrun` records the tasks that were
woken while another replica had them in hand (`HasInHand`). From there on a
replica may resume a task beyond its budget, once each, or one whose tool has
failed since the sweep listed it.

### OrgChart, OrgMarket

`OrgChart`: a request checks (`Check`, with the chart's version at that time)
and writes (`Write`); other requests write in between. `raced` records a write on
a chart that changed since its check, which the code permits; the properties are
about all other histories. `InSubtree` is the least set closed under direct
reports, which is what the breadth-first search computes; `IsTree` is what
`validateStructure` demands of a first chart (one root, managers that exist, no
cycle) and what every later chart has to be. Escalations are rows with an addressee and a predecessor.
`OrgMarket`: one published task, orders of organisations, starters with the
goal decomposition as an answer, payers that read before they commit, and the
two persona routes that touch the task row.

### ToolInvocation, IdempotentRequest

`ToolInvocation`: a call reads the quota, reads the budget, asks for or presents
a confirmation token, is admitted by the breaker of its replica, runs, and
records. Within a replica nothing runs between the checks of one call
(`LoopFree`), since there is no await between them. A call that its caller gave
up after the time limit is `abandoned` and may still act. `effects` counts what
the tool did under each token. `IdempotentRequest`: the statements of the
preHandler and onSend hooks on one row; the row expires, the handler's replica
dies. `answer` and `lapsed` are histories.

### BillingOutbox, ObservabilityPipeline, SubscriptionBilling

`BillingOutbox`: `reported` is what Stripe accepted. A flusher that stalls past
five minutes is overtaken by a requeue and goes on later; the rows this happened
to are in `overtaken`. `ObservabilityPipeline` has the same shape with a batch
read ahead, a transaction that claims the event and adds the delta, and dead
letters; `doubtful` are the events whose worker was overtaken or whose replay
was repeated. `SubscriptionBilling`: a delivery is one transaction at READ
COMMITTED that records the event, reads the subscription, writes it (and holds its
row from then on), reads the add-ons, and derives the limits. Two deliveries of
one event wait for each other on the unique key (`Inserting`). A purchase is a
transaction too, with two reads; that it and a delivery may wait for each other's
rows and one of them be rolled back is `PurchaseFails` and `HookFails`. A change
of plan is no transaction: plan, quotas, the two reads and the rows of
entitlements and limits are steps of their own, and it may die after any of them.

`Sync` and the last steps of a change of plan are `syncTenantEntitlements`: it
upserts the resources of the limits it has computed and deletes none. A resource
that every plan limits is always among them (`shared`, of which add-ons raise the
amount); one that only add-ons have (`advanced_models`, `priority_queue`, here
`feature`) is not, once no active add-on is for it, so its row stays
(`FeatureRow`). `leftover` records that this happened: after the end of a
subscription the tenant keeps the feature. `FeaturesFollow` excepts just that, and
`subRaced` are the uses of a row that changed meanwhile, and deaths half way.

### RuntimeSession

A request reads the session, checks its state, and writes the next state by id;
a recovery worker lists overdue sessions and writes under a condition on the
state it listed. `resurrected` are ended sessions that a late handler wrote to:
the code has no guard against this, so `ActiveIsWatched` excepts exactly those.

### AuditChain, IdentityDirectory

`AuditChain`: a writer takes the lock, reads the tail, inserts, and (inside a
transaction) commits or fails. Outside a transaction the advisory lock of
PostgreSQL ends with its statement, so two request audits may read one tail and
one of them loses its row to the unique index. A hash is the identity of its
writer. An anchor service reads the tail, opens a window behind the newest
anchor, and signs it. `IdentityDirectory`: the rows of the directory, the users
in their shards, and the requests and the reconciler that move between the two
databases; a row is `overdue` when its grace period has passed.
`rekeyed` are the accounts whose row a key that is still in use has reserved
anew. The activation of a registration names the address and its operation key
only (`auth-service.ts:220`): a registration is retried under the same key, the
retry activates the first one's row, its account changes its address, the key
reserves the old address anew for an account that no shard has yet, and the
late request of the first try activates that row. The proof of
`DirectoryHolds` failed at this step before the window was known; the scenario
`retries` of `MCPlatform` reaches it.

### MCPlatform

Instantiates the eleven modules above with the values of its configurations.
`PlatformNext` steps the component of the scenario with the module's own
next-state relation; `Narrowed` leaves out, per scenario, combinations that
another scenario of the same component has (two recovery workers with one
request, or one with two requests; approvals or learning, and so on), or that
add states and no case: beside the changes of plan no invoice arrives and the
scenario stops at the first race, after which the property claims nothing, and a confirmation is presented with a risky call.
Each conjunct says what it leaves out. `Interchangeable` are two exchanges of
the actors and rows that the specification does not tell apart: flushers,
drains, attempts with one body, handlers, payers, changes, answers, writers and
webhook requests in the first, sources, rows, dead letters, recovery workers and
starters in the second. What a scenario or a conjunct names (a call, a worker, a
request) is in neither. The liveness specification is neither narrowed nor
checked under symmetry.

### MCServices

Instantiates `TaskQueue`, `PersonaLease`, `EarningCycle` and `TokenQuota`, of
which a behaviour picks one at the start (`service`). The fairness of the queue
and of the leases is asked of every behaviour; it asks nothing of one that steps
another service, because none of the actions it names is enabled in the initial
states such a behaviour stays in.

## 4. Runs

| Run | Instance | What it shows |
|---|---|---|
| `Services_liveness` | queue: 2 tasks of 2 tenants with different priorities, one with a timeout beyond the reaper's threshold, one of an unknown type, 2 workers with 1 slot, one crash; leases: 3 clients, 1 key, TTL 2, section 1, 4 tokens, one crash, two freezes | every task settles and the stall alarm clears (`TasksSettle`); refinement of `ExclusiveUse`, the fence, a taken key comes free |
| `Services_safety` | queue: 2 tasks of one tenant, one with timeout 1 and 2 retries, one with timeout 3 and the worker's own limit, reaper 1, retention 3, 2 workers with 1 slot, 2 API threads, quota 1, one crash, stop or freeze; earning: 2 cycles at a time and 2 in all, 2 tasks with rewards 2 and 1, caps 2 and 3, 1 open task at a time, lists of 2, 1 recent row; quota: 2 model calls, estimates and limits 1 and 2, 2 windows, 2 plan changes | queue: ownership of rows, bounded runs, quota, finality, monotone retries; `EarnsWithinLimits`, `QuotaHolds` |
| `TaskQueue_overtaken` (violated) | 1 task with timeout 3 and 2 retries, reaper 1, no crash and no freeze | `OnlyStuckIsReaped`: see findings |
| `TaskQueue_cancel` (violated) | 2 tasks with timeout 1 and 2 retries, 2 workers with 2 slots, no crash | `CancelIsFinal`: see findings |
| `Distillation` | 2 replicas, 2 artifacts that may compile automatically, budget 1, one crash, freeze and fault each, 3 tokens | budget, compiled in effect, rejected not in the core, fenced rollback |
| `Distillation_rule` (violated) | one artifact of kind rule | `RejectedHasNoEffect` |
| `Distillation_repair` (violated) | one artifact, two faults | `MarkedNotRecompiled` |
| `Marketplace` | 2 personas, 2 requests at a time, reward 2, split 80/0/20, quality pay 0 or 1, 2 assignments, 2 results, 2 payouts of 1, one crash | books, overdraft, single growth and payment, undivided outcome |
| `Marketplace_reopen` (violated) | the same with 1 payout key | `PaidTaskOffMarket` |
| `Workforce_shared` (violated) | 1 worker, 2 tasks that lack the same skill | `LearntTaskResumes` |
| `Platform_safety` | eighteen scenarios over the eleven modules of the second half, each with two concurrent actors of every kind and its faults; sizes below | fourteen properties, each about one component and made of named parts (below) |
| `Platform_liveness` | six of the scenarios, smaller, without the narrowing | what must happen in spite of lost events, stalls, crashes and failed signatures |

The platform's properties and their parts:

| Property | Parts | Module |
|---|---|---|
| `RunIsEntitled` | types; alone on the task (`RunExclusive`); with its skills (`SkilledRun`) | Workforce |
| `ApprovalCoversRun` | one run per approval; of its task, worker and risk | Workforce |
| `ResumeIsSafe` | the budget of resumes, over all replicas (`ResumeBudget`); a sweep resumes no failed tool (`SweepSparesFailures`) | Workforce |
| `UseWithinLimits` | types; overrun of quota and budget; probes of the breaker | ToolInvocation |
| `ConfirmedOnce` | one effect per confirmation; of what was confirmed | ToolInvocation |
| `OneAnswerPerKey` | one execution per key; a replay answers its own request | IdempotentRequest |
| `UsageReported` | sent means reported, and stays; pending means selectable | BillingOutbox |
| `OutboxesDrain` | every row of the two outboxes is settled | BillingOutbox, ObservabilityPipeline |
| `CountedOnce` | types; once per row; once per event; buried, so not counted | ObservabilityPipeline |
| `SessionsUnderControl` | types; retries; active means watched; no result taken back | RuntimeSession |
| `OrderSettledOnce` | wallets; one acceptance; one goal tree | OrgMarket |
| `ChartStaysWhole` | one tree per company; nobody orphaned; one answer per escalation | OrgChart |
| `DirectoryFollowsShards` | an account is reachable; an active address has its account | IdentityDirectory |
| `AuditTrailSound` | the chain verifies; transactions are spared; anchors cover | AuditChain |
| `PlanIsInForce` | an event is applied once; limits follow the plan, features their add-ons | SubscriptionBilling |

Likewise `TasksSettle` is `EveryTaskSettles` with `AlarmClears`,
`EarnsWithinLimits` is the type invariant with `CapKept` and `OpenGigsKept`,
`QuotaHolds` is `WithinLimit` with `UsageCounted`, `StatusTellsCore` is
`CompiledInEffect` with `RejectedNotInCore`, `LedgerSound` is `LedgerBalances`
with `NoOverdraft`, and `RewardedOnce` is `GrowthOnce` with `PaidOnce`. The
theorems are about the parts and, where all of them are proved, about the whole.

Why the bounds are enough. Two replicas (three for the lease) are what each
race needs: an actor that has read and one that writes in between. Two tasks with
a quota of one are the smallest queue that is full. The timers keep the order of
the real values: one type's timeout is within the reaper's threshold and one's
beyond it, both within the retention (120 s and 600 s around 300 s, then 7 days); section < TTL.
One task has retries of its own, so that the worker's retry and the reaper's
requeue meet on it, the other relies on the worker's limit. One worker needs no second
slot to hold a task twice: the overtaken attempt and the second one may be on
different workers, and the violated runs have two slots. MaxFaults
allows one crash or freeze in a behaviour; the theorems hold for any number of
both. Four tokens let a lease be taken over, given back late and taken
again. Two assignments and two results allow a rejection, a new round and a second
submission. A reward of 2 has a remainder under the splits 80/0/20 and 60/20/20 and
a quality for which it rounds to nothing. MaxCrashes, MaxStalls, MaxFaults,
MaxTokens, MaxAssignments, MaxResults are bounds of the model and not of the code.
Symmetry is used for workers, replicas, personas, requests, payout keys, cycles and
model calls, and for the twins of the platform, in safety runs only.
Deadlock is checked except for the marketplace, where a paid and completed task
with no more payouts to ask for is the end, and for the services, where earning
cycles and model calls end when the bounds on cycles and windows are reached. Two cycles
at a time with a list of two tasks reach each window of `earnSlips`; that an
unseen task leads beyond the cap takes a third task, of the owner's.

The platform run has per component: 2 workers, 1 task, 1 skill, 2 calls, 2
replicas that wake, of which the second wakes in a scenario of its own (`wakes`,
with one call and nobody leaving), 2 learning requests, 1 approval, 1 handoff, a
resume budget of 2 (the code's 3 in the liveness run), which two replicas can
overrun together; 2 tool calls on 2 replicas or for 2 users, 3 arguments of which 2 are
risky, 1 token, a quota of 2, a budget of one call, a breaker that opens at one
failure; 3 attempts with one key and 2 bodies; 3 metered events of which two
have one key, 2 flushers, 2 attempts; 1 event in 2 rows, 2 drains, 1 replay, 2
attempts; 1 session with 2 handlers and 2 recovery workers, 1 retry; 2
organisations, 2 orders, 2 starters, 2 payers, 2 requests of the persona side; 5
workers in 2 companies, 2 changes, 2 answers, 4 escalations; 3 addresses, 2
registrations for one of them on 2 shards and a retry of the first, 2 changes; 4 writers, 2 anchor
services; 2 deliveries of any event, in a second scenario one at a time beside a
purchase or a change of plan, or these two, with one add-on of either kind. Each race of the hazards needs an actor
that has read and another that writes; the third attempt, address and worker are
there for the cases in which the second is replaced in between. MaxStalls,
ObsMaxStalls, MaxOrders, MaxPersonaCalls, MaxEscalations, MaxWrites, MaxAddOns
and the sets of identifiers are bounds of the model; MaxAttempts, MaxRetries,
MaxResume, MaxDepth, FailureThreshold, HalfOpenMax are constants of the code,
smaller here. One task is enough in the workforce because tasks meet only in
learning requests; two tasks that meet there are the violated run. The liveness
run has one call, one flusher's key, one row, one handler and one recovery
worker, since the check of temporal formulas multiplies with the states.
Deadlock is not checked there: a component whose work is done stops, and so does
one whose identifiers are used up.

Fairness. `TaskQueue`: a live worker keeps polling and reaping (`setInterval`),
timeout and abort listeners fire, a stopped worker exits, the orchestrator
restarts a process, a frozen one resumes, a started insert ends, time passes.
No fairness is assumed of handlers: one that neither resolves nor rejects is
allowed, and so is one that is never cancelled. `PersonaLease`: time passes, a
frozen client resumes, and a critical section, which is synchronous or a short
await, reaches its finally block; clients need not acquire or refresh. In the
platform: the periodic sweep, the flush and drain timers, the recovery worker,
the reconciler and the anchor service go on (`setInterval` in every replica), so
their steps have weak fairness. A stalled flush or drain resumes or not; the
requeue of another one must do. `Recover` has strong fairness per session: a
worker that lists again and again is not killed every time before it comes to
that row. `SignAnchor` has strong fairness: a KMS that is asked again and again
answers some time. A registration or change of address that has started goes on
or dies (a request does not hang for ever); while one is in progress its row's
grace period does not pass, so `GracePasses` and the reconciler's read of an
overdue row have strong fairness. No fairness is assumed of clients, learners,
approvers, handlers and events: they may all be lost. `Distillation`, `Marketplace` and the remaining
components have no liveness property: nothing in them runs by itself.

## 5. What the violated runs show

1. `OnlyStuckIsReaped` - the reaper asks how long a row has been claimed, not how
   long its type may run: an import with a timeout of 600 s is put back to pending
   after 300 s, claimed again, and two slots run one task with no crash and no freeze.
2. `CancelIsFinal` - `cancelTask` aborts the attempt and marks the row failed;
   the attempt's catch branch then reschedules the row by id, so a cancelled
   task runs again while it has retries left.
3. `RejectedHasNoEffect` - a rolled back compile restores the core only; a rule
   or template already appended to its table stays although its artifact is
   rejected.
4. `MarkedNotRecompiled` - the NEEDS_REPAIR mark is looked at before the lease
   and not under it; an approval read earlier compiles on the dirty core.
5. `PaidTaskOffMarket` - a settlement by route does not look at the task's
   status and a rejection does not look for a settlement: a paid task can go
   back to the market and be paid again.
6. `LearntTaskResumes` - a second task suspended for a skill that is already
   being learned joins the learning request of the first one, which names the
   first task only. Event and sweep both find tasks through that name, so the
   second stays blocked for ever.

`PROJECT.json` quotes the comments these contradict.

## 6. Proofs

`tlapm` checks the modules `*_proofs`. All theorems hold for every value of the
constants that satisfies the assumptions of the module: sets of any size, any
timer values in the stated order, any bound on crashes and freezes.

### Services_proofs

Task queue (from `QueueAssumption`). `TypeCorrect` is type correctness.
`OwnershipHolds`, `RunBudgetHolds`, `SettledFinalHolds` and `RetryMonotone` are
`AttemptOwnsRow`, `RunBudget`, `SettledIsFinal` and `RetryNeverForgotten`.
`AttemptOwnsRow` is nearly inductive but does not say why the reaper leaves a
live attempt alone, nor why a retry does not lose a count. The invariant `IInv`
adds: an insert in progress is of an absent row that nobody else inserts
(`InsertsFresh`); an aborted attempt is of a cancelled task (`AbortedCancelled`);
the row of an attempt that was not overtaken is as old as the attempt (`Owned`), and
an attempt whose process never slept is within the timeout of its type
(`WithinTimeout`), so the reaper takes it only if that timeout exceeds the threshold;
a task's claims are its retry count, plus one once it has been claimed again, unless
it was overtaken (`AttemptsCounted`). Nothing is assumed of how timeouts and
threshold compare (`QueueAssumption`). Each action has its own lemma for each part
it disturbs.
`QuotaKept` is `QuotaBound`, by `CountInv`: the live tasks of a tenant that have not
come back from their end (`Fresh`), with its inserts in progress, are within its quota,
or, once inserts of it overlapped, within it and one for each other API thread
(`Excess`): an insert that starts alone has found room for itself among all that
counts, one that starts beside others has found fewer rows than the quota, and there
are never more inserts than threads. A fresh task becomes live by an insert alone (`FreshShrinks`); the sets
counted are finite because they start empty and grow by one, and the API threads are
finite by assumption, so nothing is assumed of how many tasks there are.

Leases (from `LeaseAssumption`, `ClientAssumption`). `LeaseImplements` is the
refinement of `ExclusiveUse`, `LeaseFenceHolds` is `RefreshIsFence`. The
invariant: tokens are drawn once (`TokensDrawn`), a client works on the key of
its handle (`WorksOnLeasedKey`), a client within its time has its row
(`RowIsOwn`), a row that is a client's own expires when the client is out of
time (`RowInStep`) and was granted to nobody else since (`OwnRowUnbroken`).
`RowInStep` is what makes a grantable row imply that whoever is inside is late:
the step that carries the refinement of `Acquire`.

Token quota (from `QuotaAssumption`). `QuotaLimitHolds` is `QuotaHolds`. The
invariant `QuotaInv` adds `LimitIsPeak` (the limit in force is one of those that
count for the window) and `RowsTell` (a window without a row has granted
nothing, unless a slip occurred; later windows have nothing yet). The step
that matters is `ConsumeQuota`: used plus estimate within the limit bounds
granted plus estimate only because a row is never below what was granted.

Earning cycle (from `EarningAssumption`, `LeaseAssumption`). `EarningsHold` is
`EarnsWithinLimits`. `CapKept` speaks of accepted tasks, and an application
becomes accepted by a step of the publisher, long after the cycle that made it:
the invariant `EarningInv` therefore bounds `Exposure`, what is accepted today or
still awaits an answer (`ExposureKept`), and says of each cycle in progress that
it counts with at least that exposure, and is about to apply only for what fits
(`CycleSound`). A cycle that is not overrun is alone, which is what the lease is
for. The sums are over sets of tasks (`SumMonotone`, `SumOneMore`).

### Distillation_proofs

From `LeaseAssumption`, `DistillationAssumption`. The invariant of the lease,
`LeaseInv`, is that of `PersonaLease` for the compile section; `AloneInSection`
follows: without an overrun at most one replica is in it. `FenceHolds` (`RollbackIsFenced`) needs no more. The others add what the
section promises, on top of it: `RoomForOne`, the count is below the budget from
the check under the lease to the status advance (`BudgetHolds`, `AutoBudget`);
`EffectKept`, what is compiled is in effect and is in the snapshot of a replica
that may still go back (`EffectHolds`, `CompiledInEffect`); `CoreAccounted`, an
artifact in the core is compiled, known to be unrestored, or in the hands of a
replica that will advance or roll it back, and a snapshot has settled artifacts
only (`RejectionHolds`, `RejectedNotInCore`). In each of these the step that
matters is one replica's advance or rollback while another is inside, and
`AloneInSection` excludes it.

### Marketplace_proofs

From `MarketplaceAssumption`. `Types` is `TypeOK` with
`Pointers` (what a request has read refers to rows that exist) and
`OpenIsUnassigned`. `RoundInv` relates the task row to what was booked:
`GrowthCounts`, `RoundIsLatest`, `PaymentIsRecorded`; it carries `GrowthHolds`,
`PaymentHolds` and `CompletionHolds`. What a settlement has read is not assumed to
hold when it writes: that another payment follows needs the task to have left the
persona in between, which is `late`, or one of the windows before it; and a completed
task without a settlement is `rounded` or has its payer still on the way (`Owes`). `VerdictClosesRound` (a verdict on the
latest round has moved the task) is what `OutcomeHolds` needs besides
`UndividedOutcome`. `BooksHold` says that a balance is the sum of its journal
and never negative, which gives `OverdraftHolds`; it rests on `NetIsOwnerShare`:
whatever the rounding of the shares, the entries of a settlement sum up to the
owner's share. `LedgerHolds` is `LedgerSound`: a balance is also the sum of the
owner's shares over the wallet's settlements, less what was paid out. The
invariant, `LedgerInv`, says in addition that the settlements and the keys of
the payouts are finite sets: both start empty and grow by one, so this is
proved and not assumed. `RewardHolds` is `RewardedOnce`.

### Outboxes_proofs

From `OutboxAssumption`, `ObservabilityAssumption`. For the
billing outbox: a flusher that has a row and was not overtaken is alone with it
and the row says so (`RowIsClaimed`), and it marks a row as sent only after
Stripe answered (`MarkIsReported`). Without the first a late claim could send a
row twice (`FinalHolds`); the second gives `SentHolds`. For the pipeline: rows
never disappear (`RowsKept`), what a drain has in its hand is a row that exists
(`HandsArePresent`), and a row is counted exactly when its claim is
(`RowsCountOnce`). `ProjectionHolds` is `CountedOnce`. That an event counts once
and that what is given up is buried are about an event's rows over several
replays, each with a new row; the invariant `OncePaths` adds that a row in a
drain's hands is in nobody else's (`HandAlone`), that a row has one dead letter
and nobody works on it any more (`BuriedOnce`), that one which failed has its
letter or will get it (`FailedIsKept`), that a counted row is sent
(`CountedIsSent`), that a letter is in one replay (`ReplayAlone`), and, with
these, that of two rows of an event one is given up (`OneOpenRow`).

### Requests_proofs

From `IdempotencyAssumption`, `ToolAssumption`. `ClaimsAreHeld`: an attempt whose handler runs or took effect has the row of its
key until the row expires; two such attempts would both be the owner
(`OncePerKeyHolds`). `StoredIsEffective` gives `ReplayHolds`.
`OneTransactionPerEvent`: an open transaction has an event that is neither
recorded nor in another open transaction (`EventAppliedOnceHolds`).
`OneCallPerToken`: a consumed token is with one call, which is the only one that
may still act under it, and the tool has not acted while it may
(`EffectsHold`, `ConfirmedHolds`).

`UseHolds` is `UseWithinLimits`. `UseInv` bounds what was used plus what the
calls past their checks will use: `used` may pass the limit only by the calls
that are in flight once it is reached. This counts calls, so the set of calls is
finite (`ToolAssumption`): in a deployment it always is, and an infinite set has
no cardinality to bound anything with.

`PlanHolds` (with `LimitsHold`) is `PlanIsInForce`, from
`SubscriptionAssumption`. Limits follow the plan because the delivery that writes
holds the subscription's row alone (`OneHoldsRow`) and what it derived is derived from
the plan it writes (`WritesAreCurrent`), because the add-ons it cancels are there
(`CancelsExist`), and because a change of plan leaves behind the plan only what it
has statements left for (`MeteredInStep`, `EntitledInStep`, `QuotaInStep`). `SyncFollows`
is what the upserts give: a limit computed from what is so now is the one that is due,
and a feature with an add-on has its amount, while one without keeps its row. A race
of two changes ends the claim (`subRaced`).

### Runtime_proofs

From `RuntimeAssumption`, `WorkforceAssumption`. Of sessions:
`RetriesLeft`, the retries made and the workers that still have the session on a
list for another retry are together within the bound; `DueExists` and
`ResurrectedEnded` are what `WatchHolds` needs. Of delegated work: `CallSound`
is what a call has established at each of its steps (no gap at the gate, a
matching approval above low risk, a spent one before the claim); skills and
decided approvals are kept by every other step (`Kept`), so it stays true.
`RunsAlone` and `PaidSound` say that a running call is alone with its task and
that a spent approval is with one claim until it has let a run through.

`ResumeHolds` is `ResumeIsSafe`. `ResumeInv` says what a replica has in its
hands: a task once (`HandsDiffer`), as it was when the replica read it unless
another one woke it since (`HandsFresh`: blocked for a missing skill when the
sweep listed it, within the budget when a resume was planned). Once the budget
is spent, the resumes made and those about to be made are together below the
budget plus the number of replicas (`BudgetSpent`): the wake that spends it is
its replica's own, and leaves at most one plan with each of the others. The
replicas are therefore finite in number, and no learning request is named like
the sweep (both in `WorkforceAssumption`).

Organisation charts (from `OrgChartAssumption`; that the first charts are trees
is what `validateStructure` checks before anything is stored). `ChartHolds` is
`ChartStaysWhole`. `ChartInv` adds what a request that is not outdated still has
(`RequestSound`): the manager it names is a member in office outside the subtrees
of those who move (`MoveChecked`), or the root it absorbs is the root of another
organisation (`AbsorbChecked`). Reachability needs no induction over paths:
`IsTree` quantifies over sets closed downwards, and the subtrees checked are such
a set without the new manager, so it lies outside everything that moves
(`TreeMoves`); an absorbed tree hangs below a member (`TreesJoin`). That nobody
is orphaned follows from the same facts, since a manager is always a member of
the worker's organisation (`BossIsColleague`) and all reports of who leaves
move. `ChainsInv` says of escalations that each predecessor was escalated
further, once, by its addressee.

### Records_proofs

Audit chain (from `AuditAssumption`). `Chained` (numbers from one
without a gap, each row names the one before) is kept because a writer at its
insert follows the log (`RowsFollow`) and one at its commit has its number for
itself (`NumbersReserved`), which the lock and the unique index give.
`AnchorInv` says that windows start at most one behind the newest anchor
(`WindowsAreNear`), so that none leaves a gap. `TrailHolds` is the whole.

Organisations in the market (from `OrgMarketAssumption`). `OrdersHold` is
`OrderSettledOnce`: wallets balance, an order is accepted once and has one goal
tree. `OrgInv` adds what requests have read and is still true at their write
(`RequestsAreSound`), that one starter at a time builds for an order
(`BuildersAlone`), and that an order which was not started has no tree
(`TreesAgree`). The wallets are a sum over the settled keys, hence
`IsFiniteSet(SettleKeys)`: a market has finitely many tasks.

Accounts (from `IdentityAssumption`). `DirectoryHolds` is
`DirectoryFollowsShards`. `IdentityInv` adds what a row says of its owner
(`EntriesSound`) and what a request or a reconciler that read a row may still
rely on (`RequestsSound`): a registration's row that is still there under the
operation key it was read with is the same account's (`KeyStands`), since keys
are unique per request but for `rekeyed`. The assumption that no client's
operation key is one that a change of address derives for itself is what the
code takes for granted when it looks rows up by that key.

### Sums_proofs

A sum over a finite set is given by a fold, whose definition recurses over
subsets. `SumSplits` (the sum is the value at any element plus the sum over the
rest) is what the proofs need: its proof goes over all subsets of a finite set
by `SubsetInduction`, a first-order statement about the set of subsets that
satisfy the claim, so no theorem with an operator parameter is used. From it
follow what one element more adds (`SumOneMore`), that a sum of naturals is
monotone (`SumMonotone`), and that functions which agree have one sum.

### Only model-checked

Liveness (`TasksSettle`, `LeaseComesFree` and the platform's; liveness under
fairness is out of the prover's reach), and the properties of the violated runs,
which do not hold. Every safety property of a passing run is a theorem.

## 7. What is left out

- Task queue: a database that is unavailable (the writes in `handleTask` throw
  and the row is left to the reaper); what an abandoned handler itself does.
- Leases: `get`, input validation, the purposes' different TTLs.
- Distillation: writers of the core other than compiles, the end of the budget's
  window, several personas (their leases and cores are disjoint), validation of
  payloads, which is an input (`CanAutoCompile`, `Tabled`).
- Marketplace: ranking, changes of a persona's status; see the
  abstractions above.
- Workforce: what a tool does (it is `ToolInvocation`'s part, behind an answer
  here), charters and planning, learning plans, the learning-timeout marker.
- Runtime sessions: memories, reputation and events that the handlers write;
  they have no guard against a repeated write: two `execute` requests store two
  memories, and two `complete` requests publish and add the reputation twice.
- Tools: adapters, grants and their administration.
- Observability: the columns of the rollup (a count of applications here),
  exporters and alerts. Audit: retention and export; a hash is an identity.
- Subscriptions: checkout, invoices, reconciliation of settlements.
- Accounts: passwords, tokens and sessions.
- Most of the repository's 178,000 lines are web and mobile clients, route and
  schema declarations, numeric scoring over one persona, prompts, seeds and
  scripts. They have no protocol between concurrent actors; a model of them would
  restate them line by line.
- Everything the components list calls not modelled; section 2 names what could
  come next.
