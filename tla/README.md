# Verification of the agentic data kernel

TLA+ models of the kernel in `src/src` and `src/migrations`, the TLC runs that check
them on small instances and the TLAPS proofs that hold for every instance. Every
definition that models code is tied to its source lines in `PROJECT.json` ("map").

## Inventory of the system

The repository holds two kernels behind one request language ("Agent Intents"): a
production kernel over PostgreSQL (`src/src/production`) and an embedded one over SQLite
(`src/src/kernel.ts`, `src/src/store.ts`). The production kernel is the core: many API
processes and effect workers share one database, and an external receiver is called for
every effect.

| Component | State | Operations | Interacts through | Hard behaviour |
|---|---|---|---|---|
| Effects (`effects.ts`, `kernel.ts` requestEffect/requestPayment) | `effect_intents`, `effect_attempts`, budget counters and revocation of `api_keys` | request, lease, deliver, reconcile, finalize, cancel, revoke | rows locked by transactions; HTTP to the receiver | worker crashes, lost leases, late answers, revocation races, retries, attempt limit |
| Retail orders (`kernel.ts`, `effects.ts` finishRetailOrder) | `inventory`, `machine_instances`, `machine_history`, `timers` | seed, reserve, requestPayment, processTimers, settlement by the worker | shares rows with effects and timers | timer against payment, settlement against cancellation, inventory conservation |
| Intent execution (`kernel.ts` execute) | `idempotency_results`, `execution_receipts` | execute = check, prepare outside a transaction, write | advisory lock per (principal, key) | same key twice at once, key revoked half way, preparation gone stale |
| Bitemporal assertions (`kernel.ts` putAssertion, resolve; `001_core.sql` next_system_time) | `assertions`, `system_clock` | assert, supersede, resolve as of | clock row lock orders writers; readers take none | as-of reads against in-flight writers, supersession races, equal timestamps |
| Artifacts (`artifacts.ts`, `artifact-reconciliation.ts`) | files, `artifacts` rows | put, get, reconcile orphans | file system and table are not one transaction | file without row, row without file, clean-up against concurrent put |
| Workflows and lineage (`kernel.ts`, `003_generic_agency.sql`) | `machine_instances`, `machine_history`, `effect_intents`, `lineage_edges` | create, advance, request an effect, addLineage | expected revision, row and advisory locks | lost updates, gaps in history, repeats under a provider key |
| Explain (`kernel.ts` explainTrace of both kernels) | none: a search over `lineage_edges` and the records at its ends | explain | reads what the above write | limits reached in the middle of a level |
| Row locks (all of the above) | lock holders and waiters | the lock sequence of each transaction | PostgreSQL lock manager | lock-order inversions between worker and API |
| Tenant rotation (`effects.ts` runOnce) | in-memory cursor | poll | tenants table | starvation of a tenant |
| Maintenance mode (`database.ts`) | `maintenance_state` | begin, end, write transactions | FOR SHARE lock | a writer that slips past the flag |
| Migrations, bootstrap, embedding space (`migrations.ts`, `embedding-space.ts`, `bootstrap.ts`) | `schema_migrations`, the runtime role, `embedding_configuration`, the vector indexes | migrate, configure the space, bootstrap-role, check readiness | advisory locks of transactions and sessions, a trigger on `assertions` | two migrators, a build that fails half way, servers of another release that store meanwhile |
| Embedded kernel (SQLite) | the same tables in one file, and a logical clock | the same operations; payment and effect outcomes reported by the caller | BEGIN IMMEDIATE, savepoints | several processes on one file, wall clocks that go back, timers read outside the transactions that handle them |
| Agent middleware (`agent.ts`) | none of its own: the identity of a run | compile context, invoke tools, execute, record a turn | calls a kernel, in its process or over HTTP, under keys derived from tenant, principal, run and call | retried tool calls and turns whose first request is still served, keys of two domains or runs that meet, answers to other requests |
| Incident-response scenario (`sre-scenario.ts`) | none of its own: run id and step names | a long script of requests over three runtimes | public operations of a kernel, and the effect worker | two restarts in the middle, a rollback asked for again under another key |
| Surfaces (HTTP, MCP, CLI), parsing, configuration, metrics, search, benchmarks | none that the protocols depend on | | | not modelled beyond the exchange of a request and its answer; see below |

What makes each correct:

- *Effects*: the key's counters are exact and within the limit; at most one delivery at a time and
  a bounded number; the recorded outcome is the receiver's; revocation before the fence wins;
  what the receiver knows of is settled in the end.
- *Orders*: stock is conserved and never promised twice; an order ends as its payment did; a
  reservation is paid or released.
- *Intent execution*: one execution per key, replies that agree with it, none for a revoked key.
- *Assertions*: versions hand over without gap or overlap; the past is settled; a decision behind
  an effect was current.
- *Artifacts, maintenance*: every row has its file, in the store and in every backup.
- *Workflows and lineage*: one history row per revision, no lost update, no replay that reserves
  budget, effects bound to the revision that was current, edges that point to something.
- *Explain*: the whole neighborhood of a record, or an answer that says it is truncated.
- *Locks*: requests deadlock each other only where they cross as described below, and every
  transaction ends.
- *Tenant rotation*: no tenant with due effects is passed over without bound.
- *Migrations*: each version applied once, with its checksum; refusals only for what the database
  holds; all assertions in the configured embedding space; a command ends, one way or another.
- *Embedded kernel*: the same promises as the production kernel's, from one process or several
  over one file.
- *Agent middleware, scenario*: what is retried in its run is executed once and in the order of the
  script, and never answered by another run's or another domain's.

The hazards are listed line by line in `PROJECT.json`.

## The modules

| Module | Models | Composed with |
|---|---|---|
| `EffectLifecycle` | intents, budgets, workers, receiver | |
| `EffectContract` | what effects promise callers (abstract) | |
| `EffectRefinement` | the mapping from the former to the latter | `EffectLifecycle`, `EffectContract` |
| `OrderContract` | what both kernels promise about stock and orders (abstract) | |
| `RetailOrder` | stock, orders, timers in PostgreSQL | extends `EffectLifecycle` (an order's payment is an effect); implements `OrderContract` |
| `EmbeddedOrders` | the same in SQLite | implements `OrderContract` |
| `LockOrder` | the row locks of those transactions, one step per lock | |
| `BitemporalStore` | assertions in system time, reads, decisions behind effects | |
| `Resolution` | `resolve`: valid time, status, policies, conflicts | extends `BitemporalStore` |
| `IdempotentService` | what `execute()` promises callers (abstract) | |
| `IntentExecution` | `execute()`, artifact files, revocation, backup, reconciler | implements `IdempotentService` |
| `Explain` | the searches of both kernels, and what they should find | |
| `GenericAgency` | workflows, effects of revisions, knowledge, lineage, in both kernels | extends `Explain` |
| `AgentSession` | hosts that run scripts through the middleware over a lossy connection | extends `GenericAgency` |
| `IncidentScenario` | the incident scenario as such a script | extends `AgentSession` |
| `SchemaMigration` | migrators, bootstrap, the embedding space, servers that start and store | |
| `TenantRotation` | the worker's walk through the tenants | extends `SchemaMigration` |
| `*_proofs` | theorems about the module they are named after and the contract that it implements; `RetailOrder_proofs` is also about `EffectLifecycle`, `BitemporalStore_proofs` about `Resolution`, `SchemaMigration_proofs` about `TenantRotation`, `AgentSession_proofs` about `GenericAgency` | |
| `MC*` | instances for TLC | |

A transaction is one action, unless where it waits matters (`LockOrder`, `BitemporalStore`,
`IntentExecution`); what a process does between transactions (HTTP, files) is a step of its
own, so that everything else interleaves with it. Definitions whose comment says *Mutant*
are not part of the model: each is a plausible mistake that the named property must detect.

### EffectLifecycle

| State | Code |
|---|---|
| `status`, `owner`, `amount`, `fenced`, `lease`, `expired`, `waiting`, `attempts` | the row of `effect_intents` (`001_core.sql` 237-280) |
| `active`, `reserved`, `spent` | the row of `api_keys` |
| `pc`, `job`, `mode`, `result` | where a worker is in `runOnce` and what it remembers |
| `provider`, `wire`, `posts` | the receiver's record, requests under way, requests sent (history) |

| Action | Code |
|---|---|
| `RequestEffect`, `RevokeApiKey` | `requestEffect`/`requestPayment` with the budget UPDATE; `revokeApiKey` |
| `LeaseNext`, `CancelUnauthorized` | `leaseNext` and its unauthorized branch, under the locks of row and key |
| `Post`, `Conclude` | `deliver`, `reconcile`: the POST leaves; the exchange ends with a `DeliveryResult` |
| `Finalize`, `LoseLease` | `finalize` with `settleEffectBudget`; the lease is gone |
| `Crash`, `Restart`, `ExpireLease`, `RetryDue` | the process and time |
| `Receive`, `LoseRequest`, `Resolve` | external: network and receiver, which honours the idempotency key |

Time is two flags, lease run out and retry due. A lease token is the worker that holds the
lease. `UninformedFailures` are the effects for which `failed` may be concluded without the receiver's
word, which the code does for URLs its outbound policy rejects and for 4xx statuses. Such an effect can be
settled as failed, after an ambiguous first attempt, though the receiver applied it; the contract says so of
it: it may be acted after it failed, and fail after it was acted. Of all others it says that they failed
without having been acted. Nor does the contract promise that every effect settles: one
that never reached its receiver (the worker died between lease and POST, or the posts were lost) gets a 404 at every reconciliation, which is `unknown`, and nothing posts it again. Both are how the
code means to be: it never repeats what it cannot tell from delivered.

*Contract.* `EffectContract` has no workers, leases, retries, counters or messages: request
within the budget, authorize once while the key is live, act outside at most once, settle
with what happened. The mapping takes `dispatching`, `unknown` and `reconciling` to
`authorized` and the applied effects to `acted`.

### RetailOrder

`onHand`, `held` are the inventory row; `machine`, `item`, `quantity`, `history` the order's
machine and its history; `timer`, `lapsed` the expiry timer and whether its instant has
passed. `SeedInventory`, `ReserveInventory`, `RequestPayment`, `ProcessTimers(S)` are API
operations, `FinalizePayment` and `CancelPayment` the worker's transactions: conjunctions of
the `EffectLifecycle` action and its effect on order and stock, since the code does both in
one transaction. `ProcessTimers` takes any batch of at most `TimerBatch` due timers, because
SKIP LOCKED may pass over any of them. `UNCHANGED orderVars` for the remaining effect steps
is what makes `RetailSpec` imply `Spec` (theorem `EffectsUnderOrders`).

### LockOrder

`op`, `batch`, `wants`, `holds` are a database session's transaction, the orders it is
about, the locks it will still ask for and those it has; `phase` is as much of an order as
decides which transactions can be under way. `Wants` lists each transaction's lock sequence
as read from the code; `next_system_time()` is the lock of the clock row. An INSERT locks the
rows it refers to: `assert` is a request that refers to an artifact, `link` an edge to an effect. `put` is
`put_artifact` of an artifact that is there already, `replay` a request under a provider key that is in use, `misdirect`
`request_effect` for an order, which locks the order's row before it is refused. Every
request ends with its receipt, which needs the clock. Provider keys are advisory locks; those of Agent Intent keys and
of artifacts are left out: two transactions that share one share nothing before it. So are rows that only a holder of
the clock locks (assertions, histories, entities), for which nobody can wait.

Three pairs of client requests can wait for each other (`CrossedLocks`): `put_artifact` of a stored
artifact against an assertion or edge that refers to it (row, then clock; clock, then row: `kernel.ts` 878-883, 2844
and 976, `001_core.sql` 149-150); a replay of an effect against an edge to it (2545-2552 and
`003_generic_agency.sql` 185-195); a payment or its replay against a `request_effect` for its order under the same provider key (machine,
then key; key, then machine). PostgreSQL ends one of the two, which the client
sees as an internal error. `RequestsRarelyDeadlock` says that there are no others.

### BitemporalStore

The database counts ticks (microseconds), every time that passes through the program is
`Ms(tick)`, a JavaScript Date. `from`, `to`, `prior` are `system_from`, `system_to`,
`supersedes_assertion_id`; `last` the committed `system_clock`; `now` the wall clock, which
`SetClock` moves both ways. A writer begins, allocates (`next_system_time`, holding the clock
row), and commits or rolls back; a reader takes `currentSystemTime` in one statement and
queries in another. `BindEffect` is the check of `request_effect` that its decision is
current. `Descendants(a)` are the versions that supersede `a`, directly or not: the least set with `a`
that has the successors of its members. `Resolution` adds what assertions say (`Content`, which does not change) and the answers that
`resolve` may give: `Results` are all orders that the query's ORDER BY allows, `FirstOf` is the head of a
stable sort. `SelectionFollowsPolicy` looks at every system time, valid time and policy wherever no
transaction or read is under way.

### IntentExecution

A call is one HTTP request, a retry is another call with the same key. `Revalidate`,
`LookUp` are the first transaction; `PrepareArtifact` publishes a file outside any;
`Begin`, `LockKey`, `Commit`/`Reject` are the second, with `assertWritesAllowed`, the
revalidation, the advisory lock and the second look-up. `Sees` is the isolation level: an
explanation reads from the snapshot of its transaction, every other operation what is
committed. `RaiseFlag`, `Dump`, `Archive`, `LowerFlag` are `backup.ps1`;
`ReadReferences`, `ListFiles`, `RemoveFile` are `reconcile-artifacts`. `Fail` is anything
that throws, at any point. `snapshot` keeps the calls a transaction has seen; `grace` is
history: the calls that were already writing when their key was revoked, which the code lets
finish.

### OrderContract and EmbeddedOrders

`OrderContract` has items with stock and free units, and orders that hold, pay, and sell or
release. `RetailOrder` and `EmbeddedOrders` map their tables to it: `free` is `onHand` minus
`held`. One step releases a set of orders, since one batch of timers of the production kernel does.

SQLite's `BEGIN IMMEDIATE` lets one writer at a time into the file, so that a transaction
(savepoints included) is one action, whichever process it is of. `WriteTime(c)` is
`allocateTimestamp` under a wall clock that shows any `c`; the milliseconds that one transaction
allocates are one instant. `ReadDueTimers` is the SELECT of `processDueTimers`, outside any
transaction and at a time its caller chooses; `ProcessTimer` is one transaction for one timer read,
`Crash` ends a process between two. `RecordPaymentOutcome` and `RepeatPaymentOutcome` are
`record_payment_outcome` by status of the payment. `stored` keeps the requests behind
operation keys, so that a repeated request changes nothing.

### Explain and GenericAgency

`ExplainTrace` (production) goes level by level, `EmbeddedExplain` node by node from a queue. Each of
their loops is a recursive function of the number of rounds (`Levels`, `Visits`, and `Including` for the edges of
one result) whose values are records of what has been included, with the limits on edges and nodes where the
code has them. `Neighborhood` defines what an answer should hold by the balls around the root, without a search.

`GenericAgency` has the rows of workflows (`revision`, `terminal`, `history`), of effects
(`effects`, `outcome`, `reserved`, `spent`) and of knowledge (`artifacts`, `opened`, `closed`,
`lineage`). In the profile "production" a request is `Begin` (lock and look up of its key),
`LockRows` (provider key and workflow row, with `Checked`), `TakeTime` (the clock row) and
`Commit` or `Abort`; several sessions interleave. In the profile "embedded" `ExecuteIntent` does it in
one step. `Perform` is the dispatch on the operation, shared by both. A request for an effect that
is known under its provider key is a `ReplayEffect`, before the workflow is looked at. `Settle` is the
worker of the production kernel, `RecordEffectOutcome` what the embedded kernel has instead.

### AgentSession and IncidentScenario

A run is a host with a script of steps and the place it is at. `Dispatch` sends a step under
`ScopedKey` (the hash of tenant, principal, run and name, in a domain of tool calls, host operations
or turns), `Accept`, `Finish`, `Refuse` and `Recall` are `POST /v1/execute` from the arrival of a
request to its answer, `Receive` is `assertCorrelatedResponse` and the host's reaction. Requests
are lost (`Lose`) or late; `Timeout` gives up on an exchange whose request may still be served, and
the step is sent again; `Restart` begins a script again; `Misdirect` hands a run the answer to
another's request. `IncidentScenario` writes the scenario as a script: repeated shapes stand for each
other, every relation and every use of a revision is there once. `RunWorker` is a worker of the scenario's own:
it must find the effect due, whatever comes of it, and the scenario goes on; if it finds nothing to do, the
scenario ends with an error. It extends what it is a client of, so
that the steps go through the whole of `GenericAgency`.

### SchemaMigration and TenantRotation

Every process has a build: its migration files and its embedding space. A migrator's places are the
statements of `migratePostgres`: `LockMigrations` (advisory lock and the SELECT of what is applied),
`ApplyFiles`, `CommitMigrations` (one transaction), then `LockSpace`, `ConfigureSpace`, and `KeepIndex`
or the concurrent build of an index: `DropIndex`, `FinishDrop` for what an earlier one has left, `StartIndex`,
`ValidateIndex`, `SettleIndex`, `FinishIndex` with its three waits for transactions of others (`blockers`).

Whoever waits for a lock waits under `statement_timeout` (`TimeOut`): such a command fails, though nothing is
wrong but that another one runs. `Refuse` is what its own checks say. On the server the statements on the index have no
timeout (`embedding-space.ts` 204), but the client's `query_timeout` (`database.ts` 34) goes on: `Cut` is its error, after
which RESET and the unlock queue behind the statement, `Hang` that they time out too. The client then makes
nothing of what the server does (`client`): its session keeps the lock, `client.release()` is skipped,
`pool.end()` waits for it, and the command hangs until somebody ends it (`Interrupt`). `LoseDeadlock` is an index build in
a circle with an insert that waits for the session lock, or with a migrator whose waiting statement has an older
snapshot.

A server is verified in two steps (`assertRuntimeReady`), then inserts: `BeginInsert`
waits for a migration's table lock, `PassTrigger` takes the space's lock in shared mode. `Situations` are
what a database may hold before, and who meets it. `TenantRotation` adds the tenants that
`create-key` makes after migrating, the effects that come due, and `runOnce` as `BeginPoll`, one
`Lease` for each tenant tried, and `GoIdle`; the cursor is memory that `StopWorker` clears.

## The runs

All but the violations finish with no error; times are for two TLC workers.

| Run | Instance | Shows |
|---|---|---|
| `effect_delivery` | 1 effect, 2 workers, 3 attempts, failures that the receiver reports; 65 k states, 25 s | no overlapping deliveries, attempts bounded, outcomes are the receiver's, revocation before the fence wins, the contract is implemented, accepted effects settle, barred ones are cancelled |
| `retail_orders` | 2 orders, 1 item with stock 0..2, quantities 1..2, batches of 2, budgets, one payment that may fail without the receiver's word; 831 k states, 125 s | stock and counters are exact, orders and payments agree, reservations end, `OrderContract` is implemented |
| `lock_order` | 2 sessions, 2 orders of one item and a workflow, all transactions; 851 k states, 135 s | requests deadlock each other only over crossed locks; every transaction ends |
| `lock_replicas` | 3 sessions, no detector | finding: two workers block each other |
| `bitemporal_store` | 3 assertions of one slot that agree, contradict or outrank for a time, 2 writers, 1 reader, 3 ticks a millisecond, 8 ticks, wall clock 0 or 4; 1.3 M states, 100 s | versions hand over, exactly one is visible at each time, effects rest on current decisions, reads find what was committed, the past is settled, answers are as the policy says |
| `intent_execution` | 3 calls, 2 keys, 2 contents of 1 artifact and an explanation, 1 API key; 497 k states | one execution per key and replies that agree with it, rows have files, backups are consistent, revoked keys execute nothing |
| `intent_explain` | 2 calls | finding: a retried explanation fails instead of replaying |
| `intent_orphans` | 2 calls, `OrphansReused` | finding: the reconciler removes a file in use |
| `embedded_orders` | 2 orders, 1 item, 2 keys, 2 processes with timers, stock and quantities up to 2, holds 1..2, times up to 7; 91 k states, 22 s | the tables agree, histories are paths in time with one row for each attempt, `OrderContract` is implemented |
| `agent_session` | 2 runs: an incident against each of four others, or the whole scenario alone; both profiles, 2 sessions, 1 fault, limits of 5 nodes and edges; 322 k states, 117 s | scripts are executed in order and once, no false conflicts, one history row per revision, effects bound to current revisions and decisions, budgets follow effects, answers stay true, explanations tell |
| `explain_limits` | any requests of five calls, limits of 4 nodes and edges | finding: an explanation exceeds the limit of nodes |
| `service_operations` | 2 migrators (same release, next one, edited file, other space) and an API server, or `create-key` with a worker and 3 tenants; 3 databases, 2 crashes; 168 k states, 55 s | one embedding space, refusals are earned, migrations end or hang behind their own index, every tenant has its turn |

### Bounds

- `EffectMaxAttempts` (`EFFECT_MAX_ATTEMPTS`): 3 distinguishes first, middle and last
  attempts; `retail_orders` takes 1, because budgets change only at request and settlement.
  `attempts` needs no bound of its own: only deliveries raise it, and they are bounded.
- `MaxAmount`, `Limit`: two payments of amount 0 or 1 under a limit of 1 fit together or exclude
  each other, and fill the limit exactly; in `agent_session` 1 and 2 under a limit of 2.
- `MaxStock`, `MaxQuantity`: two orders that fit together or compete for the last unit.
  One worker: what rival workers do to one effect is `effect_delivery`'s question.
- `TimerBatch` stands for the 100 of the code: 2 covers a batch of several orders of one item;
  `ReservationEnds` needs only that a batch is not empty.
- `MaxTick`, `Readings`, `TicksPerMs`: three versions fit in three milliseconds or crowd into
  one; the wall clock is at the start, or ahead, or set back behind what was committed. Each commit uses
  two ticks (the write and the receipt), so that the last commit lies at the bound.
- Two sessions in `lock_order`: circles of three are the proof's matter, which holds for any
  number; `lock_replicas` has three, since a worker's circle needs somebody to prepare the
  orders.
- Three calls: two rivals for a key and a third that replays, conflicts, or uses another key.
- `OrphansReused` is an assumption about the environment: a file without a row that is older
  than the minimum age is not taken up again. The action `Age` also assumes that a call and the
  reconciler's verification are shorter than the minimum age, an hour by default. Where either
  fails, `RowsHaveFiles` fails (`intent_orphans`).
- `MaxTime` in `embedded_orders`: seven times let both orders be reserved, paid and answered twice. It bounds
  when agents write, not timers, which would otherwise be stopped by the bound. `MaxHold` of 2 lets a
  hold run out before, at and after the request for payment. A process reads timers at any time up to
  the last expiry, also before or after the file's clock.
- `MaxTime` in `agent_session`: more than the scenario and the other scripts write. `MaxNodes`,
  `MaxEdges` of 5: the incident's explanations reach both limits in the middle of a level and between levels
  (500 and 2000 in the code); depths 0..3 reach across the lineage. `MaxFaults`: one timeout, restart or
  misdirected answer at any point, beside any number of lost requests and refusals, each of which a
  fault then has to repair.
- `Situations`: a database that is new, one with the first migration and assertions of one space, one with
  assertions of two. `MaxCrashes` of 2: two processes or connections die, at any points; timeouts, deadlocks and
  hangs have no bound, and commands may be given again without bound. Spaces have different dimensions, hence different indexes.
- Three tenants: with two, "one further" and "back to where it was" are the same.

Symmetry is used in runs without liveness properties only. Deadlock is checked except in the `IntentExecution`
runs and `agent_session`, where calls and scripts end and the system stops, and in
`lock_replicas`, whose point is a deadlock.

### Fairness

- Workers (`FairSpec` of `EffectLifecycle`): `EffectWorker.run` polls for ever and is restarted
  by its supervisor; leases and retry delays run out. Strong fairness of leasing an effect:
  oldest first, and each failed attempt moves an effect behind a growing delay. Strong
  fairness of learning and recording an outcome: the configuration forces the lease to outlast the
  request by five seconds (`config.ts` 137-144), so a worker that is told the outcome in time can
  finalize, and one that does not crash every time eventually does. Crashes, revocations and
  requests are never forced.
- Orders (`RetailFairSpec`): the operator's scheduler calls `process_timers` until nothing is
  left (`docs/PRODUCTION.md` 412-419). No fairness of workers is assumed.
- Locks (`FairSpec` of `LockOrder`): PostgreSQL grants a row lock in the order of the requests
  and aborts one transaction of a circle after `deadlock_timeout`.
- Migrations (`SchemaFairness`): weak fairness of ending a wait for a lock, with the lock or by the timeout: that
  the lock comes is not assumed. A statement that waits for nobody ends, on the server; the client may always have
  stopped waiting before. Inserts end, by their statement timeout if nothing else. No command is given again for
  sure, nobody interrupts one that hangs, and nothing is assumed of servers: they need not start.
- Tenants: `EffectWorker.run` polls for ever (weak fairness of `Poll`). Tenants are only added: nothing in the
  code makes one inactive. That leases come to something is
  `EffectLifecycle`'s matter.

## What is proved

The theorems hold for every value of the constants under the named assumptions on them
(`ConstantsAssumption`, `RetailAssumption`, `LockAssumption`, `BitemporalAssumption`,
`ResolutionAssumption`, `EmbeddedAssumption`, `IntentAssumption`, `ExplainAssumption`, `AgencyAssumption`,
`SessionAssumption`, `SchemaAssumption`, `WorkerIsServer`, `CreateKeyMigrates`, `TenantsHaveIds`): sets are finite, bounds are numbers, `None` is not a value, requests
are typed as the intent schemas have them, a step of a script has a name of its own in its domain, a database
that has the embedding migration begins migrated, an answer of explain may hold its root. Every invariant and
every action property that a passing run checks is a theorem.

**Effects** (`RetailOrder_proofs`): `TypeCorrect`, `BudgetSafety` and `BudgetLimitSafety`,
`DeliverySafety`, `AttemptSafety`, `OutcomeSafety` (with `CancelledNeverSent`), `Finality` (a terminal
status stays), `Revocation`. The properties are not inductive. The invariant
`IInv` adds: what a worker at each step remembers (`JobInv`); an outstanding row has an owner,
and a row that was ever leased is fenced (`RowInv`); nothing was sent for an unfenced
effect (`SentInv`); posts are counted by `attempts`, plus the one a current or lost delivery may add, after which no
row is deliverable again (`AttemptInv`) — which is why expired leases must be
reconciled; what a worker was told is the receiver's record (`AnswerInv`). Budgets are
cardinalities of sets of unit pairs; lemmas `UnitsAdd` and `UnitsRemove` carry the
arithmetic without recursion, and exactness makes `GREATEST(0, ...)` harmless.

**Contract** (`RetailOrder_proofs`): `Implementation`, by `StepRefines`, one step per
action, for any set `UninformedFailures`: nothing is assumed of how an effect fails, and of those outside the
set the contract says more. `CommittedIsCounted` replaces the counters by the contract's sums.

**Orders** (`RetailOrder_proofs`): `EffectsUnderOrders` shows that everything proved about effects
holds with orders; `RetailTypeCorrect`, `StockSafety`, `SettlementSafety`, `PaymentSafety` follow from `RetailInv`,
which adds to the effects' invariant that orders are for seeded items and pending exactly
while their payment is outstanding. The subtle step is `TimersCounted`: a whole batch leaves a
set whose cardinality the stock must follow.

**Both kernels promise this** (`RetailOrder_proofs`): `RetailImplementsOrders`, that production orders
implement `OrderContract`. `OrderStepRefines` has one step per action: what only moves timers or
effects is a stutter, a batch of timers one `Release` of a set, whose units `ContractUnits`
relates to the reserved column; settlement needs `PaymentSafety`, for else an order could be sold
that was already let go.

**Embedded orders** (`EmbeddedOrders_proofs`): `EmbeddedTypeCorrect`, `TablesSafety`, `HistorySafety`, by
`EmbeddedInvariance`. `TablesAgree` is inductive with the types and `ItemInv` (an order has its
item): that a stale timer does no harm needs exactly that the order is looked at again. The history is three
invariants: `PathInv` (times rise, since `WriteTimeAdvances` holds for any wall clock), `LengthInv`
(rows against attempts) and `AnswerInv` (attempts against stored answers).
`EmbeddedImplementsOrders` is the other half of the contract: its one addition to the invariant is
`UnseededInv` (nothing is held of an item without a row), which makes a seed of the table a seed of the
contract; `TablesAgree` is not needed, since `ProcessTimer` looks at the order.

**Schema** (`SchemaMigration_proofs`): `EmbeddingSafety`, `RefusalSafety` by `SchemaInvariance`, for any number of
migrators, servers, releases, spaces and crashes; `SchemaUnderRotation` carries both over to the
composition with the worker. Migrators time out, hang, lose deadlocks and die in all of it: these steps only
move their places (`StepsAside`). `OneSpace` is not inductive: an insert that has passed the trigger commits later.
`SchemaInv` says that its space is then the configured one and that nobody else has the space's lock
(`CheckedInv`); that what a migrator read under its lock is still what there is (`LockedInv`,
hence no refusal by a primary key); that while files run nothing is inserted and what is stored fits
(`AppliedInv`); and that who configures has the embedding migration applied (`MigratedInv`).

**Rotation** (`SchemaMigration_proofs`): the safety half of `EveryTenantReached`, for any number of tenants. A tenant's
place is the number of tenants before it; `RotationInv` says that a poll which began after the last tenant was
added looks at the places from the cursor on, round and round, and `RotationSafety` that a turn is less than a
round away (`Ahead`). `RotationProgress` is the action property `Nearer`: while the worker runs and no tenant is
added, no step takes a waiting tenant further from its turn, and a poll that serves another brings it nearer.
So it waits for no more polls than there are tenants; that polls go on is the fairness, and TLC's matter. The rows in order exist because
places are an injection of the tenants into as many numbers (`OrderExists`). No run checks `Nearer`.

**Locks** (`LockOrder_proofs`): `RequestDeadlocks`, by `LockInvariant`. Locks have a rank (an order's machine; provider
key; a workflow's machine, effect, inventory, artifact; clock; key; timer), and a request is somewhere on its way
through the locks that `Wants` lists (`OnTheWay`). Most lists rise (`RequestsAskInOrder`): such a request holds only
lower locks than the one it waits for, so that in a circle the greatest wanted rank would have to be exceeded. Three
operations ask late (`LateOps`). In a circle without crossed locks they hold nothing (`NobodyLate`), so that nobody in
it waits for them. Workers do not rise, whence the finding. `LockTypeCorrect` includes
mutual exclusion.

**Assertions** (`BitemporalStore_proofs`): `StoreTypeCorrect`, `StoreHandsOver`,
`StoreBindsCurrent`, `StoreSettlesPast` from `StoreInv`, whose core is `Clock`: at most one writer
holds the clock row, and its time is after the last committed one. Division enters only by
`MsFloor` and `MsMonotone`. `StoreShowsOneVersion` is about chains of versions of any length. Versions of a
fact are ordered (`DescendantsLinear`), and each begins after those it descends from (`DescendantsLater`),
so that two cannot be visible at once (`NoLaterVisible`). That one is visible (`SomeVisible`) is an argument by
pigeonholes: if all versions that had begun by T were closed by T, then succession would map these finitely
many into themselves without the first, and two of them would have one successor. `StoreReadsCommitted` adds
`ReadInv` (what a reader knew of had begun by the time it asks for) and that no step takes a descendant away.
`StoreResolves` is the answer of `resolve` under every policy, in every order of rows that the query allows:
the best of the rows exist by `MinimalExists`, the rows are the candidates (`ResultRows`), and one object among
them is agreement (`ObjectsAgree`).

**Intent execution** (`IntentExecution_proofs`): `IntentTypeCorrect`, `RevocationSafety`, `RetrySafety` from
`CallInv`: who holds the lock of a key is alone with it and sees what was executed under it, unless it
explains from a snapshot (`KeyInv`, where finding 2 comes from); who writes has a live key, or began before it was
revoked (`GraceInv`); while the flag is up nobody writes, and what was dumped is still what there is (`FlagInv`).
`StoreSafety` and `BackupSafety` assume `~OrphansReused`, without which they are false (finding 3). They need
`StoreInv`: a call that is about to write has its file (`PreparedInv`), which if old has a row (`AgedInv`), so that
what the reconciler found unreferenced stays so until it is removed (`UnreferencedInv`).
`IntentImplementsService` maps calls to those of `IdempotentService`: the step that commits or
replays is the abstract answer, all else is a stutter.

**Workflows** (`AgentSession_proofs`): `HistorySafety`, `BindingSafety`, `BudgetSafety`, `AnswerSafety`,
for both profiles, from `AgencyInvariance`. The core of `AgencyInv` is `TxInv`: what sessions have locked
is disjoint, and what a session has checked under its locks still holds when it commits, though others commit in
between; the time it has taken is the next one. `HistoryInv` ties
row, history and clock; `OnceInv`, that a call is entered once in all tables, is why retries neither advance a
workflow twice nor reserve twice. The budget is a cardinality of unit pairs (`CostAdd`), as for effects.
`RecordsAreKept` is an action property that no run checks: rows, outcomes, results and edges are never lost or
changed, and an assertion is closed once.

**Explanations** (`Explain_proofs`, `AgentSession_proofs`): `ExplainTraceTells` and `EmbeddedExplainTells`, for every
lineage, root, depth and limits; `ExplanationSafety`, that whatever requests have been interleaved, every
explanation to any depth is the neighborhood or says that it is truncated. The theorems add
the limits (`WithinLimits`): never more than `MaxEdges` edges, nor more than `MaxNodes` different records, in
the embedded kernel nor more than `MaxNodes` nodes; what finding 4 is about is only the records
that production returns again. Each recursive function satisfies its equation (`LevelsAre`, `VisitsAre`,
`IncludingIs`, `BallsAre`), and induction over the rounds is `UpTo`, on sets of numbers. The edges of one
result (`AllEdges`) are all included, or one was not and the search says so. For production the invariant
is `AtLevel`: unless truncated, the frontier before level n is exactly the sphere of radius n. The
embedded queue has no levels: `AtVisit` says that it is in order of depth, with at most two depths in it
(`OrderedNext`), and `AllSoFar` that each node has been queued at its distance and whatever is as near as the
head of the queue is queued. That `MaxNodes` rounds are enough is a count: a record is queued once.

**Agents** (`AgentSession_proofs`): `SessionImplementsAgency`, that the kernel under the hosts of `AgentSession` does
nothing it would not do alone, so that `SessionSafety` carries its promises over; `ScriptSafety` and `KeySafety`,
for any scripts, numbers of runs, faults and messages. `SessionInv` adds that every exchange under way, late ones
included, is of a step whose predecessors the kernel has done (`ExchangeInv`, `Proper`), and that a host has passed
only steps that are done (`HostInv`): a late duplicate can repeat a step, never run ahead of one.

### Only model-checked

- Liveness (`AcceptedSettles`, `RevokedIsCancelled`, `ReservationEnds`, `TransactionsEnd`,
  `MigrationsEnd`, `EveryTenantReached`) and everything about ENABLED: beyond the prover.
- That the numbers are those of the code (500 nodes, 2000 edges): the theorems hold for any.

## Findings

1. `lock_replicas` (documentation): "Multiple replicas can run concurrently because leases use
   SKIP LOCKED". Leasing holds effect and key rows and waits for the clock; settling holds
   the clock and waits for the key. PostgreSQL breaks the circle after its timeout, so that
   `TransactionsEnd` holds with the detector; but the exception is caught nowhere in the
   worker's loop, and the replica that loses exits.
2. `intent_explain` (code): explanations run in REPEATABLE READ, whose snapshot precedes the wait
   for the idempotency key. A concurrent exact retry misses the stored result, executes again
   and fails to serialize. Any other commit between snapshot and receipt has the same
   effect on a first explanation.
3. `intent_orphans` (code): `put` takes up an existing file without renewing its age, and
   the reconciler decides on rows read before: it can remove a file that a retry has just
   committed a row for.
4. `explain_limits` (code): `docs/EXPLAIN.md` promises at most 500 nodes. Once the production kernel
   has included its 2000 edges it goes on to the next depth with the frontier it has, loads
   the same level once more and returns its nodes again at depths they do not have, beyond the
   limit. `ExplanationsTell` shows what still holds: such an answer says that it is truncated, and its
   edges are of the neighborhood.

Not findings, since no document says otherwise, but good to know:

- Client requests can deadlock (`LockOrder` above); the loser gets SQLSTATE 40P01 and the client an internal error.
  `put_artifact` under an id in use, while an assertion with that source is stored, is the likeliest.
- An index build that takes longer than `DATABASE_STATEMENT_TIMEOUT_MS` and one second can leave the command that began it hanging
  with the session lock of the embedding space. Other migrators then time out and every insert of an assertion waits
  for its timeout, until the build is done and the session is ended.
- A migrator that waits for another's index build fails by `statement_timeout`; its waiting statement can
  also make the build lose a deadlock, since a concurrent build waits for older snapshots.

`SelectionFollowsPolicy` says "of the latest millisecond", not
"written last". `system_from` is cut to milliseconds, and assertions of one millisecond tie; the query
has put the one of the highest authority first, so that policy `latest` of the production kernel selects it
though a later one may contradict it. While the database host's clock is behind `last_time`, each time is a
microsecond after the last, and hundreds of assertions tie.

## Not modelled

- Search: its scores and their fusion rank what one read returned; queries are one statement.
- `compileContext` and the bounds of a model's context: they select and word what one read returned.
- The upgrade of old SQLite files (`store.ts`), once per file before anything else runs.
- Savepoints of the embedded kernel: an intent inside a transaction is part of the one action.
- HTTP and MCP plumbing, the rate limiter, parsing and schemas, configuration, encryption, signing and
  restore, DNS pinning and TLS, logging, metrics: they keep no state the protocols depend on, or are outside
  what a model of this kind says anything about.
- The scenario's reads and its synthetic provider (it is `EffectLifecycle`'s receiver), benchmarks, examples.
- The content of migrations: a file is its checksum and the tables it locks.

Known simplifications: one tenant everywhere; an effect is identified with its
provider idempotency key; a receiver is correct (it keeps one record per key and its
answers are true); a host of `AgentSession` sends one step at a time.

## Plan

The order in which the models were built is that of the module table; what is left is
the composition of `IntentExecution` with `AgentSession`: the preparation outside transactions under
the retries of the middleware.
