# Plugin Execution System: formal models

TLA+ models of the plugin execution server in this repository: what is modelled,
how the models correspond to the Go code, what TLC checks, what TLAPS proves, and
what is left out.

## 1. The system

The server accepts *executions* (a list of plugins and an input document), runs
the plugins in child processes or containers, and records results, events,
attempts and audit entries. `cmd/server/main.go` wires one of two back ends.

**Production (`METADATA_STORE=postgres`).** `EnterpriseExecutionService` writes an
execution, its first events, an audit entry and a queue row in one transaction of
`storage/postgres.MetadataStore`. `worker.DurableWorkerPool` runs N `leaseLoop`
goroutines and one `reclaimLoop` per process. A `leaseLoop` leases a row from
`queue.PostgresQueue`, starts a heartbeat goroutine, calls
`MetadataExecutionHandler.HandleLeasedExecution`, and acks or nacks. Any number of
processes share the database.

**Local (`local-json`).** `ExecutionService` keeps executions in JSON files through
`storage.JSONStore`, publishes ids to the in-memory `worker.ExecutionQueue`, and
`worker.WorkerPool` runs `ExecutionWorker.HandleExecution`. On start,
`RecoverIncompleteExecutions` re-queues or fails what the last process left.

### Components

| component | state it keeps | operations | talks to |
|---|---|---|---|
| durable queue (`internal/queue`) | `task_queue` rows: status, attempt, availability, lease id, lease end, worker id | `Enqueue`, `LeaseNext`, `Heartbeat`, `Ack`, `Nack`, `ReclaimExpiredLeases`, `MoveToDLQ`, `Depth` | Postgres |
| durable worker pool (`worker/durable_pool.go`) | goroutines, the `TaskRef` each works on, back-off and lease parameters | `leaseLoop`, `handleOne`, `heartbeatLoop`, `reclaimLoop`, `Stop` | queue, handler |
| metadata handler (`worker/metadata_execution_handler.go`) | locals of one call: `e`, `attempt`, results | `HandleLeasedExecution` | metadata store, plugin service, runtime |
| metadata store (`storage/postgres`) | `executions`, `task_events`, `task_attempts`, `execution_results`, `audit_logs` | `CreateExecutionAndEnqueue`, `TransitionExecutionWithEvent`, `AppendAttempt`, `AppendResultAndFinalize` | Postgres |
| enterprise execution service | none | `CreateExecution`, `CancelExecution`, `GetExecution`, `ListExecutions` | store, plugin service, policy |
| state machine, idempotency, aggregation (`internal/service`) | none (pure) | `CanTransit`, `CanCancel`, `CheckConflict`, `AggregateExecutionStatus` | |
| local execution service, worker, queue | `executions.json`, a bounded channel, goroutines | create, cancel, mark queued/running, finish, recover, submit, handle | JSON repositories |
| JSON store and repositories | one file per collection | `Load`, `Save`; read-modify-write on top | file system |
| webhooks (`service/webhook.go`, `worker/webhook_retry_scheduler.go`) | endpoints, deliveries with attempt number and retry time | dispatch, deliver, retry, endpoint administration | event bus, HTTP receivers |
| event bus, event log, SSE (`internal/event`, `handler/execution_observe.go`) | subscriber slots, a 16-slot channel per stream | `Publish`, `Subscribe`, `Record`, `StreamEvents` | webhooks, HTTP clients |
| plugin registry, plugin states | plugin rows and statuses, registry records | `ReloadPlugins`, `EnablePlugin`, `DisablePlugin`, upsert, `CanExecute` | manifests on disk |
| runtime (process, container) | one child process per run, output buffers | `RunPlugins`, `RunProcessPlugin`, `RunContainerPlugin` | operating system |
| policy, identity, auth, middleware | users, tokens | `Evaluate`, authenticate, attach the user | every handler |
| manifest, artifact, secrets | signed manifests, files, encrypted secrets | validate, put/get, resolve | registry, runtime |
| audit, observability, logging | audit rows, counters | record | every service |
| router, handlers, response, validator, config | none | HTTP plumbing, parsing, configuration | |
| `cmd`, SDKs, web page, scripts, demo plugins | none | wiring and clients | |

### What is hard in it

* **Leases outlive their workers.** A worker that stalls, loses its database
  connection or is stopped keeps working under a lease that `reclaimLoop` has
  given to another. Nothing tells it: heartbeat errors are dropped
  (`durable_pool.go:153`), and `Ack`/`Nack` report success when no row matched.
* **Two clocks.** Leases are granted and extended by the database's `now()`;
  `reclaimLoop` compares them with the application server's `time.Now()`
  (`durable_pool.go:169`), and `Nack` computes `available_at` with it.
* **Transactions commit and their answers get lost**, between any two of the five
  transactions of one handler run; the next delivery starts from what they left.
* **Cancel races the handler**: the service reads the status, then updates it with a
  compare-and-set; the handler finalizes without comparing anything
  (`metadata_store.go:151`).
* **Local mode has no transactions**: every repository update is load, change, save
  of a whole file, and the state machine is checked on an earlier read.
* **Webhook deliveries are recorded after the HTTP request**; a crash repeats or forgets
  them. The dispatcher's inserts and the retry scheduler's updates both load, change and
  save one file. SSE streams drop what comes between the replay of old events and the
  subscription.
* **A plugin is another process.** Its output comes in pieces through pipes into bounded
  buffers, it races the deadline and the cancellation, what it starts keeps the pipes, and a
  container is not its client.
* **Registry records are read, changed and written back whole**, by reloads that overlap
  each other and the requests that enable and disable plugins, while the directory changes.
* **Some of it is wired in local mode only.** The event bus is published to by
  `ExecutionEventService.Record`, which the production path never calls: there webhooks
  and live SSE events do not fire. `Record` stamps every event with the default tenant and
  project (`service/execution_event.go:24`), so endpoints of other scopes get none.

`PROJECT.json` lists each of these hazards at its line with the property that
covers it, or why none does.

### What makes each component correct

* queue: a task is under at most one live lease; a stale lease changes nothing;
  settled rows stay as they are; every task is eventually settled.
* handler and store: an acknowledged task has its results stored; a cancel is
  respected by workers that have not yet run; the status follows the state machine;
  an accepted execution is eventually decided.
* create: one idempotency key, one execution, one body.
* local mode: an id is with one worker at most; whatever the unlocked updates of other
  executions, failing files and an early end of recovery leave alone is run once, keeps its
  outcome, and is decided; a restart takes up what they did not leave alone.
* webhooks: a failed delivery is retried until delivered or dead-lettered and is
  never retried after it was delivered; attempts stay within the maximum.
* streams: recording never waits for a client; a subscriber misses an event only for a
  known reason, and is told those of one recorder in order.
* registry: only enabled plugins run; a reload that is left alone brings the records in
  line with the directory and keeps the administrators' decisions.
* manifest and runtime: what is started is what the accepted manifest declares; a reported
  result is what the plugin said and did; a run ends.

## 2. Modules

| module | models | status |
|---|---|---|
| `LeasedWork` | the abstract contract of `queue/durable.go`: fresh leases, only the owner settles, settled is final | done |
| `DurableQueue` | `queue/postgres.go` and the queue side of `worker/durable_pool.go` | done |
| `ExecutionState` | statuses, transitions, aggregation | done |
| `DurableExecution` | create, cancel, the handler and the metadata store, composed with `DurableQueue` | done |
| `LocalExecution` | local service, worker, queue, recovery over the JSON store | done |
| `MCDurableQueue`, `MCDurableExecution`, `MCLocalExecution` | constant values for TLC | done |
| `DurableQueueProofs` | proofs about `DurableQueue` | done |
| `DurableExecutionProofs` | `DurableExecution` uses the queue as `DurableQueue` allows; its safety properties | done |
| `Webhooks` | `service/webhook.go`, the retry scheduler, endpoint administration, both files | done |
| `EventStream` | event file, bus and SSE streams | done |
| `PluginRegistry` | reload, enable and disable over plugin records in a file or a table | done |
| `PluginManifest` | validation and integrity of manifests, the record made of one, what each store keeps | done |
| `PluginRuntime` | one run of a plugin, from its manifest to its result; extends `PluginManifest` | done |
| `MCWebhooks`, `MCEventStream`, `MCPluginRegistry`, `MCPluginRuntime` | constant values for TLC | done |
| `LocalExecutionProofs` | proofs about `LocalExecution` with any rows: types, one handler per execution | done |
| `LocalOutcomeProofs` | goes on from there to what becomes of each execution: its plugins, results and outcome | done |
| `WebhooksProofs`, `PluginRuntimeProofs`, `EventStreamProofs`, `PluginRegistryProofs` | proofs about the module of that name | done |

`DurableExecution` takes the queue with `Queue == INSTANCE DurableQueue` on the same
variables; each of its actions that touches the queue contains the queue's own
action, so there is one definition of what a lease, an ack or a nack does.

### DurableQueue

*State.* `row[t]` is the row of `task_queue`; `"none"` is a missing row. `leaseId` is a
number taken from the counter `lastLease` (`gen_random_uuid()` never repeats), 0 for
`''`. `held[w]` is the `TaskRef` of the handler goroutine `w` runs, `beat[w]` the one
its heartbeat goroutine extends, which can outlive `held` while a statement is in
flight. `PoolOf[w]` is the `worker_id`, shared by the goroutines of a process.

*Steps.* One SQL statement is one step. `Heartbeat`, `Ack` and `Nack` match on lease id
and worker id exactly as the `WHERE` clauses do, `Heartbeat` on the status too.
`LeaseReplyLost` is a lease whose answer never arrives; `SettleFails` an ack or nack
that fails, which `Stop` makes certain since it cancels the context the ack uses;
`Crash` a process that dies. `Reclaim` takes a set of expired rows (the statement has
`LIMIT` and `SKIP LOCKED`) judged by a clock at most `Skew` off. Taking a lease from a
worker that is alive means its heartbeats were lost and costs a fault. `MoveToDLQ` is
enabled by `ManualDLQ` only: the interface has it, nothing in the repository calls it.

*Abstracted.* Tenant and project ids, error texts and timestamps nobody compares;
`MaxItems` is 1 as `leaseLoop` passes it; `Depth` only reads. The back-off is the code's
power of two, computed without the floating-point conversion.

### DurableExecution

*State.* `status`, `attempts`, `results`, `events` are the store's tables; `pc`, `seen`,
`outcome` the handler's position, the status it read and the aggregated result;
`cancelSeen` a cancel between its read and its update; `reply` the answers of create.
A request, the execution id it would create and the queue row share one identifier.

*Steps.* `Load`, `BeginAttempt`, `Claim`, `LookupPlugins`, `RunPlugins`, `FinishAttempt`,
`Finalize`, `FailAttempt` are the calls of `HandleLeasedExecution` in order, each one
committed transaction. Any of them may fail before it commits, and any may commit with
its answer lost (`Committed`), which sends the handler down its error path with the
change made.

*`UpsertAttempts`.* The handler calls `AppendAttempt` twice with one attempt: when it
starts and when it ends. The shipped store uses a plain `INSERT` into a table with
`PRIMARY KEY (id)` and `UNIQUE (execution_id, attempt_no)`, so the second call always
fails (section 5) and nothing after it is ever reached. RFC 0005 asks for
"create/continue attempt" and `repository/postgres.go:398` has the upsert that does it.
`UpsertAttempts = FALSE` is the shipped store; `TRUE` replaces that one statement, to
check the rest of the path. Every run says which it uses.

*Abstracted.* Policy checks and plugin validation of create (a refused request changes
nothing); audit rows (written in the same transaction as the event next to them);
contents of results. `LookupPlugins` fails whenever it likes: the plugin query names a
column `description` that the migration does not create, and plugins can be disabled.

### LocalExecution

*State.* `executions` and `results` are the two files, an execution reduced to its status.
`channel` is `ExecutionQueue.ch`. A thread is a create request, a cancel request, a pool
goroutine or the main goroutine; `pc` and `on` say where it is and on which execution,
`write` which `UpdateStatus` call it is in, `copy` and `resultsCopy` what it loaded and
will save with its change. `mutex` is the repository's lock, which only create takes.

*Steps.* `JSONStore` locks each `Load` and each `Save`, so these are the steps:
`UpdateStatus` is `FindRow` (its `GetByID`), `LoadRows`, `SaveRows`, and what another
thread saved in between is overwritten, as in the code. `Transit` is the state machine's
check on one read followed by that call. Create holds the lock from its load to its save,
then `MarkQueued`, `Submit`, and a last read. `Submit` does not wait: a full channel makes
a request `Failed` and refused; a client that has gone away does the same, so it may
happen whenever it likes. `Boot` starts the pool, then recovery goes through the list it
took (`ListIncomplete`, `RecoverNext`) while the pool already works, and only then are
requests served. `Crash` loses everything but the files.

*History.* `overwritten[x]` holds the lives of the process (`Life`, from one start to the
next) in which saving the row of another execution changed the row of `x`; `failed[x]` those
in which a file access for `x` failed; `dropped` the executions whose results another worker's
save removed. They say nothing the program could read. The properties name them as the causes
of what can go wrong with one row, so each promises everything else: that nothing but these
causes, in these lives, has the effect. `LeftOut(x)` (recovery ended before `x`) needs no
history: `todo` and `on[Main]` keep what recovery had not dealt with.

*Abstracted.* Attempt rows, events and audit records, which this path writes and does not
read back; a failing audit record is one of the ways a create can end with an error.
Contents of results and inputs. A panic of a handler ends like an error.

### Webhooks

Webhooks fire in the local-json mode alone: nothing in the Postgres path calls `Record`.

*State.* `hooks` and `rows` are `webhooks.json` and `webhook_deliveries.json`. A delivery is
named by its event and its endpoint, since an event is dispatched once and a dispatch visits
an endpoint once; a row keeps its status and attempt number. Threads are one dispatch per
event, the scheduler and the admin requests; `copy` is the file a thread loaded and will save
with `row` put in. `ripe` holds the attempts whose `NextRetryAt` has passed. `tries`,
`accepted`, `wasOff`, `stale`, `raced` are history: what happened at the receivers, and
whether two changes of the deliveries overlapped.

*Steps.* `HandleExecutionEvent`, `DispatchExecutionEvent` (endpoints listed once), `Deliver`
per endpoint; `RetryFailedDeliveries` (at most `Batch` due deliveries), `LookUpEndpoint`,
`RetryDelivery`. A request (`Post`) may be accepted and its answer lost. The record is stored
after it, by `LoadDeliveries` and `SaveDeliveries`, whose errors are ignored. `CreateEndpoint`,
`FindEndpoint` (the scope check of `GetEndpointForUser`), `LoadEndpoints`, `SaveEndpoints` are
the admin API. Any read or write of a file may fail; `Crash` loses everything but the files.

*Abstracted.* Payloads, signatures, headers, and the refusal of private addresses. The
back-off's length: `Elapse` lets any wait end. `StampedScope` is the default scope whatever
execution an event is about, as in `service/execution_event.go:24`. `SuperAdmins` is empty in
the runs: `sameWebhookScope` lets a super admin pass, but the router admits the role `admin`
only.

### EventStream

*State.* `log` is `execution_events.json`, `subscribers` the slots of one execution in the
bus, `slot` the index an unsubscribe has captured, `channel` the bounded channel of a stream,
`out` what its client was sent. A recorder is a goroutine that records events one after
another; `Watched` are those of the execution the streams look at.

*Steps.* `Record` is `LoadLog`, `SaveLog` (either may fail, and the error is ignored),
`BeginPublish`, a `CallSubscriber` for each slot and `EndPublish`, which calls the `"*"`
subscriber, the webhook dispatcher. The bus's lock is held for reading over the calls, so
`Subscribe` and `Disconnect` wait for `Readers = {}`. `StreamEvents` is `Replay`, then
`Subscribe`, then `Write` per event; its callback (`Offer`) drops an event when the channel is
full. An unsubscribe empties its slot and leaves it in the list.

`OfWatched` is the filter of `ListByExecutionID`, written as a recursive function because the
provers know nothing of `SelectSeq`.

*Abstracted.* Contents of events, scope checks of the request, ping lines.

### PluginRegistry

*State.* `dir` is what the plugin directory holds for each name and version, a revision of the
manifest, a broken one or none. `store` is the sequence of plugin records; the file knows them
by id, the table has one row per name and version (`Sql`). `asked`, `off`, `disturbed` and
`atStart` are history: what administrators decided, and which reloads ran alone from which
records.

*Steps.* `ReloadPlugins` goes through the directories it listed (`LoadManifest`,
`FindExisting`, the write, `MarkSeen`, the second lookup whose error is ignored), then
`ListForRemoval` and a `RemoveUnseen` with its write for each record it did not see.
`ChangeStatus` is `GetByID`, the state check and the record to write. `LoadPlugins` and
`SavePlugins` are the write in the file, the second alone is the upsert. The directory may
change at any time, and any call of the store may fail. `ByKey` is the record at the first
index with the key, which is what the loop of `GetByNameVersion` returns; overlapping reloads
can leave several.

*Abstracted.* Registry records, which are written and never read. The Postgres plugin query
selects a column `description` that the migration does not create, so every read of a plugin
fails there; `Sql = TRUE` describes the store that was intended.

### PluginManifest, PluginRuntime

*State.* `manifest` is what is in the directory, `content` the state of the plugin's files,
`plugin` the record that goes from the registry through the store (`scanPlugin` drops what the
table has no column for) to the runner, `started` what the runner gave to the operating
system. `proc`, `code`, `held` are the process, its exit code, and whether something of it is
left: a descendant with the pipes open, or a container whose docker client is gone. `written`,
`pipe` and `out` count the output on its way to the two `limitedBuffer`s; `said` is the
document on stdout; `expired` and `canceled` are the ways the context ends.

*Steps.* `LoadManifest` validates, verifies checksum and signature, and builds the record;
`ReadPlugin`; `preparePluginForRuntime` with its secrets; `CheckPolicy` up to the context of
the run; `Start`; then `Wait`, which is `cmd.Run`, returns when the process has ended and both
pipes are closed and read; `Classify` maps to a result in the code's order: deadline, size,
error, document. Beside them the plugin prints, forks and exits, the pipes are copied in
pieces, the deadline passes, the context is canceled, the process is killed.

*Abstracted.* A command, an image, an argument is known by its kind (a name on the host's list
or not, a path inside the plugin's directory or not); a command with a NUL byte counts as not
listed. Contents of documents other than success, failure or neither. White space around
checksums, the search for commands on Windows, the recovery from a panic. `Provider` says
whether a secret provider is configured; the server configures none.

## 3. Runs

Queue runs use `MCDurableQueue`, execution runs `MCDurableExecution`, local runs
`MCLocalExecution`, the others the MC module of their name. Where a module has a `FairSpec`,
its `Spec` has no fairness; `Webhooks` and `EventStream` state theirs in `Spec`. Deadlock
checking is off in every run: work is finite and clocks and counters have bounds, so a model
may end.

| run | question | bounds |
|---|---|---|
| `queue_safety` | leases are exclusive, fenced and owner-settled, settled rows stay, and `DurableQueue` implements `LeasedWork` | 2 tasks, 2 workers sharing a worker id, lease 2, skew 1, 2 faults, 1 heartbeat, time 4 |
| `queue_progress` | every task settles although workers die, replies are lost and an operator moves rows | 2 tasks, 1 worker, 2 faults, time 20, `FairSpec` |
| `execution_shipped` | the code as it is: nothing is lost, an ack means decided, cancel is respected, accepted work is decided | 1 execution, 2 workers, 2 faults, time 14, `FairSpec`, `UpsertAttempts = FALSE` |
| `execution_upsert` | where handlers get to finalize: the status follows the state machine, an ack means decided; retries of a create share one execution and clashes are refused | 3 requests with one key, two bodies, 2 workers, 1 fault, 1 heartbeat, time 3, `UpsertAttempts = TRUE` |
| `local_delivery` | an id is never in two hands; plugins run once, or again after a life in which another execution's update changed the row; results come before the status | 2 requests, 2 workers, channel of 1, 1 failing file access, 1 crash, plugins succeed |
| `local_cancel` | what is unfinished is in memory or was set back in this life; a refused execution is not run; an outcome is not reopened | 2 requests, 1 cancel, 1 worker, channel of 1, 1 failing file access, 1 crash, plugins succeed or fail |
| `local_restart` | accepted work is decided by the first life that does not set it back | 2 requests, 1 worker, channel of 1, 1 failing file access, 1 crash, `FairSpec` |
| `webhooks` | what is stored as delivered was accepted; nothing is given up early; an unrecorded request has a cause; a failed delivery is settled | 2 events, 2 endpoints, 1 administrator with 1 change, 2 attempts, batch of 1, 1 failing file access or stop |
| `event_stream` | clients are told events in order and miss them for known reasons only; the dispatcher is called once per event; recording never waits | a recorder of 2 watched events, one of 1 other, 2 clients, 3 connections, channel of 1, 1 failing file access |
| `registry` | an undisturbed reload leaves the records as the directory says and keeps the administrators' decisions | 1 name and version, 2 revisions, 2 reloaders with 3 reloads, 1 administrator with 2 requests, 1 change of the directory, 1 failing call |
| `plugin_runtime` | what is started is what was declared; what is reported is what happened; a run ends | the 30 manifests of `MCPluginRuntime`, output limit 2 of at most 3 units per stream, 1 change of the files, `FairSpec` |
| `finding_attempt` | section 5 | 1 execution, no faults |

*Why the bounds are enough.* The interesting interference needs one task, one old and
one new lease of it, and a late call of the old holder; two workers and two leases give
all of these, a second task gives ordering and the danger of hitting the wrong row.
Two faults allow a lost lease and a lost answer in one behaviour. Lease duration and
skew are chosen so that leases do expire within `MaxTime`, by both clocks. The liveness
runs would fail if the clock's bound cut a behaviour short: a task still waiting then
would never be settled, so their success shows that `MaxTime` was large enough.
Workers are interchangeable when they share a pool, tasks are in the queue runs;
symmetry is used in safety runs only.

`AckedWasDecided`, `CanceledIsNotRestarted` and `QueuedWorkIsNotLost` do not depend on
`UpsertAttempts`: the proofs cover both values, and each run checks those that its variant
can disturb.

For webhooks, one failing access or stop, one administrator and two events make every cause
in the properties happen: an answer lost, a record lost to a failing file, to a stop, to a
dispatch that overlaps the scheduler. Two attempts are the least at which "one too early" and
"one too late" differ, and a batch of one makes deliveries wait for each other. Three
connections of two clients reuse a slot's position after a disconnect; a channel of one is
full while two events come. Three reloads are two that overlap and one that runs alone
afterwards, which is when duplicates left by the first two matter; revisions and reloaders are
interchangeable. With a limit of two and output of three, a write can fit, be cut, or find the
buffer full, in one piece or several.

In local mode two rows are what it takes: the unlocked update of one loses a change of the
other, and a channel of one is full for the second, in `Submit` and in recovery. A crash gives a
second life, which must take up what the first lost; one failing access can hit the row, the
results or the list of recovery, in either life. Two workers are needed for an id to be in two
hands and for results to be dropped, so `local_delivery` has them; a cancel, which overwrites
what it checked, is in `local_cancel`. `Reported` bounds the result statuses of the plugins:
one is enough where only the order of saves matters, two where an outcome could be replaced by
another. The effects of the lost updates themselves are `finding_local_lost.cfg` and
`finding_local_twice.cfg`.

Idempotency keys are the question of `execution_upsert`. The local counterpart of
`RetriesShareOneExecution`, with a lost row as the one excuse, holds in `local_keys.cfg`
(`MCLocalExecution`; a create, its retry and an execution that overwrites the file), a
configuration to be run by hand.

*Fairness.* `leaseLoop` and `reclaimLoop` are tickers, so a lease that can be taken and a
lease that has expired are eventually acted on (weak fairness of each worker's
`LeaseNext` and of `Reclaim`); handlers return because every call they make is a
statement on a connection or a plugin run under a timeout (weak fairness of the
handler's next step); time passes. Strong fairness is not needed: an idle worker's
lease step stays enabled while a visible row waits. Faults, heartbeats, creates and
cancels are never obliged to happen, and the number of faults is finite: with
infinitely many nothing can be promised, since reclaimed rows are retried forever
(`finding_poison.cfg`). In local mode a goroutine that can go on does, plugins run under a timeout,
and a process that died is started again (weak fairness of `Creating`, `Canceling`,
`Working`, `Recovering`); crashes are finite in number, requests need not come.
The retry scheduler's ticker fires again and again, its requests have a deadline and its file
accesses return (weak fairness of `Retry` and of `Store(Scheduler)`), and waits end
(`Elapse`); dispatches may be cut off, and administrators do what they like. A recorder is a
running goroutine (weak fairness of `Record`); clients may never read. `PluginRuntime`
assumes that the worker and the goroutines copying the pipes are scheduled, that the deadline
passes, and that `os/exec` kills a process whose context is done (weak fairness of `Worker`,
`CopyOutput`, `DeadlinePasses`, `Kill`); the plugin and what it starts owe nothing, so
`RunEnds` assumes that no descendant keeps the pipes for ever.

## 4. Proofs

`DurableQueueProofs` proves, for every number of tasks, workers and pools, every lease
duration, skew, retry limit and bound:

| theorem | states |
|---|---|
| `TypeCorrect` | `Spec => []TypeOK` |
| `Exclusive` | `Spec => []LiveLeaseIsExclusive` |
| `Fenced` | `Spec => []LeasesAreFenced` |
| `OwnerSettles` | `Spec => OnlyOwnerSettles`, if nobody calls `MoveToDLQ` |
| `SettledStays` | `Spec => SettledIsFinal`, if nobody calls `MoveToDLQ` |
| `Refines` | `Spec => KeepsContract`, if nobody calls `MoveToDLQ` |

*Assumptions.* Those of `DurableQueue`: parameters are natural numbers, durations and
limits positive, `PoolOf` a function into the pools, `NoRef` not a reference; and
`PowerAssumption`, that 2^n is a natural number for n up to `MaxBackoff`, which the
provers do not know.

*The argument.* None of the safety properties is inductive. The invariant `Inv` is

* `TypeOK`;
* `RowsOK`: lease ids in rows were issued, no two rows share one, a row waiting to be
  leased has none and a leased row has one;
* `HeldOK`: for each worker's reference, its lease was issued; its attempt number is
  at most the row's; while the row carries the lease it carries the attempt, is not
  acknowledged, and its lease lasts at least as long as the reference was promised;
  while the promised time has not passed by the slowest clock, the row carries the lease.

The last two conjuncts are the heart of it. Heartbeats only move `leaseUntil` forward
(`until <= now + LeaseDuration`), so a reclaim whose clock is at most `Skew` ahead
cannot find a lease expired that a worker still believes in; and since lease ids are
never reused, a row that has moved on never matches an old reference again. Each
action preserves `Inv` by a lemma of its own. The action properties and the refinement
follow from `Inv` for one step: a matching ack or nack finds its row leased
(`MatchedIsLeased`), and everything else a returning worker can do is a `Quit` of the
contract. The condition on `MoveToDLQ` is needed: it leaves the lease in the row, so a
later ack would turn a dead-lettered row into an acknowledged one.

`DurableExecutionProofs` goes on from there, for every number of executions and workers,
every assignment of idempotency keys and bodies, with the shipped and with the upserting
store:

| theorem | states |
|---|---|
| `UsesQueue` | `Spec => Queue!Spec`: the whole system is a behaviour of the queue |
| `TypeCorrect` | `Spec => []TypeOK` |
| `WaitingIsQueued` | `Spec => []QueuedWorkIsNotLost` |
| `AckedIsDecided` | `Spec => []AckedWasDecided` |
| `Idempotent` | `Spec => []RetriesShareOneExecution` |
| `CanceledStaysOut` | `Spec => CanceledIsNotRestarted` |
| `FollowsStateMachine` | `Spec => ActiveStepsFollowStateMachine` |

*Assumptions.* `ExecutionAssumption` (the answers of create are not execution ids, at least
one plugin, nobody calls `MoveToDLQ`) and `QueueParameters`, the assumptions of the queue.

*The argument.* Each step of the system is a step of the queue or leaves it alone
(`QueueSteps`; a failing call of the store is the queue's `OtherFault`, because both count
faults against one bound). So the queue's inductive invariant holds of the composition
(`QueueInvariance`), and from it come the two facts the handler depends on (`QueueOK`):
whoever holds a reference has a row, and as long as the row carries the reference's lease
it carries its attempt. The invariant `Inv` of this module adds

* `StoreOK`: an execution exists exactly when its row does, a canceled one has its event,
  and an acknowledged row belongs to an execution that is not waiting and was decided;
* `HandlerOK(w)`: what a handler read or did shows in the store whatever happened since.
  From its claim on the execution is not `Queued`; at its ack its results are stored or a
  cancel was recorded;
* `KeysOK`: at most one execution has a key, and an answer names an execution with the key
  and body of the request.

`AckedWasDecided` is not inductive: an ack is right because of what its handler did
several steps before, under interference. That part is in `OthersKept`: executions never
vanish or return to `Queued`, results and events only accumulate (`Grows`), so nothing
another thread does can falsify `HandlerOK`. `StatusChange` lists the four ways a status
can change and yields the two action properties.

### Local executions

Both modules hold for any requests, keys, cancels, workers, channel size, failing file accesses
and stops:

| module | theorem | states |
|---|---|---|
| `LocalExecutionProofs` | `TypeCorrect` | `Spec => []TypeOK` |
| | `HandledByOne` | `Spec => []OneHandlerPerExecution` |
| `LocalOutcomeProofs` | `RunOnce` | `Spec => []PluginsRunAtMostOnce` |
| | `ResultsBeforeOutcome` | `Spec => []DecidedRunHasResults` |
| | `OutcomeStays` | `Spec => OutcomeIsNotReopened` |
| | `UnfinishedHasOwner` | `Spec => []UnfinishedIsScheduled` |
| | `RefusedNeverRuns` | `Spec => []RefusedIsNotRun` |

*Assumptions.* `LocalAssumption`: requests, cancels, workers and the main goroutine are
different identifiers, and none of them is one of the answers of create.

*The argument.* `OneHandlerPerExecution` rests on `OneHolder`: whoever can still submit an
execution, whoever holds it and the channel exclude each other, and recovery lists only what
nobody else of this process has touched; rows may be lost meanwhile, since no conjunct says
that a named execution has one. On top of it `OutcomeInv` says of every execution `x`, `Good(x)`:

* `StatusOK`: as long as no update of another execution has changed the row in this life
  (`Kept`), whoever handles `x` finds in the file what it expects at its label, or `Canceled`. A
  cancel may overwrite any status it has read as cancelable, so nothing is said of its status
  but that the row exists.
* `RunsOK`: the runs are at most one more than the earlier lives that changed the row, and at most
  as many as those lives while this life can still start the plugins (`Potential`). So a lost
  update costs a run only across a restart: in one life the channel and the holders,
  not the file, decide who runs.
* `ResultsOK`: before the results are stored, or dropped, no row, no copy of the rows about to be
  saved and no worker about to finish tells of a run that ended well.
* `ScheduledOK`: what is unfinished is in the channel, in somebody's hands, in recovery's list,
  or this life set it back.
* `RefusedOK`: a refused execution has not run, nobody will take it up, and its row is final
  unless an access or another execution's update in this life kept it from being so.

`Quiet` says that nothing is set back before recovery has listed the file, which is why a
start begins with every row as the last life left it (`BootGood`, `ListIncompleteGood`). A
save of another execution is `SaveElsewhere`: either the row of `x` is as it was, or `Life`
enters `overwritten[x]` and `StatusOK` has nothing more to say. Each action preserves `Good(x)`
by a lemma of its own, for `x` the execution it works on and for the others; `CrashGood` turns
this life into an earlier one.

### Webhooks

| theorem | states |
|---|---|
| `TypeCorrect` | `Spec => []TypeOK` |
| `DeliveredIsAccepted` | `Spec => []DeliveredWasAccepted` |
| `GivenUpHasCause` | `Spec => []GivenUpForCause` |
| `SentLeavesRecord` | `Spec => []SentIsRecorded` |

*Assumptions.* `WebhookAssumption`, and `NoRowAssumption`: the mark of a missing row is no row.

*The argument.* Files are overwritten by copies that may be out of date, so a row is right only
because every copy it went through was. `Earned(d, r)` says what a row claims has happened;
it can only become more true (`tries`, `accepted` and `wasOff` grow). `Inv` requires it of
the stored rows, of every loaded copy and of every row in hand, and that a copy which is not
the stored file belongs to a poster marked `stale`, from which `SentIsRecorded` follows.

### Plugin runs

| theorem | states |
|---|---|
| `TypeCorrect` | `Spec => []TypeOK` |
| `ResultsAreTrue` | `Spec => []ResultIsTrue` |
| `StartedAsDeclared` | `Spec => []RunsAsDeclared`, if `~Sql` |

*Assumptions.* `RuntimeAssumption`: timeouts of manifests are integers, limits natural numbers.
`Sql` is excluded since the table forgets the timeout, the network and the limits of a record
(`finding_runtime_limits.cfg`).

*The argument.* `StreamOK` counts the output: what was printed is in the pipe or in the buffer,
unless the buffer was full (`exceeded`). `ProcessOK` says what `cmd.Run` has told: once it has
returned the pipes are empty and an error has a cause. So nothing that `Classify` looks at
changes after it looked (`ResultOK`). `DeclaredInv` follows the record from the accepted
manifest to the runner.

### Events

| theorem | states |
|---|---|
| `TypeCorrect` | `Spec => []TypeOK` |
| `EventsInOrder` | `Spec => []StreamKeepsOrder` |
| `NothingSilentlyMissed` | `Spec => []MissedForCause` |
| `StoredOrRaced` | `Spec => []StoredUnlessRaced` |

*The argument.* `OrderOK`: the file, every copy of it and what a client has received are sorted
by the number of their recorder's events, and no event in them is later than the one at work;
an overwriting copy is a sorted file too. `SlotsOK`: a live stream has exactly one slot, the
one its unsubscribe will empty. `HeardOK`: during a publication, a stream whose slot has been
passed has the event, or a reason not to. `StoredOK`: until an error or a race, every recorder's
earlier events, and the one it is publishing, are in the file. The replay filters a file of any length with a recursive function. What it returns
is proved (`OfWatchedUnfolds`, `OfWatchedFilters`) by induction over the naturals in the form
the provers can use: a set of naturals that is not empty has a least element
(`NatLessThanWellFounded`, `WFMin`), so a set with 0 and all successors is `Nat`.

### Plugin registry

For any keys, revisions, reloads, requests, changes of the directory and failing accesses,
and for the file and the table (`Sql` is either):

| theorem | states |
|---|---|
| `TypeCorrect` | `Spec => []TypeOK` |
| `ReloadIsExact` | `Spec => []ReloadMatchesDirectory` |
| `DecisionsAreKept` | `Spec => []ReloadKeepsDecisions` |

*Assumptions.* `RegistryAssumption`: reloads and administrators are different goroutines,
`"absent"`, `"broken"` and `NoOne` are no revisions.

*The argument.* The first half of `Inv` holds under any interleaving: types, `IdsOK`,
`UniqueOK` (ids in the file and in every copy to be saved), `TableOK` (an id in the table
stays with its key, and only a new record may have no row), `AskedOK` (what is executable,
stored or about to be, was enabled). A step of a goroutine is `Quiet`, `Takes` a record in
hand or `Writes` one, and leaves the others alone (`Frame`): one proof for these three kinds
covers all actions. The second half, `LoneOK`, is about a reload that has been alone so far.
Each step that could disturb it marks it as `disturbed` (`OthersStep`), and its own steps go
through `ScanOK` and `SweepOK`: for every valid manifest, the key is still to be read
and its records are untouched, or it is in hand, or its first record has the
manifest's content and was seen; what was seen are such first records, everything else that
is active is in the list to be removed. `SinceStart` keeps the records it began with in their
places. Duplicates of a key, left by reloads that overlapped earlier, are the reason why
`First` and not "the record" appears everywhere; the sweep removes the others.

### What is only model-checked

Every invariant and every action property that a passing run checks is stated by a theorem.
What TLC alone shows is liveness, which is out of the provers' reach: `EveryTaskSettles`,
`AcceptedIsDecided` in both modules, `FailedIsSettled`, `RecordingNeverWaits` and `RunEnds`.
The conditional theorems say nothing beyond their conditions, and the properties that name
causes nothing about what happens once one has occurred; the findings show what does. The
inductive invariants were themselves checked by TLC on the configurations of the runs before
they were proved, that of `PluginRegistry` with `Sql` both ways.

## 5. Findings

**A completed run is never stored** (`finding_attempt`, no faults at all). RFC 0007
line 27 says the handler writes attempts, events, results and the final status. The
handler's second `AppendAttempt` (`metadata_execution_handler.go:89`) repeats the key
the first one inserted, the `INSERT` of `metadata_store.go:132` fails, and the run
ends in `Nack`: plugins run `MaxAttempts` times, their results are dropped, the row is
dead-lettered and the execution stays `Running`.

Further counterexamples, found with configurations that are kept to be run by hand
(`tlc -config <file> <module>`):

* `finding_poison.cfg` (`MCDurableQueue`, `AttemptsAreLimited`): reclaimed tasks are retried
  without limit. RFC 0005 lists "DLQ after max attempts"; only `Nack` compares the attempt
  number, and a task that kills its worker is reclaimed (`queue/postgres.go:93-107`) and
  leased again for ever.
* `finding_rerun.cfg` (`MCDurableExecution`, `FinalStateNeverReruns`, with
  `UpsertAttempts`): when the ack of a finished run is lost, the next delivery moves
  `Success` back to `Running`, since the handler stops only for `Canceled`
  (`metadata_execution_handler.go:56-59`). The finding above hides this today.
* `finding_cancel.cfg` (`MCDurableExecution`, `CanceledIsFinal`, with `UpsertAttempts`):
  `AppendResultAndFinalize` (`metadata_store.go:151`) updates by id alone, so a cancel
  acknowledged while the plugins ran becomes `Success`. That finding hides this too.
* `finding_local_lost.cfg` (`MCLocalExecution`, `KeyKeepsExecution`, no faults):
  `API_SPEC.md:132` promises the existing execution for a repeated request.
  `ExecutionRepository.Update` loads and saves the file without the lock create holds
  (`execution_repo.go:49`): a status update of one execution removes another that was
  inserted meanwhile, and its retry gets a second execution.
* `finding_local_rerun.cfg` (`MCLocalExecution`, `FinalStateNeverReruns`, no faults):
  `execution_state_test.go:18` says "final state must not rerun". `MarkRunning`
  (`service/execution.go:171`) checks the status it read and then writes `Running` over a
  cancel that came in between and was confirmed to the client.
* `finding_local_restart.cfg` (`MCLocalExecution`, `RestartResubmits`): `docs/ops.md:25`
  says that on startup Pending and Queued executions are re-submitted; recovery returns at
  the first full channel (`service/execution.go:227`) and leaves the rest for the next start.
* `finding_local_twice.cfg` (`MCLocalExecution`, `NeverRunAgain`): `service/execution.go:208`
  says that running tasks cannot be resumed, so recovery fails them. A lost update puts a
  `Running` row back to `Queued`, and after a restart its plugins run again.
* `finding_webhook_scope.cfg` (`MCWebhooks`, `DeliveredInScope`): RFC 0009 line 18 says an
  event is delivered only to endpoints in the same tenant and project. Events carry the
  default scope, so the default tenant's endpoints get the events of all.
* `finding_webhook_limit.cfg` (`MCWebhooks`, `RequestsAreLimited`): a request whose record is
  lost, to overlapping saves for one, is made again with the same attempt number, so
  `MaxAttempts` can be exceeded.
* `finding_webhook_deleted.cfg` (`MCWebhooks`, `DeletedStays`): an administrator who changes
  an endpoint saves the file as it was read, and brings back one that an administrator of
  another tenant deleted meanwhile.
* `finding_events_lost.cfg` (`MCEventStream`, `LogIsComplete`, no faults): `VERIFY.md:34`
  expects the events of an execution to be complete; two recorders lose one of theirs in
  `ExecutionEventRepository.Create`.
* `finding_events_twice.cfg` (`MCEventStream`, `NoEventTwice`): an event stored before the
  replay and published after the subscription is sent twice.
* `finding_registry_disable.cfg` (`MCPluginRegistry`, `DisabledStaysOff`): `API_SPEC.md:96`
  and `TEST_PLAN.md:28` say a disabled plugin cannot be executed. A reload that read the
  record before the request writes it back enabled.
* `finding_registry_removed.cfg` (`MCPluginRegistry`, `ValidIsNotRemoved`): an ignored error
  in a reload (`registry.go:49`) leaves a valid plugin unseen, and the sweep removes it.
* `finding_runtime_bound.cfg` (`MCPluginRuntime`, `RunIsBounded`): `REVIEW_REPORT.md:14` says
  execution is bounded by timeout; a descendant that keeps the pipes open makes `cmd.Run`
  wait for it after the deadline, since no `WaitDelay` is set.
* `finding_runtime_limits.cfg` (`MCPluginRuntime`, `LimitsAreEnforced`, `Sql`):
  `PLUGIN_SPEC.md:166` says limits should be enforced; the Postgres table has no columns for
  them.
* `finding_runtime_changed.cfg` (`MCPluginRuntime`, `VerifiedIsWhatRuns`): the checksum is
  verified when the manifest is loaded, not when the plugin runs.
* `finding_runtime_left.cfg` (`MCPluginRuntime`, `NothingIsLeft`): the deadline kills the
  docker client; its container goes on.

What does hold is in the passing runs: `CanceledIsNotRestarted`,
`ActiveStepsFollowStateMachine`, `OutcomeIsNotReopened`, `OneHandlerPerExecution`;
`GivenUpForCause` and `SentIsRecorded`; `StreamKeepsOrder`, `MissedForCause` and
`StoredUnlessRaced`; `ReloadMatchesDirectory` and `ReloadKeepsDecisions` for reloads that run
alone; `RunEnds` for plugins whose descendants let go.

## 6. Not modelled

* Policy: a table of roles and actions without state. A denied request changes nothing, and
  the models enumerate the requests that were allowed.
* Identity, authentication, middleware: a lookup per request; nothing is shared or changed.
* Handlers other than those of webhooks and the event stream, router, response,
  configuration, `cmd`, SDKs, scripts, demo plugins: stateless plumbing or clients.
* Audit, observability, logging: records and counters that are only written.
* Artifacts: file and HTTP work that no other component uses. Storage and encryption of
  secrets: what the libraries do; the runtime's use of them is in `PluginRuntime`.
* The other single statements of the Postgres repositories, over tables no concurrent
  protocol uses.
* Postgres itself: a statement, or a transaction, is one atomic step. Under read
  committed this is right for the single-row updates here, which re-evaluate their
  `WHERE` clause after waiting for a lock.
