# retsu: specifications

TLA+ models of retsu, a durable priority message queue on PostgreSQL, with the
TLC configurations that check them and TLAPS proofs of what matters most.
Source paths are relative to the repository; `queue/` stands for
`src/modules/queue/`.

## The system

One binary runs in two roles. An **API** process serves HTTP; a handler
validates its input, may look up the queue's details or name, and runs one SQL
statement. A **worker** process runs the worker its command line names - the
expired-message cleaner, the dead-letter cleaner or the collector of queue-state
gauges - and a management HTTP server, as two tasks under one supervisor
(`entrypoints/worker.rs`). Any number of processes of each role may run. They
share nothing but PostgreSQL and an optional Redis-protocol cache, so the
correctness of the queue rests on SQL statements that run concurrently: on
their row locks, the timestamps each takes when it begins, the tables' CHECK
constraints and the triggers.

### Inventory

| Component | State | Operations | What makes it correct | Modules |
|---|---|---|---|---|
| Message store: `queue/infrastructure/postgres.rs`, `migrations/` | `queue_message`, `queue_dead_letter_message`, row locks, transaction timestamps | enqueue, dequeue (which also dead-letters), acknowledge, expiry batch, purge batch | leases of a message never overlap and are honoured; attempts are counted exactly; nothing is lost, duplicated or brought back; every message leaves in the end | `MessageLifecycle` (abstract), `MessageStore`, `MessageStoreInvariant`, `MessageStoreRefinement`; proofs in `MessageStoreProofs`, `MessageStoreRefinementProofs`, `MessageHistoryProofs` |
| Rollups: the triggers of `create_queue_priority_state_rollups.sql` | `queue_priority_state_shard` | adjust the counts of a statement's rows, shard by shard | counts equal rows; the guards against drift never fire; no circular waits | `MessageStore`, `RollupLocks`; `MessageHistoryProofs`, `RollupLocksProofs` |
| State collector query: `queue/infrastructure/state_collector.rs` | none | turns the counts into gauges, correcting them for elapsed time | a gauge is what a dequeue would find | `StateCollector`, `MessageHistoryProofs` |
| Collector leadership: `queue/worker/state_metrics_collector.rs`, `state_collector.rs`, `observability/metrics/queue_state.rs` | the advisory lock, the session that owns it, each process's snapshot | try for the lock, refresh, fail, stop | one replica runs the query; a former leader stops exporting; fail-over completes | `CollectorLeadership`, `CollectorLeadershipProofs` |
| Queue registry: `queue/domain/`, `create_queue.rs`, `update_queue.rs`, table `queue` | `queue` | create, update, the lifetime an enqueue takes | names unique; partial updates do not undo each other; validation agrees with the CHECKs | `QueueRegistry`, `QueueRegistryProofs` |
| Shared cache (L2): `queue/infrastructure/l2.rs`, `cache/redis_protocol.rs` | one key of details and one loading marker per queue | look up with single loading, write through | staleness bounded; one loader per marker; waiters are answered | `QueueDetailsCache`, `QueueNameCacheProofs` |
| Name cache (L1): `queue/infrastructure/l1.rs`, `cache/memory.rs` | names per process | look up, load once for all that ask, write through, evict | nobody is misled by what a process remembers, or by a shared load that read too early; whoever joined a load is answered | `QueueNameCache`, `QueueNameCacheProofs` |
| Workers: `queue/worker/*_cleaner.rs` | none of their own | batch, rest, stop | batches resume after a failure; nothing half done | `MessageStore` (batches), `WorkerSupervisor` (loops) |
| Supervisor: `worker/mod.rs`, `worker/management.rs`, `shutdown.rs` | tasks, cancellation token | spawn, wait, cancel, drain, abort | nothing outlives `serve`; failures reach the exit code; the process ends | `WorkerSupervisor`; first part of `WorkerProcessProofs` |
| Worker process: `entrypoints/worker.rs`, `app/mod.rs`, `management/health.rs`, `database/mod.rs` | the pool of connections, readiness checks under way | start, acquire, check readiness, close | nobody waits with a connection in hand; checks cost no worker its batch; the process exits | `WorkerProcess`, `WorkerProcessProofs` |
| HTTP layer, configuration, observability, migrations runner, scripts | per process | | | see "Not modelled" |

### How the components interact

- API handlers and cleaners meet in the message tables only. `FOR UPDATE SKIP
  LOCKED` makes dequeues and expiry batches pass over rows another transaction
  has locked; an acknowledgement's `DELETE` waits for the lock instead.
- Each statement on `queue_message` fires the rollup triggers in its own
  transaction, which lock counter rows shared by unrelated messages.
- An enqueue looks up the queue's default lifetime in the shared cache, an
  acknowledgement its name in the process's own; create and update write both
  after their commit. What the caches answer picks an enqueue's lifetime or a
  metric's label, or refuses a call on a queue remembered as missing; what a
  statement does to existing messages never depends on it.
- The collector reads the rollups and the message rows through the session that
  owns its advisory lock.
- The supervisor cancels all tasks of its process through one token; dropping a
  task's future drops its batch, of which the server may still commit the statement
  it was sent.
- A worker, the collector's lease and the readiness checks of one process draw on
  one pool, which the process closes after the supervisor has returned.

### What is hard

Transactions that commit in another order than their timestamps; a snapshot
taken after the timestamp it is compared with; batches dropped between any two
steps; leases that elapse while a statement runs; counter rows locked one at a
time by statements on different messages; cache writes that arrive in another
order than the commits; loads that others join after they have read; a pool
emptied by a connection that never comes back; a session the server has ended and its client has not;
tasks that hang, fail or panic while the supervisor is draining. PROJECT.json
lists each hazard with its line and the properties that are about it.

## The modules

### MessageLifecycle and MessageStoreRefinement

`MessageLifecycle` is the abstract specification: the life of a message as
`docs/message-lifecycle.md` draws it, without tables, snapshots, locks or images. A
call is asked at a time and later takes effect, whole and in one step, or not at
all. A message is `new`, `live` (perhaps with a `lease`), and then `acknowledged`,
`expired`, `dead` or `purged`.

`MessageStoreRefinement` reads the abstract state off MessageStore's: `fate` is the
stage; `HomeMap`, `ExpiryMap`, `LeaseMap` and `TriesMap` are columns of the rows;
`HandlesSpent` is the history of committed deliveries; `CallMap` forgets the snapshot,
the locks and the images of a transaction. Only commits change the abstract
messages. Claims, inserts and waits for locks are stutters.

### MessageStore

Every transaction runs in READ COMMITTED with one statement, in three steps that
others fall between: *Begin* fixes `CURRENT_TIMESTAMP`; *Claim* takes the
snapshot, locks rows and computes the new row images (an enqueue's *Insert*);
*Commit* makes images, counts and reply visible together. *Abort* ends it at any
point.

| Model | Code |
|---|---|
| `BeginEnqueue`, `InsertMessage`, `CommitEnqueue` | `enqueue_message`: one `INSERT`, a fresh UUID, `enqueue_order` from the identity sequence (whose values are not rolled back) |
| `BeginDequeue`, `ClaimDequeue`, `CommitDequeue`, `DequeueNotFound` | `dequeue_message`: the CTEs `target_queue`, `dead_letter_candidates`, `candidate`, and the moves and the lease they feed |
| `Exhausted`, `Deliverable`, `Expirable`, `Acknowledgeable` | the four `WHERE` clauses |
| `Batches`, `Foremost` | `ORDER BY ... LIMIT`; ties among UUIDs are a free choice |
| `BeginAcknowledge`, `ClaimAcknowledge`, `CommitAcknowledge` | `acknowledge_message` |
| `BeginExpire`, `ClaimExpire`, `CommitExpire`; `PurgeDeadLetters` | the two cleaners' batches |
| `RowAllowed`, `DeadRowAllowed` | the CHECK constraints, applied when the images become visible; `MaxLifetime` stands for the thirty days of the one on `expires_at` |
| `AfterInsert`, `AfterDelete`, `AfterUpdate` | the trigger's three branches |
| `leases`, `fate` | history: each delivery that committed, how far each message's life has got |

Abstractions. A statement's snapshot, its row locks and its images are one step:
`SKIP LOCKED` rechecks a row it locked against its latest version, so a row that
changed between the snapshot and the lock is either rejected or used as it now
is, which is a claim at the later moment. An acknowledgement that waits for a
lock is one whose claim is not enabled until the lock is free. CHECKs are
evaluated at the commit instead of at the write; both fail the whole statement.
The clock is integer time, common to all transactions. Payloads are left out.
Message rows are the only place where statements of this module wait for each
other, and only the single-row acknowledgement waits, so there is no circular
wait among message rows; counter rows are RollupLocks' subject.

### MessageStoreInvariant

The inductive strengthening, in named parts. `LockInv` types the state, gives
each transaction its shape and makes row locks exclusive. `DeliveryInv` adds that
stored rows passed the CHECKs, that what a claim saw of the rows it holds still
holds at its commit (`ClaimsHold`), and that the stored row is the end of the
message's lease history (`LeaseHistory`, `RunningLeases`).

### StateCollector

The collector's query as an expression over MessageStore's variables. It changes
nothing, so it is evaluated in every state and for every timestamp its
transaction may have begun with: the corrected counts (`CollectedReady`,
`CollectedInFlight`) and the ages of the oldest rows (`OldestReadyAge`,
`OldestInFlightAge`). A message enqueued after the timestamp and before the snapshot
has a negative age, which the code exports as it is.

### RollupLocks

The triggers at a finer grain: a statement's trigger runs are batches of slots,
each slot adjusted in key order by `UpdateShard`, or by `ShardNotFound` then
`InsertShard` when the `UPDATE` found no row. A changed slot is locked until the
end of the statement. A dequeue that dead-letters and leases runs the trigger
twice, for its `DELETE` and for its `UPDATE`; both orders are modelled, as the
executor's order is not fixed by SQL. Which rows a statement takes is left free.

### QueueDetailsCache and QueueNameCache

QueueDetailsCache is the shared cache. One queue, whose details are a version
number: 0 no queue, 1 as created, more with each update. Each Redis command and each
statement of a request is a step; each may fail, requests may be dropped, keys
expire and may be evicted. Time passes in ticks; `Tick` is not enabled while a
command has used up its time limit or a load its bound. `CommandDelay` bounds both
when a client gives a command up and when the server applies it: the code limits
the first, and the second is assumed of the connection, since a command the client
has given up may still be on its way to the server.

QueueNameCache extends it with the name cache of each process, and is what TLC runs.

| Model | Code |
|---|---|
| `NameHit`, `NameMiss`, `LoadName` | `MemoryCache::get_or_load`: a hit, joining a load under way, or running it |
| `Proceed`, `Finish` | the steps of `L2QueueRepository` underneath; the last one answers all that joined the load |
| `Remembered`, `Keep` | `LoadFailure`: names are kept, a missing queue and errors are handed on; `insert` after a create or an update |
| `TakeOver`, `Drop` | the request that ran the load is dropped, and another that waits runs it |
| `AskDetails` | `L1QueueRepository::queue_details`, which goes straight to the shared cache |
| `EvictName` | the capacity of `MemoryCache::new`; any name may go at any time |

### QueueRegistry

Requests are validated (`ValidCreate`, `ValidUpdate`, `ValidMessage`), run one
statement that is uncommitted for a while (`written`), and are answered; the
tables' constraints (`NameAllowed`, `SettingAllowed`, `MessageAllowed`) are written
from the migrations, apart from the domain's rules. A name is a sequence of kinds
of bytes: allowed at the ends, allowed inside, not allowed. An enqueue takes
any default lifetime the queue ever had, which is more than a cache can return.
The CHECK that `updated_at` is not before `created_at` is left out, as there is no
clock here: no update can name an id before the create has been answered.

### CollectorLeadership

`owner` is the session that owns the advisory lock as the server sees it; `phase`
is where each process is as the process sees it. The server may drop the session
first (`LoseSession`), or the process may be gone with the session left over
(`Orphan`, `ReleaseOrphan`). A lease that is dropped closes its connection
(`DropLease`, for `close_on_drop`). An attempt that is cancelled while
`pg_try_advisory_lock` is under way has not got so far: its connection, and the lock
if it is granted, go to the pool (`CancelTry`, `GrantLate`, the phase `pooled`) and
stay there until the process closes it or is gone (`Disconnect`). Such a process is
about to exit, so nothing else borrows that connection for long; that it never does
is not claimed.

### WorkerSupervisor

The workers' loops, the management server and `serve`: `SelectSignal` and
`UnexpectedWorkerExit` are the two ends of its wait, then `Drain` and `Drained`,
or `Timeout`, `Abort` and `Aborted`. A task may fail, panic or hang at any time.
The module takes any number of loops and servers; a process has one of each.

### WorkerProcess

WorkerSupervisor's steps together with what they do to the process's pool of
connections, from `ApplicationContext::initialize` to `ApplicationContext::shutdown`.
The worker may be a cleaner or the collector: a cleaner is a worker that is never
granted the lock.

The pool is `limit` places. A connection whose user has finished, or was dropped, is
not back at once: the library first pings it, or closes it, in a task of its own, and
until then the place is taken (`returning`). After a statement that hangs, that takes
as long as the library lets it.

| Model | Code |
|---|---|
| `StartBatch`, `FinishBatch`, `AcquireFails` | a cleaner's batch, or the collector's try for the leadership: `database::acquire`, a statement, its end |
| `BecomeLeader` | `try_acquire_lease` is granted: the connection is the lease's until the task ends or a refresh fails |
| `DropTask` | cancellation or abort: the wait, the batch and the lease are dropped with the task's future |
| `BeginCheck`, `EndCheck`, `Overdue` | `/health/ready` under its timeout of two seconds; also during the graceful stop, and from the server's own threads after its task has failed or was aborted |
| `ManagementStep` | the HTTP server, whose graceful stop waits for the checks under way |
| `Grant`, `Tick` | the pool: first come first served, up to `max_connections`; the timers |
| `Release`, `BackInPool`, `Late` | a connection that is given up, its return to the pool, and the library's time limit for it |
| `Close`, `Closed` | `PgPool::close`, which waits for every connection |

## What is checked

| Run | Instance | Shows |
|---|---|---|
| `leases` | 1 message, 3 handles, 2 clients, 1 cleaner, two visibility timeouts, limits of 1 or 2 attempts, time 0..4 | `DeliveryInv`, `LeasesNeverOverlap`, `LiveLeaseHeld`, `AttemptsCountDeliveries`, `DeadLettersAccepted`, `DeadLetterAfterLastLease`; the refinement `ImplementsLifecycle` and the part of its invariant that is not `DeliveryInv`, `ClaimInv` |
| `backlog` | 2 messages, 2 priorities, 2 shards, 2 handles, 2 clients, 1 cleaner, time 0..2 | `TypeOK`, `FatesMatchTables`, `RollupExact`, `GaugesMatchDequeue`, `AcknowledgedByHolder` |
| `settlement` | 2 messages, 2 handles, 1 client, 1 cleaner, batches of one, time 0..3, fair | `EveryMessageSettles` |
| `shard_locks` | 3 statements, 4 messages in 2 slots | `CountsExact`, `DecrementsSucceed`, `OrderedStatementsNeverDeadlock` |
| `cache` | 3 requests in 2 processes, 2 versions, fair | `StaleAtMostTtl`, `OneLoaderPerMarker`, `NeverMisled`, `EveryoneAnswered`; `CacheTypeOK` |
| `registry` | 2 requests, 2 queues, two good names and each sort of bad one, both sides of the boundaries | `NothingAcceptedInVain`, `NothingRefusedInVain`, `NoUpdateLost`, `OneQueuePerName` |
| `leadership` | 3 replicas, fair | `LockEndsWithLease`, `SoleReader`, `FormerLeaderStops`, `FailoverCompletes` |
| `supervisor` | one worker, a cleaner or the collector, the server, 2 readiness checks, pools of 1 and 2 connections, fair | `NoTaskOutlivesServe`, `SuccessIsClean`, `ServeReturns`; `NoHoldAndWait`, `ChecksNeverStarveBatch`, `RestNeverBlocksReadiness`, `ProcessExits`; `ProcessTypeOK` |

Type invariants are checked too, but CollectorLeadership's, which is only proved. Four further runs are expected to fail:

| Run | Refutes | Because |
|---|---|---|
| `visibility` | `NewMessagesDeliverable`: new messages are immediately visible (`create_table_queue_message.sql`) | a dequeue's snapshot is later than its timestamp; it can choose a message enqueued after that time, and the CHECK on `last_delivered_at` then fails the whole statement |
| `shard_lock_order` | `ConsistentShardLockOrder`: the ordered aggregate gives a consistent lock order (`create_queue_priority_state_rollups.sql`) | a dequeue that dead-letters fires two ordered runs one after the other, and two such dequeues can wait for each other; PostgreSQL ends one of them |
| `leadership_exporters` | `SingleExporter`: an old leader does not export once another has taken over (`docs/queue-state-collector-leadership.md`) | a leader learns that its session is gone only at its next refresh |
| `supervisor_drain` | `CurrentBatchFinishes`: the current task may finish within the shutdown timeout (`docs/workers.md`) | the loop's `select!` drops the batch in progress as soon as the token is cancelled |

None of them loses a message: the first fails one request, the second is rolled
back, the third affects gauges. In the fourth the server may still commit the
statement it was sent; if it does not, another batch finds the same messages.

Two things shown by WorkerProcess are limits rather than failures.

- `docs/configuration.md` accepts a `database.max_connections` of 1. A collector that
  leads then holds the only connection, and `/health/ready`, which
  `docs/observability.md` describes as checking whether the process can use PostgreSQL,
  answers 503 for as long as it leads. `RestNeverBlocksReadiness` holds from two
  connections on and is stated so.
- A readiness check whose `SELECT 1` hangs is dropped after two seconds, but its
  connection is back only when the library has given up its ping, some five seconds
  later. An acquire timeout of five seconds, the default, can elapse in between, and
  the batch that waited fails with a database that would have answered it by then: with
  one connection because of one such check, with more because of as many.
  `ChecksNeverStarveBatch` therefore says two things: that no check is ever ahead of
  such a batch or has a connection in hand, always; and that none of a check's is on
  its way back either, where the acquire timeout is longer than a check and the return
  together, as it can be configured to be.

### Bounds

- *leases*: three handles give three deliveries of one message, one more than the
  larger attempt limit; time 4 lets two leases elapse, a message expire during a
  lease, and a dead letter age past its retention. `LastCall` stops new enqueues
  and dequeues so that each can be followed to its end. Leases of different
  messages do not interact, so one message is enough.
- *backlog*: two messages in different shards with different priorities are what
  ordering, batches of size one and slots need. One queue is enough: a request's
  statement is confined to one, and the cleaners' do not look at it.
- *settlement*: two messages, so that a dead-letter batch and a cleaner's batch of one
  are full and leave a message behind. The clock stops at 3, which is later than every
  lifetime and lease that can begin. One client is enough: nothing depends on dequeues
  that race, which is what the other runs are for.
- *shard_locks*: two slots make a cycle possible; three statements make one longer
  than two.
- *cache*: a load may take as long as its marker lives, so that one more command
  leaves the marker expired while the loader is still at work, the case
  `OneLoaderPerMarker` is about; the memory of a missing queue is shorter than that
  of details. Two requests share a process, one is in another. `Roles` bounds what
  each may be: the first acknowledges or changes the queue, the second acknowledges,
  the third may be anything. So a load is shared while another process creates or
  updates the queue, and changes in two processes cross. The proofs have no such bound.
- *registry*: settings enter one at a time, since each has rules of its own, and
  updates combine them; rows of `SMALLINT` that would overflow are included
  (32768). Numbers beyond 2^31 - 1 cannot be written for TLC; they are refused by
  the same comparison as the others.
- *leadership*: two replicas contend, the third takes over from either.
- *supervisor*: the deployed process, one worker and the server. Two checks are enough
  to fill a pool of two while the worker waits. The readiness timeout is one tick, a
  connection's return one, and the acquire timeout three, longer than both together,
  so that both halves of `ChecksNeverStarveBatch` say something; the proof covers
  acquire timeouts that are shorter than that, and needs only that they are longer than
  the readiness timeout, as the configuration's five to sixty seconds are.

Symmetry is used on clients and handles in the runs without liveness properties
only. `CHECK_DEADLOCK` is off only for the runs of the worker process, which ends.

### Fairness

- *MessageStore*: the loops start batches until they are cancelled and the clock
  goes on (weak fairness of `BeginExpire`, `PurgeDeadLetters`, `Tick`). A request's
  transaction ends somehow, be it by an abort. A cleaner's claim and commit are
  strongly fair: batches may be aborted any number of times but, since failed
  processes are restarted, not for ever. Nothing is assumed of clients: they need
  not acknowledge, or dequeue at all.
- *QueueNameCache*: time passes and a request that has begun takes steps, one that
  waits for a dropped load included; whether the cache and PostgreSQL answer is left
  open. `EveryoneAnswered` is about runs in which no further requests come: without
  that, a waiter could lose the marker to newcomers for ever.
- *CollectorLeadership*: intervals elapse, queries are answered or fail, a process
  that is stopping exits, the server notices sessions whose client is gone.
  `FailoverCompletes` is about runs that are calm from some point on.
- *WorkerSupervisor* and *WorkerProcess*: only the supervisor's own steps, the
  runtime's aborts, the timer of a readiness check, the library's time limit for the
  return of a connection and the end of the process; a batch, a statement or a request
  may hang for ever. The library's limit is the one assumption that is not about this
  repository's code: without it a ping that hangs would keep the pool from closing.

## What is proved

For every value of the constants that satisfies the named assumptions, each safety
invariant and action property that a passing run checks, and the refinement:

- `MessageStoreProofs`: `TypeCorrect`, `LocksExclusive` (`LockInv`), `NoResurrection`
  (`FatesMatchTables`), `LeaseExclusivity` (`LeasesNeverOverlap`), `LeaseHonoured`
  (`LiveLeaseHeld`), `DeadLettersAlwaysAccepted` (`DeadLettersAccepted`), all but the
  first three from `DeliveryInvariant` (`DeliveryInv`).
- `MessageStoreRefinementProofs`: `ClaimsRemembered` (`ClaimInv`) and
  `StoreImplementsLifecycle` (`ImplementsLifecycle`).
- `MessageHistoryProofs`: `AttemptsAreDeliveries` (`AttemptsCountDeliveries`),
  `NoEarlyDeadLetter` (`DeadLetterAfterLastLease`), `CountsAreExact` (`RollupExact`),
  `HolderAcknowledges` (`AcknowledgedByHolder`), `CollectorMatchesDequeue`
  (`GaugesMatchDequeue`).
- `RollupLocksProofs`: `RollupLocksTypeCorrect` (`TypeOK`), `RollupLocksCountsExact`
  (`CountsExact`), `RollupLocksDecrementsSucceed` (`DecrementsSucceed`),
  `RollupLocksNeverDeadlock` (`OrderedStatementsNeverDeadlock`).
- `QueueNameCacheProofs`: `NamesAreLookups`, `StaleForOneTtl` (`StaleAtMostTtl`), `OneLoads`
  (`OneLoaderPerMarker`), `NamesTypeCorrect` (`CacheTypeOK`), `NobodyMisled` (`NeverMisled`).
- `QueueRegistryProofs`: `RegistryTypeCorrect`, `UpdatesKept` (`NoUpdateLost`),
  `NamesUnique` (`OneQueuePerName`), `AcceptedIsStorable` (`NothingAcceptedInVain`),
  `RefusedIsNotStorable` (`NothingRefusedInVain`).
- `CollectorLeadershipProofs`: `OneReader` (`SoleReader`), `OwnersLead`
  (`LockEndsWithLease`) and `LeadershipTypeCorrect` (`TypeOK`).
- `WorkerProcessProofs`: for the supervised tasks alone, `NoneOutlives`
  (`NoTaskOutlivesServe`) and `CleanSuccess` (`SuccessIsClean`); `ProcessIsSupervised`,
  hence both for the whole process; `PoolClosesLast`, `NobodyHoldsAndWaits`
  (`NoHoldAndWait`), `BatchesNotStarved` (`ChecksNeverStarveBatch`),
  `ProcessTypesCorrect` (`ProcessTypeOK`) and `ReadinessNotBlocked`
  (`RestNeverBlocksReadiness`).

The assumptions say what a deployment is: limits in the ranges that the configuration
and the columns accept, lock slots numbered in their key's order, and finitely many
shards and messages where something is counted (`ShardsAssumption`,
`SlotOfAssumption`). `None` is assumed to differ from any counts. `ProcessAssumption`
says that a readiness check's timeout is below the acquire timeout; the number of
checks and the time a connection's return may take are left open.

*MessageStore.* A lease is granted on what the claim saw, and takes effect at the
commit, so the argument needs that what was seen stays true in between. First
`LockInv` is shown inductive by itself: each kind of step either begins, claims
unlocked rows, ends one transaction, or changes no transaction at all, and the
locks of different transactions stay disjoint. Then `DeliveryInv`, relative to it: a
commit changes only rows its own transaction holds, so every other claim still
holds (`CommitKeepsClaims`). A new lease begins at the dequeue's timestamp, which is
no earlier than the `available_after` of the row it replaces; `LeaseHistory` says
that this is the latest end of all earlier leases, hence they are disjoint, although
timestamps and commits are ordered differently. `LiveLeaseHeld` follows from the same
invariant: a running lease excludes each clause by which the row could go.

*The refinement.* A commit must be an abstract operation on the messages as they are
at that moment, although the transaction decided on an earlier snapshot and with an
older timestamp. `DeliveryInv` says that what a claim saw of leases still holds;
`ClaimInv` adds the columns it is silent on (queue, lifetime, attempts), that one
attempt limit explains all a dequeue does, and that a dequeue's receipt handle is in
no other transaction and no lease. Every other step of MessageStore is shown to leave
the mapped state unchanged or to ask, answer or let time pass.

*History.* `HistoryInv` counts: `leases` is finite, and a row's or a dead letter's
`delivery_attempts` is the number of its message's leases. A commit's lease is new to
that set, because its handle is. For the rollups, each count is the cardinality of the
rows in a slot and state, and each branch of the trigger adds what the statement's rows
add to that cardinality; other transactions' rows are in nobody's way, as row locks are
exclusive.

*The collector's query.* `RollupExact` says what is stored for each shard, so the sum over
the shards is the number of rows of a queue and priority in a state (`PhysicalCounts`).
Induction on the set of shards is not available to the provers; instead, of the subsets
for which the sum would be wrong a smallest one is taken (`MinimalSubset`: inclusion of
finite sets is well-founded), and a shard less would be wrong already. What the query
moves between the two states, or leaves out as expired, are then parts of those rows that
do not overlap. `StoredRow` has the CHECKs' share in this: a row that was never delivered
has no attempts and no handle, so the branches of the oldest age that look at the state
and those that look at the lease find the same messages.

*RollupLocks.* `CountsExact` is not inductive: a commit adds changes that were made some
time before, to counts that other statements have changed since. `ShardInv` adds, for each
statement, that what it has changed of a slot is what its trigger runs have got through
(`Progress`), that the runs left are different branches over slots of its own messages
(`BatchShape`), and that its messages are still in the state it found them in
(`RowShape`); for two statements, that they have changed different slots and hold different
messages (`Apart`). At the commit nothing is left to run, so the changes are what the
statement does to the rows. A decrement is covered because the messages it is for are among
those counted (`ChangeBounded`), even halfway through a dequeue with two runs. Deadlock: a
statement with one run has changed only slots below those it still has to adjust
(`Ascending`). In a circle, take the greatest slot waited for; its holder waits for
one further up.

*Caches.* `StaleAtMostTtl` needs to know that what is written to the cache was current
when the writer received it (`WritesAreFresh`) and that a command does not outlive its
timeout (`CommandsTimeOut`); then what is stored, plus the life left to it, is bounded by
a TTL and a command. `OneLoaderPerMarker` needs that a marker has as much life left as
its holder has had it short of its TTL (`MarkersLast`). The name caches add no command of their
own (`NamesAreLookups`), so the same invariant holds beneath them, and `NamesInv` adds that
no process remembers a missing queue.

*Registry.* A request commits what it decided earlier. `CreatesApart` and `NamesReserved`
say that an uncommitted insert's id and name are nobody else's, `RowsReserved` that an
uncommitted update still starts from the stored row. `RulesInv` ties every accepted
request to the limits, and the two agreement properties compare those with the columns'.

*CollectorLeadership.* `LeaderInv`: a process whose query runs at the server owns the
lock, whatever the clients believe; there is one owner, and one that is a process
holds a lease, is about to, or has the lock in its pool after a cancelled attempt.

*WorkerSupervisor.* `SuperInv`: the supervisor has seen the end of every task it
joined, `failed` records whether one of those since the cancellation ended badly,
and the outcome follows from the two. `SuccessIsClean` is what the code does, which is
less than "no failure was seen": the timeout counts as success and drops the failures
that the drain had joined before it. Every step of WorkerProcess is a step of
WorkerSupervisor or leaves its variables alone.

*The pool.* `WorkerInv` says what the worker has of the pool in each of its states, given
that a process has one worker (`OneWorkerAssumption`). In `LineInv`, `ChecksFirst` says that a
check which got ahead of the worker, in the line or to a connection, has been on its way at
least as long, and `ChecksInTime` that no check is on its way longer than the readiness
timeout. That is less than the acquire timeout, so a worker that has waited for all of the
latter has no check before it. `ReturnsInTime` goes on where a check ends: while its
connection is on the way back, a worker has waited for at most a readiness timeout more
than that has taken so far. `PlaceInv` says that nobody has two connections in hand, so
that in a full pool of two or more the worker's is not the only one: another is a check's,
or on its way back.

Only model-checked: liveness (`EveryMessageSettles`, `EveryoneAnswered`,
`FormerLeaderStops`, `FailoverCompletes`, `ServeReturns`, `ProcessExits`), which TLAPS
does not cover. That the finer triggers of RollupLocks and the atomic counts of
MessageStore are the same is not stated as a refinement: both are exact at every
commit, by proofs of their own.

## Not modelled

- HTTP middleware, JSON and path extraction, problem details: they act on one
  request and share nothing.
- The pool of an API process: each request takes one connection for one statement and
  waits for nothing else while it has it, so its limit shows only as failed acquires,
  which are failed statements here.
- The weights by which the name cache's library chooses what to evict, and when: an
  eviction may happen at any time.
- Configuration, observability, command line, migrations runner: sequential code
  that runs once, or that no behaviour depends on. The limits that matter to a module
  are its assumptions.
- The order in which one dequeue's claim passes over rows other transactions hold:
  `Foremost` orders the rows that are free, as `SKIP LOCKED` does; nothing stronger
  holds between concurrent dequeues.
- The local stack, the load tests and the release scripts: not the program.
- Eviction of the loading marker: it lives for two seconds; without it one more
  request reads PostgreSQL.

## Plan

Done, in this order: MessageStore and its proofs; StateCollector; QueueDetailsCache;
RollupLocks; WorkerSupervisor and CollectorLeadership with their proofs;
QueueRegistry; MessageLifecycle with the refinement and its proof, and the proofs about
history and counts; WorkerProcess; QueueNameCache and its proofs; QueueRegistry's proofs;
RollupLocks' proofs, the pool's capacity and the collector's query.

Next, to prove:

1. An abstract rollup - counts and statements, each of which takes effect at once or
   not at all - and that RollupLocks implements it, on top of `ShardInv`.
2. Action properties beside `AcknowledgedByHolder`: a name never changes hands in the
   registry; a purge removes nothing before its retention has passed.

Next, to model: the shutdown of an API process, whose server drains its connections.
