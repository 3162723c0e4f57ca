# A TLA+ verification of the job scheduler

The repository runs Android tests on a pool of workers. An HTTP API stores jobs
in PostgreSQL and announces them through a transactional outbox on a JetStream
work queue; one of several scheduler instances leads, hands jobs to workers,
takes them back from workers that fall silent, and makes sure every message
leaves the queue. This directory models that machinery, checks it with TLC on
small instances and proves its central safety properties with TLAPS.

`PROJECT.json` lists components, runs, mutants, the map from definitions to
source lines, findings, hazards and theorems.

## Inventory

| Component | State | Operations | Interacts with | Hard behaviour | Properties |
|---|---|---|---|---|---|
| Job state machine (`contracts/state_machine.rs`) | none | `validate_transition` | job store | which evidence closes a run | part of the job store's |
| Job store (`repository/jobs.rs`, `workers.rs`, migration 0003) | job rows with lease, attempts, pending outcome and evidence; worker rows with capacity; event log; outbox rows | create, cancel, register, heartbeat, claim, transition, record result, find stale, recover | everything, by transactions | late requests of old leases; read-then-write recovery; finalizers without a lease; clock skew | rows consistent, terminal rows frozen, cancellation sticks, capacity and quotas exact, verdict of the latest attempt, dead letter with exhaustion |
| Transactions (same files) | row and advisory locks | lock, count, write, commit, abort | each other | counts read statements before they are acted on; lock order | no wait cycle, commits act as if alone |
| Leadership (`scheduler/leader.rs`, `service.rs`) | advisory lock, supervisor mode, running tasks | acquire, start, health tick, stop in order, release | all leader tasks | sessions and processes end independently; a shutdown that times out | work only under the lock, with two named exceptions; somebody leads again |
| Dispatcher (`scheduler/dispatcher.rs`, `delivery.rs`) | fair buffer, delivery in hand | accept, buffer, claim, bind, redrive, finish | queue, job store, registry, workers | crash between claim and binding; duplicates | no lost work, every job ends |
| Fair queue (`scheduler/fairness.rs`) | lanes, project ring, cursor, aging | push, pop, requeue | dispatcher | starvation; an entry that no longer fits | synchronized, bounded waits, served in order |
| Acknowledgement registry (`scheduler/acknowledgements.rs`) | message bound to each lease | bind, take, confirm, nak | dispatcher, control plane, reconciler | empty after a failover; rebinding during a confirmation | queue drains |
| Advisory task (`scheduler/advisory.rs`) | advisory in hand | redrive or dead-letter a message out of deliveries | queue, job store, dead letters | two calls with a crash in between | no lost work, queue drains |
| Reconciler (`scheduler/reconciler.rs`) | stale batch, pending maps | recover, finalize, publish dead letters, retire | job store, registry, reaper | entries forgotten before the call they are for | finalizers unopposed, letters arrive |
| Runtime reaper (`scheduler/reaper.rs`) | orphans first seen | inventory, look up owners, remove | reconciler, Docker | gates finalization; owner read before the removal | owner kept, grace kept, abandoned containers reaped |
| Outbox publishers (`repository/outbox.rs`, `api/queue.rs`, `api/webhooks.rs`, `scheduler/dlq.rs`) | outbox rows with leases | lease, publish, mark, retry | queue, webhooks | crash after publication; late answers under a shared id; a batch that stops | published means stored, every row published |
| Control plane (`scheduler/control.rs`) | requests in progress | transition, result, heartbeat, register | job store, registry | repeated and late requests, lost compare-and-swaps | answers agree, six rounds suffice |
| Topology and settings (`scheduler/topology.rs`, `config.rs`) | streams and consumers on the server | get or create, compare, update; `from_map` | all of the queue | half-done provisioning, two settings at once; integer widths | provisioned as desired; accepted settings are usable |
| Event stream (`api/events.rs`) | cursor of a follower | list, check, close, reconnect | event log | sequence numbers out of commit order; two reads before closing | follower has a prefix |
| Debug sessions (`api/debug_sessions.rs`, `repository/misc.rs`) | session rows | create, expire, end | job store, reconciler | job read before the transaction; three clocks | sessions guarded |
| API keys (`api/auth.rs`, `repository/auth.rs`) | key rows | look up, record use, revoke | every call | revocation under way | only entitled calls served |
| Paged lists (`repository/jobs.rs`, `workers.rs`, `uploads.rs`) | none | pages by keyset cursor | job store | rows that appear, leave and share an instant | a walk is complete |
| Uploads, object store, webhook client, observability, API shell, contracts, worker binary | single inserts, counters | - | - | - | not modelled, see below |

## Modules

The job store and what builds on it:

* `JobLifecycle` - states, outcomes, evidence and `ValidTransition`, constant
  operators that the other modules extend.
* `JobStore` - the tables. One action per transaction: `CreateJob`, `CancelJob`,
  `RegisterWorker`, `SetWorkerState`, `Heartbeat`, `ClaimJob`,
  `WorkerTransition`, `RecordResult`. Two pieces of scheduler code run several
  transactions in a row and are split where the code splits: `FindStaleJobs`
  puts a batch of snapshots into `stale` and `LostRace`, `RecoverRequeue`,
  `RecoverCancelling` or `RecoverExhausted` take them one at a time;
  `BeginFinalize`, `FinalizeArtifacts`, `FinalizeCleanup`, `FinalizeDeadLetter`
  and `FinalizeLost` are the lease-free finalizers of the reconciler and the
  dispatcher. `Abandon` is a leader that crashes or whose pass fails in between.
  A lease is named by the attempt it was granted for. `origin` is a ghost that
  remembers which attempt wrote a verdict or evidence.
* `Transactions` - why `JobStore` may take a transaction for one step. Admission,
  claim, heartbeat, terminal transition and recovery run statement by statement
  under the locks they take (idempotency key, project, jobs in order, worker);
  each statement reads what is committed.
* `HealthyRun` - `JobStore` restricted to workers that heartbeat at every
  instant and an API that only creates jobs.
* `JobContract` - the abstract specification: a job waits, runs under one owner,
  is retried a bounded number of times and ends once. `JobStoreRefinement` maps
  the tables to it (`phase`, `verdict`, `tries`, `dead`).

The queue and the leader:

* `Delivery` - the queue and everything a leader keeps only in memory, composed
  with `JobContract` (its job steps are the contract's actions). The stream is a
  sequence whose index is the stream sequence; each leader's `mem` has the
  dispatcher's delivery in hand, the advisory and the recovery in hand, the fair
  buffer, the registry, the confirmations in progress and the reconciler's maps.
  Reading a snapshot, acting on it, publishing, acknowledging and recording are
  separate steps, and `DispatcherFails`, `AdvisoryFails`, `ReconcilerFails`,
  `ControlFails` or `LeaderLost` may come between any two. JetStream is modelled
  from how the code uses it: delivery counts, AckWait, MaxDeliver advisories,
  deduplication by message id.
* `Outbox` - one channel of the outbox table (job queue, webhooks or dead
  letters, chosen at the start) and the tasks that publish it. A row's lock is a
  dispatcher id and an age; a task remembers which rows of its batch it is
  publishing, marking or retrying. Time is the age of locks and delays. `Leasable`
  is the set of batches that respect the query's `ORDER BY` and `LIMIT` - one, as
  the order is total; `NextBatch` of `EventStream` and `TopRows` of `Paging` are
  written the same way.
* `FairQueue` - the buffer with its lanes, buckets, ring, cursor and aging
  override, driven by a dispatcher that accepts deliveries or runs a pass.
  `passed` and `turns` are ghosts that count how often somebody was passed over.
* `Reaper` - one reconciler pass step by step: inventory, owner, first seen,
  removal, finalization. Containers are started and stopped by workers, leases
  come and go between any two steps; `malformed` is a managed container whose
  labels the inventory cannot read.
* `ControlPlane` - requests of one worker in several handlers: record, up to six
  rounds of `drive_result_finalizer`, and the classification of a repeat from the
  row as it is then. `Topology` - five resources brought to the settings of each
  process in turn. `Settings` - `from_map` of the scheduler as predicates over
  bounded integers.
* `Leadership` - the lock belongs to a database session, the tasks to a process,
  and the two end independently. The end of `run_leader_cycle` is one action per
  call: tasks aborted and joined (`StopTasks`), the control plane told to stop and
  its loop awaited (`StopControl`) or given up on after five seconds
  (`StopTimesOut`), the lock released (`Release`, `ReleaseFails`). A loop that was
  given up on is in `detached` until it sees that it was told to stop; handlers
  that a returning loop aborts without joining are in `aborted` until their next
  await. Both may act beside the next leader, in this process or another. What they
  can do there is what `JobStore`, `ControlPlane` and `Delivery` already allow any
  number of handlers and leaders to do.

The API: `EventStream`, `DebugSessions`, `ApiKeys`, `Paging`. In each the reads
and writes of a handler are separate steps, and other transactions come between.

Proofs: `JobStoreProofs` and `ContractProofs` (the tables), `DeliveryProofs`,
`LeadershipProofs`, `ReaperProofs`, `OutboxProofs`, `SchedulerProofs` (settings,
topology, fair queue, control plane) and `RequestProofs` (the API). The `MC*`
modules and `.cfg` files are small instances. `MCParts` puts together modules that
share no variable; a behaviour exercises one of them while the others rest, so that
the run explores the sum of their states and each is explored in full. Operators named `Fault...`
are mutated forms of a definition, used only to show that a property can fail.

## Runs

| Run | What it asks | Instance | States |
|---|---|---|---|
| `store_one` | rows, event log, verdicts, dead letters, cancellation, staleness of recovery; refinement of `JobContract` | 1 job, 1 worker, 1 leader, 2 attempts, 3 ticks, every kind of evidence, partial heartbeats | 111,764 |
| `healthy_redelivery` | violated: no redelivery on a healthy run | 1 job, 8 ticks | - |
| `leadership` | lock discipline, and a leader in the end | 3 instances, 3 faults | 43,590 |
| `leadership_overlap` | violated: a leader without its session has stopped before another processes | 2 instances, 1 fault | - |
| `delivery` | no lost work | 2 leaders at once, 2 attempts, 3 deliveries per message, 1 fault | 1,322,436 |
| `delivery_live` | every job ends, the queue drains, dead letters arrive | 1 leader, 1 attempt, 2 deliveries per message, 2 faults | 196,007 |
| `delivery_replay` | violated: dead letter before retirement | 1 job, 1 fault | - |
| `outbox` | marks tell the truth, exclusive publication, every row published | 2 tasks with or without a common id, 2 rows of which one may fail for good, each of the three channels, 2 faults | 121,618 |
| `reaper` | owners and grace kept, no early finalization, orphans and closing jobs end | 1 job, 2 leases, grace 2, 2 faults, with and without malformed labels | 102,662 |
| `reaper_gate` | violated: cancellation progresses without an inventory | 1 job, 1 lease, no fault | - |
| `parts` | the fair queue; the control plane; the topology; locks and commits; event stream; debug sessions; API keys; pages | 6 jobs of 3 projects in a buffer of 4; 2 handlers, 2 leases; 3 processes with old, new and refused settings; 3 creations, 2 claims, 2 heartbeats, 1 end; 3 writers, 2 reconnects; 2 sessions, 6 ticks; 1 key, 2 projects, 2 calls; 5 rows, pages of 2 | 1,320,820 |
| `stream_close` | violated: a stream closes after the terminal event | 2 writers, 1 reconnect | - |

**Bounds.** Two attempts are the least that distinguish a superseded lease from
the current one and a requeue from exhaustion. Three ticks with a lease of two
let a lease be extended, run out and be granted again. Several jobs meet in the
tables only in capacity and quotas: `Transactions` has three of them, enough to
exceed a quota of two outstanding or one running job and a capacity of one, and
`ContractProofs` settles the counts for every number. Several leaders meet
there only in recovery and finalization, which `JobStoreProofs` settles for every
number and every skew. `Delivery` follows one job because jobs meet there only in
the fair buffer, whose overflow has the effect of a delivery that is left to
expire; duplicates of one job are what its hard cases are about. `MaxDeliver` is
one more than the attempts, as `topology.rs` sets it. `MaxSeq` bounds the stream.
In `delivery` it is two, the source and one duplicate, replacement or stray
message; in `delivery_live` it is five and does not bind (a larger value reaches
the same states, while with four a replacement may find no room), so no behaviour
stops for lack of room. Two faults are the pairs that matter: an acknowledgement
lost and a leader dead, a poison message and a failed call. In `outbox` the lease
outlasts a publication by one tick and two tasks may share an id, so a late mark
or retry can meet a second lease of its own id. The buffer of four holds two
projects' work in both lanes with two entries left outside. A grace of two ticks
with passes of one lets an observation span a pass. Widths in `Settings` shrink
to 4, 7 and 8 bits in the run; its theorems hold for any.

**Deadlock** is checked in `store_one` and `reaper`. It is off where the system
may stop or a bound ends it: `healthy_redelivery` (time is bounded),
`delivery*` and `outbox` (all is done and the queue empty), `leadership*` (every
instance may have been shut down), `parts` and `stream_close` (every request
answered, every row inserted). Among transactions, waiting for each other is the
property `NoWaitCycle`, not TLC's deadlock.

**Fairness.** `Leadership` assumes that each supervisor's timers fire, that a loop
which was told to stop sees it, that an aborted handler comes to an await, and that
the server notices a closed connection; it promises no fault and no restart.
`Delivery` gives weak fairness to each loop and timer the code keeps running:
the outbox poll, the consumer pulls, the dispatch and the reconciliation tick,
the steps of a task in progress, the consumer's AckWait. A claim is strongly
fair: capacity and quota come back, and the dispatcher tries a buffered job on
every tick. A run in progress ends, reports or goes silent and is recovered. No
cancellation is promised. `Outbox` assumes that each task polls, that a call
returns one way or the other, and that time passes; a task that crashed starts
again. `Reaper` assumes that the reconciler's interval ticks, that every call of
a pass returns, and that the messages of queued jobs are delivered; workers,
claims and cancellations owe nothing. Faults are finite in number, so liveness is
what holds once they cease.

### What the violated runs show

1. `leadership_overlap`: when the server ends the leader's session, the next
   instance leads while the first works on until its one-second health tick; the
   PR document says that processing stops before. `delivery` and the theorem
   `FinalizersAlwaysUnopposed` show that the overlap loses no work and lets no
   finalizer be opposed.
2. `healthy_redelivery`: heartbeats stop extending a lease once an outcome is
   pending, so a healthy worker that takes long to collect and clean up loses its
   job, which runs again. The worker's document promises no spurious redelivery.
   The theorem `HeartbeatAlwaysProtects` is the part that does hold.
3. `delivery_replay`: a worker's late transition to `infra_failed` makes the
   control plane acknowledge the message of a job that was given up, before its
   dead letter is published. A comment in the dispatcher and the PR document say
   that the source is retired afterwards. The letter still arrives
   (`LettersArrive`), because it is in the outbox.
4. `reaper_gate`: one managed container with invalid labels fails every
   inventory, `finalize_ready_jobs` runs only after a successful one, and a
   cancelled job without a lease stays open. The PR document says that cancellation
   work is not held back. `ClosingEnds` shows that this is the only obstacle.
5. `stream_close`: the terminal event commits after `next_event` read an empty
   batch and before it looks at the job; the stream is closed without the event.
   `openapi/v1.yaml:349` says "the server closes it after the terminal event". A
   client that reconnects gets it, by `FollowerHasPrefix`.

### Observed while modelling, without a run of its own

* `run_leader_cycle` waits five seconds for the control plane and releases the lock
  in any case. `ControlPlaneHandle::shutdown` has taken the `JoinHandle` by then, so
  the loop is detached, not aborted, and may serve requests beside the next leader
  until it is scheduled again; `crates/scheduler/src/control.rs:445` says "Calling
  `shutdown` lets the subscription loop exit before the leadership connection is
  released." `WorkUnderLock` states this exception and shows that it is confined to
  control-plane work that was told to stop; `Settles` shows that it ends.
* A debug token lifetime below thirty seconds is accepted (`DEBUG_TOKEN_TTL_SECONDS`
  "must be between 1 and 900 seconds") and makes every creation of a session fail as
  if the job had too little time left.
* The accepted clocks put staleness before the acknowledgement wait and that before
  the lease, but `reconciliation_interval` is unrelated to them: a stale worker may
  be found only after its message was delivered again.
* `create_debug_session_with_audit` ends an expired session of its job without
  the audit entry that the reconciler writes for the same end.
* The session row is committed before its token is minted, so a failure to mint
  leaves a session nobody has a token for. A session survives a requeue, and
  `started_at` keeps the first attempt's value, so its deadline is that attempt's.
* A heartbeat after a change of leader extends the lease in the database but is
  answered Retry while the new leader has no binding.
* The terminal case of `classify_replayed_result` compares outcome and worker,
  not the lease; `AnswersAgree` shows that this does not confirm a wrong end.
* The advisory stream's duplicate window is left unset, so it differs from what
  the server stores and the stream is updated at every start.
* Two processes with different settings that provision at once can leave a mixture;
  `ProvisionedAsDesired` speaks of provisioning that nobody disturbed.
* A duration that passes `duration_seconds` can still be too large to add to a date.
* `lease_outbox_messages`, `end_debug_session`, `create_debug_session`,
  `append_job_event`, `create_api_key`, `revoke_api_key` and `FairQueue::remove`
  are not called by the binaries; revocation is modelled all the same.

## Proofs

Every safety invariant and action property that a passing run checks is also a
theorem, for all values of the constants that satisfy the named assumptions of
the modules: `IdAssumption` and `LimitAssumption` (`JobStore`),
`DeliveryAssumption`, `OutboxAssumption` and `ConfigAssumption` (`Outbox`, the
latter is what `OutboxDispatcherConfig::validate` requires), `ReaperAssumption`,
the two of `Leadership`, `FairAssumption` (jobs are numbered by rank, projects are
finite in number, weights as `FairQueue::new` accepts them), `ControlAssumption`,
`TopologyAssumption` (a process wants a value for every field), `WidthAssumption`,
`TransactionAssumption` (finitely many creations, distinct calls),
`StreamAssumption`, `PagingAssumption`, `KeyAssumption` and `SessionAssumption`.

**The tables** (`JobStoreProofs`, `ContractProofs`)

* *Shape.* `TypeOK` and `RowsConsistent` are inductive only together: a snapshot
  names a worker because a leased row has one, and a transition keeps a row's
  shape because its columns are typed. Lemmas on single rows (`RequeuedRowShape`,
  `ClaimedRowShape`, `TransitionedRowShape`, ...) carry the arithmetic and records;
  `ShapeStep` has one step per action. Theorems `TypeCorrect`,
  `RowsAlwaysConsistent`.
* *Action properties.* `EveryRowSteps` classifies what any step can do to any row
  (an ordinary step of its holder or the API, or a recovery of it).
  `TerminalRowsFrozen` and `CancellationAlwaysSticks` follow row by row.
  `RecoveryAlwaysStale` also needs `SnapshotsPast`: no snapshot lies in the future
  of its leader's clock.
* *Closing.* `FinalizersUnopposed` and `ExhaustionRecorded` are not inductive
  alone. `Closing` says that a row somebody finalizes, and a row with a dead
  letter, is lease-free and on its way to a fixed outcome; `ClosingStays` shows
  that no step takes a row off that way. Theorems `FinalizersAlwaysUnopposed`,
  `ExhaustionAlwaysRecorded`.
* *Accounting.* `EveryStepAccounts` sorts the steps into four kinds: nothing that
  is counted changes, a job is created, claimed, or given back. Each kind changes a
  counted set by at most one element. Theorems `CapacityAlwaysAccounted`,
  `QuotasAlwaysRespected`.
* *Followers and verdicts.* `FollowersInformed` is inductive beside `Shape`: the
  event and the webhook row are written with the row they tell of (`Told`).
  `VerdictsCredited` says of open rows too whose a verdict, the evidence and the
  start of the tests are; `Credited` sorts the steps into those of the latest
  attempt and those that start a row afresh or close it with an outcome no worker
  reports. Theorems `FollowersAlwaysInformed`,
  `LatestAttemptAlwaysCredited`, `PassedOnlyAfterTests`.
* *Refinement.* `StoreImplementsContract`: the initial tables map to the contract's
  initial state, and `EveryStepRefines` maps each transaction to a step of
  `JobContract` on the job whose row it writes (`Submitted`, `Cancelled`, `Started`,
  `Reported`, `Ended`, `Retried`, `TakenOver`) or to a stutter. It needs `Shape`,
  and `Closing` for the finalizers.
* *Heartbeats.* `Punctual` adds to `HeartbeatProtects` how far beats, leases and
  snapshots may lie from the clock when every worker beats at every instant.
  `HeartbeatAlwaysProtects` holds for thresholds above one interval plus the skew,
  and leases above one interval plus twice the skew.

**The queue and the leader**

* *Delivery.* `WorkNeverLost`, for any number of jobs, of leaders at once, of
  messages, deliveries and faults. The core of `DeliveryInv` is `StreamOk`: a good
  message that is gone belongs to a job that is over or is followed by a newer good
  message of its job (`Covered`), and one that has used up its deliveries has its
  advisory. The newest good message of a job that waits or runs is therefore in the
  stream. What has to be invariant besides (`MemOk`) is why each leader, whose memory
  is of some earlier snapshot, is still right to remove what it is about to remove;
  `RemainsOk` shows that what a task remembers stays true while the world moves on,
  whoever moves it.
* *Leadership.* `IInv` adds to `WorkUnderLock` that an instance which is starting,
  or has work of its current cycle, has the lock or lost its session, and that only
  leading and stopping instances have such work. Theorem `WorkAlwaysUnderLock`.
* *Reaper.* A container that lost its lease never gets it back, because leases are
  granted in increasing order and its own was granted before it started
  (`LastGranted`, `BornLater`, lemma `LeasesFresh`); so an owner looked up earlier in
  a pass may be trusted to be absent later. `Watched` relates a leader's first-seen
  times to the true time without a lease, and `Accounted` follows every listed
  container until it is removed or keeps its job waiting. Theorems
  `OwnerAlwaysKept`, `GraceAlwaysKept`, `CleanupAlwaysFirst`.
* *Outbox.* `MarksDeserved` says that whoever is about to mark a row saw it accepted
  or its webhook deactivated. `LeasesHeld` says that a task which publishes a row of
  the job queue holds it under an id of its own, with a lock at most as old as its
  publication, which the timer ends first. Theorems `PublishedAlwaysStored`,
  `PublicationAlwaysExclusive`; `BackoffBounded` covers every attempt and hash.

**The scheduler's parts** (`SchedulerProofs`)

* *Fair queue.* The bound on a lane's wait is not inductive without the cursor:
  `CursorTells` relates how often a lane was passed over to how far the cursor has
  gone since. `RoomKept` is the same for the place of a popped entry. `QueueOk` has
  three parts: each bucket is the sorted list of the entries `job_ids` places there;
  a ring names the projects with a bucket, each once, and the sum of a project's
  place and the times it was passed over is at most the number of projects; the
  counts agree. Theorems `LaneWaitAlwaysBounded`, `RequeueAlwaysFits`,
  `AlwaysSynchronized`, `ProjectWaitAlwaysBounded`, `AlwaysServedInOrder`.
* *Control plane.* `AnswersSound` joins what the row says (`RowOk`) with what each
  handler knows of it (`HandlerOk`): one that drives a run has its outcome recorded,
  is no further than the row, and has used no more rounds than the row has advanced
  (`Rank`). Theorems `AnswersAlwaysAgree`, `RoundsAlwaysSuffice`.
* *Topology.* `Provisioning`: a process nobody disturbed has put in order every
  resource it is past, and what it has read of the next is what the server holds.
  Theorem `TopologyProvisioned`.
* *Settings.* What `from_map` accepts converts into a topology that provisioning
  accepts, into a fair queue that holds all that may be unacknowledged, and leaves
  one spare delivery within a u32.

**The API** (`RequestProofs`)

* *Transactions.* `LocksGuard` gives for each stage of each call the locks it holds
  and what it has read that must still be so. Statements of others leave that alone
  because they would need one of those locks. Theorem `TransactionsSerialize`.
  `NoTransactionsWaitInACircle` finds in any set of waiting calls one that waits for
  none of them: a call that waits for its worker, or else for the project, or else
  the heartbeat whose next job has the largest id, or else a creation that waits for
  its key.
* *Event stream.* `LogOrdered`: a number is drawn under the job's row and exceeds
  every committed one. `FollowsLog`: what was received, what is on the wire and what
  is still to be sent are runs of the log that follow each other without a gap; a
  commit is behind all of them. Theorem `FollowerAlwaysHasPrefix`.
* *Paged lists.* The order is total because ids tell rows of one instant apart
  (`ListOrder`); the client's rows are in order, the cursor is the last of them, and
  what it has yet to see comes after the cursor (`WalkOk`). Theorem
  `WalkAlwaysComplete`.
* *Access.* `CallsEntitled` carries a key's project and scopes from the update of
  `last_used_at` to the handler, and says that a key revoked too early for a call is
  revoked; `ExpiriesBounded` bounds the expiry computed before the transaction by the
  job's deadline. Theorems `ServedAreEntitled`, `SessionsAlwaysGuarded`.

**Only model-checked:** the liveness properties (`Settles`, `EveryJobEnds`,
`QueueDrains`, `LettersArrive`, `EveryRowPublished`, `AbandonedReaped`,
`ClosingEnds`), since liveness under fairness and `ENABLED` are outside what the
prover handles. Induction over data and recursive operators are outside it too, so
the modules use neither: the results of sorting queries are described by what they
satisfy, and the place of an entry in a bucket by a cardinality.


## Not modelled

Messages that cannot be decoded or name no known job; payloads, headers, traces
and metrics; the choice among several suitable workers; the validation of a job
request, which rejects before anything is written; uploads, artifacts and signed
URLs (single inserts); tokens, hashing and the parsing of environment texts
(library code, taken as injective or as input); NATS permissions and TLS; the
Docker and webhook clients, apart from their success and failure; the settings of
the API, which are independent range checks. `EnsurePublished` of `Delivery`
publishes all letters that are ready at once and `Reaper` leaves out the `LIMIT` of
`finalize_ready_jobs`: the batches themselves are in `Outbox`, and with the one job
of these runs neither bound is ever reached. A step of a task is its effect on the
server, so a statement that was sent before its task was aborted counts as done
before. The worker binary is a placeholder: workers are the environment.

## Plan

Done: all modules above, and a theorem for every safety property the runs check.
What is left:

1. Theorems that join parts: what an accepted configuration guarantees of the
   constants of `JobStore`, `Outbox` and `Reaper`, where the code relates them.
2. That `Delivery` moves jobs only as `JobContract` allows, as a refinement of its
   own (its job steps are the contract's actions).
3. That `Transactions` refines the one-step transactions of `JobStore` in what is
   counted, beyond `CommitsSerial`.
