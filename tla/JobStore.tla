------------------------------- MODULE JobStore -------------------------------
(***************************************************************************)
(* The durable core of the system: the jobs and workers tables, the event  *)
(* log and the transactional outbox, with one action per repository        *)
(* transaction (crates/repository/src/jobs.rs, workers.rs) and the two     *)
(* scheduler loops that run several transactions in a row                  *)
(* (crates/scheduler/src/reconciler.rs, dispatcher.rs).                    *)
(*                                                                         *)
(* Every transaction locks the rows it reads, so it is one atomic action.  *)
(* What is NOT atomic is kept apart: the reconciler reads a list of stale  *)
(* jobs and recovers them one by one afterwards; the lease-free finalizers *)
(* read a snapshot and then run two transitions that no lease guards.      *)
(*                                                                         *)
(* Simplifications.                                                        *)
(*  - A lease id is a fresh UUID per successful claim and a claim is the   *)
(*    only statement that increments delivery_attempts; the lease granted  *)
(*    by a job's n-th claim is written n, and 0 is the absence of one.     *)
(*  - Time is a counter.  The scheduler process reads its own clock, which *)
(*    may be up to ClockSkew away from the database's.                     *)
(*  - Whether a worker can run a job's profile (runtime, ABI, KVM,         *)
(*    isolation) is the constant relation Compatible.                      *)
(*  - A request that a transaction refuses changes nothing and is not a    *)
(*    step.                                                                *)
(***************************************************************************)
EXTENDS JobLifecycle, Integers, FiniteSets

CONSTANTS
    Jobs,           \* job ids: one per (project, idempotency key)
    Workers,        \* worker ids
    NoWorker,       \* SQL NULL in jobs.worker_id
    Projects,
    ProjectOf,      \* the project of each job
    Compatible,     \* pairs <<job, worker>> that validate_worker_match accepts
    Leaders,        \* scheduler processes that may be acting as leader
    Capacities,     \* capacities a worker may report
    MaxOutstanding, \* projects.max_outstanding_jobs
    MaxConcurrent,  \* projects.max_concurrent_jobs
    MaxRunAttempts, \* SCHEDULER_MAX_RUN_ATTEMPTS
    LeaseTtl,       \* database_lease_ttl
    StaleAfter,     \* stale_worker_threshold
    ClockSkew,      \* how far a scheduler's clock may be from the database's
    WorkerOutcomes, \* outcomes workers report
    WorkerEvidence, \* evidence workers report
    OperatorStates, \* states an operator puts a worker in
    PartialBeats,   \* may a worker leave one of its leases out of a heartbeat?
    MaxClock        \* bound on time, for model checking only

ASSUME IdAssumption ==
    /\ IsFiniteSet(Jobs)
    /\ NoWorker \notin Workers
    /\ ProjectOf \in [Jobs -> Projects]
    /\ Compatible \subseteq Jobs \X Workers
    /\ Capacities \subseteq Nat
    /\ WorkerOutcomes \subseteq Outcome
    /\ WorkerEvidence \subseteq SUBSET Evidence
    /\ OperatorStates \subseteq {"online", "draining", "offline"}
    /\ PartialBeats \in BOOLEAN

ASSUME LimitAssumption ==
    /\ MaxOutstanding \in [Projects -> Nat]
    /\ MaxConcurrent \in [Projects -> Nat]
    /\ MaxRunAttempts \in Nat \ {0}
    /\ LeaseTtl \in Nat \ {0}
    /\ StaleAfter \in Nat \ {0}
    /\ ClockSkew \in Nat
    /\ MaxClock \in Nat

VARIABLES
    jobs,     \* the jobs table
    workers,  \* the workers table
    clock,    \* database time
    outbox,   \* event keys of outbox_messages rows (queued jobs, dead letters)
    log,      \* per job, the state of its latest event and latest webhook row
    stale,    \* snapshots the reconcilers have read and not yet processed
    fin,      \* lease-free finalizations in progress
    origin    \* ghost: the attempt that ran tests, reported, gave evidence

vars == <<jobs, workers, clock, outbox, log, stale, fin, origin>>

NoLease == 0

\* The two scheduler tasks that finalize a job without a lease.
Task == {"dispatcher", "reconciler"}

JobRow ==
    [state    : JobState \cup {"absent"},
     worker   : Workers \cup {NoWorker},
     lease    : Nat,
     expires  : Nat,
     attempts : Nat,
     pending  : Outcome \cup {NoOutcome},
     done     : SUBSET Evidence]

WorkerRow ==
    [state    : {"absent", "online", "draining", "offline"},
     active   : Nat,
     capacity : Nat,
     beat     : Nat]

OutboxKey == [kind : {"queued", "dead"}, job : Jobs, attempt : Nat]

StaleJob ==
    [leader : Leaders, job : Jobs, worker : Workers, lease : Nat \ {NoLease},
     state : JobState, attempts : Nat, expires : Nat, now : Nat]

Finalization ==
    [leader : Leaders, task : Task, job : Jobs,
     outcome : {"cancelled", "infra_failed"},
     at : FinalizingState \cup {"dead_letter"}]

-------------------------------------------------------------------------------
(* Helpers over the tables.                                                *)

Live(j) == jobs[j].state # "absent" /\ ~Terminal(jobs[j].state)

\* Jobs whose worker holds one unit of its capacity.
HeldBy(w) == {j \in Jobs : Live(j) /\ jobs[j].worker = w}

Outstanding(p) == {j \in Jobs : Live(j) /\ ProjectOf[j] = p}

Running(p) == {j \in Outstanding(p) : jobs[j].lease # NoLease}

\* Readings of a scheduler's clock.
SchedulerClock == {n \in 0 .. (clock + ClockSkew) : n + ClockSkew >= clock}

QueuedKey(j) == [kind |-> "queued", job |-> j, attempt |-> 0]
DeadKey(j, n) == [kind |-> "dead", job |-> j, attempt |-> n]

\* Fault: webhook rows are written for the events that change nothing.
FaultInvertedChange(j, state, changed) ==
    log' = [log EXCEPT ![j] =
        [last |-> state, webhook |-> IF changed THEN @.webhook ELSE state]]

\* append_event, and the webhook outbox row it adds when the state changed.
AppendEvent(j, state, changed) ==
    log' = [log EXCEPT ![j] =
        [last |-> state, webhook |-> IF changed THEN state ELSE @.webhook]]

\* Fault: the capacity unit is never given back.
FaultKeepCapacity(table, w) == table

\* release_worker_capacity: GREATEST(active_jobs - 1, 0); no worker, no update.
ReleaseCapacity(table, w) ==
    IF w = NoWorker THEN table
    ELSE [table EXCEPT ![w].active = IF @ > 0 THEN @ - 1 ELSE 0]

\* The CHECK constraints of the jobs table on evidence; a row that breaks one
\* makes its transaction fail.
EvidenceChecks(row) ==
    /\ "cleanup_completed" \in row.done => "artifacts_finalized" \in row.done
    /\ Terminal(row.state) => row.done = Evidence /\ row.pending = row.state

\* Fault: a worker is known by its name alone.
FaultWorkerOnly(row, w, l) == row.worker = w /\ row.expires > clock

\* The fence of a worker's request: this worker, this lease, still running.
LeaseGuard(row, w, l) ==
    /\ row.worker = w
    /\ row.lease = l
    /\ row.expires > clock

\* Ghost bookkeeping of a row that attempt n moves from `old' to `new'.
Credit(j, n, old, new) ==
    origin' = [origin EXCEPT ![j] =
        [tests    |-> IF new.state = "running_tests" THEN n ELSE @.tests,
         outcome  |-> IF new.pending # old.pending THEN n ELSE @.outcome,
         evidence |-> IF new.done # old.done THEN n ELSE @.evidence]]

-------------------------------------------------------------------------------
(* Initial state: no job, no worker.                                       *)

AbsentJob ==
    [state |-> "absent", worker |-> NoWorker, lease |-> NoLease, expires |-> 0,
     attempts |-> 0, pending |-> NoOutcome, done |-> {}]

AbsentWorker == [state |-> "absent", active |-> 0, capacity |-> 0, beat |-> 0]

Init ==
    /\ jobs = [j \in Jobs |-> AbsentJob]
    /\ workers = [w \in Workers |-> AbsentWorker]
    /\ clock = 0
    /\ outbox = {}
    /\ log = [j \in Jobs |-> [last |-> "absent", webhook |-> "absent"]]
    /\ stale = {}
    /\ fin = {}
    /\ origin = [j \in Jobs |-> [tests |-> 0, outcome |-> 0, evidence |-> 0]]

-------------------------------------------------------------------------------
(* API transactions.                                                       *)

\* create_job_with_outbox: admission against max_outstanding_jobs, the row,
\* its first event and its queue message, in one transaction.  A replayed
\* idempotency key finds the row and changes nothing.
CreateJob(j) ==
    /\ jobs[j].state = "absent"
    /\ Cardinality(Outstanding(ProjectOf[j])) < MaxOutstanding[ProjectOf[j]]
    /\ jobs' = [jobs EXCEPT ![j].state = "queued"]
    /\ outbox' = outbox \cup {QueuedKey(j)}
    /\ AppendEvent(j, "queued", TRUE)
    /\ UNCHANGED <<workers, clock, stale, fin, origin>>

\* request_job_cancellation: refused for a terminal job and for any pending
\* outcome (a repeated cancellation succeeds and changes nothing).  The lease,
\* if there is one, stays with the worker.
CancelJob(j) ==
    /\ Live(j)
    /\ jobs[j].pending = NoOutcome
    /\ jobs' = [jobs EXCEPT ![j].state = "collecting_artifacts",
                            ![j].pending = "cancelled"]
    /\ AppendEvent(j, "collecting_artifacts",
                   jobs[j].state # "collecting_artifacts")
    /\ UNCHANGED <<workers, clock, outbox, stale, fin, origin>>

-------------------------------------------------------------------------------
(* Worker table transactions.                                              *)

\* upsert_worker: a new row is online and idle; an existing one keeps its
\* state and reservations, which the new capacity must cover.
RegisterWorker(w, capacity) ==
    /\ workers[w].active <= capacity
    /\ workers' = [workers EXCEPT ![w] =
        [state    |-> IF @.state = "absent" THEN "online" ELSE @.state,
         active   |-> @.active,
         capacity |-> capacity,
         beat     |-> clock]]
    /\ UNCHANGED <<jobs, clock, outbox, log, stale, fin, origin>>

\* set_worker_state: an operator takes a worker out of, or back into, rotation.
SetWorkerState(w, state) ==
    /\ workers[w].state # "absent"
    /\ workers' = [workers EXCEPT ![w].state = state]
    /\ UNCHANGED <<jobs, clock, outbox, log, stale, fin, origin>>

\* Which of the leases a heartbeat presents are extended: its own, unexpired,
\* with no outcome pending.
Extends(w, j) ==
    /\ jobs[j].worker = w
    /\ jobs[j].lease # NoLease
    /\ jobs[j].expires > clock
    /\ jobs[j].pending = NoOutcome
    /\ Live(j)

\* record_heartbeat: worker row and every extended lease in one transaction.
\* `presented' are the jobs for which the worker presents its lease.
Heartbeat(w, presented, capacity) ==
    /\ workers[w].state # "absent"
    /\ workers[w].active <= capacity
    /\ workers' = [workers EXCEPT ![w].capacity = capacity, ![w].beat = clock]
    /\ jobs' = [j \in Jobs |->
        IF j \in presented /\ Extends(w, j)
        THEN [jobs[j] EXCEPT !.expires = clock + LeaseTtl]
        ELSE jobs[j]]
    /\ UNCHANGED <<clock, outbox, log, stale, fin, origin>>

-------------------------------------------------------------------------------
(* Claim and the worker's fenced requests.                                 *)

\* validate_worker_match, on the locked worker row.
WorkerMatches(j, w) ==
    /\ <<j, w>> \in Compatible
    /\ workers[w].state = "online"
    /\ workers[w].active < workers[w].capacity
    /\ workers[w].beat + StaleAfter >= clock

\* The concurrency quota, counted under the project row's lock.
QuotaFree(p) == Cardinality(Running(p)) < MaxConcurrent[p]

\* claim_job_with_options.  The scheduler computes the expiry from its own
\* clock; the transaction refuses one that the database's clock has passed.
ClaimJob(j, w, now) ==
    /\ jobs[j].state = "queued"
    /\ jobs[j].lease = NoLease
    /\ jobs[j].worker = NoWorker
    /\ QuotaFree(ProjectOf[j])
    /\ now + LeaseTtl > clock
    /\ WorkerMatches(j, w)
    /\ workers' = [workers EXCEPT ![w].active = @ + 1]
    /\ jobs' = [jobs EXCEPT ![j].state = "claimed",
                            ![j].worker = w,
                            ![j].lease = jobs[j].attempts + 1,
                            ![j].expires = now + LeaseTtl,
                            ![j].attempts = @ + 1]
    /\ AppendEvent(j, "claimed", TRUE)
    /\ UNCHANGED <<clock, outbox, stale, fin, origin>>

\* The row transition_job_state writes: COALESCEd outcome, ORed evidence, and
\* on a terminal state no lease (the worker id stays).
TransitionedRow(row, to, evidence) ==
    [row EXCEPT
        !.state   = to,
        !.pending = IF evidence.pending = NoOutcome THEN @ ELSE evidence.pending,
        !.done    = @ \cup evidence.done,
        !.lease   = IF Terminal(to) THEN NoLease ELSE @,
        !.expires = IF Terminal(to) THEN 0 ELSE @]

\* transition_job_state on behalf of attempt n, for a caller whose lease, if it
\* needs one, was checked.
Transition(j, n, to, evidence) ==
    LET row == jobs[j]
        new == TransitionedRow(row, to, evidence)
    IN  /\ ValidTransition(row.state, to, evidence)
        /\ evidence.pending # NoOutcome
              => row.pending \in {NoOutcome, evidence.pending}
        /\ EvidenceChecks(new)
        /\ jobs' = [jobs EXCEPT ![j] = new]
        /\ workers' = IF Terminal(to) THEN ReleaseCapacity(workers, row.worker)
                                      ELSE workers
        /\ AppendEvent(j, to, row.state # to)
        /\ Credit(j, n, row, new)

\* control.rs transition_job, and each step of drive_result_finalizer: the
\* same transaction under the worker's lease.
WorkerTransition(j, w, l, to, evidence) ==
    /\ LeaseGuard(jobs[j], w, l)
    /\ Transition(j, l, to, evidence)
    /\ UNCHANGED <<clock, outbox, stale, fin>>

\* record_job_result: the outcome and evidence are stored whatever state the
\* run is in; the state itself does not move.
RecordResult(j, w, l, outcome, done) ==
    LET row == jobs[j]
        new == [row EXCEPT !.pending = outcome, !.done = @ \cup done]
    IN  /\ LeaseGuard(row, w, l)
        /\ Live(j)
        /\ row.pending \in {NoOutcome, outcome}
        /\ "cleanup_completed" \in done => "artifacts_finalized" \in done
        /\ jobs' = [jobs EXCEPT ![j] = new]
        /\ AppendEvent(j, row.state, FALSE)
        /\ Credit(j, l, row, new)
        /\ UNCHANGED <<workers, clock, outbox, stale, fin>>

-------------------------------------------------------------------------------
(* Stale-lease recovery: find_stale_jobs reads, recover_stale_job writes.  *)

\* find_stale_jobs at scheduler time `now'.
StaleAt(j, now) ==
    /\ jobs[j].lease # NoLease
    /\ Live(j)
    /\ jobs[j].state # "queued"
    /\ \/ jobs[j].expires <= now
       \/ workers[jobs[j].worker].beat + StaleAfter <= now

Snapshot(leader, j, now) ==
    [leader |-> leader, job |-> j, worker |-> jobs[j].worker,
     lease |-> jobs[j].lease, state |-> jobs[j].state,
     attempts |-> jobs[j].attempts, expires |-> jobs[j].expires, now |-> now]

\* A leader's reconciler is between passes.
ReconcilerIdle(leader) ==
    /\ \A x \in stale : x.leader # leader
    /\ \A f \in fin : <<f.leader, f.task>> # <<leader, "reconciler">>

\* run_once, first half: one SELECT for the whole batch.
FindStaleJobs(leader, now) ==
    /\ ReconcilerIdle(leader)
    /\ \E j \in Jobs : StaleAt(j, now)
    /\ stale' = stale \cup {Snapshot(leader, j, now) :
                               j \in {i \in Jobs : StaleAt(i, now)}}
    /\ UNCHANGED <<jobs, workers, clock, outbox, log, fin, origin>>

\* Fault: only the worker is compared, and staleness is not looked at again.
FaultTrustSnapshot(x) == jobs[x.job].worker = x.worker

\* recover_stale_job acts only on the exact row it was told about, and only if
\* that row's lease or its worker is still stale at the snapshot's time.
StillStale(x) ==
    LET row == jobs[x.job]
    IN  /\ row.worker = x.worker
        /\ row.lease = x.lease
        /\ row.state = x.state
        /\ row.attempts = x.attempts
        /\ row.expires = x.expires
        /\ \/ x.expires <= x.now
           \/ workers[x.worker].beat + StaleAfter <= x.now

LostRace(x) ==
    /\ x \in stale
    /\ ~StillStale(x)
    /\ stale' = stale \ {x}
    /\ UNCHANGED <<jobs, workers, clock, outbox, log, fin, origin>>

RequeuedRow(row) ==
    [row EXCEPT !.state = "queued", !.worker = NoWorker, !.lease = NoLease,
                !.expires = 0, !.pending = NoOutcome, !.done = {}]

\* Fault: an outcome name the rest of the system does not know.
FaultMisspelled(row, outcome) ==
    [row EXCEPT !.state = "collecting_artifacts", !.worker = NoWorker,
                !.lease = NoLease, !.expires = 0, !.pending = "infra_failure"]

\* Recovery that ends the job: no lease, and the evidence of a run that had not
\* reached cleanup is thrown away.
ClosedRow(row, outcome) ==
    [row EXCEPT !.state = IF @ = "cleaning_up" THEN @ ELSE "collecting_artifacts",
                !.worker = NoWorker, !.lease = NoLease, !.expires = 0,
                !.pending = outcome,
                !.done = IF row.state = "cleaning_up" THEN @ ELSE {}]

\* What all three dispositions do once the new row and outbox are chosen.
Recover(x, new) ==
    /\ x \in stale
    /\ StillStale(x)
    /\ stale' = stale \ {x}
    /\ jobs' = [jobs EXCEPT ![x.job] = new]
    /\ workers' = ReleaseCapacity(workers, x.worker)
    /\ AppendEvent(x.job, new.state, new.state # x.state)
    /\ UNCHANGED <<clock, fin, origin>>

\* Fault: one requeue too many.
FaultRequeueAtLimit(x) == x.attempts <= MaxRunAttempts

AttemptsLeft(x) == x.attempts < MaxRunAttempts

\* Fault: a pending cancellation does not stop a requeue.
FaultRequeueCancelled(x) ==
    /\ AttemptsLeft(x)
    /\ Recover(x, RequeuedRow(jobs[x.job]))
    /\ UNCHANGED outbox

RecoverRequeue(x) ==
    /\ jobs[x.job].pending # "cancelled"
    /\ AttemptsLeft(x)
    /\ Recover(x, RequeuedRow(jobs[x.job]))
    /\ UNCHANGED outbox

RecoverCancelling(x) ==
    /\ jobs[x.job].pending = "cancelled"
    /\ Recover(x, ClosedRow(jobs[x.job], "cancelled"))
    /\ UNCHANGED outbox

\* Fault: the dead letter is left to a later step.
FaultNoDeadLetter(x) ==
    /\ jobs[x.job].pending # "cancelled"
    /\ ~AttemptsLeft(x)
    /\ Recover(x, ClosedRow(jobs[x.job], "infra_failed"))
    /\ UNCHANGED outbox

\* The dead letter is written in the same transaction that gives the job up.
RecoverExhausted(x) ==
    /\ jobs[x.job].pending # "cancelled"
    /\ ~AttemptsLeft(x)
    /\ Recover(x, ClosedRow(jobs[x.job], "infra_failed"))
    /\ outbox' = outbox \cup {DeadKey(x.job, x.attempts)}

-------------------------------------------------------------------------------
(* Finalization without a lease: finalize_ready_jobs of the reconciler and *)
(* finalize_queued_cancellation of the dispatcher.  Each reads a snapshot, *)
(* then runs up to two transitions that no lease guards.                   *)

\* Fault: a job whose worker is still finishing is picked up as well.
FaultIgnoresLease(task, j) ==
    /\ jobs[j].state \in FinalizingState
    /\ jobs[j].pending \in {"cancelled", "infra_failed"}

\* The snapshot each task must see.
ReadyToFinalize(task, j) ==
    /\ jobs[j].state \in FinalizingState
    /\ jobs[j].lease = NoLease
    /\ \/ task = "reconciler" /\ jobs[j].pending \in {"cancelled", "infra_failed"}
       \/ /\ task = "dispatcher"
          /\ jobs[j].pending = "cancelled"
          /\ jobs[j].attempts = 0

BeginFinalize(leader, task, j) ==
    /\ \A f \in fin : <<f.leader, f.task>> # <<leader, task>>
    /\ task = "reconciler" => ReconcilerIdle(leader)
    /\ ReadyToFinalize(task, j)
    /\ fin' = fin \cup {[leader |-> leader, task |-> task, job |-> j,
                         outcome |-> jobs[j].pending, at |-> jobs[j].state]}
    /\ UNCHANGED <<jobs, workers, clock, outbox, log, stale, origin>>

\* A finalization moves on to its next step, or ends.
Advance(f, at) == fin' = (fin \ {f}) \cup {[f EXCEPT !.at = at]}
Finish(f) == fin' = fin \ {f}

FinalizeArtifacts(f) ==
    /\ f \in fin
    /\ f.at = "collecting_artifacts"
    /\ jobs[f.job].state = f.at
    /\ Transition(f.job, jobs[f.job].attempts, "cleaning_up",
                  [pending |-> f.outcome, done |-> {"artifacts_finalized"}])
    /\ Advance(f, "cleaning_up")
    /\ UNCHANGED <<clock, outbox, stale>>

FinalizeCleanup(f) ==
    /\ f \in fin
    /\ f.at = "cleaning_up"
    /\ jobs[f.job].state = f.at
    /\ Transition(f.job, jobs[f.job].attempts, f.outcome,
                  [pending |-> f.outcome, done |-> Evidence])
    /\ IF f.outcome = "infra_failed" THEN Advance(f, "dead_letter") ELSE Finish(f)
    /\ UNCHANGED <<clock, outbox, stale>>

\* ensure_published finds or inserts the dead letter of the last attempt.
FinalizeDeadLetter(f) ==
    /\ f \in fin
    /\ f.at = "dead_letter"
    /\ outbox' = outbox \cup
         {DeadKey(f.job, IF jobs[f.job].attempts > 0 THEN jobs[f.job].attempts
                                                    ELSE 1)}
    /\ Finish(f)
    /\ UNCHANGED <<jobs, workers, clock, log, stale, origin>>

\* Another finalizer moved the row first: the transition loses its CAS.
FinalizeLost(f) ==
    /\ f \in fin
    /\ f.at \in FinalizingState
    /\ \/ jobs[f.job].state # f.at
       \/ jobs[f.job].pending # f.outcome
    /\ Finish(f)
    /\ UNCHANGED <<jobs, workers, clock, outbox, log, stale, origin>>

-------------------------------------------------------------------------------
(* A leader crashes, loses its lock or fails a query: what it had read is  *)
(* gone, what it had committed stays.                                      *)
Abandon(leader) ==
    /\ \/ \E x \in stale : x.leader = leader
       \/ \E f \in fin : f.leader = leader
    /\ stale' = {x \in stale : x.leader # leader}
    /\ fin' = {f \in fin : f.leader # leader}
    /\ UNCHANGED <<jobs, workers, clock, outbox, log, origin>>

Tick ==
    /\ clock < MaxClock
    /\ clock' = clock + 1
    /\ UNCHANGED <<jobs, workers, outbox, log, stale, fin, origin>>

HeartbeatReports == IF PartialBeats THEN SUBSET Jobs ELSE {Jobs}

ApiStep(j) == CreateJob(j) \/ CancelJob(j)

WorkerStep(w) ==
    \/ \E c \in Capacities : RegisterWorker(w, c)
    \/ \E s \in OperatorStates : SetWorkerState(w, s)
    \/ \E presented \in HeartbeatReports, c \in Capacities :
            Heartbeat(w, presented, c)
    \/ \E j \in Jobs, l \in 1 .. MaxRunAttempts, to \in JobState,
          pending \in WorkerOutcomes \cup {NoOutcome}, done \in WorkerEvidence :
            WorkerTransition(j, w, l, to, [pending |-> pending, done |-> done])
    \/ \E j \in Jobs, l \in 1 .. MaxRunAttempts, outcome \in WorkerOutcomes,
          done \in WorkerEvidence :
            RecordResult(j, w, l, outcome, done)

LeaderStep(leader) ==
    \/ \E j \in Jobs, w \in Workers, now \in SchedulerClock : ClaimJob(j, w, now)
    \/ \E now \in SchedulerClock : FindStaleJobs(leader, now)
    \/ \E x \in stale :
          /\ x.leader = leader
          /\ \/ LostRace(x)
             \/ RecoverRequeue(x)
             \/ RecoverCancelling(x)
             \/ RecoverExhausted(x)
    \/ \E task \in Task, j \in Jobs : BeginFinalize(leader, task, j)
    \/ \E f \in fin :
          /\ f.leader = leader
          /\ \/ FinalizeArtifacts(f)
             \/ FinalizeCleanup(f)
             \/ FinalizeDeadLetter(f)
             \/ FinalizeLost(f)
    \/ Abandon(leader)

Next ==
    \/ \E j \in Jobs : ApiStep(j)
    \/ \E w \in Workers : WorkerStep(w)
    \/ \E leader \in Leaders : LeaderStep(leader)
    \/ Tick

Spec == Init /\ [][Next]_vars

-------------------------------------------------------------------------------
(* Properties.                                                             *)

\* Every row, snapshot and finalization is well formed.
TypeOK ==
    /\ jobs \in [Jobs -> JobRow]
    /\ workers \in [Workers -> WorkerRow]
    /\ clock \in Nat
    /\ outbox \subseteq OutboxKey
    /\ log \in [Jobs -> [last : JobState \cup {"absent"},
                         webhook : JobState \cup {"absent"}]]
    /\ stale \subseteq StaleJob
    /\ fin \subseteq Finalization
    /\ origin \in [Jobs -> [tests : Nat, outcome : Nat, evidence : Nat]]

\* What the columns of one row say of each other.  The table's CHECKs enforce a
\* part of it; the rest (a lease-free row that is being closed was cancelled or
\* given up, a lease is the latest attempt's, a queued row can still be tried)
\* is kept by the transactions alone.
RowShape(row) ==
    /\ row.state \in {"absent", "queued"}
          => /\ row.worker = NoWorker
             /\ row.lease = NoLease
             /\ row.pending = NoOutcome
             /\ row.done = {}
    /\ row.state = "queued" => row.attempts < MaxRunAttempts
    /\ row.state = "absent" => row.attempts = 0
    /\ row.state \in RunningState => row.lease # NoLease
    /\ row.state \in FinalizingState => row.pending # NoOutcome
    /\ Terminal(row.state) => row.lease = NoLease /\ row.pending = row.state
    /\ row.lease # NoLease => row.worker # NoWorker /\ row.lease = row.attempts
    /\ row.lease = NoLease /\ row.state \in FinalizingState
          => row.worker = NoWorker /\ row.pending \in {"cancelled", "infra_failed"}
    /\ row.attempts <= MaxRunAttempts

\* Claims, terminal transitions and recoveries keep active_jobs equal to the
\* number of live jobs the worker owns, within the capacity it last reported,
\* so GREATEST(active_jobs - 1, 0) never hides a double release.
CapacityAccounted ==
    \A w \in Workers :
        /\ workers[w].active = Cardinality(HeldBy(w))
        /\ workers[w].active <= workers[w].capacity

\* No interleaving of admissions, claims and recoveries takes a project past
\* its outstanding or its concurrent-jobs quota.
QuotasRespected ==
    \A p \in Projects :
        /\ Cardinality(Outstanding(p)) <= MaxOutstanding[p]
        /\ Cardinality(Running(p)) <= MaxConcurrent[p]

\* Every row keeps its shape.  In particular the claim does not look at the
\* attempt limit: it is recovery that must never queue an exhausted job again.
RowsConsistent == \A j \in Jobs : RowShape(jobs[j])

\* A worker's verdict and the evidence behind a job's final state come from
\* the job's latest attempt; a late report of an earlier attempt leaves no
\* trace in the row.
CreditsLatestAttempt ==
    \A j \in Jobs :
        /\ jobs[j].pending \in {"passed", "failed", "timed_out"}
              => origin[j].outcome = jobs[j].attempts
        /\ jobs[j].done # {} => origin[j].evidence = jobs[j].attempts

\* A job ends "passed" only if its latest attempt reached running_tests,
\* although record_job_result accepts a passed outcome in any state.
PassedAfterTests ==
    \A j \in Jobs :
        (jobs[j].state \in FinalizingState \cup Outcome
            /\ jobs[j].pending = "passed")
          => origin[j].tests = jobs[j].attempts

\* A job given up by recovery has its dead letter in the outbox from the very
\* step that gave it up, and a dead-lettered job never runs again.
ExhaustionRecorded ==
    \A j \in Jobs :
        /\ (Live(j) /\ jobs[j].pending = "infra_failed" /\ jobs[j].lease = NoLease)
              => DeadKey(j, jobs[j].attempts) \in outbox
        /\ \A n \in 1 .. MaxRunAttempts :
              DeadKey(j, n) \in outbox
                => /\ n = jobs[j].attempts
                   /\ jobs[j].state \in FinalizingState \cup {"infra_failed"}
                   /\ jobs[j].lease = NoLease

\* The two lease-free transitions are safe although nothing guards them: from
\* the snapshot to the last transition no worker can own the job and nobody
\* can change the outcome it is being closed with.
FinalizersUnopposed ==
    \A f \in fin :
        /\ jobs[f.job].lease = NoLease
        /\ jobs[f.job].pending = f.outcome
        /\ jobs[f.job].state \in FinalizingState \cup {f.outcome}

\* A follower of the event log, and a webhook consumer, know the job's state
\* after every transaction.
FollowersInformed ==
    \A j \in Jobs : log[j] = [last |-> jobs[j].state, webhook |-> jobs[j].state]

\* A terminal row is never written again: not by a late result, a replayed
\* transition, a recovery working from an old snapshot or a second finalizer.
TerminalFrozen ==
    [][\A j \in Jobs : Terminal(jobs[j].state) => jobs'[j] = jobs[j]]_vars

\* "Queued or active cancellations are never resurrected as runnable jobs":
\* once cancellation is pending, nothing changes the outcome, returns the job
\* to the queue or starts another attempt.
CancellationSticks ==
    [][\A j \in Jobs : jobs[j].pending = "cancelled"
            => /\ jobs'[j].pending = "cancelled"
               /\ jobs'[j].state # "queued"
               /\ jobs'[j].attempts = jobs[j].attempts]_vars

\* Recovery takes a job from its worker only if, as that leader's clock may
\* read now, the lease has run out or the worker has been silent for too long:
\* a heartbeat that lands between the reconciler's read and its write wins.
RecoveryOnlyWhenStale ==
    [][\A j \in Jobs :
        (jobs[j].lease # NoLease /\ jobs'[j].lease = NoLease
            /\ ~Terminal(jobs'[j].state))
          => \/ jobs[j].expires <= clock + ClockSkew
             \/ workers[jobs[j].worker].beat + StaleAfter <= clock + ClockSkew]_vars
===============================================================================
