----------------------------- MODULE Transactions -----------------------------
(***************************************************************************)
(* The repository's transactions, statement by statement.  JobStore takes  *)
(* each of them as one atomic action; this module shows why it may.  Here  *)
(* a transaction is a sequence of statements: each takes a lock or reads   *)
(* committed rows (READ COMMITTED, one snapshot per statement), its writes *)
(* become visible when it commits, and its locks go with it.               *)
(*                                                                         *)
(* The calls of one project that share rows:                               *)
(*   create_job_with_outbox  advisory lock of the key, project, count      *)
(*   claim_job_with_options  job, project, count, worker                   *)
(*   record_heartbeat        jobs in id order, worker                      *)
(*   transition_job_state    job, and the worker of a job that ends        *)
(*   recover_stale_job       job, worker                                   *)
(*                                                                         *)
(* A job's id is the number of the call that creates it: ids are random,   *)
(* so any order of ids and calls is possible and one is as good as another.*)
(* Locks that foreign keys take are shared and conflict with none of these *)
(* but FOR UPDATE of a row the transaction holds already.                  *)
(***************************************************************************)
EXTENDS Integers, FiniteSets

CONSTANTS
    Creators,       \* calls of POST /jobs, numbered
    KeyOf,          \* the Idempotency-Key each of them sends
    Claimers,       \* claims of the dispatchers
    Beats,          \* heartbeats
    Closers,        \* terminal transitions and recoveries
    Severed,        \* the calls that may lose their connection
    WorkerIds,
    NoOne,          \* no worker, no transaction
    Outstanding,    \* projects.max_outstanding_jobs
    Concurrent,     \* projects.max_concurrent_jobs
    CapacitySet     \* capacities a heartbeat may report

VARIABLES
    rows,     \* committed jobs: state and worker
    load,     \* committed workers: active_jobs and capacity
    tx,       \* per call, how far its transaction is
    holder    \* per lock, the transaction that holds it

txVars == <<rows, load, tx, holder>>

Tx == Creators \cup Claimers \cup Beats \cup Closers

KeyLock(k) == <<"key", k>>
ProjectLock == <<"project", 0>>
JobLock(j) == <<"job", j>>
WorkerLock(w) == <<"worker", w>>

ASSUME TransactionAssumption ==
    /\ Creators \in SUBSET Nat
    /\ IsFiniteSet(Creators)
    /\ Creators \cap (Claimers \cup Beats \cup Closers) = {}
    /\ Claimers \cap (Beats \cup Closers) = {}
    /\ Beats \cap Closers = {}
    /\ Severed \subseteq Tx
    /\ NoOne \notin Tx \cup WorkerIds
    /\ Outstanding \in Nat
    /\ Concurrent \in Nat
    /\ CapacitySet \in SUBSET Nat

Lock == {KeyLock(KeyOf[r]) : r \in Creators} \cup {ProjectLock}
            \cup {JobLock(j) : j \in Creators}
            \cup {WorkerLock(w) : w \in WorkerIds}

\* The arguments a call has used so far: the jobs it names, its worker, the
\* capacity it reports.  Each is chosen where it is first looked at.
Call == [at       : {"idle", "key", "existing", "job", "project", "count",
                     "worker", "commit", "done"},
         jobs     : SUBSET Creators,
         worker   : WorkerIds \cup {NoOne},
         capacity : CapacitySet \cup {0}]

Idle == [at |-> "idle", jobs |-> {}, worker |-> NoOne, capacity |-> 0]

TransactionsInit ==
    /\ rows = [j \in Creators |-> [state |-> "absent", worker |-> NoOne]]
    /\ load = [w \in WorkerIds |-> [active |-> 0, capacity |-> 1]]
    /\ tx = [t \in Tx |-> Idle]
    /\ holder = [l \in Lock |-> NoOne]

-------------------------------------------------------------------------------
(* Committed rows.                                                         *)

Present(k) == {j \in Creators : rows[j].state # "absent" /\ KeyOf[j] = k}

OutstandingJobs == {j \in Creators : rows[j].state \in {"queued", "leased"}}

LeasedJobs == {j \in Creators : rows[j].state = "leased"}

-------------------------------------------------------------------------------
(* Statements.                                                             *)

Go(t, to) == tx' = [tx EXCEPT ![t].at = to]

\* A statement that waits for a lock, takes it and goes on.
Take(t, l, to) ==
    /\ holder[l] = NoOne
    /\ holder' = [holder EXCEPT ![l] = t]
    /\ Go(t, to)

\* COMMIT, or the rollback of a call that is refused.
Finish(t) ==
    /\ tx' = [tx EXCEPT ![t] = [Idle EXCEPT !.at = "done"]]
    /\ holder' = [l \in Lock |-> IF holder[l] = t THEN NoOne ELSE holder[l]]

(* create_job, then create_job_with_outbox.                                *)

\* find_job_by_idempotency_key, outside the transaction: a key that is known
\* answers at once.
FastLookup(r) ==
    /\ tx[r].at = "idle"
    /\ IF Present(KeyOf[r]) # {}
       THEN Finish(r)
       ELSE Go(r, "key") /\ UNCHANGED holder
    /\ UNCHANGED <<rows, load>>

\* pg_advisory_xact_lock on project and key.
LockKey(r) ==
    /\ tx[r].at = "key"
    /\ Take(r, KeyLock(KeyOf[r]), "existing")
    /\ UNCHANGED <<rows, load>>

\* The replay check under the key's lock.
FindExisting(r) ==
    /\ tx[r].at = "existing"
    /\ IF Present(KeyOf[r]) # {}
       THEN Finish(r)
       ELSE Go(r, "project") /\ UNCHANGED holder
    /\ UNCHANGED <<rows, load>>

\* Fault: the limits are read without FOR UPDATE.
FaultNoProjectLock(t) ==
    /\ tx[t].at = "project"
    /\ Go(t, "count")
    /\ UNCHANGED <<rows, load, holder>>

\* SELECT ... FROM projects ... FOR UPDATE, by a creation or a claim.
LockProject(t) ==
    /\ tx[t].at = "project"
    /\ Take(t, ProjectLock, "count")
    /\ UNCHANGED <<rows, load>>

\* The count of outstanding jobs, and the checks of uploads and profile that
\* may refuse the request as well.
CountOutstanding(r) ==
    /\ tx[r].at = "count"
    /\ \/ /\ Cardinality(OutstandingJobs) < Outstanding
          /\ Go(r, "commit")
          /\ UNCHANGED holder
       \/ Finish(r)
    /\ UNCHANGED <<rows, load>>

\* INSERT ... ON CONFLICT (project_id, idempotency_key) DO NOTHING, the first
\* event, the queue message and COMMIT.
CommitCreate(r) ==
    /\ tx[r].at = "commit"
    /\ IF Present(KeyOf[r]) # {}
       THEN UNCHANGED rows
       ELSE rows' = [rows EXCEPT ![r].state = "queued"]
    /\ Finish(r)
    /\ UNCHANGED load

(* claim_job_with_options.                                                 *)

\* lock_job, and the check that the row is still queued.
ClaimLockJob(c, j) ==
    /\ tx[c].at = "idle"
    /\ rows[j].state # "absent"
    /\ holder[JobLock(j)] = NoOne
    /\ IF rows[j].state = "queued"
       THEN /\ holder' = [holder EXCEPT ![JobLock(j)] = c]
            /\ tx' = [tx EXCEPT ![c].at = "project", ![c].jobs = {j}]
       ELSE Finish(c)
    /\ UNCHANGED <<rows, load>>

\* The count of leased jobs under the project's lock.
CountLeased(c, w) ==
    /\ tx[c].at = "count"
    /\ IF Cardinality(LeasedJobs) < Concurrent
       THEN /\ tx' = [tx EXCEPT ![c].at = "worker", ![c].worker = w]
            /\ UNCHANGED holder
       ELSE Finish(c)
    /\ UNCHANGED <<rows, load>>

\* lock_worker and validate_worker_match on the locked row.
ClaimLockWorker(c) ==
    LET w == tx[c].worker
    IN  /\ tx[c].at = "worker"
        /\ holder[WorkerLock(w)] = NoOne
        /\ IF load[w].active < load[w].capacity
           THEN Take(c, WorkerLock(w), "commit")
           ELSE Finish(c)
        /\ UNCHANGED <<rows, load>>

CommitClaim(c) ==
    LET w == tx[c].worker
    IN  /\ tx[c].at = "commit"
        /\ load' = [load EXCEPT ![w].active = @ + 1]
        /\ rows' = [j \in Creators |->
             IF j \in tx[c].jobs THEN [state |-> "leased", worker |-> w]
                                 ELSE rows[j]]
        /\ Finish(c)

(* record_heartbeat.                                                       *)

\* A worker may present leases it no longer has, of any job that exists.
BeatBegins(b, presented) ==
    /\ tx[b].at = "idle"
    /\ \A j \in presented : rows[j].state # "absent"
    /\ tx' = [tx EXCEPT ![b].at = "job", ![b].jobs = presented]
    /\ UNCHANGED <<rows, load, holder>>

\* Fault: the rows are locked in the order the heartbeat lists them.
FaultListOrder(todo) == todo

\* ORDER BY id: which of the rows still to be locked comes next.
NextInOrder(todo) == {j \in todo : \A k \in todo : j <= k}

ToLock(b) == {j \in tx[b].jobs : holder[JobLock(j)] # b}

\* SELECT id FROM jobs WHERE id = ANY($1) ORDER BY id FOR UPDATE, row by row.
BeatLockJob(b, j) ==
    /\ tx[b].at = "job"
    /\ j \in NextInOrder(ToLock(b))
    /\ Take(b, JobLock(j), "job")
    /\ UNCHANGED <<rows, load>>

BeatLocksDone(b, w) ==
    /\ tx[b].at = "job"
    /\ ToLock(b) = {}
    /\ tx' = [tx EXCEPT ![b].at = "worker", ![b].worker = w]
    /\ UNCHANGED <<rows, load, holder>>

\* The worker's row, and the refusal of a capacity below its reservations.
BeatLockWorker(b, capacity) ==
    LET w == tx[b].worker
    IN  /\ tx[b].at = "worker"
        /\ holder[WorkerLock(w)] = NoOne
        /\ IF load[w].active <= capacity
           THEN /\ holder' = [holder EXCEPT ![WorkerLock(w)] = b]
                /\ tx' = [tx EXCEPT ![b].at = "commit", ![b].capacity = capacity]
           ELSE Finish(b)
        /\ UNCHANGED <<rows, load>>

CommitBeat(b) ==
    /\ tx[b].at = "commit"
    /\ load' = [load EXCEPT ![tx[b].worker].capacity = tx[b].capacity]
    /\ Finish(b)
    /\ UNCHANGED rows

(* transition_job_state to a terminal state; recover_stale_job.            *)

\* UPDATE jobs ... WHERE state = $2, or lock_job and the comparison with the
\* snapshot: a row that moved on is left alone.
CloseLockJob(e, j) ==
    /\ tx[e].at = "idle"
    /\ rows[j].state # "absent"
    /\ holder[JobLock(j)] = NoOne
    /\ IF rows[j].state = "leased"
       THEN /\ holder' = [holder EXCEPT ![JobLock(j)] = e]
            /\ tx' = [tx EXCEPT ![e].at = "worker", ![e].jobs = {j},
                                ![e].worker = rows[j].worker]
       ELSE Finish(e)
    /\ UNCHANGED <<rows, load>>

\* release_worker_capacity's UPDATE, or lock_worker.
CloseLockWorker(e) ==
    /\ tx[e].at = "worker"
    /\ Take(e, WorkerLock(tx[e].worker), "commit")
    /\ UNCHANGED <<rows, load>>

\* `requeue': a recovery with attempts left.
CommitClose(e, requeue) ==
    /\ tx[e].at = "commit"
    /\ load' = [load EXCEPT ![tx[e].worker].active = IF @ > 0 THEN @ - 1 ELSE 0]
    /\ rows' = [j \in Creators |->
         IF j \notin tx[e].jobs THEN rows[j]
         ELSE IF requeue THEN [state |-> "queued", worker |-> NoOne]
                               ELSE [rows[j] EXCEPT !.state = "ended"]]
    /\ Finish(e)

\* The connection is lost: PostgreSQL rolls the transaction back.
Abort(t) ==
    /\ tx[t].at \notin {"idle", "done"}
    /\ Finish(t)
    /\ UNCHANGED <<rows, load>>

TransactionsNext ==
    \/ \E r \in Creators :
        \/ FastLookup(r) \/ LockKey(r) \/ FindExisting(r)
        \/ CountOutstanding(r) \/ CommitCreate(r)
    \/ \E c \in Claimers :
        \/ \E j \in Creators : ClaimLockJob(c, j)
        \/ \E w \in WorkerIds : CountLeased(c, w)
        \/ ClaimLockWorker(c) \/ CommitClaim(c)
    \/ \E t \in Creators \cup Claimers : LockProject(t)
    \/ \E b \in Beats :
        \/ \E presented \in SUBSET Creators : BeatBegins(b, presented)
        \/ \E j \in Creators : BeatLockJob(b, j)
        \/ \E w \in WorkerIds : BeatLocksDone(b, w)
        \/ \E capacity \in CapacitySet : BeatLockWorker(b, capacity)
        \/ CommitBeat(b)
    \/ \E e \in Closers :
        \/ \E j \in Creators : CloseLockJob(e, j)
        \/ CloseLockWorker(e)
        \/ \E requeue \in BOOLEAN : CommitClose(e, requeue)
    \/ \E t \in Severed : Abort(t)

TransactionsSpec == TransactionsInit /\ [][TransactionsNext]_txVars

-------------------------------------------------------------------------------
(* Properties.                                                             *)

\* The lock a transaction's next statement needs.
Wanted(t) ==
    CASE tx[t].at = "key"     -> {KeyLock(KeyOf[t])}
      [] tx[t].at = "project" -> {ProjectLock}
      [] tx[t].at = "job"     -> {JobLock(j) : j \in NextInOrder(ToLock(t))}
      [] tx[t].at = "worker"  -> {WorkerLock(tx[t].worker)}
      [] OTHER                -> {}

Blocked == {t \in Tx : \E l \in Wanted(t) : holder[l] # NoOne}

\* No set of transactions waits for itself: among any that are blocked, one
\* waits for a lock that none of the others holds.  "Every path that needs both
\* rows locks jobs before workers", heartbeats lock their jobs in order, and
\* nobody who holds the project or a worker waits for a job.
NoWaitCycle ==
    \A S \in (SUBSET Blocked) \ {{}} :
        \E t \in S : \A l \in Wanted(t) : holder[l] \notin S

\* What each transaction is allowed to do, had it run alone at the moment it
\* commits.
CreatesAlone(r) ==
    /\ Present(KeyOf[r]) = {}
    /\ Cardinality(OutstandingJobs) < Outstanding
    /\ rows' = [rows EXCEPT ![r].state = "queued"]
    /\ UNCHANGED load

ClaimsAlone(j, w) ==
    /\ rows[j].state = "queued"
    /\ Cardinality(LeasedJobs) < Concurrent
    /\ load[w].active < load[w].capacity
    /\ rows' = [rows EXCEPT ![j] = [state |-> "leased", worker |-> w]]
    /\ load' = [load EXCEPT ![w].active = @ + 1]

BeatsAlone(w, capacity) ==
    /\ load[w].active <= capacity
    /\ load' = [load EXCEPT ![w].capacity = capacity]
    /\ UNCHANGED rows

ClosesAlone(j) ==
    /\ rows[j].state = "leased"
    /\ load[rows[j].worker].active > 0
    /\ load' = [load EXCEPT ![rows[j].worker].active = @ - 1]
    /\ \/ rows' = [rows EXCEPT ![j].state = "ended"]
       \/ rows' = [rows EXCEPT ![j] = [state |-> "queued", worker |-> NoOne]]

\* Every commit does what its transaction would have done in one step: the
\* idempotency check, both quotas, the worker's capacity and the state of the
\* job still hold in the rows it changes, although they were read statements
\* ago and terminal transitions never lock the project.  This is what lets
\* JobStore take each transaction for one action.
CommitsSerial ==
    [][rows' # rows \/ load' # load =>
          \/ \E r \in Creators : CreatesAlone(r)
          \/ \E j \in Creators, w \in WorkerIds : ClaimsAlone(j, w)
          \/ \E w \in WorkerIds, c \in CapacitySet : BeatsAlone(w, c)
          \/ \E j \in Creators : ClosesAlone(j)]_<<rows, load>>
=============================================================================
