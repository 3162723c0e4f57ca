-------------------------------- MODULE Outbox --------------------------------
(***************************************************************************)
(* One channel (subject) of the transactional outbox and the tasks that    *)
(* publish it: crates/repository/src/outbox.rs leases, marks and retries   *)
(* rows; crates/api/src/queue.rs (jobs.queued) and webhooks.rs publish a   *)
(* leased batch concurrently; crates/scheduler/src/dlq.rs (jobs.dead)      *)
(* publishes it row by row and stops at the first failure.  Leases are per *)
(* subject, so channels do not meet: which one is described is chosen in   *)
(* the initial state and kept.                                             *)
(*                                                                         *)
(* A row is known to its holder by the dispatcher id alone.  Every API     *)
(* process draws its own id; the scheduler's tasks of one leader cycle     *)
(* share one, so a late statement of one task can settle another's lease.  *)
(*                                                                         *)
(* Simplifications.                                                        *)
(*  - Time is relative: `delay' counts a row down to its available_at and  *)
(*    `age' counts its lock up to the lease timeout.  available_at orders  *)
(*    the rows, so `order' keeps that order once a delay has run out.      *)
(*  - Every backoff is between one tick and MaxDelay ticks (BackoffFor and *)
(*    theorem BackoffBounded); attempts serve only the backoff.            *)
(*  - The stream, or the webhook's endpoint, is the set of rows it has     *)
(*    accepted: publications carry a stable message id.                    *)
(***************************************************************************)
EXTENDS Integers, Sequences, FiniteSets, Functions

CONSTANTS
    Rows,           \* ids of the channel's rows: the primary key, in order
    Poison,         \* rows whose publication fails every time
    Tasks,          \* tasks that publish the channel
    Ids,            \* dispatcher ids
    NoId,           \* SQL NULL in locked_by
    Batch,          \* batch_size, OUTBOX_BATCH_SIZE or DLQ_LEASE_BATCH
    LeaseTimeout,   \* lease_timeout
    PublishTimeout, \* publish_timeout
    MaxDelay,       \* max_backoff or a fixed retry delay
    MaxFaults       \* bound on failures and crashes, for model checking only

ASSUME OutboxAssumption ==
    /\ Rows \subseteq Nat
    /\ IsFiniteSet(Rows)
    /\ Poison \subseteq Rows
    /\ NoId \notin Ids
    /\ Batch \in Nat \ {0}
    /\ LeaseTimeout \in Nat \ {0}
    /\ PublishTimeout \in Nat \ {0}
    /\ MaxDelay \in Nat \ {0}
    /\ MaxFaults \in Nat

\* OutboxDispatcherConfig::validate refuses a publish timeout that reaches the
\* lease timeout.
ASSUME ConfigAssumption == PublishTimeout < LeaseTimeout

VARIABLES
    channel,  \* the subject described
    id,       \* the dispatcher id of each task
    table,    \* the channel's rows of outbox_messages
    order,    \* its unpublished rows by (available_at, id)
    batch,    \* what each task has leased and not settled, in lease order
    phase,    \* how far each of those rows is
    elapsed,  \* time since each task leased its batch
    stored,   \* rows the stream or the endpoint has accepted
    active,   \* is the registration of the webhook active?
    faults

vars == <<channel, id, table, order, batch, phase, elapsed, stored, active,
          faults>>

Channel == {"jobs.queued", "jobs.dead", "webhooks"}

\* publish_ready goes row by row; the other two channels publish the batch at once.
Sequential == channel = "jobs.dead"

\* Only the queue dispatcher bounds a whole publication by a timer.
Timed == channel = "jobs.queued"

Row ==
    [state : {"absent", "pending", "published"},
     by    : Ids \cup {NoId},
     age   : 0 .. LeaseTimeout,
     delay : 0 .. MaxDelay]

-------------------------------------------------------------------------------
(* Retry delays.                                                           *)

\* Smaller and larger of two numbers.
Least(a, b) == IF a < b THEN a ELSE b
Greatest(a, b) == IF a > b THEN a ELSE b

\* The jitter of 75% to 125%, taken from `mixed' (the hash of row and attempt).
\* It can exceed the cap, so the cap is applied again; no delay is below 1 ms.
Jittered(capped, mixed, max) ==
    Greatest(Least((capped * (75 + (mixed % 51))) \div 100, max), 1)

\* backoff_for, in milliseconds: exponential in the attempt, and capped.
BackoffFor(attempt, mixed, base, max) ==
    LET exponent == Least(IF attempt > 0 THEN attempt - 1 ELSE 0, 31)
    IN  Jittered(Least(base * 2^exponent, max), mixed, max)

\* retry_at: the ticks a failed row may be put off by.
RetryDelays == 1 .. MaxDelay

-------------------------------------------------------------------------------
(* The table.                                                              *)

Pending(r) == table[r].state = "pending"

\* The rows a lease may take: unpublished, due, and unlocked or locked for longer
\* than the lease timeout.
Due ==
    {r \in Rows : /\ Pending(r)
                  /\ table[r].delay = 0
                  /\ table[r].by = NoId \/ table[r].age = LeaseTimeout}

Earlier(q, r) == \E i, k \in DOMAIN order : i < k /\ order[i] = q /\ order[k] = r

\* The batch it takes, oldest first, at most Batch of them: the only sequence of
\* due rows in which each comes after all that are earlier.
Leasable ==
    {b \in [1 .. Least(Cardinality(Due), Batch) -> Due] :
        \A k \in DOMAIN b :
            /\ \A i \in DOMAIN b : b[i] = b[k] => i = k
            /\ \A q \in Due : Earlier(q, b[k]) => \E i \in 1 .. (k - 1) : b[i] = q}

\* Fault: rows are kept in the order in which they were written.
FaultByRowId(s, r, d) ==
    SelectSeq(s, LAMBDA q : q < r) \o <<r>> \o SelectSeq(s, LAMBDA q : q > r)

\* ORDER BY available_at, id.  Where a row of available_at `d' ticks from now
\* goes: after every row due by then that is not due at the same time with a
\* larger id.
Insert(s, r, d) ==
    LET Before(q) == \/ table[q].delay < d
                     \/ table[q].delay = d /\ (d = 0 \/ q < r)
    IN  SelectSeq(s, Before) \o <<r>> \o SelectSeq(s, LAMBDA q : ~Before(q))

\* A sequence without its entry r.
Without(s, r) ==
    IF r \notin Range(s) THEN s
    ELSE LET i == CHOOSE i \in DOMAIN s : s[i] = r
         IN  [k \in 1 .. (Len(s) - 1) |-> IF k < i THEN s[k] ELSE s[k + 1]]

NoRow == [state |-> "absent", by |-> NoId, age |-> 0, delay |-> 0]

-------------------------------------------------------------------------------
(* Initial state.                                                          *)

\* Dispatcher ids are fresh UUIDs of an API process or a leader cycle; only the
\* tasks of a leader cycle share one.
Init ==
    /\ channel \in Channel
    /\ id \in [Tasks -> Ids]
    /\ channel # "jobs.dead"
          => \A t, u \in Tasks : id[t] = id[u] => t = u
    /\ table = [r \in Rows |-> NoRow]
    /\ order = <<>>
    /\ batch = [t \in Tasks |-> <<>>]
    /\ phase = [t \in Tasks |-> [r \in Rows |-> "idle"]]
    /\ elapsed = [t \in Tasks |-> 0]
    /\ stored = {}
    /\ active = TRUE
    /\ faults = 0

-------------------------------------------------------------------------------
(* Writers of rows.                                                        *)

\* The INSERT of create_job_with_outbox, of append_event's webhook row or of
\* insert_job_dead_letter_outbox, whose ON CONFLICT keeps an existing row as it
\* is.  Row ids are drawn in order.
InsertRow(r) ==
    /\ table[r].state = "absent"
    /\ \A q \in Rows : q < r => table[q].state # "absent"
    /\ table' = [table EXCEPT ![r].state = "pending"]
    /\ order' = Insert(order, r, 0)
    /\ UNCHANGED <<channel, id, batch, phase, elapsed, stored, active, faults>>

\* deactivate_webhook.
Deactivate ==
    /\ channel = "webhooks"
    /\ active
    /\ active' = FALSE
    /\ UNCHANGED <<channel, id, table, order, batch, phase, elapsed, stored,
                   faults>>

-------------------------------------------------------------------------------
(* One task: lease a batch, publish its rows, settle each.                 *)

\* lease_outbox_messages_for_subject, at the head of dispatch_once, of the
\* webhook loop and of publish_ready.
Lease(t) ==
    /\ batch[t] = <<>>
    /\ Due # {}
    /\ \E b \in Leasable :
          /\ batch' = [batch EXCEPT ![t] = b]
          /\ table' = [r \in Rows |->
                IF r \in Range(b)
                THEN [table[r] EXCEPT !.by = id[t], !.age = 0]
                ELSE table[r]]
          /\ phase' = [phase EXCEPT ![t] = [r \in Rows |->
                IF r \in Range(b) THEN "publish" ELSE @[r]]]
    /\ elapsed' = [elapsed EXCEPT ![t] = 0]
    /\ UNCHANGED <<channel, id, order, stored, active, faults>>

\* The row a task is working on, or any of its batch when it publishes them
\* concurrently.
Working(t, r) ==
    IF Sequential THEN batch[t] # <<>> /\ r = Head(batch[t])
                  ELSE r \in Range(batch[t])

\* A task is done with one row of its batch.
Settle(t, r) ==
    /\ batch' = [batch EXCEPT ![t] = Without(@, r)]
    /\ phase' = [phase EXCEPT ![t][r] = "idle"]

\* ... or, in publish_ready, leaves the rest of the batch behind, still locked.
GiveUp(t) ==
    /\ batch' = [batch EXCEPT ![t] = <<>>]
    /\ phase' = [phase EXCEPT ![t] = [r \in Rows |-> "idle"]]

AfterFailure(t, r) == IF Sequential THEN GiveUp(t) ELSE Settle(t, r)

Fail == faults < MaxFaults /\ faults' = faults + 1

\* The publication is acknowledged; a webhook that was deactivated counts as
\* delivered without a request.
PublishOk(t, r) ==
    /\ Working(t, r)
    /\ phase[t][r] = "publish"
    /\ \/ r \notin Poison /\ stored' = stored \cup {r}
       \/ channel = "webhooks" /\ ~active /\ UNCHANGED stored
    /\ phase' = [phase EXCEPT ![t][r] = "mark"]
    /\ UNCHANGED <<channel, id, table, order, batch, elapsed, active, faults>>

\* It fails or times out.  A row that is not poisonous may have arrived all the
\* same: only its acknowledgement was lost.
PublishFails(t, r) ==
    /\ Working(t, r)
    /\ phase[t][r] = "publish"
    /\ \/ r \in Poison /\ UNCHANGED <<stored, faults>>
       \/ r \notin Poison /\ Fail /\ stored' \in {stored, stored \cup {r}}
    /\ phase' = [phase EXCEPT ![t][r] = "retry"]
    /\ UNCHANGED <<channel, id, table, order, batch, elapsed, active>>

\* WHERE published_at IS NULL AND locked_by = $2.
HoldsLock(t, r) == Pending(r) /\ table[r].by = id[t]

\* mark_outbox_published.
MarkPublished(t, r) ==
    /\ Working(t, r)
    /\ phase[t][r] = "mark"
    /\ HoldsLock(t, r)
    /\ table' = [table EXCEPT ![r] =
                    [@ EXCEPT !.state = "published", !.by = NoId, !.age = 0]]
    /\ order' = Without(order, r)
    /\ Settle(t, r)
    /\ UNCHANGED <<channel, id, elapsed, stored, active, faults>>

\* Fault: a failed publication is recorded as done.
FaultRetryMarks(t, r) ==
    /\ Working(t, r)
    /\ phase[t][r] = "retry"
    /\ HoldsLock(t, r)
    /\ table' = [table EXCEPT ![r] =
                    [@ EXCEPT !.state = "published", !.by = NoId, !.age = 0]]
    /\ order' = Without(order, r)
    /\ AfterFailure(t, r)
    /\ UNCHANGED <<channel, id, elapsed, stored, active, faults>>

\* retry_outbox_message: the row is put off and unlocked.
Retry(t, r) ==
    /\ Working(t, r)
    /\ phase[t][r] = "retry"
    /\ HoldsLock(t, r)
    /\ \E d \in RetryDelays :
          /\ table' = [table EXCEPT ![r] =
                          [@ EXCEPT !.by = NoId, !.age = 0, !.delay = d]]
          /\ order' = Insert(Without(order, r), r, d)
    /\ AfterFailure(t, r)
    /\ UNCHANGED <<channel, id, elapsed, stored, active, faults>>

\* The mark or the retry finds the row published, unlocked or locked by another
\* id (CompareAndSwapLost), or the statement fails: the row stays as it is.
SettleLost(t, r) ==
    /\ Working(t, r)
    /\ phase[t][r] \in {"mark", "retry"}
    /\ IF HoldsLock(t, r) THEN Fail ELSE UNCHANGED faults
    /\ AfterFailure(t, r)
    /\ UNCHANGED <<channel, id, table, order, elapsed, stored, active>>

\* A process dies, or a leader cycle ends: every task of that id forgets its
\* batch, whose rows stay locked.  The id is never drawn again, but no
\* statement of it is left that could tell.
Crash(i) ==
    /\ \E t \in Tasks : id[t] = i /\ batch[t] # <<>>
    /\ Fail
    /\ batch' = [t \in Tasks |-> IF id[t] = i THEN <<>> ELSE batch[t]]
    /\ phase' = [t \in Tasks |->
                    IF id[t] = i THEN [r \in Rows |-> "idle"] ELSE phase[t]]
    /\ UNCHANGED <<channel, id, table, order, elapsed, stored, active>>

-------------------------------------------------------------------------------
\* Fault: the acknowledgement of a publication is awaited for ever.
FaultNoTimer(t) == FALSE

\* A publication at its timeout: the timer fires before more time passes.
TimerDue(t) ==
    /\ Timed
    /\ elapsed[t] = PublishTimeout
    /\ \E r \in Rows : phase[t][r] = "publish"

TimePasses ==
    /\ \A t \in Tasks : ~TimerDue(t)
    /\ table' = [r \in Rows |-> [table[r] EXCEPT
          !.delay = Greatest(@ - 1, 0),
          !.age   = IF table[r].by = NoId THEN 0 ELSE Least(@ + 1, LeaseTimeout)]]
    /\ elapsed' = [t \in Tasks |->
          IF batch[t] = <<>> THEN 0 ELSE Least(elapsed[t] + 1, PublishTimeout)]
    /\ table' # table \/ elapsed' # elapsed
    /\ UNCHANGED <<channel, id, order, batch, phase, stored, active>>

\* A lease that runs out while its holder is still at work.
ExpiresInUse ==
    \E t \in Tasks : \E r \in Range(batch[t]) :
        table[r].by = id[t] /\ table[r].age = LeaseTimeout - 1

Tick == ~ExpiresInUse /\ TimePasses /\ UNCHANGED faults

\* Publications and statements are so slow that they outlive their lease.
Stall == ExpiresInUse /\ TimePasses /\ Fail

TaskStep(t) ==
    \/ Lease(t)
    \/ \E r \in Rows : \/ PublishOk(t, r)
                       \/ PublishFails(t, r)
                       \/ MarkPublished(t, r)
                       \/ Retry(t, r)
                       \/ SettleLost(t, r)

Next ==
    \/ \E r \in Rows : InsertRow(r)
    \/ Deactivate
    \/ \E t \in Tasks : TaskStep(t)
    \/ \E i \in Ids : Crash(i)
    \/ Tick
    \/ Stall

Spec == Init /\ [][Next]_vars

(* Every task keeps running its loop: it polls, a publication ends one way or *)
(* the other, and the statement that settles a row is executed.  Time passes; *)
(* it passes a lease that is in use only as often as faults happen.           *)
Fairness ==
    /\ WF_vars(Tick)
    /\ \A t \in Tasks :
          /\ WF_vars(Lease(t))
          /\ \A r \in Rows :
                /\ WF_vars(PublishOk(t, r) \/ PublishFails(t, r))
                /\ WF_vars(MarkPublished(t, r) \/ Retry(t, r) \/ SettleLost(t, r))

FairSpec == Spec /\ Fairness

-------------------------------------------------------------------------------
(* Properties.                                                             *)

\* published_at tells the truth: a row is marked published only if the stream
\* (or the webhook's endpoint) has accepted it or its webhook was deactivated,
\* whichever task of whichever id ran the statement and however late it came.
PublishedMeansStored ==
    \A r \in Rows :
        table[r].state = "published" => r \in stored \/ ~active

\* publish_timeout < lease_timeout keeps the leases of the job queue exclusive:
\* as long as one API process waits for the acknowledgement of a row, it holds
\* that row's lock and no other process publishes it.
ExclusivePublish ==
    Timed => \A t \in Tasks, r \in Rows :
                phase[t][r] = "publish" => HoldsLock(t, r)

\* Every row that can be published is published in the end: past failed and
\* lost publications, failed statements and crashes, past another task's late
\* retry of the same dispatcher id, and past a row that fails for ever and
\* makes publish_ready leave the rest of its batch locked.
EveryRowPublished ==
    \A r \in Rows \ Poison :
        table[r].state = "pending" ~> table[r].state = "published"
=============================================================================
