-------------------------------- MODULE Reaper --------------------------------
(***************************************************************************)
(* Cleanup of the runtimes (containers) that workers leave behind, and the *)
(* finalization of jobs that waits for it: crates/scheduler/src/reaper.rs  *)
(* and reconcile_runtimes, runtime_ownership, observe_runtime_ownership    *)
(* and finalize_ready_jobs of crates/scheduler/src/reconciler.rs.          *)
(*                                                                         *)
(* A pass of the reconciler lists the containers, reads each one's job,    *)
(* remembers since when it has been without an owner, removes it after a   *)
(* grace period, and then ends the jobs that have no runtime left.  Workers*)
(* start and stop containers, and leases come and go, between any two of   *)
(* these steps; a second leader may be at the same work.                   *)
(*                                                                         *)
(* Simplifications.                                                        *)
(*  - JobStore has the rows in full.  Here a row is its lease and whether  *)
(*    it is queued, running, cancelling or failing (collecting_artifacts   *)
(*    or cleaning_up with cancelled or infra_failed pending) or ended.     *)
(*  - A lease id is a fresh UUID: the n-th lease of a job is written n and *)
(*    0 is none.  A container is known by the labels it carries, its job   *)
(*    and lease; Docker never gives its id to another.                     *)
(*  - Time is relative: `seen' is the age of an observation and `lag' the  *)
(*    time since the pass read its clock.                                  *)
(***************************************************************************)
EXTENDS Integers, FiniteSets

CONSTANTS
    Jobs,
    Leaders,
    MaxLeases,  \* leases a job may be granted: SCHEDULER_MAX_RUN_ATTEMPTS
    Grace,      \* reap_grace
    PassTime,   \* longest duration of a pass, bound for model checking only
    MaxFaults   \* bound on failures and restarts, for model checking only

ASSUME ReaperAssumption ==
    /\ MaxLeases \in Nat \ {0}
    /\ Grace \in Nat \ {0}
    /\ PassTime \in Nat
    /\ MaxFaults \in Nat

VARIABLES
    job,        \* each job's row
    container,  \* each container: "unborn", "up" or "gone"
    malformed,  \* is there a managed container without valid labels?
    pass,       \* where each leader's reconciler is
    seen,       \* orphan_observations of each leader: ages, None if absent
    unowned,    \* ghost: time since a container's lease was last its job's
    listed,     \* inventoried_resources of each leader's pass
    faults

vars == <<job, container, malformed, pass, seen, unowned, listed, faults>>

NoLease == 0
None == -1
Containers == Jobs \X (1 .. MaxLeases)
JobOf(c) == c[1]
LeaseOf(c) == c[2]

\* The lease is the one in the labels and the job has not ended.
Owned(c) == job[JobOf(c)].lease = LeaseOf(c)

Closing(j) == job[j].state \in {"cancelling", "failing"}

IdlePass == [at |-> "idle", lag |-> 0, todo |-> {}, doomed |-> {}, remaining |-> {}]

Init ==
    /\ job = [j \in Jobs |-> [state |-> "queued", lease |-> NoLease, granted |-> 0]]
    /\ container = [c \in Containers |-> "unborn"]
    /\ malformed \in BOOLEAN
    /\ pass = [l \in Leaders |-> IdlePass]
    /\ seen = [l \in Leaders |-> [c \in Containers |-> None]]
    /\ unowned = [c \in Containers |-> 0]
    /\ listed = [l \in Leaders |-> {}]
    /\ faults = 0

Fail == faults < MaxFaults /\ faults' = faults + 1

-------------------------------------------------------------------------------
(* The jobs, as JobStore lets them move, and the workers' containers.      *)

\* claim_job_with_options.
Claim(j) ==
    /\ job[j].state = "queued"
    /\ job[j].granted < MaxLeases
    /\ job' = [job EXCEPT ![j] = [state |-> "running", lease |-> @.granted + 1,
                                  granted |-> @.granted + 1]]
    /\ UNCHANGED <<container, malformed, pass, seen, unowned, listed, faults>>

\* request_job_cancellation: a lease stays with its worker.
Cancel(j) ==
    /\ job[j].state \in {"queued", "running"}
    /\ job' = [job EXCEPT ![j].state = "cancelling"]
    /\ UNCHANGED <<container, malformed, pass, seen, unowned, listed, faults>>

\* recover_stale_job: a running job is queued again or given up, a cancelled or
\* failing one is left to be closed.
Recover(j) ==
    /\ job[j].lease # NoLease
    /\ job' = [job EXCEPT
          ![j].state = IF @ # "running" THEN @
                       ELSE IF job[j].granted < MaxLeases THEN "queued"
                       ELSE "failing",
          ![j].lease = NoLease]
    /\ UNCHANGED <<container, malformed, pass, seen, unowned, listed, faults>>

\* The worker that holds the lease ends the job.
WorkerEnds(j) ==
    /\ job[j].lease # NoLease
    /\ job' = [job EXCEPT ![j].state = "ended", ![j].lease = NoLease]
    /\ UNCHANGED <<container, malformed, pass, seen, unowned, listed, faults>>

\* A worker starts the container of a lease it was granted, maybe after it lost
\* it, and stops it, or leaves it behind.
StartRuntime(c) ==
    /\ container[c] = "unborn"
    /\ LeaseOf(c) <= job[JobOf(c)].granted
    /\ container' = [container EXCEPT ![c] = "up"]
    /\ UNCHANGED <<job, malformed, pass, seen, unowned, listed, faults>>

StopRuntime(c) ==
    /\ container[c] = "up"
    /\ container' = [container EXCEPT ![c] = "gone"]
    /\ UNCHANGED <<job, malformed, pass, seen, unowned, listed, faults>>

-------------------------------------------------------------------------------
(* One pass of a leader's reconciler.                                      *)

At(l, step) == pass[l].at = step

\* run_once reads the clock once, for the whole pass.
StartPass(l) ==
    /\ At(l, "idle")
    /\ pass' = [pass EXCEPT ![l] = [IdlePass EXCEPT !.at = "inventory"]]
    /\ UNCHANGED <<job, container, malformed, seen, unowned, listed, faults>>

\* inventory lists every managed container; runtime_from_container accepts them.
Inventory(l) ==
    /\ At(l, "inventory")
    /\ ~malformed
    /\ pass' = [pass EXCEPT ![l].at = "examine",
                            ![l].todo = {c \in Containers : container[c] = "up"}]
    /\ listed' = [listed EXCEPT ![l] = {c \in Containers : container[c] = "up"}]
    /\ UNCHANGED <<job, container, malformed, seen, unowned, faults>>

\* The Docker Engine does not answer, or one managed container has invalid
\* labels: the whole inventory fails, and with it the pass's finalizations.
InventoryFails(l) ==
    /\ At(l, "inventory")
    /\ IF malformed THEN UNCHANGED faults ELSE Fail
    /\ pass' = [pass EXCEPT ![l] = IdlePass]
    /\ UNCHANGED <<job, container, malformed, seen, unowned, listed>>

\* runtime_ownership; every job of the model has its row.
Ownership(c) ==
    IF job[JobOf(c)].state = "ended" THEN "JobTerminal"
    ELSE IF Owned(c) THEN "ActiveMatchingLease"
    ELSE "LeaseMismatch"

\* Fault: a lookup that failed counts as an absence of an owner.
FaultUnknownUnsafe(ownership) == ownership # "ActiveMatchingLease"

\* Only an established absence of the owner makes a container unsafe.
Unsafe(ownership) == ownership \in {"JobMissing", "JobTerminal", "LeaseMismatch"}

\* Fault: every pass starts the grace period anew.
FaultRestartsGrace(l, c, ownership) ==
    IF Unsafe(ownership) THEN pass[l].lag ELSE None

\* observe_runtime_ownership: the age of the first of an unbroken series of
\* unsafe observations, counted from the start of its pass.
Observe(l, c, ownership) ==
    IF ~Unsafe(ownership) THEN None
    ELSE IF seen[l][c] = None THEN pass[l].lag
    ELSE seen[l][c]

\* Fault: the grace period ends a tick early.
FaultShortGrace(ownership, age) ==
    IF ownership = "ActiveMatchingLease" THEN "KeepActive"
    ELSE IF ~Unsafe(ownership) THEN "KeepUnknown"
    ELSE IF age < Grace - 1 THEN "KeepInGrace"
    ELSE "Reap"

\* evaluate_reap: time alone is never sufficient.
EvaluateReap(ownership, age) ==
    IF ownership = "ActiveMatchingLease" THEN "KeepActive"
    ELSE IF ~Unsafe(ownership) THEN "KeepUnknown"
    ELSE IF age < Grace THEN "KeepInGrace"
    ELSE "Reap"

\* One container of the inventory, with the answer its lookup got.
ExamineAs(l, c, ownership) ==
    LET since == Observe(l, c, ownership)
        reap  == EvaluateReap(ownership, since - pass[l].lag) = "Reap"
    IN  /\ At(l, "examine")
        /\ pass[l].doomed = {}
        /\ c \in pass[l].todo
        /\ seen' = [seen EXCEPT ![l][c] = since]
        /\ pass' = [pass EXCEPT
              ![l].todo      = @ \ {c},
              ![l].doomed    = IF reap THEN {c} ELSE {},
              ![l].remaining = IF reap THEN @ ELSE @ \cup {JobOf(c)}]
        /\ UNCHANGED <<job, container, malformed, unowned, listed>>

Examine(l, c) == ExamineAs(l, c, Ownership(c)) /\ UNCHANGED faults

LookupFails(l, c) == ExamineAs(l, c, "Unknown") /\ Fail

\* reap: inspect, compare the labels, delete.  A container that is gone counts
\* as removed.
Reap(l, c) ==
    /\ c \in pass[l].doomed
    /\ container' = [container EXCEPT ![c] = "gone"]
    /\ pass' = [pass EXCEPT ![l].doomed = {}]
    /\ seen' = [seen EXCEPT ![l][c] = None]
    /\ UNCHANGED <<job, malformed, unowned, listed, faults>>

\* Fault: a container that could not be removed does not count any more.
FaultForgetsContainer(l, c) ==
    /\ c \in pass[l].doomed
    /\ Fail
    /\ pass' = [pass EXCEPT ![l].doomed = {}]
    /\ UNCHANGED <<job, container, malformed, seen, unowned, listed>>

\* The inspection or the deletion fails: the job keeps waiting.
ReapFails(l, c) ==
    /\ c \in pass[l].doomed
    /\ Fail
    /\ pass' = [pass EXCEPT ![l].doomed = {}, ![l].remaining = @ \cup {JobOf(c)}]
    /\ UNCHANGED <<job, container, malformed, seen, unowned, listed>>

\* After the last container: observations of vanished containers are dropped,
\* and finalize_ready_jobs reads the jobs to close.  The listing is spent.
Closable(l) ==
    {j \in Jobs : Closing(j)} \ pass[l].remaining

FinishExamination(l) ==
    /\ At(l, "examine")
    /\ pass[l].todo = {}
    /\ pass[l].doomed = {}
    /\ seen' = [seen EXCEPT ![l] = [c \in Containers |->
          IF c \in listed[l] THEN @[c] ELSE None]]
    /\ pass' = [pass EXCEPT ![l].at = "finalize", ![l].todo = Closable(l)]
    /\ UNCHANGED <<job, container, malformed, unowned, listed, faults>>

\* A job whose worker still owns it is left to the worker.
LeaseFree(j) == Closing(j) /\ job[j].lease = NoLease

\* finalize_ready_jobs, one job: closed, or skipped because its worker owns it
\* or somebody else closed it.
FinalizeJob(l, j) ==
    /\ At(l, "finalize")
    /\ j \in pass[l].todo
    /\ job' = [job EXCEPT ![j].state = IF LeaseFree(j) THEN "ended" ELSE @]
    /\ pass' = [pass EXCEPT ![l].todo = @ \ {j}]
    /\ UNCHANGED <<container, malformed, seen, unowned, listed, faults>>

\* The rest of the pass (debug sessions, dead letters) and the wait for the next.
EndPass(l) ==
    /\ At(l, "finalize")
    /\ pass[l].todo = {}
    /\ pass' = [pass EXCEPT ![l] = IdlePass]
    /\ listed' = [listed EXCEPT ![l] = {}]
    /\ UNCHANGED <<job, container, malformed, seen, unowned, faults>>

\* finalize_queued_cancellation: the dispatcher, when it is delivered the message
\* of a cancelled job that no worker ever had, closes it without an inventory.
DispatcherFinalizes(j) ==
    /\ job[j].state = "cancelling"
    /\ job[j].granted = 0
    /\ job' = [job EXCEPT ![j].state = "ended"]
    /\ UNCHANGED <<container, malformed, pass, seen, unowned, listed, faults>>

\* A query of finalize_ready_jobs fails, or the leader stops, and with it all
\* that the reconciler remembers.
PassFails(l) ==
    /\ At(l, "finalize")
    /\ Fail
    /\ pass' = [pass EXCEPT ![l] = IdlePass]
    /\ listed' = [listed EXCEPT ![l] = {}]
    /\ UNCHANGED <<job, container, malformed, seen, unowned>>

Restart(l) ==
    /\ Fail
    /\ pass' = [pass EXCEPT ![l] = IdlePass]
    /\ seen' = [seen EXCEPT ![l] = [c \in Containers |-> None]]
    /\ listed' = [listed EXCEPT ![l] = {}]
    /\ UNCHANGED <<job, container, malformed, unowned>>

-------------------------------------------------------------------------------
Cap(n, max) == IF n < max THEN n + 1 ELSE max

\* Time passes: for the observations, for the passes, for the unowned.
Tick ==
    /\ \A l \in Leaders : At(l, "idle") \/ pass[l].lag < PassTime
    /\ seen' = [l \in Leaders |-> [c \in Containers |->
          IF seen[l][c] = None THEN None ELSE Cap(seen[l][c], Grace + PassTime)]]
    /\ pass' = [l \in Leaders |->
          IF At(l, "idle") THEN pass[l] ELSE [pass[l] EXCEPT !.lag = @ + 1]]
    /\ unowned' = [c \in Containers |->
          IF container[c] # "up" \/ Owned(c) THEN 0 ELSE Cap(unowned[c], Grace)]
    /\ <<seen', pass', unowned'>> # <<seen, pass, unowned>>
    /\ UNCHANGED <<job, container, malformed, listed, faults>>

JobStep(j) ==
    \/ Claim(j) \/ Cancel(j) \/ Recover(j) \/ WorkerEnds(j)
    \/ DispatcherFinalizes(j)

PassStep(l) ==
    \/ StartPass(l)
    \/ Inventory(l) \/ InventoryFails(l)
    \/ \E c \in Containers : \/ Examine(l, c) \/ LookupFails(l, c)
                             \/ Reap(l, c) \/ ReapFails(l, c)
    \/ FinishExamination(l)
    \/ \E j \in Jobs : FinalizeJob(l, j)
    \/ EndPass(l) \/ PassFails(l)

Next ==
    \/ \E j \in Jobs : JobStep(j)
    \/ \E c \in Containers : StartRuntime(c) \/ StopRuntime(c)
    \/ \E l \in Leaders : PassStep(l) \/ Restart(l)
    \/ Tick

Spec == Init /\ [][Next]_vars

(* The reconciler's interval keeps ticking, every call of a pass returns one  *)
(* way or the other, the stream delivers the messages of queued jobs, and     *)
(* time passes.  Workers, claims and cancellations owe nothing.               *)
Fairness ==
    /\ WF_vars(Tick)
    /\ \A l \in Leaders : WF_vars(PassStep(l))
    /\ \A j \in Jobs : WF_vars(DispatcherFinalizes(j))

FairSpec == Spec /\ Fairness

-------------------------------------------------------------------------------
(* Properties.                                                             *)

\* "Active resources with an exact matching persisted lease are always kept":
\* although the owner is looked up before the removal and the row may change in
\* between, no leader ever sets out to remove the container of a live lease.
OwnerKept == \A l \in Leaders : \A c \in pass[l].doomed : ~Owned(c)

\* The grace period: from the loss of its lease to its removal a container is
\* left alone for the grace, less the time that the pass which first saw it had
\* been running.  Failed lookups and restarts only make it longer.
GraceKept ==
    \A l \in Leaders : \A c \in pass[l].doomed :
        container[c] = "up" => unowned[c] + PassTime >= Grace

\* A job is finalized without its worker only after every container of it that
\* the inventory of that pass had seen is gone: "cleanup" is not claimed early.
FinalizedAfterCleanup ==
    [][\A l \in Leaders, j \in Jobs :
          (At(l, "finalize") /\ Closing(j) /\ job'[j].state = "ended"
              /\ pass'[l].todo = pass[l].todo \ {j} /\ j \in pass[l].todo)
            => \A c \in listed[l] : JobOf(c) = j => container[c] = "gone"]_vars

\* An abandoned container is removed in the end, past restarts, failed lookups
\* and failed removals, unless a malformed one blocks every inventory.
AbandonedReaped ==
    \A c \in Containers :
        (~malformed /\ container[c] = "up" /\ ~Owned(c)) ~> container[c] = "gone"

\* A job without a lease that is being closed ends, unless a malformed container
\* blocks every inventory.
ClosingEnds ==
    \A j \in Jobs : (~malformed /\ LeaseFree(j)) ~> job[j].state = "ended"

\* What the documentation says: "Runtime inventory or deletion errors [...] do
\* not prevent independent [...] cancellation [...] work from progressing."
CancellationProgresses ==
    \A j \in Jobs :
        (job[j].state = "cancelling" /\ job[j].lease = NoLease)
            ~> job[j].state = "ended"
=============================================================================
