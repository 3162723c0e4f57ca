-------------------------- MODULE JobStoreRefinement --------------------------
(***************************************************************************)
(* JobStore implements JobContract.  A row's phase is read off its lease   *)
(* and its state; heartbeats, progress reports, evidence, snapshots,       *)
(* finalizer steps and abandoned passes are all stuttering.                *)
(***************************************************************************)
EXTENDS JobStore

PhaseOf(row) ==
    IF row.lease # NoLease THEN "running"
    ELSE CASE row.state = "absent" -> "absent"
           [] row.state = "queued" -> "waiting"
           [] Terminal(row.state) -> "ended"
           [] OTHER -> "closing"

DeadJobs == {j \in Jobs : \E n \in 1 .. MaxRunAttempts : DeadKey(j, n) \in outbox}

\* The contract's variables, read off the tables.
phase == [j \in Jobs |-> PhaseOf(jobs[j])]
verdict == [j \in Jobs |-> jobs[j].pending]
tries == [j \in Jobs |-> jobs[j].attempts]

Contract == INSTANCE JobContract WITH
    MaxTries <- MaxRunAttempts, dead <- DeadJobs

\* Whatever the API, the workers and any number of overlapping leaders do, the
\* tables show only what the contract allows: one owner at a time, one outcome,
\* bounded retries, a dead letter exactly for the jobs that were given up.
ImplementsContract == Contract!Spec
===============================================================================
