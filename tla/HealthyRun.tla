------------------------------ MODULE HealthyRun ------------------------------
(***************************************************************************)
(* JobStore when nothing goes wrong: no worker leaves, no operator         *)
(* interferes, nobody cancels, and every registered worker presents all its*)
(* leases in a heartbeat at every instant of time.  The scheduler's loops  *)
(* run as they always do.  What is left to chance is how long the worker   *)
(* stays in each state and when it reports its result.                     *)
(***************************************************************************)
EXTENDS JobStore

\* Time passes only once every worker has sent this instant's heartbeat.
HealthyTick ==
    /\ \A w \in Workers : workers[w].state # "absent" => workers[w].beat = clock
    /\ Tick

\* The worker knows an outcome only once its tests have run.
HealthyWorker(w) ==
    \/ /\ workers[w].state = "absent"
       /\ \E c \in Capacities : RegisterWorker(w, c)
    \/ \E c \in Capacities : Heartbeat(w, Jobs, c)
    \/ \E j \in Jobs, l \in 1 .. MaxRunAttempts, to \in JobState,
          pending \in WorkerOutcomes \cup {NoOutcome}, done \in WorkerEvidence :
            /\ pending # NoOutcome => to \notin RunningState \ {"debug_available"}
            /\ WorkerTransition(j, w, l, to, [pending |-> pending, done |-> done])
    \/ \E j \in Jobs, l \in 1 .. MaxRunAttempts, outcome \in WorkerOutcomes,
          done \in WorkerEvidence :
            /\ jobs[j].state \in {"running_tests", "debug_available"}
                                  \cup FinalizingState
            /\ RecordResult(j, w, l, outcome, done)

HealthyNext ==
    \/ \E j \in Jobs : CreateJob(j)
    \/ \E w \in Workers : HealthyWorker(w)
    \/ \E leader \in Leaders : LeaderStep(leader)
    \/ HealthyTick

HealthySpec == Init /\ [][HealthyNext]_vars

-------------------------------------------------------------------------------
(* Properties.                                                             *)

\* While a worker heartbeats in time and has not reported an outcome, recovery
\* never takes its job, however long the run lasts and whenever the reconciler
\* reads and writes.
HeartbeatProtects ==
    [][\A j \in Jobs :
        (jobs[j].lease # NoLease /\ jobs'[j].lease = NoLease
            /\ ~Terminal(jobs'[j].state))
          => jobs[j].pending # NoOutcome]_vars

\* "heartbeat-extends the lease for the job's duration (no spurious redelivery
\* on a healthy run)": the job is delivered once.
NoSpuriousRedelivery == \A j \in Jobs : jobs[j].attempts <= 1
===============================================================================
