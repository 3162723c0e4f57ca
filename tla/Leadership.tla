------------------------------ MODULE Leadership ------------------------------
(***************************************************************************)
(* Active/passive scheduler leadership: the session-level PostgreSQL       *)
(* advisory lock of crates/scheduler/src/leader.rs and the supervisor that *)
(* runs the leader's tasks under it, crates/scheduler/src/service.rs.      *)
(*                                                                         *)
(* The lock belongs to a database session, the tasks to a process; the two *)
(* end independently.  A session can end at the server while its process   *)
(* still works, and a process can die while the server still keeps its     *)
(* session.  The dispatcher, advisory and reconciler tasks live and die    *)
(* together and are one Boolean; the subscription loop of the worker       *)
(* control plane is another.                                               *)
(*                                                                         *)
(* run_leader_cycle waits for its tasks, but not for all of the control    *)
(* plane: the wait for the loop has a timeout, after which the loop is     *)
(* nobody's, and a loop that returns aborts its request handlers without   *)
(* joining them.  Both can outlive the cycle and its lock.                 *)
(***************************************************************************)
EXTENDS Naturals, FiniteSets

CONSTANTS
    Instances,   \* scheduler processes
    NoInstance,  \* the lock is free
    Orphan,      \* the lock is held by a session whose process has gone
    MaxFaults    \* bound on faults and shutdowns, for model checking only

ASSUME InstancesAssumption ==
    NoInstance \notin Instances /\ Orphan \notin Instances /\ NoInstance # Orphan

ASSUME FaultsAssumption == MaxFaults \in Nat

VARIABLES
    lock,      \* whose session the server lets hold the advisory lock
    mode,      \* where each process is in run_leadership_supervisor
    tasks,     \* are its dispatcher, advisory and reconciler tasks running?
    control,   \* is the subscription loop of its control plane running?
    detached,  \* instances with a loop whose shutdown timed out
    aborted,   \* instances with aborted handlers that still run
    shutdown,  \* has it received a shutdown signal?
    lost,      \* ghost: leaders whose session the server ended under them
    faults     \* faults so far

leftVars == <<detached, aborted>>

vars == <<lock, mode, tasks, control, leftVars, shutdown, lost, faults>>

Mode == {"standby", "starting", "leading", "stopping", "down"}

\* The work of the current cycle of run_leader_cycle.
AtWork(i) == tasks[i] \/ control[i]

\* Control-plane work of an earlier cycle: told to stop, and awaited by nobody.
LeftOver(i) == i \in detached \cup aborted

\* An instance that acts on jobs, messages or workers.
Processing(i) == AtWork(i) \/ LeftOver(i)

Fault == faults < MaxFaults /\ faults' = faults + 1

Init ==
    /\ lock = NoInstance
    /\ mode = [i \in Instances |-> "standby"]
    /\ tasks = [i \in Instances |-> FALSE]
    /\ control = [i \in Instances |-> FALSE]
    /\ detached = {}
    /\ aborted = {}
    /\ shutdown = [i \in Instances |-> FALSE]
    /\ lost = {}
    /\ faults = 0

-------------------------------------------------------------------------------
(* The supervisor of one instance.                                         *)

\* try_acquire on a new session; when it is refused the standby just retries.
TryAcquire(i) ==
    /\ mode[i] = "standby"
    /\ ~shutdown[i]
    /\ lock = NoInstance
    /\ lock' = i
    /\ mode' = [mode EXCEPT ![i] = "starting"]
    /\ UNCHANGED <<tasks, control, leftVars, shutdown, lost, faults>>

\* The connection breaks after the server granted the lock: the attempt counts
\* as failed, and the session holds the lock until the server notices.
AcquireFails(i) ==
    /\ mode[i] = "standby"
    /\ ~shutdown[i]
    /\ lock = NoInstance
    /\ Fault
    /\ lock' = Orphan
    /\ UNCHANGED <<mode, tasks, control, leftVars, shutdown, lost>>

\* run_leader_cycle: the control plane subscribes, then the tasks are spawned.
StartLeading(i) ==
    /\ mode[i] = "starting"
    /\ mode' = [mode EXCEPT ![i] = "leading"]
    /\ control' = [control EXCEPT ![i] = TRUE]
    /\ tasks' = [tasks EXCEPT ![i] = TRUE]
    /\ UNCHANGED <<lock, leftVars, shutdown, lost, faults>>

\* The subscription fails: the guard is dropped with its connection, and the
\* server frees the lock when it sees that.
StartFails(i) ==
    /\ mode[i] = "starting"
    /\ Fault
    /\ mode' = [mode EXCEPT ![i] = "standby"]
    /\ lock' = IF lock = i THEN Orphan ELSE lock
    /\ lost' = lost \ {i}
    /\ UNCHANGED <<tasks, control, leftVars, shutdown>>

\* Fault: a session that answers is taken for one that holds the lock.
FaultNoLockCheck(i) ==
    /\ mode[i] = "leading"
    /\ ~control[i]
    /\ mode' = [mode EXCEPT ![i] = "stopping"]
    /\ UNCHANGED <<lock, tasks, control, leftVars, shutdown, lost, faults>>

\* Once a second is_held asks the server; a lost lock, or a control plane that
\* has finished, ends the cycle.
HealthTick(i) ==
    /\ mode[i] = "leading"
    /\ lock # i \/ ~control[i]
    /\ mode' = [mode EXCEPT ![i] = "stopping"]
    /\ UNCHANGED <<lock, tasks, control, leftVars, shutdown, lost, faults>>

\* A task exits or panics (join_next returns), or is_held gets no answer.
TaskExits(i) ==
    /\ mode[i] = "leading"
    /\ Fault
    /\ mode' = [mode EXCEPT ![i] = "stopping"]
    /\ UNCHANGED <<lock, tasks, control, leftVars, shutdown, lost>>

NoticeShutdown(i) ==
    /\ shutdown[i]
    /\ mode[i] \in {"leading", "standby"}
    /\ mode' = [mode EXCEPT ![i] = IF @ = "leading" THEN "stopping" ELSE "down"]
    /\ UNCHANGED <<lock, tasks, control, leftVars, shutdown, lost, faults>>

\* The end of run_leader_cycle, in its order: tasks aborted and joined, ...
StopTasks(i) ==
    /\ mode[i] = "stopping"
    /\ tasks[i]
    /\ tasks' = [tasks EXCEPT ![i] = FALSE]
    /\ UNCHANGED <<lock, mode, control, leftVars, shutdown, lost, faults>>

\* A loop that returns drops the JoinSet of its handlers: those under way are
\* aborted, which takes effect at their next await, and not joined.
DropHandlers(i) == aborted' \in {aborted, aborted \cup {i}}

\* ... then the control plane told to shut down and its loop awaited, ...
StopControl(i) ==
    /\ mode[i] = "stopping"
    /\ ~tasks[i]
    /\ control[i]
    /\ control' = [control EXCEPT ![i] = FALSE]
    /\ DropHandlers(i)
    /\ UNCHANGED <<lock, mode, tasks, detached, shutdown, lost, faults>>

\* ... but no longer than CONTROL_SHUTDOWN_TIMEOUT: the future that owns the
\* loop's JoinHandle is dropped, which detaches the loop and aborts nothing, ...
StopTimesOut(i) ==
    /\ mode[i] = "stopping"
    /\ ~tasks[i]
    /\ control[i]
    /\ control' = [control EXCEPT ![i] = FALSE]
    /\ detached' = detached \cup {i}
    /\ UNCHANGED <<lock, mode, tasks, aborted, shutdown, lost, faults>>

\* Fault: the lock is given back as soon as the tasks are stopped.
FaultReleaseEarly(i) ==
    /\ mode[i] = "stopping"
    /\ ~tasks[i]
    /\ lock' = IF lock = i THEN NoInstance ELSE lock
    /\ mode' = [mode EXCEPT ![i] = IF control[i] THEN @ ELSE "standby"]
    /\ UNCHANGED <<tasks, control, leftVars, shutdown, lost, faults>>

\* ... and only then the lock released, if the session still has it.
Release(i) ==
    /\ mode[i] = "stopping"
    /\ ~AtWork(i)
    /\ lock' = IF lock = i THEN NoInstance ELSE lock
    /\ mode' = [mode EXCEPT ![i] = "standby"]
    /\ lost' = lost \ {i}
    /\ UNCHANGED <<tasks, control, leftVars, shutdown, faults>>

\* pg_advisory_unlock fails: the connection is dropped all the same.
ReleaseFails(i) ==
    /\ mode[i] = "stopping"
    /\ ~AtWork(i)
    /\ Fault
    /\ lock' = IF lock = i THEN Orphan ELSE lock
    /\ mode' = [mode EXCEPT ![i] = "standby"]
    /\ lost' = lost \ {i}
    /\ UNCHANGED <<tasks, control, leftVars, shutdown>>

\* A detached loop finds that it was told to shut down.
DetachedEnds(i) ==
    /\ i \in detached
    /\ detached' = detached \ {i}
    /\ DropHandlers(i)
    /\ UNCHANGED <<lock, mode, tasks, control, shutdown, lost, faults>>

\* Aborted handlers reach an await.
AbortedEnd(i) ==
    /\ i \in aborted
    /\ aborted' = aborted \ {i}
    /\ UNCHANGED <<lock, mode, tasks, control, detached, shutdown, lost, faults>>

-------------------------------------------------------------------------------
(* What happens to instances and their sessions.                           *)

\* The server ends a leader's session; the process does not know yet.
SessionLost(i) ==
    /\ lock = i
    /\ Fault
    /\ lock' = NoInstance
    /\ lost' = lost \cup {i}
    /\ UNCHANGED <<mode, tasks, control, leftVars, shutdown>>

\* A subscription closes and the control plane's task returns.
ControlExits(i) ==
    /\ control[i]
    /\ mode[i] = "leading"
    /\ Fault
    /\ control' = [control EXCEPT ![i] = FALSE]
    /\ DropHandlers(i)
    /\ UNCHANGED <<lock, mode, tasks, detached, shutdown, lost>>

RequestShutdown(i) ==
    /\ ~shutdown[i]
    /\ mode[i] # "down"
    /\ Fault
    /\ shutdown' = [shutdown EXCEPT ![i] = TRUE]
    /\ UNCHANGED <<lock, mode, tasks, control, leftVars, lost>>

\* The process dies with its tasks; its session outlives it for a while.
Crash(i) ==
    /\ mode[i] # "down"
    /\ Fault
    /\ mode' = [mode EXCEPT ![i] = "down"]
    /\ tasks' = [tasks EXCEPT ![i] = FALSE]
    /\ control' = [control EXCEPT ![i] = FALSE]
    /\ lock' = IF lock = i THEN Orphan ELSE lock
    /\ lost' = lost \ {i}
    /\ detached' = detached \ {i}
    /\ aborted' = aborted \ {i}
    /\ UNCHANGED shutdown

\* A new process, after the old one has exited with all that was left in it.
Restart(i) ==
    /\ mode[i] = "down"
    /\ ~LeftOver(i)
    /\ mode' = [mode EXCEPT ![i] = "standby"]
    /\ shutdown' = [shutdown EXCEPT ![i] = FALSE]
    /\ UNCHANGED <<lock, tasks, control, leftVars, lost, faults>>

\* The server notices a closed connection.
OrphanEnds ==
    /\ lock = Orphan
    /\ lock' = NoInstance
    /\ UNCHANGED <<mode, tasks, control, leftVars, shutdown, lost, faults>>

\* The supervisor's own steps.
Supervisor(i) ==
    \/ TryAcquire(i) \/ StartLeading(i) \/ HealthTick(i) \/ NoticeShutdown(i)
    \/ StopTasks(i) \/ StopControl(i) \/ StopTimesOut(i) \/ Release(i)

Environment(i) ==
    \/ AcquireFails(i) \/ StartFails(i) \/ ReleaseFails(i) \/ TaskExits(i)
    \/ SessionLost(i) \/ ControlExits(i) \/ RequestShutdown(i)
    \/ Crash(i) \/ Restart(i)

Next ==
    \/ OrphanEnds
    \/ \E i \in Instances :
          Supervisor(i) \/ Environment(i) \/ DetachedEnds(i) \/ AbortedEnd(i)

\* The supervisor's timers (health tick, standby retry, shutdown timeout) always
\* fire; a loop that was told to shut down sees it and an aborted handler comes
\* to an await; the server always notices a closed connection.  No fault, and no
\* restart, is ever promised.
Fairness ==
    /\ WF_vars(OrphanEnds)
    /\ \A i \in Instances :
          /\ WF_vars(Supervisor(i))
          /\ WF_vars(DetachedEnds(i))
          /\ WF_vars(AbortedEnd(i))

Spec == Init /\ [][Next]_vars /\ Fairness

-------------------------------------------------------------------------------
(* Properties.                                                             *)

\* The supervisor of every instance is in a known place.
TypeOK ==
    /\ lock \in Instances \cup {NoInstance, Orphan}
    /\ mode \in [Instances -> Mode]
    /\ tasks \in [Instances -> BOOLEAN]
    /\ control \in [Instances -> BOOLEAN]
    /\ detached \subseteq Instances
    /\ aborted \subseteq Instances
    /\ shutdown \in [Instances -> BOOLEAN]
    /\ lost \subseteq Instances
    /\ faults \in Nat

\* Work is done under the lock, with two exceptions: a leader whose session the
\* server ended, until its next health tick, and control-plane work of an ended
\* cycle that run_leader_cycle did not wait for.  No shutdown, task failure,
\* failed start, failed release, crash or restart adds a third, and the
\* dispatcher, advisory and reconciler tasks never are part of the second.
WorkUnderLock ==
    \A i \in Instances :
        Processing(i) =>
            \/ lock = i
            \/ i \in lost
            \/ LeftOver(i) /\ ~AtWork(i)

\* "Losing the database session or lock stops leader-owned processing before
\* another instance can take over": a leader that lost its session and another
\* instance do not process at once.
OneProcessor ==
    \A i \in lost, k \in Instances : Processing(i) /\ Processing(k) => i = k

\* Whatever happened, the system settles: for ever one instance leads and holds
\* the lock and nobody else processes, unless every instance has gone down or
\* is on its way.
Settles ==
    <>[]( \/ \E i \in Instances :
                /\ lock = i /\ mode[i] = "leading" /\ tasks[i] /\ control[i]
                /\ \A k \in Instances \ {i} : ~Processing(k)
          \/ \A i \in Instances : mode[i] = "down" )
===============================================================================
