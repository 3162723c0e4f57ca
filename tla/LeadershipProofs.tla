--------------------------- MODULE LeadershipProofs ---------------------------
(***************************************************************************)
(* WorkUnderLock of Leadership, for any number of instances and faults.    *)
(***************************************************************************)
EXTENDS Leadership, TLAPS

\* An instance that may start processing without asking again.
Engaged(i) == mode[i] = "starting" \/ AtWork(i)

\* The inductive strengthening: the lock covers the start-up too, and only the
\* phases of run_leader_cycle process.
IInv ==
    /\ TypeOK
    /\ \A i \in Instances :
          /\ Engaged(i) => lock = i \/ i \in lost
          /\ AtWork(i) => mode[i] \in {"leading", "stopping"}

\* At first nobody is engaged.
LEMMA IInvInit == Init => IInv
BY DEF Init, IInv, TypeOK, Mode, Engaged, AtWork

\* Types are kept by every action.
LEMMA TypeStep == TypeOK /\ [Next]_vars => TypeOK'
<1> SUFFICES ASSUME TypeOK, [Next]_vars PROVE TypeOK'
  OBVIOUS
<1>1. ASSUME NEW i \in Instances, Supervisor(i) PROVE TypeOK'
  BY <1>1 DEF TypeOK, Mode, Supervisor, TryAcquire, StartLeading, HealthTick,
     NoticeShutdown, StopTasks, StopControl, StopTimesOut, DropHandlers, Release,
     leftVars
<1>2. ASSUME NEW i \in Instances, Environment(i) PROVE TypeOK'
  <2>a. faults \in Nat /\ (Fault => faults' \in Nat)
    BY DEF TypeOK, Fault
  <2>1. CASE StartFails(i)
    BY <2>a, <2>1 DEF TypeOK, Mode, StartFails, leftVars
  <2>2. CASE TaskExits(i)
    BY <2>a, <2>2 DEF TypeOK, Mode, TaskExits, leftVars
  <2>3. CASE SessionLost(i)
    BY <2>a, <2>3 DEF TypeOK, SessionLost, leftVars
  <2>4. CASE ControlExits(i)
    BY <2>a, <2>4 DEF TypeOK, ControlExits, DropHandlers
  <2>5. CASE RequestShutdown(i)
    BY <2>a, <2>5 DEF TypeOK, RequestShutdown, leftVars
  <2>6. CASE Crash(i)
    BY <2>a, <2>6 DEF TypeOK, Mode, Crash
  <2>7. CASE Restart(i)
    BY <2>7 DEF TypeOK, Mode, Restart, leftVars
  <2>8. CASE AcquireFails(i)
    BY <2>a, <2>8 DEF TypeOK, AcquireFails, leftVars
  <2>9. CASE ReleaseFails(i)
    BY <2>a, <2>9 DEF TypeOK, Mode, ReleaseFails, leftVars
  <2> QED BY <1>2, <2>1, <2>2, <2>3, <2>4, <2>5, <2>6, <2>7, <2>8, <2>9
          DEF Environment
<1>3. CASE OrphanEnds
  BY <1>3 DEF OrphanEnds, TypeOK, leftVars
<1>4. ASSUME NEW i \in Instances, DetachedEnds(i) \/ AbortedEnd(i) PROVE TypeOK'
  BY <1>4 DEF DetachedEnds, AbortedEnd, DropHandlers, TypeOK
<1>5. CASE UNCHANGED vars
  BY <1>5 DEF vars, leftVars, TypeOK
<1> QED BY <1>1, <1>2, <1>3, <1>4, <1>5 DEF Next

\* The lock, or its loss, covers every engaged instance after every step.
LEMMA IInvStep == IInv /\ [Next]_vars => IInv'
<1> SUFFICES ASSUME IInv, [Next]_vars PROVE IInv'
  OBVIOUS
<1>a. TypeOK /\ TypeOK'
  BY TypeStep DEF IInv
<1> DEFINE Cover(k) == /\ Engaged(k) => lock = k \/ k \in lost
                       /\ AtWork(k) => mode[k] \in {"leading", "stopping"}
<1>b. \A k \in Instances : Cover(k)
  BY DEF IInv
<1>c. SUFFICES ASSUME NEW k \in Instances PROVE Cover(k)'
  BY <1>a DEF IInv
<1> USE InstancesAssumption
<1>1. ASSUME NEW i \in Instances, Supervisor(i) PROVE Cover(k)'
  <2>1. CASE TryAcquire(i)
    BY <1>a, <1>b, <2>1 DEF TypeOK, TryAcquire, Engaged, AtWork
  <2>2. CASE StartLeading(i)
    BY <1>a, <1>b, <2>2 DEF TypeOK, StartLeading, Engaged, AtWork
  <2>3. CASE HealthTick(i)
    BY <1>a, <1>b, <2>3 DEF TypeOK, HealthTick, Engaged, AtWork
  <2>4. CASE NoticeShutdown(i)
    BY <1>a, <1>b, <2>4 DEF TypeOK, NoticeShutdown, Engaged, AtWork
  <2>5. CASE StopTasks(i)
    BY <1>a, <1>b, <2>5 DEF TypeOK, StopTasks, Engaged, AtWork
  <2>6. CASE StopControl(i)
    BY <1>a, <1>b, <2>6 DEF TypeOK, StopControl, Engaged, AtWork
  <2>7. CASE Release(i)
    BY <1>a, <1>b, <2>7 DEF TypeOK, Release, Engaged, AtWork
  <2>8. CASE StopTimesOut(i)
    BY <1>a, <1>b, <2>8 DEF TypeOK, StopTimesOut, Engaged, AtWork
  <2> QED BY <1>1, <2>1, <2>2, <2>3, <2>4, <2>5, <2>6, <2>7, <2>8 DEF Supervisor
<1>2. ASSUME NEW i \in Instances, Environment(i) PROVE Cover(k)'
  <2>1. CASE StartFails(i)
    BY <1>a, <1>b, <2>1 DEF TypeOK, StartFails, Engaged, AtWork
  <2>2. CASE TaskExits(i)
    BY <1>a, <1>b, <2>2 DEF TypeOK, TaskExits, Engaged, AtWork
  <2>3. CASE SessionLost(i)
    BY <1>a, <1>b, <2>3 DEF TypeOK, SessionLost, Engaged, AtWork
  <2>4. CASE ControlExits(i)
    BY <1>a, <1>b, <2>4 DEF TypeOK, ControlExits, Engaged, AtWork
  <2>5. CASE RequestShutdown(i)
    BY <1>a, <1>b, <2>5 DEF TypeOK, RequestShutdown, Engaged, AtWork
  <2>6. CASE Crash(i)
    BY <1>a, <1>b, <2>6 DEF TypeOK, Crash, Engaged, AtWork
  <2>7. CASE Restart(i)
    BY <1>a, <1>b, <2>7 DEF TypeOK, Restart, Engaged, AtWork
  <2>8. CASE AcquireFails(i)
    BY <1>a, <1>b, <2>8 DEF TypeOK, AcquireFails, Engaged, AtWork
  <2>9. CASE ReleaseFails(i)
    BY <1>a, <1>b, <2>9 DEF TypeOK, ReleaseFails, Engaged, AtWork
  <2> QED BY <1>2, <2>1, <2>2, <2>3, <2>4, <2>5, <2>6, <2>7, <2>8, <2>9
          DEF Environment
<1>3. CASE OrphanEnds
  BY <1>a, <1>b, <1>3 DEF OrphanEnds, Engaged, AtWork
<1>4. ASSUME NEW i \in Instances, DetachedEnds(i) \/ AbortedEnd(i)
      PROVE  Cover(k)'
  BY <1>b, <1>4 DEF DetachedEnds, AbortedEnd, Engaged, AtWork
<1>5. CASE UNCHANGED vars
  BY <1>b, <1>5 DEF vars, Engaged, AtWork
<1> QED BY <1>1, <1>2, <1>3, <1>4, <1>5 DEF Next

\* An instance processes only under the advisory lock, or after the server ended
\* its session, or with control-plane work of an ended cycle that was told to
\* stop: run_leader_cycle releases when its tasks are joined and it has given up
\* or finished waiting for the subscription loop.
THEOREM WorkAlwaysUnderLock == Spec => []WorkUnderLock
<1>1. IInv => WorkUnderLock
  BY DEF IInv, Engaged, Processing, WorkUnderLock
<1> QED BY <1>1, IInvInit, IInvStep, PTL DEF Spec

===============================================================================
