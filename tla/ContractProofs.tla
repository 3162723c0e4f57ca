---------------------------- MODULE ContractProofs ----------------------------
(***************************************************************************)
(* What the job store promises, for every set of jobs, workers, leaders and*)
(* projects and every limit: capacity and quotas are accounted, a punctual *)
(* worker keeps its job, the event log and the webhooks follow the state,  *)
(* verdicts are the latest attempt's, and the store implements JobContract.*)
(***************************************************************************)
EXTENDS HealthyRun, JobStoreRefinement, JobStoreProofs, FiniteSetTheorems

-------------------------------------------------------------------------------
(* Capacity and quotas.  A step leaves what is counted as it was, creates  *)
(* a job, claims one, or gives one back; the four cases are settled with   *)
(* the cardinality of a set that gains or loses one element.               *)

LiveRow(row) == row.state # "absent" /\ ~Terminal(row.state)

\* The row counts for the same worker and quotas as before.
SameCount(old, new) ==
    /\ LiveRow(new) <=> LiveRow(old)
    /\ new.worker = old.worker
    /\ LiveRow(old) => new.lease = old.lease

\* Reservations are untouched and covered by the capacity if they were.
ReservationsKept ==
    \A w \in Workers :
        /\ workers'[w].active = workers[w].active
        /\ workers[w].active <= workers[w].capacity
              => workers'[w].active <= workers'[w].capacity

\* A step of one of the four kinds.
Keeps ==
    /\ \A i \in Jobs : SameCount(jobs[i], jobs'[i])
    /\ ReservationsKept

Gives(j) ==
    /\ LiveRow(jobs[j])
    /\ LiveRow(jobs'[j]) => jobs'[j].worker = NoWorker /\ jobs'[j].lease = NoLease
    /\ \A i \in Jobs \ {j} : jobs'[i] = jobs[i]
    /\ workers' = ReleaseCapacity(workers, jobs[j].worker)

Accounts ==
    \/ Keeps
    \/ \E j \in Jobs : CreateJob(j)
    \/ \E j \in Jobs, w \in Workers, now \in SchedulerClock : ClaimJob(j, w, now)
    \/ \E j \in Jobs : Gives(j)

\* Nothing that is counted changes when both tables stay.
LEMMA TablesStay ==
    ASSUME jobs' = jobs, workers' = workers
    PROVE  Accounts
BY DEF Accounts, Keeps, SameCount, ReservationsKept

\* One row changes and counts as before, and no worker row changes.
LEMMA RowKeeps ==
    ASSUME Shape, NEW j \in Jobs, NEW row, jobs' = [jobs EXCEPT ![j] = row],
           SameCount(jobs[j], row), workers' = workers
    PROVE  Accounts
<1>1. \A i \in Jobs : jobs'[i] = IF i = j THEN row ELSE jobs[i]
  BY DEF Shape, TypeOK
<1>2. \A i \in Jobs : SameCount(jobs[i], jobs'[i])
  BY <1>1 DEF SameCount
<1> QED BY <1>2 DEF Accounts, Keeps, ReservationsKept

\* transition_job_state gives the job back exactly when it ends it.
LEMMA TransitionAccounts ==
    ASSUME Shape, NEW j \in Jobs, NEW n, NEW to,
           NEW evidence, Transition(j, n, to, evidence)
    PROVE  Accounts
<1> DEFINE row == jobs[j]
           new == TransitionedRow(row, to, evidence)
<1>1. row \in JobRow
  BY DEF Shape, TypeOK
<1>2. /\ ValidTransition(row.state, to, evidence)
      /\ jobs' = [jobs EXCEPT ![j] = new]
      /\ workers' = IF Terminal(to) THEN ReleaseCapacity(workers, row.worker)
                                    ELSE workers
  BY DEF Transition
<1>3. LiveRow(row)
  BY <1>2 DEF LiveRow, Terminal, ValidTransition, ForwardEdge, EarlyOutcomeAllowed,
     Outcome
<1>4. to # "absent"
  BY <1>2, ValidTarget DEF RunningState, FinalizingState, Outcome
<1>5. /\ new.state = to /\ new.worker = row.worker
      /\ ~Terminal(to) => new.lease = row.lease
  BY <1>1 DEF TransitionedRow, JobRow
<1> HIDE DEF new
<1>6. CASE Terminal(to)
  <2>1. Gives(j)
    BY <1>2, <1>3, <1>5, <1>6 DEF Gives, LiveRow, Shape, TypeOK
  <2> QED BY <2>1 DEF Accounts
<1>7. CASE ~Terminal(to)
  <2>1. SameCount(row, new)
    BY <1>3, <1>4, <1>5, <1>7 DEF SameCount, LiveRow
  <2> QED BY <1>2, <1>7, <2>1, RowKeeps
<1> QED BY <1>6, <1>7

\* recover_stale_job gives the job back, whichever disposition it chooses.
LEMMA RecoverAccounts ==
    ASSUME Shape, NEW x \in stale, NEW new, Recover(x, new),
           new.worker = NoWorker, new.lease = NoLease
    PROVE  Accounts
<1>1. x.job \in Jobs /\ x.lease # NoLease
  BY DEF Shape, TypeOK, StaleJob
<1>2. /\ jobs' = [jobs EXCEPT ![x.job] = new]
      /\ workers' = ReleaseCapacity(workers, jobs[x.job].worker)
      /\ jobs[x.job].lease # NoLease
  BY <1>1 DEF Recover, StillStale
<1>3. RowShape(jobs[x.job])
  BY <1>1 DEF Shape, RowsConsistent
<1>4. LiveRow(jobs[x.job])
  BY <1>2, <1>3 DEF RowShape, LiveRow
<1>5. Gives(x.job)
  BY <1>1, <1>2, <1>4 DEF Gives, Shape, TypeOK
<1> QED BY <1>1, <1>5 DEF Accounts

\* Every step is of one of the four kinds.
LEMMA EveryStepAccounts ==
    ASSUME Shape, [Next]_vars
    PROVE  Accounts
<1>t. jobs \in [Jobs -> JobRow] /\ workers \in [Workers -> WorkerRow]
  BY DEF Shape, TypeOK
<1>1. ASSUME NEW j \in Jobs, ApiStep(j) PROVE Accounts
  <2>1. CASE CreateJob(j)
    BY <2>1 DEF Accounts
  <2>2. CASE CancelJob(j)
    <3> DEFINE row == [jobs[j] EXCEPT !.state = "collecting_artifacts",
                                      !.pending = "cancelled"]
    <3>1. jobs[j] \in JobRow
      BY <1>t
    <3>2. LiveRow(jobs[j]) /\ workers' = workers
      BY <2>2 DEF CancelJob, Live, LiveRow
    <3>3. SameCount(jobs[j], row)
      BY <3>1, <3>2 DEF SameCount, LiveRow, JobRow, Terminal, Outcome
    <3>4. jobs' = [jobs EXCEPT ![j] = row]
      BY <2>2, <1>t DEF CancelJob, JobRow
    <3> HIDE DEF row
    <3> QED BY <3>2, <3>3, <3>4, RowKeeps
  <2> QED BY <1>1, <2>1, <2>2 DEF ApiStep
<1>2. ASSUME NEW w \in Workers, WorkerStep(w) PROVE Accounts
  <2>1. ASSUME NEW c \in Capacities, RegisterWorker(w, c) PROVE Accounts
    <3>1. jobs' = jobs /\ workers[w].active <= c
      BY <2>1 DEF RegisterWorker
    <3>2. \A v \in Workers :
             /\ workers'[v].active = workers[v].active
             /\ workers'[v].capacity = IF v = w THEN c ELSE workers[v].capacity
      BY <2>1, <1>t DEF RegisterWorker
    <3> QED BY <3>1, <3>2 DEF Accounts, Keeps, SameCount, ReservationsKept
  <2>2. ASSUME NEW s, SetWorkerState(w, s) PROVE Accounts
    <3>1. jobs' = jobs
      BY <2>2 DEF SetWorkerState
    <3>2. \A v \in Workers : /\ workers'[v].active = workers[v].active
                             /\ workers'[v].capacity = workers[v].capacity
      BY <2>2, <1>t DEF SetWorkerState, WorkerRow
    <3> QED BY <3>1, <3>2 DEF Accounts, Keeps, SameCount, ReservationsKept
  <2>3. ASSUME NEW presented, NEW c \in Capacities, Heartbeat(w, presented, c)
        PROVE  Accounts
    <3>1. workers[w].active <= c
      BY <2>3 DEF Heartbeat
    <3>2. \A v \in Workers :
             /\ workers'[v].active = workers[v].active
             /\ workers'[v].capacity = IF v = w THEN c ELSE workers[v].capacity
      BY <2>3, <1>t DEF Heartbeat, WorkerRow
    <3>3. ASSUME NEW i \in Jobs PROVE SameCount(jobs[i], jobs'[i])
      <4>1. jobs'[i] = IF i \in presented /\ Extends(w, i)
                       THEN [jobs[i] EXCEPT !.expires = clock + LeaseTtl]
                       ELSE jobs[i]
        BY <2>3 DEF Heartbeat
      <4>2. jobs[i] \in JobRow
        BY <1>t
      <4>3. /\ jobs'[i].state = jobs[i].state
            /\ jobs'[i].worker = jobs[i].worker
            /\ jobs'[i].lease = jobs[i].lease
        BY <4>1, <4>2 DEF JobRow
      <4> QED BY <4>3 DEF SameCount, LiveRow
    <3> QED BY <3>1, <3>2, <3>3 DEF Accounts, Keeps, ReservationsKept
  <2>4. ASSUME NEW j \in Jobs, NEW l, NEW to, NEW evidence,
               WorkerTransition(j, w, l, to, evidence)
        PROVE  Accounts
    BY <2>4, TransitionAccounts DEF WorkerTransition
  <2>5. ASSUME NEW j \in Jobs, NEW l, NEW outcome, NEW done,
               RecordResult(j, w, l, outcome, done)
        PROVE  Accounts
    <3> DEFINE row == [jobs[j] EXCEPT !.pending = outcome,
                                      !.done = jobs[j].done \cup done]
    <3>1. jobs[j] \in JobRow
      BY <1>t
    <3>2. jobs' = [jobs EXCEPT ![j] = row] /\ workers' = workers
      BY <2>5 DEF RecordResult
    <3>3. SameCount(jobs[j], row)
      BY <3>1 DEF SameCount, LiveRow, JobRow
    <3> HIDE DEF row
    <3> QED BY <3>2, <3>3, RowKeeps
  <2> QED BY <1>2, <2>1, <2>2, <2>3, <2>4, <2>5 DEF WorkerStep
<1>3. ASSUME NEW leader \in Leaders, LeaderStep(leader) PROVE Accounts
  <2>1. ASSUME NEW j \in Jobs, NEW w \in Workers, NEW now \in SchedulerClock,
               ClaimJob(j, w, now)
        PROVE  Accounts
    BY <2>1 DEF Accounts
  <2>2. ASSUME NEW x \in stale, RecoverRequeue(x) PROVE Accounts
    <3>1. jobs[x.job] \in JobRow
      BY <1>t DEF Shape, TypeOK, StaleJob
    <3>2. RequeuedRow(jobs[x.job]).worker = NoWorker
          /\ RequeuedRow(jobs[x.job]).lease = NoLease
      BY <3>1 DEF RequeuedRow, JobRow
    <3> QED BY <2>2, <3>2, RecoverAccounts DEF RecoverRequeue
  <2>3. ASSUME NEW x \in stale, RecoverCancelling(x) \/ RecoverExhausted(x)
        PROVE  Accounts
    <3>1. jobs[x.job] \in JobRow
      BY <1>t DEF Shape, TypeOK, StaleJob
    <3>2. \A outcome : /\ ClosedRow(jobs[x.job], outcome).worker = NoWorker
                       /\ ClosedRow(jobs[x.job], outcome).lease = NoLease
      BY <3>1 DEF ClosedRow, JobRow
    <3> QED BY <2>3, <3>2, RecoverAccounts DEF RecoverCancelling, RecoverExhausted
  <2>4. ASSUME NEW f \in fin, FinalizeArtifacts(f) \/ FinalizeCleanup(f)
        PROVE  Accounts
    <3>1. f.job \in Jobs
      BY DEF Shape, TypeOK, Finalization
    <3> QED BY <2>4, <3>1, TransitionAccounts DEF FinalizeArtifacts, FinalizeCleanup
  <2>5. ASSUME NEW f \in fin, FinalizeDeadLetter(f) \/ FinalizeLost(f)
        PROVE  Accounts
    BY <2>5, TablesStay DEF FinalizeDeadLetter, FinalizeLost
  <2>6. ASSUME NEW x \in stale, LostRace(x) PROVE Accounts
    BY <2>6, TablesStay DEF LostRace
  <2>7. ASSUME NEW now, FindStaleJobs(leader, now) PROVE Accounts
    BY <2>7, TablesStay DEF FindStaleJobs
  <2>8. ASSUME NEW task, NEW j, BeginFinalize(leader, task, j) PROVE Accounts
    BY <2>8, TablesStay DEF BeginFinalize
  <2>9. CASE Abandon(leader)
    BY <2>9, TablesStay DEF Abandon
  <2> QED BY <1>3, <2>1, <2>2, <2>3, <2>4, <2>5, <2>6, <2>7, <2>8, <2>9
          DEF LeaderStep
<1>4. CASE Tick \/ UNCHANGED vars
  BY <1>4, TablesStay DEF Tick, vars
<1> QED BY <1>1, <1>2, <1>3, <1>4 DEF Next

-------------------------------------------------------------------------------
(* Counting.                                                               *)

\* Every set that is counted is a finite set of jobs.
LEMMA CountedFinite ==
    /\ \A w \in Workers : IsFiniteSet(HeldBy(w)) /\ Cardinality(HeldBy(w)) \in Nat
    /\ \A p \in Projects :
          /\ IsFiniteSet(Outstanding(p)) /\ Cardinality(Outstanding(p)) \in Nat
          /\ IsFiniteSet(Running(p)) /\ Cardinality(Running(p)) \in Nat
<1>1. \A S \in SUBSET Jobs : IsFiniteSet(S) /\ Cardinality(S) \in Nat
  BY IdAssumption, FS_Subset, FS_CardinalityType
<1>2. \A w \in Workers : HeldBy(w) \in SUBSET Jobs
  BY DEF HeldBy
<1>3. \A p \in Projects : Outstanding(p) \in SUBSET Jobs /\ Running(p) \in SUBSET Jobs
  BY DEF Outstanding, Running
<1> QED BY <1>1, <1>2, <1>3

\* What is counted before and after a step, by the rows alone.
LEMMA CountedRows ==
    /\ \A w \in Workers :
          /\ HeldBy(w) \subseteq Jobs /\ HeldBy(w)' \subseteq Jobs
          /\ \A i \in Jobs :
                /\ i \in HeldBy(w) <=> LiveRow(jobs[i]) /\ jobs[i].worker = w
                /\ i \in HeldBy(w)' <=> LiveRow(jobs'[i]) /\ jobs'[i].worker = w
    /\ \A p \in Projects :
          /\ Outstanding(p) \subseteq Jobs /\ Outstanding(p)' \subseteq Jobs
          /\ Running(p) \subseteq Jobs /\ Running(p)' \subseteq Jobs
          /\ \A i \in Jobs :
                /\ i \in Outstanding(p) <=> LiveRow(jobs[i]) /\ ProjectOf[i] = p
                /\ i \in Outstanding(p)' <=> LiveRow(jobs'[i]) /\ ProjectOf[i] = p
                /\ i \in Running(p) <=> /\ LiveRow(jobs[i]) /\ ProjectOf[i] = p
                                        /\ jobs[i].lease # NoLease
                /\ i \in Running(p)' <=> /\ LiveRow(jobs'[i]) /\ ProjectOf[i] = p
                                         /\ jobs'[i].lease # NoLease
BY DEF HeldBy, Outstanding, Running, Live, LiveRow

\* A set that does not grow keeps under its limit.
LEMMA SmallerCounts ==
    ASSUME NEW S, NEW T, IsFiniteSet(S), T \subseteq S
    PROVE  Cardinality(T) <= Cardinality(S) /\ Cardinality(T) \in Nat
BY FS_Subset, FS_CardinalityType

Accounted == Shape /\ CapacityAccounted /\ QuotasRespected

\* Creating a job adds it to its project, which had room, and to no worker.
LEMMA CreateCounts ==
    ASSUME Accounted, NEW j \in Jobs, CreateJob(j)
    PROVE  CapacityAccounted' /\ QuotasRespected'
<1>1. /\ jobs[j].state = "absent" /\ workers' = workers
      /\ Cardinality(Outstanding(ProjectOf[j])) < MaxOutstanding[ProjectOf[j]]
      /\ jobs' = [jobs EXCEPT ![j].state = "queued"]
  BY DEF CreateJob
<1>2. jobs \in [Jobs -> JobRow] /\ RowShape(jobs[j])
  BY DEF Accounted, Shape, TypeOK, RowsConsistent
<1>3. jobs[j].worker = NoWorker /\ jobs[j].lease = NoLease /\ ~LiveRow(jobs[j])
  BY <1>1, <1>2 DEF RowShape, LiveRow
<1>4. /\ jobs'[j].worker = NoWorker /\ jobs'[j].lease = NoLease /\ LiveRow(jobs'[j])
      /\ \A i \in Jobs : i # j => jobs'[i] = jobs[i]
  BY <1>1, <1>2, <1>3 DEF JobRow, LiveRow, Terminal, Outcome
<1>5. \A w \in Workers : HeldBy(w)' = HeldBy(w)
  <2> TAKE w \in Workers
  <2>1. \A i \in Jobs : i \in HeldBy(w)' <=> i \in HeldBy(w)
    BY <1>3, <1>4, CountedRows, IdAssumption
  <2> QED BY <2>1, CountedRows
<1>6. \A p \in Projects :
         /\ Running(p)' = Running(p)
         /\ p # ProjectOf[j] => Outstanding(p)' = Outstanding(p)
         /\ p = ProjectOf[j] => Outstanding(p)' = Outstanding(p) \cup {j}
  <2> TAKE p \in Projects
  <2>1. \A i \in Jobs : i \in Running(p)' <=> i \in Running(p)
    BY <1>3, <1>4, CountedRows
  <2>2. \A i \in Jobs : i \in Outstanding(p)' <=> \/ i \in Outstanding(p)
                                                  \/ i = j /\ p = ProjectOf[j]
    BY <1>3, <1>4, CountedRows
  <2>3. /\ Outstanding(p) \subseteq Jobs /\ Outstanding(p)' \subseteq Jobs
        /\ Running(p) \subseteq Jobs /\ Running(p)' \subseteq Jobs
    BY CountedRows
  <2>4. Running(p)' = Running(p)
    BY <2>1, <2>3
  <2>5. p # ProjectOf[j] => Outstanding(p)' = Outstanding(p)
    BY <2>2, <2>3
  <2>6. p = ProjectOf[j] => Outstanding(p)' = Outstanding(p) \cup {j}
    BY <2>2, <2>3
  <2> QED BY <2>4, <2>5, <2>6
<1>7. CapacityAccounted'
  BY <1>1, <1>5 DEF Accounted, CapacityAccounted
<1>8. ASSUME NEW p \in Projects
      PROVE  /\ Cardinality(Outstanding(p)') <= MaxOutstanding[p]
             /\ Cardinality(Running(p)') <= MaxConcurrent[p]
  <2>1. /\ Cardinality(Outstanding(p)) \in Nat /\ IsFiniteSet(Outstanding(p))
        /\ MaxOutstanding[p] \in Nat
    BY CountedFinite, LimitAssumption
  <2>2. CASE p # ProjectOf[j]
    BY <1>6, <2>2 DEF Accounted, QuotasRespected
  <2>3. CASE p = ProjectOf[j]
    <3>1. j \notin Outstanding(p)
      BY <1>3, CountedRows
    <3>2. Cardinality(Outstanding(p) \cup {j}) = Cardinality(Outstanding(p)) + 1
      BY <2>1, <3>1, FS_AddElement
    <3>3. Cardinality(Outstanding(p)) < MaxOutstanding[p]
      BY <1>1, <2>3, Zenon
    <3>4. Outstanding(p)' = Outstanding(p) \cup {j}
      BY <1>6, <2>3
    <3>5. Cardinality(Outstanding(p)') <= MaxOutstanding[p]
      BY <2>1, <3>2, <3>3, <3>4
    <3> QED BY <1>6, <3>5 DEF Accounted, QuotasRespected
  <2> QED BY <2>2, <2>3
<1>9. QuotasRespected'
  BY <1>8 DEF QuotasRespected
<1> QED BY <1>7, <1>9

\* A claim adds the job to its worker and to the running jobs of its project;
\* validate_worker_match and the quota check left room for one more.
LEMMA ClaimCounts ==
    ASSUME Accounted, NEW j \in Jobs, NEW w \in Workers, NEW now \in SchedulerClock,
           ClaimJob(j, w, now)
    PROVE  CapacityAccounted' /\ QuotasRespected'
<1>1. /\ jobs[j].state = "queued" /\ jobs[j].lease = NoLease
      /\ jobs[j].worker = NoWorker
      /\ Cardinality(Running(ProjectOf[j])) < MaxConcurrent[ProjectOf[j]]
      /\ workers[w].active < workers[w].capacity
      /\ workers' = [workers EXCEPT ![w].active = @ + 1]
      /\ jobs' = [jobs EXCEPT ![j].state = "claimed",
                              ![j].worker = w,
                              ![j].lease = jobs[j].attempts + 1,
                              ![j].expires = now + LeaseTtl,
                              ![j].attempts = @ + 1]
  BY DEF ClaimJob, QuotaFree, WorkerMatches
<1>2. /\ jobs \in [Jobs -> JobRow] /\ workers \in [Workers -> WorkerRow]
      /\ LiveRow(jobs[j])
  BY <1>1 DEF Accounted, Shape, TypeOK, LiveRow, Terminal, Outcome
<1>3. /\ jobs'[j].worker = w /\ jobs'[j].state = "claimed"
      /\ \A i \in Jobs : i # j => jobs'[i] = jobs[i]
  BY <1>1, <1>2 DEF JobRow
<1>4. jobs'[j].lease # NoLease
  <2>1. jobs[j].attempts \in Nat
    BY <1>2 DEF JobRow
  <2>2. jobs'[j].lease = jobs[j].attempts + 1
    BY <1>1, <1>2 DEF JobRow
  <2> QED BY <2>1, <2>2 DEF NoLease
<1>5. LiveRow(jobs'[j])
  BY <1>3 DEF LiveRow, Terminal, Outcome
<1>6. /\ HeldBy(w)' = HeldBy(w) \cup {j}
      /\ \A v \in Workers : v # w => HeldBy(v)' = HeldBy(v)
      /\ j \notin HeldBy(w)
  <2>1. \A v \in Workers, i \in Jobs :
           i \in HeldBy(v)' <=> i \in HeldBy(v) \/ (i = j /\ v = w)
    <3> TAKE v \in Workers, i \in Jobs
    <3>1. CASE i # j
      BY <1>3, <3>1, CountedRows
    <3>2. CASE i = j
      <4>1. v # NoWorker /\ jobs[j].worker = NoWorker
        BY <1>1, IdAssumption
      <4>2. ~(i \in HeldBy(v))
        BY <3>2, <4>1, CountedRows
      <4>3. i \in HeldBy(v)' <=> v = w
        BY <1>3, <1>5, <3>2, CountedRows
      <4> QED BY <3>2, <4>2, <4>3
    <3> QED BY <3>1, <3>2
  <2>2. \A v \in Workers : HeldBy(v) \subseteq Jobs /\ HeldBy(v)' \subseteq Jobs
    BY CountedRows
  <2>3. HeldBy(w)' = HeldBy(w) \cup {j}
    BY <2>1, <2>2
  <2>4. \A v \in Workers : v # w => HeldBy(v)' = HeldBy(v)
    BY <2>1, <2>2
  <2>5. j \notin HeldBy(w)
    BY <1>1, CountedRows, IdAssumption
  <2> QED BY <2>3, <2>4, <2>5
<1>7. \A p \in Projects :
         /\ Outstanding(p)' = Outstanding(p)
         /\ p # ProjectOf[j] => Running(p)' = Running(p)
         /\ p = ProjectOf[j] => Running(p)' = Running(p) \cup {j}
         /\ j \notin Running(p)
  <2> TAKE p \in Projects
  <2>1. \A i \in Jobs : i \in Outstanding(p)' <=> i \in Outstanding(p)
    BY <1>2, <1>3, <1>5, CountedRows
  <2>2. \A i \in Jobs : i \in Running(p)' <=> \/ i \in Running(p)
                                              \/ i = j /\ p = ProjectOf[j]
    <3> TAKE i \in Jobs
    <3>1. CASE i # j
      BY <1>3, <3>1, CountedRows
    <3>2. CASE i = j
      <4>1. ~(i \in Running(p))
        BY <1>1, <3>2, CountedRows
      <4>2. i \in Running(p)' <=> p = ProjectOf[j]
        BY <1>4, <1>5, <3>2, CountedRows
      <4> QED BY <3>2, <4>1, <4>2
    <3> QED BY <3>1, <3>2
  <2>3. /\ Outstanding(p) \subseteq Jobs /\ Outstanding(p)' \subseteq Jobs
        /\ Running(p) \subseteq Jobs /\ Running(p)' \subseteq Jobs
    BY CountedRows
  <2>4. Outstanding(p)' = Outstanding(p)
    BY <2>1, <2>3
  <2>5. p # ProjectOf[j] => Running(p)' = Running(p)
    BY <2>2, <2>3
  <2>6. p = ProjectOf[j] => Running(p)' = Running(p) \cup {j}
    BY <2>2, <2>3
  <2>7. j \notin Running(p)
    BY <1>1, CountedRows
  <2> QED BY <2>4, <2>5, <2>6, <2>7
<1>8. ASSUME NEW v \in Workers
      PROVE  /\ workers'[v].active = Cardinality(HeldBy(v)')
             /\ workers'[v].active <= workers'[v].capacity
  <2>1. /\ workers[v].active = Cardinality(HeldBy(v))
        /\ workers[v].active <= workers[v].capacity
        /\ IsFiniteSet(HeldBy(v)) /\ Cardinality(HeldBy(v)) \in Nat
        /\ workers[v] \in WorkerRow
    BY <1>2, CountedFinite DEF Accounted, CapacityAccounted
  <2>2. CASE v # w
    BY <1>1, <1>2, <1>6, <2>1, <2>2
  <2>3. CASE v = w
    <3>1. workers'[v].active = workers[v].active + 1
          /\ workers'[v].capacity = workers[v].capacity
      BY <1>1, <1>2, <2>1, <2>3 DEF WorkerRow
    <3>2. Cardinality(HeldBy(v) \cup {j}) = Cardinality(HeldBy(v)) + 1
      BY <1>6, <2>1, <2>3, FS_AddElement
    <3>3. workers[v].active \in Nat /\ workers[v].capacity \in Nat
      BY <2>1 DEF WorkerRow
    <3>4. HeldBy(v)' = HeldBy(v) \cup {j}
      BY <1>6, <2>3
    <3>5. workers[v].active < workers[v].capacity
      BY <1>1, <2>3
    <3> QED BY <2>1, <3>1, <3>2, <3>3, <3>4, <3>5
  <2> QED BY <2>2, <2>3
<1>9. ASSUME NEW p \in Projects
      PROVE  /\ Cardinality(Outstanding(p)') <= MaxOutstanding[p]
             /\ Cardinality(Running(p)') <= MaxConcurrent[p]
  <2>1. /\ Cardinality(Running(p)) \in Nat /\ IsFiniteSet(Running(p))
        /\ MaxConcurrent[p] \in Nat
    BY CountedFinite, LimitAssumption
  <2>2. CASE p # ProjectOf[j]
    BY <1>7, <2>2 DEF Accounted, QuotasRespected
  <2>3. CASE p = ProjectOf[j]
    <3>1. Cardinality(Running(p) \cup {j}) = Cardinality(Running(p)) + 1
      BY <1>7, <2>1, FS_AddElement
    <3>2. Cardinality(Running(p)) < MaxConcurrent[p]
      BY <1>1, <2>3, Zenon
    <3>3. Running(p)' = Running(p) \cup {j}
      BY <1>7, <2>3
    <3>4. Cardinality(Running(p)') <= MaxConcurrent[p]
      BY <2>1, <3>1, <3>2, <3>3
    <3> QED BY <1>7, <3>4 DEF Accounted, QuotasRespected
  <2> QED BY <2>2, <2>3
<1> QED BY <1>8, <1>9 DEF CapacityAccounted, QuotasRespected

\* A step that leaves every row counted as it was leaves every count.
LEMMA KeepCounts ==
    ASSUME Accounted, Keeps
    PROVE  CapacityAccounted' /\ QuotasRespected'
<1>1. \A w \in Workers : HeldBy(w)' = HeldBy(w)
  <2> TAKE w \in Workers
  <2>1. \A i \in Jobs : i \in HeldBy(w)' <=> i \in HeldBy(w)
    BY CountedRows DEF Keeps, SameCount
  <2> QED BY <2>1, CountedRows
<1>2. \A p \in Projects : Outstanding(p)' = Outstanding(p) /\ Running(p)' = Running(p)
  <2> TAKE p \in Projects
  <2>1. \A i \in Jobs : i \in Outstanding(p)' <=> i \in Outstanding(p)
    BY CountedRows DEF Keeps, SameCount
  <2>2. \A i \in Jobs : i \in Running(p)' <=> i \in Running(p)
    BY CountedRows DEF Keeps, SameCount
  <2>3. /\ Outstanding(p) \subseteq Jobs /\ Outstanding(p)' \subseteq Jobs
        /\ Running(p) \subseteq Jobs /\ Running(p)' \subseteq Jobs
    BY CountedRows
  <2>4. Outstanding(p)' = Outstanding(p)
    BY <2>1, <2>3
  <2>5. Running(p)' = Running(p)
    BY <2>2, <2>3
  <2> QED BY <2>4, <2>5
<1> QED BY <1>1, <1>2
        DEF Keeps, ReservationsKept, Accounted, CapacityAccounted, QuotasRespected

\* Giving a job back takes one from its worker's count, which is not zero: the
\* GREATEST of release_worker_capacity never hides anything.
LEMMA GiveCounts ==
    ASSUME Accounted, NEW j \in Jobs, Gives(j)
    PROVE  CapacityAccounted' /\ QuotasRespected'
<1> DEFINE w == jobs[j].worker
<1>1. /\ LiveRow(jobs[j])
      /\ LiveRow(jobs'[j]) => jobs'[j].worker = NoWorker /\ jobs'[j].lease = NoLease
      /\ \A i \in Jobs : i # j => jobs'[i] = jobs[i]
      /\ workers' = ReleaseCapacity(workers, w)
  BY DEF Gives
<1>2. workers \in [Workers -> WorkerRow] /\ w \in Workers \cup {NoWorker}
  BY DEF Accounted, Shape, TypeOK, JobRow
<1>3. \A v \in Workers : HeldBy(v)' = HeldBy(v) \ {j}
  BY <1>1, CountedRows, IdAssumption
<1>4. \A v \in Workers : j \in HeldBy(v) <=> v = w
  BY <1>1, CountedRows
<1>5. \A p \in Projects : Outstanding(p)' \subseteq Outstanding(p)
                          /\ Running(p)' \subseteq Running(p)
  BY <1>1, CountedRows
<1>6. ASSUME NEW v \in Workers
      PROVE  /\ workers'[v].active = Cardinality(HeldBy(v)')
             /\ workers'[v].active <= workers'[v].capacity
  <2>1. /\ workers[v].active = Cardinality(HeldBy(v))
        /\ workers[v].active <= workers[v].capacity
        /\ IsFiniteSet(HeldBy(v)) /\ Cardinality(HeldBy(v)) \in Nat
        /\ workers[v] \in WorkerRow
    BY <1>2, CountedFinite DEF Accounted, CapacityAccounted
  <2>2. Cardinality(HeldBy(v) \ {j}) =
          IF v = w THEN Cardinality(HeldBy(v)) - 1 ELSE Cardinality(HeldBy(v))
    BY <1>4, <2>1, FS_RemoveElement
  <2>3. Cardinality(HeldBy(v) \ {j}) \in Nat
    BY <2>1, FS_RemoveElement, FS_CardinalityType
  <2>4. workers[v].capacity \in Nat
    BY <2>1 DEF WorkerRow
  <2> HIDE DEF w
  <2>5. CASE v # w
    <3>1. workers'[v] = workers[v]
      BY <1>1, <1>2, <2>5 DEF ReleaseCapacity
    <3> QED BY <1>3, <2>1, <2>2, <2>5, <3>1
  <2>6. CASE v = w
    <3>1. v # NoWorker
      BY IdAssumption
    <3>2. /\ workers'[v].active = IF workers[v].active > 0
                                  THEN workers[v].active - 1 ELSE 0
          /\ workers'[v].capacity = workers[v].capacity
      BY <1>1, <1>2, <2>1, <2>6, <3>1 DEF ReleaseCapacity, WorkerRow
    <3> QED BY <1>3, <2>1, <2>2, <2>3, <2>4, <2>6, <3>2
  <2> QED BY <2>5, <2>6
<1>7. ASSUME NEW p \in Projects
      PROVE  /\ Cardinality(Outstanding(p)') <= MaxOutstanding[p]
             /\ Cardinality(Running(p)') <= MaxConcurrent[p]
  <2>1. /\ Cardinality(Outstanding(p)') <= Cardinality(Outstanding(p))
        /\ Cardinality(Outstanding(p)') \in Nat
        /\ Cardinality(Running(p)') <= Cardinality(Running(p))
        /\ Cardinality(Running(p)') \in Nat
    BY <1>5, CountedFinite, SmallerCounts
  <2>2. /\ Cardinality(Outstanding(p)) <= MaxOutstanding[p]
        /\ Cardinality(Running(p)) <= MaxConcurrent[p]
        /\ Cardinality(Outstanding(p)) \in Nat /\ Cardinality(Running(p)) \in Nat
        /\ MaxOutstanding[p] \in Nat /\ MaxConcurrent[p] \in Nat
    BY CountedFinite, LimitAssumption DEF Accounted, QuotasRespected
  <2> QED BY <2>1, <2>2
<1> QED BY <1>6, <1>7 DEF CapacityAccounted, QuotasRespected

\* Together with the shape of the rows, capacity and quotas are inductive.
THEOREM AccountedInvariant == Spec => []Accounted
<1>1. Init => Accounted
  <2> SUFFICES ASSUME Init PROVE CapacityAccounted /\ QuotasRespected
    BY ShapeInit DEF Accounted
  <2>1. \A i \in Jobs : ~LiveRow(jobs[i])
    BY DEF Init, AbsentJob, LiveRow
  <2>2. /\ \A w \in Workers : HeldBy(w) = {}
        /\ \A p \in Projects : Outstanding(p) = {} /\ Running(p) = {}
    BY <2>1, CountedRows
  <2>3. Cardinality({}) = 0
    BY FS_EmptySet
  <2>4. \A w \in Workers : workers[w].active = 0 /\ workers[w].capacity = 0
    BY DEF Init, AbsentWorker
  <2>5. \A p \in Projects : 0 <= MaxOutstanding[p] /\ 0 <= MaxConcurrent[p]
    BY LimitAssumption
  <2>6. CapacityAccounted
    BY <2>2, <2>3, <2>4 DEF CapacityAccounted
  <2>7. QuotasRespected
    BY <2>2, <2>3, <2>5 DEF QuotasRespected
  <2> QED BY <2>6, <2>7
<1>2. Accounted /\ [Next]_vars => Accounted'
  <2> SUFFICES ASSUME Accounted, [Next]_vars PROVE Accounted'
    OBVIOUS
  <2>1. Shape' /\ Accounts
    BY ShapeStep, EveryStepAccounts DEF Accounted
  <2>2. CapacityAccounted' /\ QuotasRespected'
    BY <2>1, CreateCounts, ClaimCounts, KeepCounts, GiveCounts DEF Accounts
  <2> QED BY <2>1, <2>2 DEF Accounted
<1> QED BY <1>1, <1>2, PTL DEF Spec

\* active_jobs is the number of live jobs a worker owns, within its capacity, so
\* claims, terminal transitions and recoveries never take or return a unit twice.
THEOREM CapacityAlwaysAccounted == Spec => []CapacityAccounted
BY AccountedInvariant, PTL DEF Accounted

\* No interleaving of admissions, claims and recoveries passes a project's
\* max_outstanding_jobs or max_concurrent_jobs.
THEOREM QuotasAlwaysRespected == Spec => []QuotasRespected
BY AccountedInvariant, PTL DEF Accounted

-------------------------------------------------------------------------------
(* A punctual worker.                                                      *)

\* No registered worker is more than one instant behind, and a lease whose run
\* has not reported lasts, up to the scheduler's skew, for LeaseTtl from its
\* worker's last heartbeat.
Punctual ==
    /\ \A w \in Workers :
          workers[w].state # "absent"
            => workers[w].beat <= clock /\ clock <= workers[w].beat + 1
    /\ \A j \in Jobs :
          jobs[j].lease # NoLease /\ jobs[j].pending = NoOutcome
            => /\ workers[jobs[j].worker].state # "absent"
               /\ jobs[j].expires + ClockSkew
                     >= workers[jobs[j].worker].beat + LeaseTtl

\* A healthy step is a step of the store.
LEMMA HealthyStep ==
    ASSUME [HealthyNext]_vars
    PROVE  [Next]_vars
<1>1. ASSUME NEW w \in Workers, HealthyWorker(w) PROVE WorkerStep(w)
  BY <1>1, Zenon DEF HealthyWorker, WorkerStep, HeartbeatReports
<1> QED BY <1>1 DEF HealthyNext, HealthyTick, Next, ApiStep

\* A row on which nothing but state, outcome and evidence may have moved while
\* its lease stayed.
Untouched(j) ==
    jobs'[j].lease # NoLease /\ jobs'[j].pending = NoOutcome
      => /\ jobs[j].lease # NoLease
         /\ jobs[j].pending = NoOutcome
         /\ jobs'[j].worker = jobs[j].worker
         /\ jobs'[j].expires = jobs[j].expires

\* A step that leaves the clock, the heartbeats and the leases alone keeps
\* everybody punctual.
LEMMA PunctualKept ==
    ASSUME Shape, Punctual, clock' = clock,
           \A w \in Workers : /\ workers'[w].state = workers[w].state
                              /\ workers'[w].beat = workers[w].beat,
           \A j \in Jobs : Untouched(j)
    PROVE  Punctual'
<1>1. \A j \in Jobs : jobs[j].lease # NoLease => jobs[j].worker \in Workers
  BY DEF Shape, TypeOK, RowsConsistent, RowShape, JobRow
<1> QED BY <1>1 DEF Punctual, Untouched

\* Giving capacity back touches neither a worker's state nor its heartbeat.
LEMMA ReleaseKeepsBeat ==
    ASSUME workers \in [Workers -> WorkerRow], NEW v \in Workers \cup {NoWorker},
           NEW w \in Workers
    PROVE  /\ ReleaseCapacity(workers, v)[w].state = workers[w].state
           /\ ReleaseCapacity(workers, v)[w].beat = workers[w].beat
BY DEF ReleaseCapacity, WorkerRow

\* transition_job_state leaves lease and expiry alone unless it ends the job.
LEMMA TransitionPunctual ==
    ASSUME Shape, Punctual, clock' = clock, NEW j \in Jobs, NEW n, NEW to,
           NEW evidence, Transition(j, n, to, evidence)
    PROVE  Punctual'
<1>1. jobs \in [Jobs -> JobRow] /\ workers \in [Workers -> WorkerRow]
  BY DEF Shape, TypeOK
<1>2. jobs[j].worker \in Workers \cup {NoWorker}
  BY <1>1 DEF JobRow
<1> DEFINE new == TransitionedRow(jobs[j], to, evidence)
<1>3. jobs' = [jobs EXCEPT ![j] = new]
  BY DEF Transition
<1>4. /\ new.worker = jobs[j].worker
      /\ new.lease # NoLease => /\ new.lease = jobs[j].lease
                                /\ new.expires = jobs[j].expires
      /\ new.pending = NoOutcome => jobs[j].pending = NoOutcome
  BY <1>1 DEF TransitionedRow, JobRow
<1>5. \A i \in Jobs : jobs'[i] = IF i = j THEN new ELSE jobs[i]
  BY <1>1, <1>3
<1> HIDE DEF new
<1>6. \A i \in Jobs : Untouched(i)
  BY <1>4, <1>5 DEF Untouched
<1>7. \A w \in Workers : /\ workers'[w].state = workers[w].state
                         /\ workers'[w].beat = workers[w].beat
  BY <1>1, <1>2, ReleaseKeepsBeat DEF Transition
<1> QED BY <1>6, <1>7, PunctualKept

\* Everybody stays punctual: a claim grants a lease from a clock that is at most
\* ClockSkew behind, and a heartbeat finds every unreported lease unexpired.
LEMMA PunctualStep ==
    ASSUME Shape, Punctual, [HealthyNext]_vars,
           StaleAfter > ClockSkew + 1, LeaseTtl > 2 * ClockSkew + 1
    PROVE  Punctual'
<1>1. /\ jobs \in [Jobs -> JobRow] /\ workers \in [Workers -> WorkerRow]
      /\ clock \in Nat
      /\ \A j \in Jobs : RowShape(jobs[j])
  BY DEF Shape, TypeOK, RowsConsistent
<1>2. \A j \in Jobs : /\ jobs[j].expires \in Nat
                      /\ jobs[j].lease # NoLease => jobs[j].worker \in Workers
  BY <1>1 DEF JobRow, RowShape
<1>3. \A w \in Workers : workers[w].beat \in Nat
  BY <1>1 DEF WorkerRow
<1>4. ClockSkew \in Nat /\ LeaseTtl \in Nat
  BY LimitAssumption
<1>s. ASSUME clock' = clock, jobs' = jobs, workers' = workers PROVE Punctual'
  BY <1>s, PunctualKept DEF Untouched
<1>5. ASSUME NEW j \in Jobs, CreateJob(j) PROVE Punctual'
  <2>1. jobs' = [jobs EXCEPT ![j].state = "queued"]
    BY <1>5 DEF CreateJob
  <2>2. \A i \in Jobs : Untouched(i)
    BY <1>1, <2>1 DEF Untouched, JobRow
  <2> QED BY <1>5, <2>2, PunctualKept DEF CreateJob
<1>6. ASSUME NEW w \in Workers, HealthyWorker(w) PROVE Punctual'
  <2>1. ASSUME NEW c \in Capacities, workers[w].state = "absent",
               RegisterWorker(w, c)
        PROVE  Punctual'
    <3>1. /\ jobs' = jobs /\ clock' = clock
          /\ workers'[w].beat = clock
          /\ \A v \in Workers \ {w} : workers'[v] = workers[v]
      BY <2>1, <1>1 DEF RegisterWorker
    <3>2. \A j \in Jobs : jobs[j].lease # NoLease /\ jobs[j].pending = NoOutcome
                            => jobs[j].worker \in Workers \ {w}
      BY <2>1, <1>2 DEF Punctual
    <3>3. \A v \in Workers :
             workers'[v].state # "absent"
               => workers'[v].beat <= clock /\ clock <= workers'[v].beat + 1
      BY <3>1, <1>1 DEF Punctual
    <3> QED BY <3>1, <3>2, <3>3 DEF Punctual
  <2>2. ASSUME NEW c \in Capacities, Heartbeat(w, Jobs, c) PROVE Punctual'
    <3>1. /\ clock' = clock
          /\ workers'[w].beat = clock
          /\ workers'[w].state = workers[w].state
          /\ workers[w].state # "absent"
          /\ \A v \in Workers \ {w} : workers'[v] = workers[v]
      BY <2>2, <1>1 DEF Heartbeat, WorkerRow
    <3>2. \A j \in Jobs : jobs'[j] = IF Extends(w, j)
                                     THEN [jobs[j] EXCEPT !.expires = clock + LeaseTtl]
                                     ELSE jobs[j]
      BY <2>2 DEF Heartbeat
    <3>3. \A v \in Workers :
             workers'[v].state # "absent"
               => workers'[v].beat <= clock /\ clock <= workers'[v].beat + 1
      BY <3>1, <1>1 DEF Punctual
    <3>4. ASSUME NEW j \in Jobs, jobs'[j].lease # NoLease,
                 jobs'[j].pending = NoOutcome
          PROVE  /\ workers'[jobs'[j].worker].state # "absent"
                 /\ jobs'[j].expires + ClockSkew
                       >= workers'[jobs'[j].worker].beat + LeaseTtl
      <4>1. /\ jobs[j].lease # NoLease /\ jobs[j].pending = NoOutcome
            /\ jobs'[j].worker = jobs[j].worker
            /\ jobs[j].worker \in Workers
        BY <3>2, <3>4, <1>1, <1>2 DEF JobRow
      <4>2. CASE jobs[j].worker # w
        <5>1. ~Extends(w, j)
          BY <4>2 DEF Extends
        <5> QED BY <5>1, <4>1, <4>2, <3>1, <3>2 DEF Punctual
      <4>3. CASE jobs[j].worker = w
        <5>1. jobs[j].expires > clock
          BY <4>1, <4>3, <3>1, <1>1, <1>2, <1>3, <1>4 DEF Punctual
        <5>2. Live(j)
          BY <4>1, <1>1 DEF Live, RowShape
        <5>3. jobs'[j].expires = clock + LeaseTtl
          BY <5>1, <5>2, <4>1, <4>3, <3>2, <1>1 DEF Extends, JobRow
        <5> QED BY <5>3, <4>1, <4>3, <3>1, <1>1, <1>4
      <4> QED BY <4>2, <4>3
    <3> QED BY <3>1, <3>3, <3>4 DEF Punctual
  <2>3. ASSUME NEW j \in Jobs, NEW l, NEW to, NEW evidence,
               WorkerTransition(j, w, l, to, evidence)
        PROVE  Punctual'
    BY <2>3, TransitionPunctual DEF WorkerTransition
  <2>4. ASSUME NEW j \in Jobs, NEW l, NEW outcome \in WorkerOutcomes, NEW done,
               RecordResult(j, w, l, outcome, done)
        PROVE  Punctual'
    <3>1. /\ jobs' = [jobs EXCEPT ![j] =
                        [jobs[j] EXCEPT !.pending = outcome, !.done = @ \cup done]]
          /\ workers' = workers /\ clock' = clock
      BY <2>4 DEF RecordResult
    <3>2. outcome # NoOutcome
      BY <2>4, IdAssumption DEF Outcome, NoOutcome
    <3>3. \A i \in Jobs : Untouched(i)
      BY <3>1, <3>2, <1>1 DEF Untouched, JobRow
    <3> QED BY <3>1, <3>3, PunctualKept
  <2> QED BY <1>6, <2>1, <2>2, <2>3, <2>4 DEF HealthyWorker
<1>7. ASSUME NEW leader \in Leaders, LeaderStep(leader) PROVE Punctual'
  <2>1. ASSUME NEW j \in Jobs, NEW w \in Workers, NEW now \in SchedulerClock,
               ClaimJob(j, w, now)
        PROVE  Punctual'
    <3> DEFINE new == [jobs[j] EXCEPT !.state = "claimed", !.worker = w,
                                      !.lease = jobs[j].attempts + 1,
                                      !.expires = now + LeaseTtl,
                                      !.attempts = @ + 1]
    <3>1. /\ jobs' = [jobs EXCEPT ![j] = new]
          /\ workers' = [workers EXCEPT ![w].active = @ + 1]
          /\ clock' = clock
          /\ workers[w].state = "online"
      BY <2>1, <1>1 DEF ClaimJob, WorkerMatches
    <3>2. new.worker = w /\ new.expires = now + LeaseTtl
      BY <1>1 DEF JobRow
    <3> HIDE DEF new
    <3>3. /\ jobs'[j] = new
          /\ \A i \in Jobs \ {j} : jobs'[i] = jobs[i]
          /\ \A v \in Workers : /\ workers'[v].state = workers[v].state
                                /\ workers'[v].beat = workers[v].beat
      BY <3>1, <1>1 DEF WorkerRow
    <3>4. workers[w].beat <= clock /\ now + ClockSkew >= clock /\ now \in Nat
      BY <3>1, <1>1, <1>4 DEF Punctual, SchedulerClock
    <3>5. new.expires + ClockSkew >= workers[w].beat + LeaseTtl
      BY <3>2, <3>4, <1>1, <1>3, <1>4
    <3>6. \A v \in Workers :
             workers'[v].state # "absent"
               => workers'[v].beat <= clock /\ clock <= workers'[v].beat + 1
      BY <3>3 DEF Punctual
    <3>7. \A i \in Jobs \ {j} :
             jobs'[i].lease # NoLease /\ jobs'[i].pending = NoOutcome
               => /\ workers'[jobs'[i].worker].state # "absent"
                  /\ jobs'[i].expires + ClockSkew
                        >= workers'[jobs'[i].worker].beat + LeaseTtl
      BY <3>3, <1>2 DEF Punctual
    <3> QED BY <3>1, <3>2, <3>3, <3>5, <3>6, <3>7 DEF Punctual
  <2>2. ASSUME NEW now, FindStaleJobs(leader, now) PROVE Punctual'
    BY <2>2, <1>s DEF FindStaleJobs
  <2>3. ASSUME NEW x \in stale, LostRace(x) PROVE Punctual'
    BY <2>3, <1>s DEF LostRace
  <2>4. ASSUME NEW x \in stale, RecoveryStep(x) PROVE Punctual'
    <3>1. /\ x.job \in Jobs
          /\ Recovered(jobs[x.job], jobs'[x.job])
          /\ \A i \in Jobs : i # x.job => jobs'[i] = jobs[i]
      BY <2>4, RecoveryRow
    <3>2. jobs'[x.job].lease = NoLease
      BY <3>1, <1>1, ZenonT(30) DEF Recovered, RequeuedRow, ClosedRow, JobRow
    <3>3. x.worker \in Workers
      BY DEF Shape, TypeOK, StaleJob
    <3>4. clock' = clock /\ workers' = ReleaseCapacity(workers, x.worker)
      BY <2>4 DEF RecoveryStep, RecoverRequeue, RecoverCancelling,
         RecoverExhausted, Recover
    <3>5. \A i \in Jobs : Untouched(i)
      BY <3>1, <3>2 DEF Untouched
    <3> QED BY <3>3, <3>4, <3>5, <1>1, ReleaseKeepsBeat, PunctualKept
  <2>5. ASSUME NEW task \in Task, NEW j \in Jobs, BeginFinalize(leader, task, j)
        PROVE  Punctual'
    BY <2>5, <1>s DEF BeginFinalize
  <2>6. ASSUME NEW f \in fin, FinalizeArtifacts(f) \/ FinalizeCleanup(f)
        PROVE  Punctual'
    <3>1. f.job \in Jobs
      BY DEF Shape, TypeOK, Finalization
    <3> QED BY <2>6, <3>1, TransitionPunctual DEF FinalizeArtifacts, FinalizeCleanup
  <2>7. ASSUME NEW f \in fin, FinalizeDeadLetter(f) \/ FinalizeLost(f)
        PROVE  Punctual'
    BY <2>7, <1>s DEF FinalizeDeadLetter, FinalizeLost
  <2>8. CASE Abandon(leader)
    BY <2>8, <1>s DEF Abandon
  <2> QED BY <1>7, <2>1, <2>2, <2>3, <2>4, <2>5, <2>6, <2>7, <2>8
          DEF LeaderStep, RecoveryStep
<1>8. CASE HealthyTick
  <2>1. jobs' = jobs /\ workers' = workers /\ clock' = clock + 1
    BY <1>8 DEF HealthyTick, Tick
  <2>2. \A w \in Workers : workers[w].state # "absent" => workers[w].beat = clock
    BY <1>8 DEF HealthyTick
  <2> QED BY <2>1, <2>2, <1>1 DEF Punctual
<1>9. CASE UNCHANGED vars
  BY <1>9, <1>s DEF vars
<1> QED BY <1>5, <1>6, <1>7, <1>8, <1>9 DEF HealthyNext

\* "heartbeat-extends the lease for the job's duration": the reconciler never
\* takes the job of a worker that heartbeats at every instant and has not
\* reported an outcome, provided that the staleness threshold exceeds one
\* interval plus the clock skew and the lease exceeds one interval plus twice
\* the skew.
THEOREM HeartbeatAlwaysProtects ==
    ASSUME StaleAfter > ClockSkew + 1, LeaseTtl > 2 * ClockSkew + 1
    PROVE  HealthySpec => HeartbeatProtects
<1> DEFINE Protects ==
        \A j \in Jobs :
          (jobs[j].lease # NoLease /\ jobs'[j].lease = NoLease
              /\ ~Terminal(jobs'[j].state))
            => jobs[j].pending # NoOutcome
           OnlyStale ==
        \A j \in Jobs :
          (jobs[j].lease # NoLease /\ jobs'[j].lease = NoLease
              /\ ~Terminal(jobs'[j].state))
            => \/ jobs[j].expires <= clock + ClockSkew
               \/ workers[jobs[j].worker].beat + StaleAfter <= clock + ClockSkew
<1>1. HealthySpec => Spec
  <2>1. [HealthyNext]_vars => [Next]_vars
    BY HealthyStep
  <2> QED BY <2>1, PTL DEF HealthySpec, Spec
<1>2. Init => Punctual
  BY DEF Init, Punctual, AbsentJob, AbsentWorker
<1>3. Shape /\ Punctual /\ [HealthyNext]_vars => Punctual'
  BY PunctualStep
<1>4. Shape /\ Punctual /\ [OnlyStale]_vars => [Protects]_vars
  <2> SUFFICES ASSUME Shape, Punctual, [OnlyStale]_vars, NEW j \in Jobs,
                      jobs[j].lease # NoLease, jobs'[j].lease = NoLease,
                      ~Terminal(jobs'[j].state), jobs[j].pending = NoOutcome
               PROVE  FALSE
    OBVIOUS
  <2>1. jobs' # jobs
    OBVIOUS
  <2>2. \/ jobs[j].expires <= clock + ClockSkew
        \/ workers[jobs[j].worker].beat + StaleAfter <= clock + ClockSkew
    BY <2>1 DEF vars
  <2>3. /\ jobs[j].expires \in Nat /\ jobs[j].worker \in Workers /\ clock \in Nat
    BY DEF Shape, TypeOK, RowsConsistent, RowShape, JobRow
  <2>4. workers[jobs[j].worker].beat \in Nat
    BY <2>3 DEF Shape, TypeOK, WorkerRow
  <2>5. /\ clock <= workers[jobs[j].worker].beat + 1
        /\ jobs[j].expires + ClockSkew >= workers[jobs[j].worker].beat + LeaseTtl
    BY <2>3 DEF Punctual
  <2> QED BY <2>2, <2>3, <2>4, <2>5, LimitAssumption
<1>5. Spec => [][OnlyStale]_vars
  BY RecoveryAlwaysStale DEF RecoveryOnlyWhenStale
<1> QED BY <1>1, <1>2, <1>3, <1>4, <1>5, ShapeInvariant, PTL
        DEF HealthySpec, HeartbeatProtects

-------------------------------------------------------------------------------
(* Followers of the event log.                                             *)

\* What the step tells about a job is the state it leaves the job in.
Told(i) ==
    \/ jobs'[i].state = jobs[i].state /\ log'[i] = log[i]
    \/ log'[i] = [last    |-> jobs'[i].state,
                  webhook |-> IF jobs'[i].state # jobs[i].state
                              THEN jobs'[i].state ELSE log[i].webhook]

\* append_event beside the write of one row tells that row's new state.
LEMMA RowTold ==
    ASSUME Shape, NEW j \in Jobs, NEW row, jobs' = [jobs EXCEPT ![j] = row],
           NEW changed \in BOOLEAN, AppendEvent(j, row.state, changed),
           changed <=> row.state # jobs[j].state,
           NEW i \in Jobs
    PROVE  Told(i)
<1>1. jobs'[i] = IF i = j THEN row ELSE jobs[i]
  BY DEF Shape, TypeOK
<1>2. log'[i] = IF i = j
                THEN [last |-> row.state,
                      webhook |-> IF changed THEN row.state ELSE log[i].webhook]
                ELSE log[i]
  BY DEF AppendEvent, Shape, TypeOK
<1> QED BY <1>1, <1>2 DEF Told

\* A transition, whoever asks for it, tells its target.
LEMMA TransitionTold ==
    ASSUME Shape, NEW j \in Jobs, NEW n, NEW to, NEW evidence,
           Transition(j, n, to, evidence), NEW i \in Jobs
    PROVE  Told(i)
<1> DEFINE row == TransitionedRow(jobs[j], to, evidence)
<1>1. /\ jobs' = [jobs EXCEPT ![j] = row]
      /\ AppendEvent(j, to, jobs[j].state # to)
  BY DEF Transition
<1>2. row.state = to
  BY DEF TransitionedRow, Shape, TypeOK, JobRow
<1> HIDE DEF row
<1> QED BY <1>1, <1>2, RowTold

\* Every step tells every job's state.
LEMMA EveryStepTold ==
    ASSUME Shape, [Next]_vars, NEW i \in Jobs
    PROVE  Told(i)
<1>t. jobs \in [Jobs -> JobRow]
  BY DEF Shape, TypeOK
<1>q. ASSUME jobs' = jobs, log' = log PROVE Told(i)
  BY <1>q DEF Told
<1>1. ASSUME NEW j \in Jobs, ApiStep(j) PROVE Told(i)
  <2>1. CASE CreateJob(j)
    <3> DEFINE row == [jobs[j] EXCEPT !.state = "queued"]
    <3>1. jobs' = [jobs EXCEPT ![j] = row] /\ row.state = "queued"
      BY <2>1, <1>t DEF CreateJob, JobRow
    <3>2. AppendEvent(j, "queued", TRUE) /\ jobs[j].state # "queued"
      BY <2>1 DEF CreateJob
    <3> HIDE DEF row
    <3> QED BY <3>1, <3>2, RowTold
  <2>2. CASE CancelJob(j)
    <3> DEFINE row == [jobs[j] EXCEPT !.state = "collecting_artifacts",
                                      !.pending = "cancelled"]
    <3>1. jobs' = [jobs EXCEPT ![j] = row] /\ row.state = "collecting_artifacts"
      BY <2>2, <1>t DEF CancelJob, JobRow
    <3>2. AppendEvent(j, "collecting_artifacts", jobs[j].state # "collecting_artifacts")
      BY <2>2 DEF CancelJob
    <3> HIDE DEF row
    <3> QED BY <3>1, <3>2, RowTold
  <2> QED BY <1>1, <2>1, <2>2 DEF ApiStep
<1>2. ASSUME NEW w \in Workers, WorkerStep(w) PROVE Told(i)
  <2>1. ASSUME NEW c \in Capacities, RegisterWorker(w, c) PROVE Told(i)
    BY <2>1, <1>q DEF RegisterWorker
  <2>2. ASSUME NEW st \in OperatorStates, SetWorkerState(w, st) PROVE Told(i)
    BY <2>2, <1>q DEF SetWorkerState
  <2>3. ASSUME NEW presented \in HeartbeatReports, NEW c \in Capacities,
               Heartbeat(w, presented, c)
        PROVE  Told(i)
    <3>1. jobs'[i].state = jobs[i].state
      BY <2>3, <1>t DEF Heartbeat, JobRow
    <3> QED BY <2>3, <3>1 DEF Heartbeat, Told
  <2>4. ASSUME NEW j \in Jobs, NEW l, NEW to, NEW evidence,
               WorkerTransition(j, w, l, to, evidence)
        PROVE  Told(i)
    BY <2>4, TransitionTold DEF WorkerTransition
  <2>5. ASSUME NEW j \in Jobs, NEW l, NEW outcome, NEW done,
               RecordResult(j, w, l, outcome, done)
        PROVE  Told(i)
    <3> DEFINE row == [jobs[j] EXCEPT !.pending = outcome,
                                      !.done = jobs[j].done \cup done]
    <3>1. jobs' = [jobs EXCEPT ![j] = row] /\ row.state = jobs[j].state
      BY <2>5, <1>t DEF RecordResult, JobRow
    <3>2. AppendEvent(j, jobs[j].state, FALSE)
      BY <2>5 DEF RecordResult
    <3> HIDE DEF row
    <3> QED BY <3>1, <3>2, RowTold
  <2> QED BY <1>2, <2>1, <2>2, <2>3, <2>4, <2>5 DEF WorkerStep
<1>3. ASSUME NEW leader \in Leaders, LeaderStep(leader) PROVE Told(i)
  <2>1. ASSUME NEW j \in Jobs, NEW w \in Workers, NEW now \in SchedulerClock,
               ClaimJob(j, w, now)
        PROVE  Told(i)
    <3> DEFINE row == [jobs[j] EXCEPT !.state = "claimed", !.worker = w,
                                      !.lease = jobs[j].attempts + 1,
                                      !.expires = now + LeaseTtl,
                                      !.attempts = jobs[j].attempts + 1]
    <3>1. jobs' = [jobs EXCEPT ![j] = row] /\ row.state = "claimed"
      BY <2>1, <1>t DEF ClaimJob, JobRow
    <3>2. AppendEvent(j, "claimed", TRUE) /\ jobs[j].state = "queued"
      BY <2>1 DEF ClaimJob
    <3> HIDE DEF row
    <3> QED BY <3>1, <3>2, RowTold
  <2>2. ASSUME NEW now \in SchedulerClock, FindStaleJobs(leader, now) PROVE Told(i)
    BY <2>2, <1>q DEF FindStaleJobs
  <2>3. ASSUME NEW x \in stale, LostRace(x) PROVE Told(i)
    BY <2>3, <1>q DEF LostRace
  <2>4. ASSUME NEW x \in stale, RecoveryStep(x) PROVE Told(i)
    <3>1. x.job \in Jobs
      BY DEF Shape, TypeOK, StaleJob
    <3>2. PICK row : Recover(x, row)
      BY <2>4 DEF RecoveryStep, RecoverRequeue, RecoverCancelling, RecoverExhausted
    <3>3. /\ jobs' = [jobs EXCEPT ![x.job] = row]
          /\ AppendEvent(x.job, row.state, row.state # jobs[x.job].state)
      BY <3>2 DEF Recover, StillStale
    <3> QED BY <3>1, <3>3, RowTold
  <2>5. ASSUME NEW task \in Task, NEW j \in Jobs, BeginFinalize(leader, task, j)
        PROVE  Told(i)
    BY <2>5, <1>q DEF BeginFinalize
  <2>6. ASSUME NEW f \in fin, FinalizeArtifacts(f) \/ FinalizeCleanup(f)
        PROVE  Told(i)
    <3>1. f.job \in Jobs
      BY DEF Shape, TypeOK, Finalization
    <3>2. \E n, to, evidence : Transition(f.job, n, to, evidence)
      BY <2>6, Zenon DEF FinalizeArtifacts, FinalizeCleanup
    <3> QED BY <3>1, <3>2, TransitionTold
  <2>7. ASSUME NEW f \in fin, FinalizeDeadLetter(f) \/ FinalizeLost(f) PROVE Told(i)
    BY <2>7, <1>q DEF FinalizeDeadLetter, FinalizeLost
  <2>8. CASE Abandon(leader)
    BY <2>8, <1>q DEF Abandon
  <2> QED BY <1>3, <2>1, <2>2, <2>3, <2>4, <2>5, <2>6, <2>7, <2>8
          DEF LeaderStep, RecoveryStep
<1>4. CASE Tick
  BY <1>4, <1>q DEF Tick
<1>5. CASE UNCHANGED vars
  BY <1>5, <1>q DEF vars
<1> QED BY <1>1, <1>2, <1>3, <1>4, <1>5 DEF Next

\* After every transaction the latest event of a job, and the latest webhook row
\* written for it by append_event, name the state the job is in.
THEOREM FollowersAlwaysInformed == Spec => []FollowersInformed
<1>1. Init => FollowersInformed
  BY DEF Init, FollowersInformed, AbsentJob
<1>2. Shape /\ FollowersInformed /\ [Next]_vars => FollowersInformed'
  <2> SUFFICES ASSUME Shape, FollowersInformed, [Next]_vars, NEW j \in Jobs
               PROVE  log'[j] = [last |-> jobs'[j].state, webhook |-> jobs'[j].state]
    BY DEF FollowersInformed
  <2> QED BY EveryStepTold DEF Told, FollowersInformed
<1> QED BY <1>1, <1>2, ShapeInvariant, PTL DEF Spec

-------------------------------------------------------------------------------
(* Verdicts.  A step on behalf of an attempt is credited to the latest one,*)
(* because a lease is the latest attempt's; every other step either starts *)
(* a row afresh or closes it with an outcome no worker reported.           *)

\* The verdicts only a worker gives.
WorkerVerdict == {"passed", "failed", "timed_out"}

\* States of a run whose tests have started.
TestState == {"running_tests", "debug_available"}

SameVerdict(old, new) ==
    /\ new.state = old.state
    /\ new.pending = old.pending
    /\ new.done = old.done
    /\ new.attempts = old.attempts

Fresh(new) ==
    /\ new.state \notin TestState
    /\ new.pending \notin WorkerVerdict
    /\ new.done = {}

ClosedByOthers(old, new) ==
    /\ new.state \notin TestState
    /\ new.pending \notin WorkerVerdict
    /\ new.done \subseteq old.done
    /\ new.attempts = old.attempts

Uncredited(old, new) ==
    SameVerdict(old, new) \/ Fresh(new) \/ ClosedByOthers(old, new)

\* A run comes to its tests by running them, to a passed verdict on its way out
\* from its tests, and a row that is being closed keeps its verdict.
Progressed(old, new) ==
    /\ new.attempts = old.attempts
    /\ new.state \in TestState
          => new.state \in {old.state, "running_tests"} \/ old.state \in TestState
    /\ (new.state \in FinalizingState \cup Outcome /\ new.pending = "passed")
          => \/ old.state \in TestState
             \/ old.state \in FinalizingState \cup Outcome /\ old.pending = "passed"

\* The ghost of row `new' when the latest attempt wrote it over `old'.
CreditTo(was, old, new) ==
    [tests    |-> IF new.state = "running_tests" THEN old.attempts ELSE was.tests,
     outcome  |-> IF new.pending # old.pending THEN old.attempts ELSE was.outcome,
     evidence |-> IF new.done # old.done THEN old.attempts ELSE was.evidence]

Credited(i) ==
    \/ origin'[i] = origin[i] /\ Uncredited(jobs[i], jobs'[i])
    \/ /\ Progressed(jobs[i], jobs'[i])
       /\ origin'[i] = CreditTo(origin[i], jobs[i], jobs'[i])

\* A write of one row that is credited to nobody.
LEMMA RowUncredited ==
    ASSUME Shape, NEW j \in Jobs, NEW row, jobs' = [jobs EXCEPT ![j] = row],
           Uncredited(jobs[j], row), origin' = origin, NEW i \in Jobs
    PROVE  Credited(i)
<1>1. jobs'[i] = IF i = j THEN row ELSE jobs[i]
  BY DEF Shape, TypeOK
<1>2. Uncredited(jobs[i], jobs[i])
  BY DEF Uncredited, SameVerdict
<1> QED BY <1>1, <1>2 DEF Credited

\* A write of one row on behalf of its latest attempt.
LEMMA RowCredited ==
    ASSUME Shape, NEW j \in Jobs, NEW row, jobs' = [jobs EXCEPT ![j] = row],
           Progressed(jobs[j], row), Credit(j, jobs[j].attempts, jobs[j], row),
           NEW i \in Jobs
    PROVE  Credited(i)
<1>1. jobs'[i] = IF i = j THEN row ELSE jobs[i]
  BY DEF Shape, TypeOK
<1>2. origin'[i] = IF i = j THEN CreditTo(origin[i], jobs[i], row) ELSE origin[i]
  BY DEF Credit, CreditTo, Shape, TypeOK
<1>3. Uncredited(jobs[i], jobs[i])
  BY DEF Uncredited, SameVerdict
<1> QED BY <1>1, <1>2, <1>3 DEF Credited

\* A transition on behalf of the latest attempt progresses: a run passes only
\* through its tests, since no early outcome is "passed".
LEMMA TransitionProgresses ==
    ASSUME NEW row \in JobRow, RowShape(row), NEW to, NEW evidence,
           ValidTransition(row.state, to, evidence),
           evidence.pending # NoOutcome
              => row.pending \in {NoOutcome, evidence.pending}
    PROVE  Progressed(row, TransitionedRow(row, to, evidence))
<1> DEFINE new == TransitionedRow(row, to, evidence)
<1>1. /\ new.state = to /\ new.attempts = row.attempts
      /\ new.pending = IF evidence.pending = NoOutcome THEN row.pending
                                                       ELSE evidence.pending
  BY DEF TransitionedRow, JobRow
<1>2. to \in TestState => to = "running_tests" \/ row.state \in TestState
  BY DEF ValidTransition, ForwardEdge, TestState, Terminal, Outcome
<1>3. ASSUME to \in FinalizingState \cup Outcome, new.pending = "passed",
             row.state \notin TestState
      PROVE  row.state \in FinalizingState /\ row.pending = "passed"
  <2>1. row.state \in FinalizingState
    BY <1>1, <1>3 DEF ValidTransition, ForwardEdge, EarlyOutcomeAllowed, TestState,
       FinalizingState, Outcome, Terminal, NoOutcome
  <2>2. row.pending # NoOutcome
    BY <2>1 DEF RowShape
  <2> QED BY <1>1, <1>3, <2>1, <2>2
<1>4. Progressed(row, new)
  <2> HIDE DEF new
  <2> QED BY <1>1, <1>2, <1>3 DEF Progressed
<1> QED BY <1>4

\* transition_job_state, under a lease or by a finalizer, is credited to the
\* latest attempt.
LEMMA TransitionCredited ==
    ASSUME Shape, NEW j \in Jobs, NEW to, NEW evidence,
           Transition(j, jobs[j].attempts, to, evidence), NEW i \in Jobs
    PROVE  Credited(i)
<1> DEFINE row == TransitionedRow(jobs[j], to, evidence)
<1>1. jobs[j] \in JobRow /\ RowShape(jobs[j])
  BY DEF Shape, TypeOK, RowsConsistent
<1>2. /\ ValidTransition(jobs[j].state, to, evidence)
      /\ evidence.pending # NoOutcome
            => jobs[j].pending \in {NoOutcome, evidence.pending}
      /\ jobs' = [jobs EXCEPT ![j] = row]
      /\ Credit(j, jobs[j].attempts, jobs[j], row)
  BY DEF Transition
<1>3. Progressed(jobs[j], row)
  BY <1>1, <1>2, TransitionProgresses
<1> HIDE DEF row
<1> QED BY <1>2, <1>3, RowCredited

\* The lease that guards a worker's request is the latest attempt's.
LEMMA LeaseIsLatest ==
    ASSUME Shape, NEW j \in Jobs, NEW w, NEW l \in Nat \ {0}, LeaseGuard(jobs[j], w, l)
    PROVE  l = jobs[j].attempts
BY DEF LeaseGuard, Shape, RowsConsistent, RowShape, NoLease

\* Every step credits every row rightly.
LEMMA EveryStepCredited ==
    ASSUME Shape, [Next]_vars, NEW i \in Jobs
    PROVE  Credited(i)
<1>t. jobs \in [Jobs -> JobRow] /\ RowsConsistent
  BY DEF Shape, TypeOK
<1>q. ASSUME jobs' = jobs, origin' = origin PROVE Credited(i)
  BY <1>q DEF Credited, Uncredited, SameVerdict
<1>1. ASSUME NEW j \in Jobs, ApiStep(j) PROVE Credited(i)
  <2>1. CASE CreateJob(j)
    <3> DEFINE row == [jobs[j] EXCEPT !.state = "queued"]
    <3>1. jobs' = [jobs EXCEPT ![j] = row] /\ origin' = origin
      BY <2>1, <1>t DEF CreateJob, JobRow
    <3>2. RowShape(jobs[j]) /\ jobs[j] \in JobRow /\ jobs[j].state = "absent"
      BY <2>1, <1>t DEF CreateJob, RowsConsistent
    <3>3. Fresh(row)
      BY <3>2 DEF Fresh, JobRow, RowShape, TestState, WorkerVerdict, NoOutcome
    <3> HIDE DEF row
    <3> QED BY <3>1, <3>3, RowUncredited DEF Uncredited
  <2>2. CASE CancelJob(j)
    <3> DEFINE row == [jobs[j] EXCEPT !.state = "collecting_artifacts",
                                      !.pending = "cancelled"]
    <3>1. jobs' = [jobs EXCEPT ![j] = row] /\ origin' = origin
      BY <2>2, <1>t DEF CancelJob, JobRow
    <3>2. ClosedByOthers(jobs[j], row)
      BY <1>t DEF ClosedByOthers, JobRow, TestState, WorkerVerdict
    <3> HIDE DEF row
    <3> QED BY <3>1, <3>2, RowUncredited DEF Uncredited
  <2> QED BY <1>1, <2>1, <2>2 DEF ApiStep
<1>2. ASSUME NEW w \in Workers, WorkerStep(w) PROVE Credited(i)
  <2>1. ASSUME NEW c \in Capacities, RegisterWorker(w, c) PROVE Credited(i)
    BY <2>1, <1>q DEF RegisterWorker
  <2>2. ASSUME NEW st \in OperatorStates, SetWorkerState(w, st) PROVE Credited(i)
    BY <2>2, <1>q DEF SetWorkerState
  <2>3. ASSUME NEW presented \in HeartbeatReports, NEW c \in Capacities,
               Heartbeat(w, presented, c)
        PROVE  Credited(i)
    <3>1. SameVerdict(jobs[i], jobs'[i])
      BY <2>3, <1>t DEF Heartbeat, JobRow, SameVerdict
    <3> QED BY <2>3, <3>1 DEF Heartbeat, Credited, Uncredited
  <2>4. ASSUME NEW j \in Jobs, NEW l \in 1 .. MaxRunAttempts, NEW to, NEW evidence,
               WorkerTransition(j, w, l, to, evidence)
        PROVE  Credited(i)
    <3>1. l = jobs[j].attempts
      BY <2>4, LeaseIsLatest DEF WorkerTransition
    <3> QED BY <2>4, <3>1, TransitionCredited DEF WorkerTransition
  <2>5. ASSUME NEW j \in Jobs, NEW l \in 1 .. MaxRunAttempts,
               NEW outcome \in WorkerOutcomes, NEW done,
               RecordResult(j, w, l, outcome, done)
        PROVE  Credited(i)
    <3> DEFINE row == [jobs[j] EXCEPT !.pending = outcome,
                                      !.done = jobs[j].done \cup done]
    <3>1. l = jobs[j].attempts
      BY <2>5, LeaseIsLatest DEF RecordResult
    <3>2. jobs' = [jobs EXCEPT ![j] = row] /\ Credit(j, jobs[j].attempts, jobs[j], row)
      BY <2>5, <3>1 DEF RecordResult
    <3>3. RowShape(jobs[j]) /\ jobs[j] \in JobRow
      BY <1>t DEF RowsConsistent
    <3>4. jobs[j].pending \in {NoOutcome, outcome} /\ ~Terminal(jobs[j].state)
      BY <2>5 DEF RecordResult, Live
    <3>5. Progressed(jobs[j], row)
      BY <3>3, <3>4 DEF Progressed, JobRow, RowShape, Terminal
    <3> HIDE DEF row
    <3> QED BY <3>2, <3>5, RowCredited
  <2> QED BY <1>2, <2>1, <2>2, <2>3, <2>4, <2>5 DEF WorkerStep
<1>3. ASSUME NEW leader \in Leaders, LeaderStep(leader) PROVE Credited(i)
  <2>1. ASSUME NEW j \in Jobs, NEW w \in Workers, NEW now \in SchedulerClock,
               ClaimJob(j, w, now)
        PROVE  Credited(i)
    <3> DEFINE row == [jobs[j] EXCEPT !.state = "claimed", !.worker = w,
                                      !.lease = jobs[j].attempts + 1,
                                      !.expires = now + LeaseTtl,
                                      !.attempts = jobs[j].attempts + 1]
    <3>1. jobs' = [jobs EXCEPT ![j] = row] /\ origin' = origin
      BY <2>1, <1>t DEF ClaimJob, JobRow
    <3>2. RowShape(jobs[j]) /\ jobs[j] \in JobRow /\ jobs[j].state = "queued"
      BY <2>1, <1>t DEF ClaimJob, RowsConsistent
    <3>3. row.state = "claimed" /\ row.pending = jobs[j].pending /\ row.done = jobs[j].done
      BY <3>2 DEF JobRow
    <3> HIDE DEF row
    <3>4. Fresh(row)
      BY <3>2, <3>3 DEF Fresh, RowShape, TestState, WorkerVerdict, NoOutcome
    <3> QED BY <3>1, <3>4, RowUncredited DEF Uncredited
  <2>2. ASSUME NEW now \in SchedulerClock, FindStaleJobs(leader, now) PROVE Credited(i)
    BY <2>2, <1>q DEF FindStaleJobs
  <2>3. ASSUME NEW x \in stale, LostRace(x) PROVE Credited(i)
    BY <2>3, <1>q DEF LostRace
  <2>4. ASSUME NEW x \in stale, RecoveryStep(x) PROVE Credited(i)
    <3>1. x.job \in Jobs /\ jobs[x.job] \in JobRow
      BY DEF Shape, TypeOK, StaleJob
    <3>2. PICK row : /\ Recover(x, row)
                     /\ \/ row = RequeuedRow(jobs[x.job])
                        \/ row = ClosedRow(jobs[x.job], "cancelled")
                        \/ row = ClosedRow(jobs[x.job], "infra_failed")
      BY <2>4 DEF RecoveryStep, RecoverRequeue, RecoverCancelling, RecoverExhausted
    <3>3. jobs' = [jobs EXCEPT ![x.job] = row] /\ origin' = origin
      BY <3>2 DEF Recover
    <3>4. Uncredited(jobs[x.job], row)
      BY <3>1, <3>2 DEF Uncredited, Fresh, ClosedByOthers, RequeuedRow, ClosedRow,
         JobRow, TestState, WorkerVerdict, NoOutcome
    <3> QED BY <3>1, <3>3, <3>4, RowUncredited
  <2>5. ASSUME NEW task \in Task, NEW j \in Jobs, BeginFinalize(leader, task, j)
        PROVE  Credited(i)
    BY <2>5, <1>q DEF BeginFinalize
  <2>6. ASSUME NEW f \in fin, FinalizeArtifacts(f) \/ FinalizeCleanup(f)
        PROVE  Credited(i)
    <3>1. f.job \in Jobs
      BY DEF Shape, TypeOK, Finalization
    <3>2. \E to, evidence : Transition(f.job, jobs[f.job].attempts, to, evidence)
      BY <2>6, Zenon DEF FinalizeArtifacts, FinalizeCleanup
    <3> QED BY <3>1, <3>2, TransitionCredited
  <2>7. ASSUME NEW f \in fin, FinalizeDeadLetter(f) \/ FinalizeLost(f)
        PROVE  Credited(i)
    <3>1. jobs' = jobs /\ origin' = origin
      BY <2>7 DEF FinalizeDeadLetter, FinalizeLost
    <3> QED BY <3>1, <1>q
  <2>8. CASE Abandon(leader)
    BY <2>8, <1>q DEF Abandon
  <2> QED BY <1>3, <2>1, <2>2, <2>3, <2>4, <2>5, <2>6, <2>7, <2>8
          DEF LeaderStep, RecoveryStep
<1>4. CASE Tick
  BY <1>4, <1>q DEF Tick
<1>5. CASE UNCHANGED vars
  BY <1>5, <1>q DEF vars
<1> QED BY <1>1, <1>2, <1>3, <1>4, <1>5 DEF Next

\* The row's run has started its tests, or its verdict says so.
Tested(row) ==
    \/ row.state \in TestState
    \/ row.state \in FinalizingState \cup Outcome /\ row.pending = "passed"

\* The inductive strengthening of both properties of verdicts: a run that is in
\* its tests is the one that started them.
VerdictsCredited ==
    \A j \in Jobs :
        /\ jobs[j].pending \in WorkerVerdict => origin[j].outcome = jobs[j].attempts
        /\ jobs[j].done # {} => origin[j].evidence = jobs[j].attempts
        /\ Tested(jobs[j]) => origin[j].tests = jobs[j].attempts

\* VerdictsCredited holds in every reachable state.
LEMMA VerdictsInvariant == Spec => []VerdictsCredited
<1>1. Init => VerdictsCredited
  BY DEF Init, VerdictsCredited, AbsentJob, WorkerVerdict, Tested, TestState,
     FinalizingState, Outcome, NoOutcome
<1>2. Shape /\ VerdictsCredited /\ [Next]_vars => VerdictsCredited'
  <2> SUFFICES ASSUME Shape, VerdictsCredited, [Next]_vars, NEW j \in Jobs
               PROVE  /\ jobs'[j].pending \in WorkerVerdict
                            => origin'[j].outcome = jobs'[j].attempts
                      /\ jobs'[j].done # {} => origin'[j].evidence = jobs'[j].attempts
                      /\ Tested(jobs'[j]) => origin'[j].tests = jobs'[j].attempts
    BY DEF VerdictsCredited, WorkerVerdict, Tested, TestState, FinalizingState, Outcome
  <2> DEFINE old == jobs[j]
             new == jobs'[j]
  <2>1. /\ old.pending \in WorkerVerdict => origin[j].outcome = old.attempts
        /\ old.done # {} => origin[j].evidence = old.attempts
        /\ Tested(old) => origin[j].tests = old.attempts
    BY DEF VerdictsCredited
  <2>2. "running_tests" \in TestState /\ "passed" \in WorkerVerdict
    BY DEF TestState, WorkerVerdict
  <2> HIDE DEF old, new
  <2>3. CASE origin'[j] = origin[j] /\ Uncredited(old, new)
    BY <2>1, <2>2, <2>3 DEF Uncredited, SameVerdict, Fresh, ClosedByOthers, Tested, new
  <2>4. CASE Progressed(old, new) /\ origin'[j] = CreditTo(origin[j], old, new)
    BY <2>1, <2>2, <2>4 DEF Progressed, CreditTo, Tested, new
  <2> QED BY <2>3, <2>4, EveryStepCredited DEF Credited, old, new
<1> QED BY <1>1, <1>2, ShapeInvariant, PTL DEF Spec

\* The verdict and the evidence that end a job were given by its latest attempt:
\* no late record_job_result or transition of a superseded lease leaves a trace.
THEOREM LatestAttemptAlwaysCredited == Spec => []CreditsLatestAttempt
<1>1. VerdictsCredited => CreditsLatestAttempt
  BY DEF VerdictsCredited, CreditsLatestAttempt, WorkerVerdict
<1> QED BY <1>1, VerdictsInvariant, PTL

\* A job ends "passed" only when its latest attempt went through running_tests.
THEOREM PassedOnlyAfterTests == Spec => []PassedAfterTests
<1>1. VerdictsCredited => PassedAfterTests
  BY DEF VerdictsCredited, PassedAfterTests, Tested
<1> QED BY <1>1, VerdictsInvariant, PTL

-------------------------------------------------------------------------------
(* The store implements JobContract.  What the contract sees of a row is   *)
(* its phase, its pending outcome and its attempts; a step changes what is *)
(* seen of at most one row, in a way some action of the contract allows.   *)

SameView(old, new) ==
    /\ PhaseOf(new) = PhaseOf(old)
    /\ new.pending = old.pending
    /\ new.attempts = old.attempts

\* The changes of one row's view that the contract allows, action by action,
\* except those that come with a dead letter.
Submitted(old, new) ==
    /\ PhaseOf(old) = "absent" /\ PhaseOf(new) = "waiting"
    /\ new.pending = old.pending /\ new.attempts = old.attempts

Cancelled(old, new) ==
    /\ PhaseOf(old) \in {"waiting", "running"}
    /\ PhaseOf(new) = IF PhaseOf(old) = "waiting" THEN "closing" ELSE PhaseOf(old)
    /\ old.pending = NoOutcome /\ new.pending = "cancelled"
    /\ new.attempts = old.attempts

Started(old, new) ==
    /\ PhaseOf(old) = "waiting" /\ PhaseOf(new) = "running"
    /\ old.attempts < MaxRunAttempts /\ new.attempts = old.attempts + 1
    /\ new.pending = old.pending

Reported(old, new) ==
    /\ PhaseOf(old) = "running" /\ PhaseOf(new) = "running"
    /\ old.pending = NoOutcome /\ new.pending \in Outcome
    /\ new.attempts = old.attempts

Ended(old, new) ==
    /\ PhaseOf(old) \in {"running", "closing"} /\ PhaseOf(new) = "ended"
    /\ old.pending # NoOutcome /\ new.pending = old.pending
    /\ new.attempts = old.attempts

Retried(old, new) ==
    /\ PhaseOf(old) = "running" /\ PhaseOf(new) = "waiting"
    /\ old.pending # "cancelled" /\ new.pending = NoOutcome
    /\ old.attempts < MaxRunAttempts /\ new.attempts = old.attempts

TakenOver(old, new) ==
    /\ PhaseOf(old) = "running" /\ PhaseOf(new) = "closing"
    /\ old.pending = "cancelled" /\ new.pending = old.pending
    /\ new.attempts = old.attempts

ViewStep(old, new) ==
    \/ SameView(old, new) \/ Submitted(old, new) \/ Cancelled(old, new)
    \/ Started(old, new) \/ Reported(old, new) \/ Ended(old, new)
    \/ Retried(old, new) \/ TakenOver(old, new)

\* The contract's variables in the next state.
LEMMA ViewPrimes ==
    /\ phase' = [j \in Jobs |-> PhaseOf(jobs'[j])]
    /\ verdict' = [j \in Jobs |-> jobs'[j].pending]
    /\ tries' = [j \in Jobs |-> jobs'[j].attempts]
<1>1. phase' = [j \in Jobs |-> PhaseOf(jobs'[j])]
  BY Zenon DEF phase, PhaseOf
<1>2. verdict' = [j \in Jobs |-> jobs'[j].pending]
  BY DEF verdict
<1>3. tries' = [j \in Jobs |-> jobs'[j].attempts]
  BY DEF tries
<1> QED BY <1>1, <1>2, <1>3

\* A write of one row changes the contract's variables at that job alone.
LEMMA OneViewMoves ==
    ASSUME Shape, NEW j \in Jobs, NEW row, jobs' = [jobs EXCEPT ![j] = row]
    PROVE  /\ phase' = [phase EXCEPT ![j] = PhaseOf(row)]
           /\ verdict' = [verdict EXCEPT ![j] = row.pending]
           /\ tries' = [tries EXCEPT ![j] = row.attempts]
<1>1. \A i \in Jobs : jobs'[i] = IF i = j THEN row ELSE jobs[i]
  BY DEF Shape, TypeOK
<1>2. /\ phase = [i \in Jobs |-> PhaseOf(jobs[i])]
      /\ verdict = [i \in Jobs |-> jobs[i].pending]
      /\ tries = [i \in Jobs |-> jobs[i].attempts]
  BY DEF phase, verdict, tries
<1>3. phase' = [phase EXCEPT ![j] = PhaseOf(row)]
  BY <1>1, <1>2, ViewPrimes
<1>4. verdict' = [verdict EXCEPT ![j] = row.pending]
  BY <1>1, <1>2, ViewPrimes
<1>5. tries' = [tries EXCEPT ![j] = row.attempts]
  BY <1>1, <1>2, ViewPrimes
<1> QED BY <1>3, <1>4, <1>5

\* A step that shows the contract nothing new is a stuttering step of it.
LEMMA StutterRefines ==
    ASSUME \A i \in Jobs : SameView(jobs[i], jobs'[i]), DeadJobs' = DeadJobs
    PROVE  UNCHANGED Contract!jvars
<1>1. /\ phase = [i \in Jobs |-> PhaseOf(jobs[i])]
      /\ verdict = [i \in Jobs |-> jobs[i].pending]
      /\ tries = [i \in Jobs |-> jobs[i].attempts]
  BY DEF phase, verdict, tries
<1>2. phase' = phase /\ verdict' = verdict /\ tries' = tries
  BY <1>1, ViewPrimes DEF SameView
<1> QED BY <1>2 DEF Contract!jvars

\* A write of one row that the contract allows is a step of it.
LEMMA OneRowRefines ==
    ASSUME Shape, NEW j \in Jobs, NEW row, jobs' = [jobs EXCEPT ![j] = row],
           ViewStep(jobs[j], row), DeadJobs' = DeadJobs
    PROVE  [Contract!Next]_(Contract!jvars)
<1> DEFINE old == jobs[j]
<1>1. /\ phase[j] = PhaseOf(old) /\ verdict[j] = old.pending /\ tries[j] = old.attempts
      /\ phase \in [Jobs -> {PhaseOf(jobs[i]) : i \in Jobs}]
      /\ verdict \in [Jobs -> {jobs[i].pending : i \in Jobs}]
      /\ tries \in [Jobs -> {jobs[i].attempts : i \in Jobs}]
  BY DEF phase, verdict, tries
<1>2. /\ phase' = [phase EXCEPT ![j] = PhaseOf(row)]
      /\ verdict' = [verdict EXCEPT ![j] = row.pending]
      /\ tries' = [tries EXCEPT ![j] = row.attempts]
  BY OneViewMoves
<1>3. /\ PhaseOf(row) = phase[j] => phase' = phase
      /\ row.pending = verdict[j] => verdict' = verdict
      /\ row.attempts = tries[j] => tries' = tries
  BY <1>1, <1>2
<1> HIDE DEF old
<1>4. CASE SameView(old, row)
  BY <1>1, <1>3, <1>4 DEF SameView, Contract!jvars
<1>5. ASSUME Submitted(old, row) PROVE Contract!Submit(j)
  BY <1>1, <1>2, <1>3, <1>5 DEF Submitted, Contract!Submit
<1>6. ASSUME Cancelled(old, row) PROVE Contract!Cancel(j)
  BY <1>1, <1>2, <1>3, <1>6 DEF Cancelled, Contract!Cancel,
     NoOutcome, Contract!NoOutcome
<1>7. ASSUME Started(old, row) PROVE Contract!Start(j)
  BY <1>1, <1>2, <1>3, <1>7 DEF Started, Contract!Start
<1>8. ASSUME Reported(old, row) PROVE Contract!Report(j, row.pending)
  BY <1>1, <1>2, <1>3, <1>8 DEF Reported, Contract!Report,
     NoOutcome, Contract!NoOutcome
<1>9. ASSUME Ended(old, row) PROVE Contract!End(j)
  BY <1>1, <1>2, <1>3, <1>9 DEF Ended, Contract!End,
     NoOutcome, Contract!NoOutcome
<1>10. ASSUME Retried(old, row) PROVE Contract!Retry(j)
  BY <1>1, <1>2, <1>3, <1>10 DEF Retried, Contract!Retry,
     NoOutcome, Contract!NoOutcome
<1>11. ASSUME TakenOver(old, row) PROVE Contract!TakeOver(j)
  BY <1>1, <1>2, <1>3, <1>11 DEF TakenOver, Contract!TakeOver
<1>12. CASE ~SameView(old, row)
  <2>1. Contract!JobNext(j)
    BY <1>5, <1>6, <1>7, <1>8, <1>9, <1>10, <1>11, <1>12
       DEF ViewStep, Reported, Contract!JobNext, Outcome, Contract!Outcome, old
  <2> QED BY <2>1 DEF Contract!Next
<1> QED BY <1>4, <1>12

\* Where a row is, seen from outside.
LEMMA PhaseCases ==
    ASSUME NEW row
    PROVE  /\ row.lease # NoLease => PhaseOf(row) = "running"
           /\ row.lease = NoLease /\ row.state = "absent" => PhaseOf(row) = "absent"
           /\ row.lease = NoLease /\ row.state = "queued" => PhaseOf(row) = "waiting"
           /\ row.lease = NoLease /\ Terminal(row.state) => PhaseOf(row) = "ended"
           /\ row.lease = NoLease /\ row.state \in FinalizingState
                => PhaseOf(row) = "closing"
BY DEF PhaseOf, Terminal, Outcome, FinalizingState

\* A transition shows the contract nothing, a report, or the job's end.
LEMMA TransitionView ==
    ASSUME NEW row \in JobRow, RowShape(row), NEW to, NEW evidence,
           ValidTransition(row.state, to, evidence),
           evidence.pending # NoOutcome
              => row.pending \in {NoOutcome, evidence.pending},
           evidence.pending \in Outcome \cup {NoOutcome},
           row.lease # NoLease \/ row.state \in FinalizingState
    PROVE  ViewStep(row, TransitionedRow(row, to, evidence))
<1> DEFINE new == TransitionedRow(row, to, evidence)
<1>1. /\ new.state = to /\ new.attempts = row.attempts
      /\ new.pending = IF evidence.pending = NoOutcome THEN row.pending
                                                       ELSE evidence.pending
      /\ new.lease = IF Terminal(to) THEN NoLease ELSE row.lease
  BY DEF TransitionedRow, JobRow
<1>2. /\ to \in Outcome => row.state = "cleaning_up"
      /\ row.state \in FinalizingState => to \in FinalizingState \cup Outcome
  BY ValidTarget
<1>3. row.state \in FinalizingState => row.pending # NoOutcome
  BY DEF RowShape
<1>4. \/ new.pending = row.pending
      \/ row.pending = NoOutcome /\ new.pending \in Outcome
  BY <1>1
<1> HIDE DEF new
<1>5. CASE Terminal(to)
  <2>1. row.state \in FinalizingState
    BY <1>2, <1>5 DEF Terminal, FinalizingState
  <2>2. Ended(row, new)
    BY <1>1, <1>3, <1>4, <1>5, <2>1, PhaseCases DEF Ended
  <2> QED BY <2>2 DEF ViewStep, new
<1>6. CASE ~Terminal(to) /\ row.lease # NoLease
  <2>1. SameView(row, new) \/ Reported(row, new)
    BY <1>1, <1>4, <1>6, PhaseCases DEF SameView, Reported
  <2> QED BY <2>1 DEF ViewStep, new
<1>7. CASE ~Terminal(to) /\ row.lease = NoLease
  <2>1. row.state \in FinalizingState /\ to \in FinalizingState
    BY <1>2, <1>7 DEF Terminal
  <2>2. SameView(row, new)
    BY <1>1, <1>3, <1>4, <1>7, <2>1, PhaseCases DEF SameView
  <2> QED BY <2>2 DEF ViewStep, new
<1> QED BY <1>5, <1>6, <1>7

\* transition_job_state implements the contract.
LEMMA TransitionRefines ==
    ASSUME Shape, NEW j \in Jobs, NEW n, NEW to, NEW evidence,
           Transition(j, n, to, evidence),
           evidence.pending \in Outcome \cup {NoOutcome},
           jobs[j].lease # NoLease \/ jobs[j].state \in FinalizingState,
           DeadJobs' = DeadJobs
    PROVE  [Contract!Next]_(Contract!jvars)
<1> DEFINE row == TransitionedRow(jobs[j], to, evidence)
<1>1. jobs[j] \in JobRow /\ RowShape(jobs[j])
  BY DEF Shape, TypeOK, RowsConsistent
<1>2. /\ ValidTransition(jobs[j].state, to, evidence)
      /\ evidence.pending # NoOutcome
            => jobs[j].pending \in {NoOutcome, evidence.pending}
      /\ jobs' = [jobs EXCEPT ![j] = row]
  BY DEF Transition
<1>3. ViewStep(jobs[j], row)
  BY <1>1, <1>2, TransitionView
<1> HIDE DEF row
<1> QED BY <1>2, <1>3, OneRowRefines

\* A recovered row waits again or is being closed.
LEMMA RecoveredPhase ==
    ASSUME NEW row \in JobRow, RowShape(row), row.lease # NoLease,
           NEW outcome \in {"cancelled", "infra_failed"}
    PROVE  /\ PhaseOf(row) = "running"
           /\ PhaseOf(RequeuedRow(row)) = "waiting"
           /\ PhaseOf(ClosedRow(row, outcome)) = "closing"
<1>1. RequeuedRow(row).lease = NoLease /\ RequeuedRow(row).state = "queued"
  BY DEF RequeuedRow, JobRow
<1>2. /\ ClosedRow(row, outcome).lease = NoLease
      /\ ClosedRow(row, outcome).state \in FinalizingState
  BY DEF ClosedRow, JobRow, FinalizingState
<1> QED BY <1>1, <1>2, PhaseCases

\* recover_stale_job gives the job up for good only after the last attempt, and
\* writes the dead letter that the contract demands for it.
LEMMA ExhaustedRefines ==
    ASSUME Shape, NEW x \in stale, RecoverExhausted(x)
    PROVE  [Contract!Next]_(Contract!jvars)
<1> DEFINE j == x.job
           row == ClosedRow(jobs[j], "infra_failed")
<1>1. /\ j \in Jobs /\ x.attempts \in Nat
      /\ jobs[j] \in JobRow /\ RowShape(jobs[j])
  BY DEF Shape, TypeOK, StaleJob, RowsConsistent
<1>2. /\ jobs' = [jobs EXCEPT ![j] = row]
      /\ jobs[j].lease # NoLease
      /\ jobs[j].attempts = x.attempts
      /\ jobs[j].pending # "cancelled"
      /\ ~(x.attempts < MaxRunAttempts)
      /\ outbox' = outbox \cup {DeadKey(j, x.attempts)}
  BY <1>1 DEF RecoverExhausted, Recover, StillStale, AttemptsLeft, Shape, TypeOK, StaleJob
<1>3. jobs[j].attempts = MaxRunAttempts /\ MaxRunAttempts \in 1 .. MaxRunAttempts
  BY <1>1, <1>2, LimitAssumption DEF RowShape
<1>4. PhaseOf(jobs[j]) = "running" /\ PhaseOf(row) = "closing"
  BY <1>1, <1>2, RecoveredPhase
<1>5. row.pending = "infra_failed" /\ row.attempts = jobs[j].attempts
  BY <1>1 DEF ClosedRow, JobRow
<1>6. DeadJobs' = DeadJobs \cup {j}
  <2>1. \A i \in Jobs, n \in 1 .. MaxRunAttempts :
           DeadKey(i, n) \in outbox'
             <=> DeadKey(i, n) \in outbox \/ (i = j /\ n = x.attempts)
    BY <1>2 DEF DeadKey
  <2>2. DeadJobs' = {i \in Jobs : \E n \in 1 .. MaxRunAttempts : DeadKey(i, n) \in outbox'}
    BY DEF DeadJobs, DeadKey
  <2> QED BY <1>1, <1>2, <1>3, <2>1, <2>2 DEF DeadJobs
<1> HIDE DEF row, j
<1>7. /\ phase[j] = "running" /\ verdict[j] # "cancelled" /\ tries[j] = MaxRunAttempts
      /\ tries \in [Jobs -> {jobs[i].attempts : i \in Jobs}]
  BY <1>1, <1>2, <1>3, <1>4 DEF phase, verdict, tries
<1>8. /\ phase' = [phase EXCEPT ![j] = "closing"]
      /\ verdict' = [verdict EXCEPT ![j] = "infra_failed"]
      /\ tries' = [tries EXCEPT ![j] = tries[j]]
  <2>1. /\ phase' = [phase EXCEPT ![j] = PhaseOf(row)]
        /\ verdict' = [verdict EXCEPT ![j] = row.pending]
        /\ tries' = [tries EXCEPT ![j] = row.attempts]
    BY <1>1, <1>2, OneViewMoves
  <2>2. row.attempts = tries[j]
    BY <1>2, <1>3, <1>5, <1>7
  <2> QED BY <1>4, <1>5, <2>1, <2>2
<1>9. Contract!GiveUp(j)
  BY <1>6, <1>7, <1>8 DEF Contract!GiveUp
<1> QED BY <1>1, <1>9 DEF Contract!JobNext, Contract!Next

\* Every step of the tables is a step of the contract or stutters.
LEMMA EveryStepRefines ==
    ASSUME Shape, Closing, [Next]_vars
    PROVE  [Contract!Next]_(Contract!jvars)
<1> DEFINE Goal == [Contract!Next]_(Contract!jvars)
<1>t. jobs \in [Jobs -> JobRow] /\ RowsConsistent
  BY DEF Shape, TypeOK
<1>d. ASSUME outbox' = outbox PROVE DeadJobs' = DeadJobs
  BY <1>d DEF DeadJobs, DeadKey
<1>s. ASSUME NEW i \in Jobs PROVE SameView(jobs[i], jobs[i])
  BY DEF SameView
<1>q. ASSUME jobs' = jobs, outbox' = outbox PROVE Goal
  BY <1>d, <1>q, <1>s, StutterRefines
<1> HIDE DEF Goal
<1>1. ASSUME NEW j \in Jobs, ApiStep(j) PROVE Goal
  <2>t. jobs[j] \in JobRow /\ RowShape(jobs[j])
    BY <1>t DEF RowsConsistent
  <2>1. CASE CreateJob(j)
    <3> DEFINE row == [jobs[j] EXCEPT !.state = "queued"]
    <3>1. jobs' = [jobs EXCEPT ![j] = row] /\ jobs[j].state = "absent"
      BY <2>1, <1>t DEF CreateJob, JobRow
    <3>2. /\ row.state = "queued" /\ row.lease = jobs[j].lease /\ jobs[j].lease = NoLease
          /\ row.pending = jobs[j].pending /\ row.attempts = jobs[j].attempts
      BY <2>t, <3>1 DEF JobRow, RowShape
    <3> HIDE DEF row
    <3>3. Submitted(jobs[j], row)
      BY <3>1, <3>2, PhaseCases DEF Submitted
    <3>4. DeadJobs' = DeadJobs
      <4>1. \A i \in Jobs, n \in 1 .. MaxRunAttempts :
               DeadKey(i, n) \in outbox' <=> DeadKey(i, n) \in outbox
        BY <2>1 DEF CreateJob, DeadKey, QueuedKey
      <4>2. DeadJobs' = {i \in Jobs : \E n \in 1 .. MaxRunAttempts :
                                          DeadKey(i, n) \in outbox'}
        BY DEF DeadJobs, DeadKey
      <4> QED BY <4>1, <4>2 DEF DeadJobs
    <3> QED BY <3>1, <3>3, <3>4, OneRowRefines DEF ViewStep, Goal
  <2>2. CASE CancelJob(j)
    <3> DEFINE row == [jobs[j] EXCEPT !.state = "collecting_artifacts",
                                      !.pending = "cancelled"]
    <3>1. jobs' = [jobs EXCEPT ![j] = row] /\ outbox' = outbox
      BY <2>2, <1>t DEF CancelJob, JobRow
    <3>2. /\ row.state = "collecting_artifacts" /\ row.pending = "cancelled"
          /\ row.lease = jobs[j].lease /\ row.attempts = jobs[j].attempts
      BY <2>t DEF JobRow
    <3>3. /\ jobs[j].pending = NoOutcome
          /\ jobs[j].lease # NoLease \/ jobs[j].state = "queued"
      BY <2>2, <2>t DEF CancelJob, Live, JobRow, JobState, RowShape, Terminal
    <3> HIDE DEF row
    <3>4. Cancelled(jobs[j], row)
      BY <3>2, <3>3, PhaseCases DEF Cancelled, FinalizingState
    <3> QED BY <3>1, <3>4, <1>d, OneRowRefines DEF ViewStep, Goal
  <2> QED BY <1>1, <2>1, <2>2 DEF ApiStep
<1>2. ASSUME NEW w \in Workers, WorkerStep(w) PROVE Goal
  <2>1. ASSUME NEW c \in Capacities, RegisterWorker(w, c) PROVE Goal
    BY <2>1, <1>q DEF RegisterWorker
  <2>2. ASSUME NEW st \in OperatorStates, SetWorkerState(w, st) PROVE Goal
    BY <2>2, <1>q DEF SetWorkerState
  <2>3. ASSUME NEW presented \in HeartbeatReports, NEW c \in Capacities,
               Heartbeat(w, presented, c)
        PROVE  Goal
    <3>1. ASSUME NEW i \in Jobs PROVE SameView(jobs[i], jobs'[i])
      <4>1. /\ jobs'[i].state = jobs[i].state /\ jobs'[i].lease = jobs[i].lease
            /\ jobs'[i].pending = jobs[i].pending
            /\ jobs'[i].attempts = jobs[i].attempts
        BY <2>3, <1>t DEF Heartbeat, JobRow
      <4> QED BY <4>1 DEF SameView, PhaseOf
    <3>2. outbox' = outbox
      BY <2>3 DEF Heartbeat
    <3> QED BY <3>1, <3>2, <1>d, StutterRefines DEF Goal
  <2>4. ASSUME NEW j \in Jobs, NEW l \in 1 .. MaxRunAttempts, NEW to \in JobState,
               NEW evidence \in TransitionEvidence,
               WorkerTransition(j, w, l, to, evidence)
        PROVE  Goal
    <3>1. jobs[j].lease # NoLease /\ outbox' = outbox /\ Transition(j, l, to, evidence)
      BY <2>4 DEF WorkerTransition, LeaseGuard, NoLease
    <3>2. evidence.pending \in Outcome \cup {NoOutcome}
      BY DEF TransitionEvidence
    <3> QED BY <3>1, <3>2, <1>d, TransitionRefines DEF Goal
  <2>5. ASSUME NEW j \in Jobs, NEW l \in 1 .. MaxRunAttempts,
               NEW outcome \in WorkerOutcomes, NEW done,
               RecordResult(j, w, l, outcome, done)
        PROVE  Goal
    <3> DEFINE row == [jobs[j] EXCEPT !.pending = outcome,
                                      !.done = jobs[j].done \cup done]
    <3>1. /\ jobs' = [jobs EXCEPT ![j] = row] /\ outbox' = outbox
          /\ jobs[j].lease # NoLease
          /\ jobs[j].pending \in {NoOutcome, outcome}
      BY <2>5 DEF RecordResult, LeaseGuard, NoLease
    <3>2. /\ row.lease = jobs[j].lease /\ row.pending = outcome
          /\ row.attempts = jobs[j].attempts
      BY <1>t DEF JobRow
    <3>3. outcome \in Outcome
      BY IdAssumption
    <3> HIDE DEF row
    <3>4. SameView(jobs[j], row) \/ Reported(jobs[j], row)
      BY <3>1, <3>2, <3>3, PhaseCases DEF SameView, Reported
    <3> QED BY <3>1, <3>4, <1>d, OneRowRefines DEF ViewStep, Goal
  <2> QED BY <1>2, <2>1, <2>2, <2>3, <2>4, <2>5, WorkerEvidenceType DEF WorkerStep
<1>3. ASSUME NEW leader \in Leaders, LeaderStep(leader) PROVE Goal
  <2>1. ASSUME NEW j \in Jobs, NEW w \in Workers, NEW now \in SchedulerClock,
               ClaimJob(j, w, now)
        PROVE  Goal
    <3> DEFINE row == [jobs[j] EXCEPT !.state = "claimed", !.worker = w,
                                      !.lease = jobs[j].attempts + 1,
                                      !.expires = now + LeaseTtl,
                                      !.attempts = jobs[j].attempts + 1]
    <3>1. /\ jobs' = [jobs EXCEPT ![j] = row] /\ outbox' = outbox
          /\ jobs[j].state = "queued" /\ jobs[j].lease = NoLease
      BY <2>1, <1>t DEF ClaimJob, JobRow
    <3>2. jobs[j] \in JobRow /\ jobs[j].attempts < MaxRunAttempts
      BY <3>1, <1>t DEF RowsConsistent, RowShape
    <3>3. /\ row.lease = jobs[j].attempts + 1 /\ row.pending = jobs[j].pending
          /\ row.attempts = jobs[j].attempts + 1
          /\ jobs[j].attempts \in Nat
      BY <3>2 DEF JobRow
    <3> HIDE DEF row
    <3>4. row.lease # NoLease
      BY <3>3 DEF NoLease
    <3>5. Started(jobs[j], row)
      BY <3>1, <3>2, <3>3, <3>4, PhaseCases DEF Started
    <3> QED BY <3>1, <3>5, <1>d, OneRowRefines DEF ViewStep, Goal
  <2>2. ASSUME NEW now \in SchedulerClock, FindStaleJobs(leader, now) PROVE Goal
    BY <2>2, <1>q DEF FindStaleJobs
  <2>3. ASSUME NEW x \in stale, LostRace(x) PROVE Goal
    BY <2>3, <1>q DEF LostRace
  <2>4. ASSUME NEW x \in stale, RecoverRequeue(x) \/ RecoverCancelling(x) PROVE Goal
    <3>1. /\ x.job \in Jobs /\ jobs[x.job] \in JobRow /\ RowShape(jobs[x.job])
          /\ x.attempts \in Nat
      BY <1>t DEF Shape, TypeOK, StaleJob, RowsConsistent
    <3>2. /\ jobs[x.job].lease # NoLease /\ jobs[x.job].attempts = x.attempts
          /\ outbox' = outbox
      BY <2>4, <3>1 DEF RecoverRequeue, RecoverCancelling, Recover, StillStale, Shape,
         TypeOK, StaleJob
    <3>3. CASE RecoverRequeue(x)
      <4> DEFINE row == RequeuedRow(jobs[x.job])
      <4>1. /\ jobs' = [jobs EXCEPT ![x.job] = row]
            /\ jobs[x.job].pending # "cancelled" /\ x.attempts < MaxRunAttempts
        BY <3>3 DEF RecoverRequeue, Recover, AttemptsLeft
      <4>2. row.pending = NoOutcome /\ row.attempts = jobs[x.job].attempts
        BY <3>1 DEF RequeuedRow, JobRow
      <4>3. PhaseOf(jobs[x.job]) = "running" /\ PhaseOf(row) = "waiting"
        BY <3>1, <3>2, RecoveredPhase
      <4> HIDE DEF row
      <4>4. Retried(jobs[x.job], row)
        BY <3>2, <4>1, <4>2, <4>3 DEF Retried
      <4> QED BY <3>1, <3>2, <4>1, <4>4, <1>d, OneRowRefines DEF ViewStep, Goal
    <3>4. CASE RecoverCancelling(x)
      <4> DEFINE row == ClosedRow(jobs[x.job], "cancelled")
      <4>1. /\ jobs' = [jobs EXCEPT ![x.job] = row]
            /\ jobs[x.job].pending = "cancelled"
        BY <3>4 DEF RecoverCancelling, Recover
      <4>2. row.pending = "cancelled" /\ row.attempts = jobs[x.job].attempts
        BY <3>1 DEF ClosedRow, JobRow
      <4>3. PhaseOf(jobs[x.job]) = "running" /\ PhaseOf(row) = "closing"
        BY <3>1, <3>2, RecoveredPhase
      <4> HIDE DEF row
      <4>4. TakenOver(jobs[x.job], row)
        BY <4>1, <4>2, <4>3 DEF TakenOver
      <4> QED BY <3>1, <3>2, <4>1, <4>4, <1>d, OneRowRefines DEF ViewStep, Goal
    <3> QED BY <2>4, <3>3, <3>4
  <2>5. ASSUME NEW x \in stale, RecoverExhausted(x) PROVE Goal
    BY <2>5, ExhaustedRefines DEF Goal
  <2>6. ASSUME NEW task \in Task, NEW j \in Jobs, BeginFinalize(leader, task, j)
        PROVE  Goal
    BY <2>6, <1>q DEF BeginFinalize
  <2>7. ASSUME NEW f \in fin, NEW to, NEW done,
               jobs[f.job].state \in FinalizingState, outbox' = outbox,
               Transition(f.job, jobs[f.job].attempts, to,
                          [pending |-> f.outcome, done |-> done])
        PROVE  Goal
    <3> DEFINE evidence == [pending |-> f.outcome, done |-> done]
    <3>1. f.job \in Jobs /\ evidence.pending \in Outcome \cup {NoOutcome}
      BY DEF Shape, TypeOK, Finalization, Outcome
    <3>2. Transition(f.job, jobs[f.job].attempts, to, evidence)
      BY <2>7
    <3> HIDE DEF evidence
    <3> QED BY <2>7, <3>1, <3>2, <1>d, TransitionRefines DEF Goal
  <2>8. ASSUME NEW f \in fin, FinalizeArtifacts(f) PROVE Goal
    BY <2>7, <2>8 DEF FinalizeArtifacts, FinalizingState
  <2>9. ASSUME NEW f \in fin, FinalizeCleanup(f) PROVE Goal
    BY <2>7, <2>9 DEF FinalizeCleanup, FinalizingState
  <2>10. ASSUME NEW f \in fin, FinalizeDeadLetter(f) PROVE Goal
    <3>1. f.job \in Jobs /\ jobs[f.job].attempts \in Nat
      BY DEF Shape, TypeOK, Finalization, JobRow
    <3>2. DeadKey(f.job, jobs[f.job].attempts) \in outbox /\ jobs[f.job].attempts > 0
      BY <2>10, <3>1 DEF FinalizeDeadLetter, Closing
    <3>3. outbox' = outbox /\ jobs' = jobs
      BY <2>10, <3>2 DEF FinalizeDeadLetter
    <3> QED BY <3>3, <1>q
  <2>11. ASSUME NEW f \in fin, FinalizeLost(f) PROVE Goal
    BY <2>11, <1>q DEF FinalizeLost
  <2>12. CASE Abandon(leader)
    BY <2>12, <1>q DEF Abandon
  <2> QED BY <1>3, <2>1, <2>2, <2>3, <2>4, <2>5, <2>6, <2>8, <2>9, <2>10, <2>11, <2>12
          DEF LeaderStep
<1>4. CASE Tick
  BY <1>4, <1>q DEF Tick, Goal
<1>5. CASE UNCHANGED vars
  BY <1>5, <1>q DEF vars, Goal
<1> QED BY <1>1, <1>2, <1>3, <1>4, <1>5 DEF Next, Goal

\* The empty tables are the contract's initial state.
LEMMA InitRefines == Init => Contract!Init
<1> SUFFICES ASSUME Init PROVE Contract!Init
  OBVIOUS
<1>1. \A j \in Jobs : jobs[j] = AbsentJob
  BY DEF Init
<1>2. /\ PhaseOf(AbsentJob) = "absent"
      /\ AbsentJob.pending = NoOutcome /\ AbsentJob.attempts = 0
  BY PhaseCases DEF AbsentJob
<1>3. phase = [j \in Jobs |-> "absent"]
  BY <1>1, <1>2 DEF phase
<1>4. verdict = [j \in Jobs |-> NoOutcome]
  BY <1>1, <1>2 DEF verdict
<1>5. tries = [j \in Jobs |-> 0]
  BY <1>1, <1>2 DEF tries
<1>6. DeadJobs = {}
  BY DEF Init, DeadJobs
<1> QED BY <1>3, <1>4, <1>5, <1>6 DEF Contract!Init, NoOutcome, Contract!NoOutcome

\* Whatever API, workers and any number of overlapping leaders do, the tables
\* show only what the contract allows: one owner at a time, one outcome, bounded
\* retries, and a dead letter exactly when a job is given up.
THEOREM StoreImplementsContract == Spec => ImplementsContract
<1>1. Shape /\ Closing /\ [Next]_vars => [Contract!Next]_(Contract!jvars)
  BY EveryStepRefines
<1> QED BY <1>1, InitRefines, ShapeInvariant, ClosingInvariant, PTL
        DEF Spec, ImplementsContract, Contract!Spec

===============================================================================
