---------------------------- MODULE JobStoreProofs ----------------------------
(***************************************************************************)
(* Proofs about JobStore, for every set of jobs, workers, leaders and every*)
(* limit.                                                                  *)
(***************************************************************************)
EXTENDS JobStore, TLAPS

-------------------------------------------------------------------------------
(* Facts about single rows.                                                *)

\* A row that recovery returns to the queue is well formed.
LEMMA RequeuedRowShape ==
    ASSUME NEW row \in JobRow, RowShape(row),
           row.attempts < MaxRunAttempts
    PROVE  RequeuedRow(row) \in JobRow /\ RowShape(RequeuedRow(row))
BY DEF RequeuedRow, JobRow, RowShape, JobState, RunningState, FinalizingState,
       Terminal, Outcome, NoLease

\* A row that a claim has just leased is well formed: its lease is the newest
\* attempt's, and a queued row can always be tried once more.
LEMMA ClaimedRowShape ==
    ASSUME NEW row \in JobRow, RowShape(row), row.state = "queued",
           NEW w \in Workers, NEW expires \in Nat,
           NEW n, n = row.attempts + 1
    PROVE  LET new == [row EXCEPT !.state = "claimed", !.worker = w, !.lease = n,
                                  !.expires = expires, !.attempts = n]
           IN  new \in JobRow /\ RowShape(new)
<1> DEFINE new == [row EXCEPT !.state = "claimed", !.worker = w, !.lease = n,
                              !.expires = expires, !.attempts = n]
<1>1. n \in Nat \ {0} /\ n <= MaxRunAttempts /\ row.pending = NoOutcome
  BY LimitAssumption DEF JobRow, RowShape
<1>2. new \in JobRow
  BY <1>1 DEF JobRow, JobState, RunningState
<1>3. /\ new.state = "claimed" /\ new.worker = w /\ new.pending = NoOutcome
      /\ new.lease = n /\ new.attempts = n
  BY <1>1 DEF JobRow
<1>4. RowShape(new)
  <2> HIDE DEF new
  <2> QED BY <1>1, <1>3, IdAssumption DEF RowShape, RunningState, FinalizingState,
         Outcome, Terminal, NoLease
<1> QED BY <1>2, <1>4

\* A row that recovery closes is well formed.
LEMMA ClosedRowShape ==
    ASSUME NEW row \in JobRow, RowShape(row), row.lease # NoLease,
           NEW outcome \in {"cancelled", "infra_failed"}
    PROVE  /\ ClosedRow(row, outcome) \in JobRow
           /\ RowShape(ClosedRow(row, outcome))
           /\ ClosedRow(row, outcome).state \in FinalizingState
BY ZenonT(30) DEF ClosedRow, JobRow, RowShape, JobState, RunningState, FinalizingState,
       Terminal, Outcome, NoLease, NoOutcome

\* A transition leads to one of the states the machine has after the queue.
LEMMA ValidTarget ==
    ASSUME NEW from, NEW to, NEW evidence, ValidTransition(from, to, evidence)
    PROVE  /\ to \in RunningState \cup FinalizingState \cup Outcome
           /\ to \in Outcome => from = "cleaning_up"
           /\ to = "cleaning_up" => from = "collecting_artifacts"
           /\ to = "collecting_artifacts" => evidence.pending \in Outcome
           /\ from \in FinalizingState => to \in FinalizingState \cup Outcome
           /\ from \notin Outcome
BY DEF ValidTransition, ForwardEdge, EarlyOutcomeAllowed, RunningState,
       FinalizingState, Outcome, Terminal

\* The row a transition writes is well formed, if the old one is and either
\* somebody holds its lease or it is already being closed.
LEMMA TransitionedRowShape ==
    ASSUME NEW row \in JobRow, RowShape(row), NEW to,
           NEW evidence \in TransitionEvidence,
           ValidTransition(row.state, to, evidence),
           evidence.pending # NoOutcome
              => row.pending \in {NoOutcome, evidence.pending},
           EvidenceChecks(TransitionedRow(row, to, evidence)),
           row.lease # NoLease \/ row.state \in FinalizingState
    PROVE  /\ TransitionedRow(row, to, evidence) \in JobRow
           /\ RowShape(TransitionedRow(row, to, evidence))
<1> DEFINE new == TransitionedRow(row, to, evidence)
<1>1. /\ to \in RunningState \cup FinalizingState \cup Outcome
      /\ to \in Outcome => row.state = "cleaning_up"
      /\ to = "cleaning_up" => row.state = "collecting_artifacts"
      /\ to = "collecting_artifacts" => evidence.pending \in Outcome
      /\ row.state \in FinalizingState => to \in FinalizingState \cup Outcome
  BY ValidTarget
<1>2. /\ evidence.pending \in Outcome \cup {NoOutcome}
      /\ evidence.done \subseteq Evidence
  BY DEF TransitionEvidence
<1>3. /\ new.state = to
      /\ new.worker = row.worker
      /\ new.attempts = row.attempts
      /\ new.pending = IF evidence.pending = NoOutcome THEN row.pending
                                                       ELSE evidence.pending
      /\ new.done = row.done \cup evidence.done
      /\ new.lease = IF Terminal(to) THEN NoLease ELSE row.lease
      /\ new.expires = IF Terminal(to) THEN 0 ELSE row.expires
  BY DEF TransitionedRow, JobRow
<1>4. new \in JobRow
  BY <1>1, <1>2, ZenonT(30) DEF TransitionedRow, JobRow, NoLease, JobState
<1>5. RowShape(new)
  <2>1. CASE to \in Outcome
    BY <2>1, <1>1, <1>3 DEF RowShape, EvidenceChecks, Terminal, Outcome,
       RunningState, FinalizingState, NoOutcome
  <2>2. CASE to \notin Outcome /\ row.lease # NoLease
    BY <2>2, <1>1, <1>2, <1>3 DEF RowShape, Terminal, Outcome,
       RunningState, FinalizingState, NoOutcome
  <2>3. CASE to \notin Outcome /\ row.state \in FinalizingState
    BY <2>3, <1>1, <1>2, <1>3 DEF RowShape, Terminal, Outcome,
       RunningState, FinalizingState, NoOutcome
  <2> QED BY <2>1, <2>2, <2>3
<1> QED BY <1>4, <1>5

-------------------------------------------------------------------------------
(* Every table stays well formed and every row keeps its shape.  Neither is*)
(* inductive alone: a snapshot names a worker only because a leased row has*)
(* one, and a row keeps its shape only because its columns are typed.      *)

Shape == TypeOK /\ RowsConsistent

\* What a worker may send is a TransitionEvidence.
LEMMA WorkerEvidenceType ==
    ASSUME NEW pending \in WorkerOutcomes \cup {NoOutcome},
           NEW done \in WorkerEvidence
    PROVE  [pending |-> pending, done |-> done] \in TransitionEvidence
BY IdAssumption DEF TransitionEvidence

\* Giving back a unit of capacity keeps the workers table well formed.
LEMMA ReleaseCapacityType ==
    ASSUME workers \in [Workers -> WorkerRow], NEW w \in Workers \cup {NoWorker}
    PROVE  ReleaseCapacity(workers, w) \in [Workers -> WorkerRow]
BY DEF ReleaseCapacity, WorkerRow

\* A log entry is added for one job.
LEMMA AppendEventType ==
    ASSUME TypeOK, NEW j \in Jobs, NEW state \in JobState, NEW changed \in BOOLEAN,
           AppendEvent(j, state, changed)
    PROVE  log' \in [Jobs -> [last : JobState \cup {"absent"},
                              webhook : JobState \cup {"absent"}]]
BY DEF AppendEvent, TypeOK

\* One row of the table is replaced by a well formed row.
LEMMA ReplaceRow ==
    ASSUME Shape, NEW j \in Jobs, NEW row \in JobRow, RowShape(row),
           jobs' = [jobs EXCEPT ![j] = row]
    PROVE  jobs' \in [Jobs -> JobRow] /\ RowsConsistent'
<1>1. jobs' \in [Jobs -> JobRow]
  BY DEF Shape, TypeOK
<1>2. RowsConsistent'
  <2> SUFFICES ASSUME NEW i \in Jobs PROVE RowShape(jobs'[i])
    BY DEF RowsConsistent, RowShape
  <2>1. jobs'[i] = IF i = j THEN row ELSE jobs[i]
    BY DEF Shape, TypeOK
  <2> QED BY <2>1 DEF Shape, RowsConsistent
<1> QED BY <1>1, <1>2

\* transition_job_state keeps the tables well formed, whoever asks for it, if a
\* lease is held or the job is being closed.
LEMMA TransitionShape ==
    ASSUME Shape, NEW j \in Jobs, NEW n \in Nat, NEW to,
           NEW evidence \in TransitionEvidence,
           Transition(j, n, to, evidence),
           jobs[j].lease # NoLease \/ jobs[j].state \in FinalizingState
    PROVE  /\ jobs' \in [Jobs -> JobRow] /\ RowsConsistent'
           /\ workers' \in [Workers -> WorkerRow]
           /\ log' \in [Jobs -> [last : JobState \cup {"absent"},
                                 webhook : JobState \cup {"absent"}]]
           /\ origin' \in [Jobs -> [tests : Nat, outcome : Nat, evidence : Nat]]
<1> DEFINE row == jobs[j]
           new == TransitionedRow(row, to, evidence)
<1>1. row \in JobRow /\ RowShape(row)
  BY DEF Shape, TypeOK, RowsConsistent
<1>2. /\ ValidTransition(row.state, to, evidence)
      /\ evidence.pending # NoOutcome => row.pending \in {NoOutcome, evidence.pending}
      /\ EvidenceChecks(new)
      /\ jobs' = [jobs EXCEPT ![j] = new]
      /\ workers' = IF Terminal(to) THEN ReleaseCapacity(workers, row.worker)
                                    ELSE workers
      /\ AppendEvent(j, to, row.state # to)
      /\ Credit(j, n, row, new)
  BY DEF Transition
<1>3. new \in JobRow /\ RowShape(new)
  BY <1>1, <1>2, TransitionedRowShape
<1>4. jobs' \in [Jobs -> JobRow] /\ RowsConsistent'
  <2> HIDE DEF new
  <2> QED BY <1>2, <1>3, ReplaceRow
<1>5. workers' \in [Workers -> WorkerRow]
  <2>1. row.worker \in Workers \cup {NoWorker}
    BY <1>1 DEF JobRow
  <2> QED BY <1>2, <2>1, ReleaseCapacityType DEF Shape, TypeOK
<1>6. to \in JobState
  BY <1>2, ValidTarget DEF JobState
<1>7. log' \in [Jobs -> [last : JobState \cup {"absent"},
                         webhook : JobState \cup {"absent"}]]
  BY <1>2, <1>6, AppendEventType DEF Shape
<1>8. origin' \in [Jobs -> [tests : Nat, outcome : Nat, evidence : Nat]]
  <2> HIDE DEF new
  <2> QED BY <1>2 DEF Credit, Shape, TypeOK
<1> QED BY <1>4, <1>5, <1>7, <1>8

\* Each disposition of a stale job keeps the tables well formed.
LEMMA RecoverShape ==
    ASSUME Shape, NEW x \in stale, NEW new \in JobRow, RowShape(new),
           new.state \in JobState, Recover(x, new)
    PROVE  /\ jobs' \in [Jobs -> JobRow] /\ RowsConsistent'
           /\ workers' \in [Workers -> WorkerRow]
           /\ clock' \in Nat
           /\ log' \in [Jobs -> [last : JobState \cup {"absent"},
                                 webhook : JobState \cup {"absent"}]]
           /\ stale' \subseteq StaleJob
           /\ fin' \subseteq Finalization
           /\ origin' \in [Jobs -> [tests : Nat, outcome : Nat, evidence : Nat]]
<1>1. x.job \in Jobs /\ x.worker \in Workers
  BY DEF Shape, TypeOK, StaleJob
<1>2. jobs' \in [Jobs -> JobRow] /\ RowsConsistent'
  BY <1>1, ReplaceRow DEF Recover
<1>3. workers' \in [Workers -> WorkerRow]
  BY <1>1, ReleaseCapacityType DEF Recover, Shape, TypeOK
<1>4. log' \in [Jobs -> [last : JobState \cup {"absent"},
                         webhook : JobState \cup {"absent"}]]
  BY <1>1, AppendEventType DEF Recover, Shape
<1> QED BY <1>2, <1>3, <1>4 DEF Recover, Shape, TypeOK

\* Every action keeps the tables well formed and the rows in shape.
LEMMA ShapeStep ==
    ASSUME Shape, [Next]_vars
    PROVE  Shape'
<1> DEFINE LogType == [Jobs -> [last : JobState \cup {"absent"},
                                webhook : JobState \cup {"absent"}]]
<1>a. TypeOK /\ RowsConsistent
  BY DEF Shape
<1>1. ASSUME NEW j \in Jobs, CreateJob(j) PROVE Shape'
  <2> DEFINE new == [jobs[j] EXCEPT !.state = "queued"]
  <2>1. jobs[j] \in JobRow /\ RowShape(jobs[j])
    BY <1>a DEF TypeOK, RowsConsistent
  <2>2. new \in JobRow /\ RowShape(new)
    BY <1>1, <2>1, LimitAssumption DEF CreateJob, JobRow, RowShape, JobState, RunningState,
       FinalizingState, Outcome, Terminal, NoLease
  <2>3. jobs' = [jobs EXCEPT ![j] = new]
    BY <1>1 DEF CreateJob
  <2>4. jobs' \in [Jobs -> JobRow] /\ RowsConsistent'
    <3> HIDE DEF new
    <3> QED BY <2>2, <2>3, ReplaceRow
  <2>5. log' \in LogType
    BY <1>1, <1>a, AppendEventType DEF CreateJob, JobState
  <2>6. outbox' \subseteq OutboxKey
    BY <1>1, <1>a DEF CreateJob, TypeOK, QueuedKey, OutboxKey
  <2> QED BY <1>1, <1>a, <2>4, <2>5, <2>6 DEF CreateJob, Shape, TypeOK
<1>2. ASSUME NEW j \in Jobs, CancelJob(j) PROVE Shape'
  <2> DEFINE new == [jobs[j] EXCEPT !.state = "collecting_artifacts",
                                    !.pending = "cancelled"]
  <2>1. jobs[j] \in JobRow /\ RowShape(jobs[j])
    BY <1>a DEF TypeOK, RowsConsistent
  <2>2. new \in JobRow /\ RowShape(new)
    BY <1>2, <2>1 DEF CancelJob, Live, JobRow, RowShape, JobState, RunningState,
       FinalizingState, Outcome, Terminal, NoLease, NoOutcome
  <2>3. jobs' = [jobs EXCEPT ![j] = new]
    BY <1>2, <1>a DEF CancelJob, TypeOK, JobRow
  <2>4. jobs' \in [Jobs -> JobRow] /\ RowsConsistent'
    <3> HIDE DEF new
    <3> QED BY <2>2, <2>3, ReplaceRow
  <2>5. log' \in LogType
    BY <1>2, <1>a, AppendEventType DEF CancelJob, JobState, FinalizingState
  <2> QED BY <1>2, <1>a, <2>4, <2>5 DEF CancelJob, Shape, TypeOK
<1>3. ASSUME NEW w \in Workers, NEW c \in Capacities, RegisterWorker(w, c)
      PROVE  Shape'
  <2>1. workers' \in [Workers -> WorkerRow]
    BY <1>3, <1>a, IdAssumption DEF RegisterWorker, TypeOK, WorkerRow
  <2>2. RowsConsistent'
    BY <1>3, <1>a DEF RegisterWorker, RowsConsistent, RowShape
  <2> QED BY <1>3, <1>a, <2>1, <2>2 DEF RegisterWorker, Shape, TypeOK
<1>4. ASSUME NEW w \in Workers, NEW st \in OperatorStates, SetWorkerState(w, st)
      PROVE  Shape'
  <2>1. workers' \in [Workers -> WorkerRow]
    BY <1>4, <1>a, IdAssumption DEF SetWorkerState, TypeOK, WorkerRow
  <2>2. RowsConsistent'
    BY <1>4, <1>a DEF SetWorkerState, RowsConsistent, RowShape
  <2> QED BY <1>4, <1>a, <2>1, <2>2 DEF SetWorkerState, Shape, TypeOK
<1>5. ASSUME NEW w \in Workers, NEW presented \in HeartbeatReports,
             NEW c \in Capacities, Heartbeat(w, presented, c)
      PROVE  Shape'
  <2>1. workers' \in [Workers -> WorkerRow]
    <3> DEFINE new == [workers[w] EXCEPT !.capacity = c, !.beat = clock]
    <3>1. new \in WorkerRow
      BY <1>a, IdAssumption, ZenonT(30) DEF TypeOK, WorkerRow
    <3>2. workers' = [workers EXCEPT ![w] = new]
      BY <1>5, <1>a DEF Heartbeat, TypeOK, WorkerRow
    <3> HIDE DEF new
    <3> QED BY <1>a, <3>1, <3>2 DEF TypeOK
  <2>2. ASSUME NEW i \in Jobs PROVE jobs'[i] \in JobRow /\ RowShape(jobs'[i])
    <3> DEFINE new == [jobs[i] EXCEPT !.expires = clock + LeaseTtl]
    <3>1. jobs[i] \in JobRow /\ RowShape(jobs[i]) /\ clock + LeaseTtl \in Nat
      BY <1>a, LimitAssumption DEF TypeOK, RowsConsistent
    <3>2. new \in JobRow /\ RowShape(new)
      BY <3>1 DEF JobRow, RowShape
    <3>3. jobs'[i] = new \/ jobs'[i] = jobs[i]
      BY <1>5 DEF Heartbeat
    <3> HIDE DEF new
    <3> QED BY <3>1, <3>2, <3>3
  <2>3. jobs' \in [Jobs -> JobRow] /\ RowsConsistent'
    BY <1>5, <2>2 DEF Heartbeat, RowsConsistent, RowShape
  <2> QED BY <1>5, <1>a, <2>1, <2>3 DEF Heartbeat, Shape, TypeOK
<1>6. ASSUME NEW j \in Jobs, NEW w \in Workers, NEW now \in SchedulerClock,
             ClaimJob(j, w, now)
      PROVE  Shape'
  <2> DEFINE new == [jobs[j] EXCEPT !.state = "claimed", !.worker = w,
                                    !.lease = jobs[j].attempts + 1,
                                    !.expires = now + LeaseTtl,
                                    !.attempts = jobs[j].attempts + 1]
  <2>1. jobs[j] \in JobRow /\ RowShape(jobs[j]) /\ now \in Nat
    BY <1>a DEF TypeOK, RowsConsistent, SchedulerClock
  <2>2. new \in JobRow /\ RowShape(new)
    <3>1. now + LeaseTtl \in Nat /\ jobs[j].state = "queued"
      BY <1>6, <2>1, LimitAssumption DEF ClaimJob
    <3> QED BY <2>1, <3>1, ClaimedRowShape
  <2>3. jobs' = [jobs EXCEPT ![j] = new]
    BY <1>6, <1>a DEF ClaimJob, TypeOK, JobRow
  <2>4. jobs' \in [Jobs -> JobRow] /\ RowsConsistent'
    <3> HIDE DEF new
    <3> QED BY <2>2, <2>3, ReplaceRow
  <2>5. log' \in LogType
    BY <1>6, <1>a, AppendEventType DEF ClaimJob, JobState, RunningState
  <2>6. workers' \in [Workers -> WorkerRow]
    <3>1. [workers[w] EXCEPT !.active = workers[w].active + 1] \in WorkerRow
      BY <1>a DEF TypeOK, WorkerRow
    <3>2. workers' = [workers EXCEPT
                         ![w] = [workers[w] EXCEPT !.active = workers[w].active + 1]]
      BY <1>6 DEF ClaimJob
    <3> QED BY <1>a, <3>1, <3>2 DEF TypeOK
  <2> QED BY <1>6, <1>a, <2>4, <2>5, <2>6 DEF ClaimJob, Shape, TypeOK
<1>7. ASSUME NEW j \in Jobs, NEW w \in Workers, NEW l \in 1 .. MaxRunAttempts,
             NEW to \in JobState, NEW evidence \in TransitionEvidence,
             WorkerTransition(j, w, l, to, evidence)
      PROVE  Shape'
  <2>1. jobs[j].lease # NoLease /\ l \in Nat /\ Transition(j, l, to, evidence)
    BY <1>7 DEF WorkerTransition, LeaseGuard, NoLease
  <2>2. /\ jobs' \in [Jobs -> JobRow] /\ RowsConsistent'
        /\ workers' \in [Workers -> WorkerRow]
        /\ log' \in LogType
        /\ origin' \in [Jobs -> [tests : Nat, outcome : Nat, evidence : Nat]]
    BY <2>1, TransitionShape
  <2> QED BY <1>7, <1>a, <2>2 DEF WorkerTransition, Shape, TypeOK
<1>8. ASSUME NEW j \in Jobs, NEW w \in Workers, NEW l \in 1 .. MaxRunAttempts,
             NEW outcome \in WorkerOutcomes, NEW done \in WorkerEvidence,
             RecordResult(j, w, l, outcome, done)
      PROVE  Shape'
  <2> DEFINE new == [jobs[j] EXCEPT !.pending = outcome,
                                    !.done = jobs[j].done \cup done]
  <2>1. jobs[j] \in JobRow /\ RowShape(jobs[j]) /\ l \in Nat
    BY <1>a DEF TypeOK, RowsConsistent
  <2>2. jobs[j].lease # NoLease /\ Live(j) /\ jobs[j].state \in JobState
    BY <1>8, <2>1 DEF RecordResult, LeaseGuard, NoLease, Live, JobRow
  <2>3. outcome \in Outcome /\ done \subseteq Evidence
    BY IdAssumption
  <2>4. new \in JobRow /\ RowShape(new)
    BY <2>1, <2>2, <2>3 DEF JobRow, RowShape, Live, JobState, RunningState,
       FinalizingState, Outcome, Terminal, NoLease, NoOutcome
  <2>5. jobs' = [jobs EXCEPT ![j] = new]
    BY <1>8 DEF RecordResult
  <2>6. jobs' \in [Jobs -> JobRow] /\ RowsConsistent'
    <3> HIDE DEF new
    <3> QED BY <2>4, <2>5, ReplaceRow
  <2>7. log' \in LogType
    BY <1>8, <1>a, <2>2, AppendEventType DEF RecordResult
  <2>8. origin' \in [Jobs -> [tests : Nat, outcome : Nat, evidence : Nat]]
    BY <1>8, <1>a, <2>1 DEF RecordResult, Credit, TypeOK
  <2> QED BY <1>8, <1>a, <2>6, <2>7, <2>8 DEF RecordResult, Shape, TypeOK
<1>9. ASSUME NEW leader \in Leaders, NEW now \in SchedulerClock,
             FindStaleJobs(leader, now)
      PROVE  Shape'
  <2>1. ASSUME NEW j \in Jobs, StaleAt(j, now)
        PROVE  Snapshot(leader, j, now) \in StaleJob
    <3>1. jobs[j] \in JobRow /\ RowShape(jobs[j]) /\ now \in Nat
      BY <1>a DEF TypeOK, RowsConsistent, SchedulerClock
    <3> QED BY <2>1, <3>1 DEF Snapshot, StaleJob, StaleAt, Live, RowShape, JobRow
  <2>2. stale' \subseteq StaleJob
    BY <1>9, <1>a, <2>1 DEF FindStaleJobs, TypeOK
  <2>3. RowsConsistent'
    BY <1>9, <1>a DEF FindStaleJobs, RowsConsistent, RowShape
  <2> QED BY <1>9, <1>a, <2>2, <2>3 DEF FindStaleJobs, Shape, TypeOK
<1>10. ASSUME NEW x \in stale, LostRace(x) PROVE Shape'
  <2>1. RowsConsistent'
    BY <1>10, <1>a DEF LostRace, RowsConsistent, RowShape
  <2> QED BY <1>10, <1>a, <2>1 DEF LostRace, Shape, TypeOK
<1>11. ASSUME NEW x \in stale, RecoverRequeue(x) PROVE Shape'
  <2> DEFINE new == RequeuedRow(jobs[x.job])
  <2>1. x \in StaleJob /\ jobs[x.job] \in JobRow /\ RowShape(jobs[x.job])
    BY <1>a DEF TypeOK, RowsConsistent, StaleJob
  <2>2. Recover(x, new) /\ jobs[x.job].attempts < MaxRunAttempts /\ outbox' = outbox
    BY <1>11 DEF RecoverRequeue, AttemptsLeft, Recover, StillStale
  <2>3. new \in JobRow /\ RowShape(new) /\ new.state \in JobState
    BY <2>1, <2>2, RequeuedRowShape DEF RequeuedRow, JobRow, JobState
  <2> HIDE DEF new
  <2> QED BY <1>a, <2>2, <2>3, RecoverShape DEF Shape, TypeOK
<1>12. ASSUME NEW x \in stale, NEW outcome \in {"cancelled", "infra_failed"},
              Recover(x, ClosedRow(jobs[x.job], outcome)),
              outbox' \subseteq OutboxKey
       PROVE  Shape'
  <2> DEFINE new == ClosedRow(jobs[x.job], outcome)
  <2>1. x \in StaleJob /\ jobs[x.job] \in JobRow /\ RowShape(jobs[x.job])
    BY <1>a DEF TypeOK, RowsConsistent, StaleJob
  <2>2. jobs[x.job].lease # NoLease
    BY <1>12, <2>1 DEF Recover, StillStale, StaleJob
  <2>3. new \in JobRow /\ RowShape(new) /\ new.state \in JobState
    BY <2>1, <2>2, ClosedRowShape DEF JobState
  <2> HIDE DEF new
  <2>4. Recover(x, new)
    BY <1>12 DEF new
  <2> QED BY <1>a, <1>12, <2>3, <2>4, RecoverShape DEF Shape, TypeOK
<1>13. ASSUME NEW x \in stale, RecoverCancelling(x) PROVE Shape'
  BY <1>12, <1>13, <1>a DEF RecoverCancelling, TypeOK
<1>14. ASSUME NEW x \in stale, RecoverExhausted(x) PROVE Shape'
  <2>1. x.job \in Jobs /\ x.attempts \in Nat
    BY <1>a DEF TypeOK, StaleJob
  <2>2. outbox' \subseteq OutboxKey
    BY <1>14, <1>a, <2>1 DEF RecoverExhausted, TypeOK, DeadKey, OutboxKey
  <2> QED BY <1>12, <1>14, <2>2 DEF RecoverExhausted
<1>15. ASSUME NEW leader \in Leaders, NEW task \in Task, NEW j \in Jobs,
              BeginFinalize(leader, task, j)
       PROVE  Shape'
  <2>1. fin' \subseteq Finalization
    BY <1>15, <1>a DEF BeginFinalize, ReadyToFinalize, TypeOK, Finalization, Task,
       FinalizingState
  <2>2. RowsConsistent'
    BY <1>15, <1>a DEF BeginFinalize, RowsConsistent, RowShape
  <2> QED BY <1>15, <1>a, <2>1, <2>2 DEF BeginFinalize, Shape, TypeOK
<1>16. ASSUME NEW f \in fin, NEW to, NEW done \in SUBSET Evidence,
              f.at \in FinalizingState, jobs[f.job].state = f.at,
              Transition(f.job, jobs[f.job].attempts, to,
                         [pending |-> f.outcome, done |-> done]),
              fin' \subseteq Finalization, UNCHANGED <<clock, outbox, stale>>
       PROVE  Shape'
  <2> DEFINE evidence == [pending |-> f.outcome, done |-> done]
  <2>1. f \in Finalization /\ f.job \in Jobs /\ jobs[f.job].attempts \in Nat
    BY <1>a DEF TypeOK, Finalization, JobRow
  <2>2. evidence \in TransitionEvidence
    BY <2>1 DEF TransitionEvidence, Finalization, Outcome
  <2> HIDE DEF evidence
  <2>3. Transition(f.job, jobs[f.job].attempts, to, evidence)
    BY <1>16 DEF evidence
  <2>4. /\ jobs' \in [Jobs -> JobRow] /\ RowsConsistent'
        /\ workers' \in [Workers -> WorkerRow]
        /\ log' \in LogType
        /\ origin' \in [Jobs -> [tests : Nat, outcome : Nat, evidence : Nat]]
    BY <1>16, <2>1, <2>2, <2>3, TransitionShape
  <2> QED BY <1>16, <1>a, <2>4 DEF Shape, TypeOK
<1>17. ASSUME NEW f \in fin, NEW at \in FinalizingState \cup {"dead_letter"},
              Advance(f, at) \/ Finish(f)
       PROVE  fin' \subseteq Finalization
  <2>1. f \in Finalization /\ [f EXCEPT !.at = at] \in Finalization
    BY <1>a DEF TypeOK, Finalization
  <2> QED BY <1>17, <1>a, <2>1 DEF Advance, Finish, TypeOK
<1>18. ASSUME NEW f \in fin, FinalizeArtifacts(f) PROVE Shape'
  <2>1. /\ f.at \in FinalizingState
        /\ jobs[f.job].state = f.at
        /\ Transition(f.job, jobs[f.job].attempts, "cleaning_up",
                      [pending |-> f.outcome, done |-> {"artifacts_finalized"}])
        /\ Advance(f, "cleaning_up")
        /\ UNCHANGED <<clock, outbox, stale>>
    BY <1>18 DEF FinalizeArtifacts, FinalizingState
  <2>2. fin' \subseteq Finalization
    BY <1>17, <2>1 DEF FinalizingState
  <2>3. {"artifacts_finalized"} \in SUBSET Evidence
    BY DEF Evidence
  <2> QED BY <1>16, <2>1, <2>2, <2>3
<1>19. ASSUME NEW f \in fin, FinalizeCleanup(f) PROVE Shape'
  BY <1>16, <1>17, <1>19 DEF FinalizeCleanup, FinalizingState
<1>20. ASSUME NEW f \in fin, FinalizeDeadLetter(f) PROVE Shape'
  <2>1. f.job \in Jobs /\ jobs[f.job].attempts \in Nat
    BY <1>a DEF TypeOK, Finalization, JobRow
  <2>2. outbox' \subseteq OutboxKey
    BY <1>20, <1>a, <2>1 DEF FinalizeDeadLetter, TypeOK, DeadKey, OutboxKey
  <2>3. fin' \subseteq Finalization
    BY <1>17, <1>20 DEF FinalizeDeadLetter
  <2>4. RowsConsistent'
    BY <1>20, <1>a DEF FinalizeDeadLetter, RowsConsistent, RowShape
  <2> QED BY <1>20, <1>a, <2>2, <2>3, <2>4 DEF FinalizeDeadLetter, Shape, TypeOK
<1>21. ASSUME NEW f \in fin, FinalizeLost(f) PROVE Shape'
  <2>1. RowsConsistent'
    BY <1>21, <1>a DEF FinalizeLost, RowsConsistent, RowShape
  <2> QED BY <1>21, <1>a, <2>1 DEF FinalizeLost, Finish, Shape, TypeOK
<1>22. ASSUME NEW leader \in Leaders, Abandon(leader) PROVE Shape'
  <2>1. RowsConsistent'
    BY <1>22, <1>a DEF Abandon, RowsConsistent, RowShape
  <2> QED BY <1>22, <1>a, <2>1 DEF Abandon, Shape, TypeOK
<1>23. CASE Tick
  <2>1. RowsConsistent'
    BY <1>23, <1>a DEF Tick, RowsConsistent, RowShape
  <2> QED BY <1>23, <1>a, <2>1 DEF Tick, Shape, TypeOK
<1>24. CASE UNCHANGED vars
  BY <1>24, <1>a DEF vars, Shape, TypeOK, RowsConsistent, RowShape
<1>25. ASSUME NEW j \in Jobs, ApiStep(j) PROVE Shape'
  BY <1>1, <1>2, <1>25 DEF ApiStep
<1>26. ASSUME NEW w \in Workers, WorkerStep(w) PROVE Shape'
  BY <1>3, <1>4, <1>5, <1>7, <1>8, <1>26, WorkerEvidenceType DEF WorkerStep
<1>27. ASSUME NEW leader \in Leaders, LeaderStep(leader) PROVE Shape'
  BY <1>6, <1>9, <1>10, <1>11, <1>13, <1>14, <1>15, <1>18, <1>19, <1>20, <1>21,
     <1>22, <1>27 DEF LeaderStep
<1> QED BY <1>23, <1>24, <1>25, <1>26, <1>27 DEF Next

\* The tables and rows start well formed.
LEMMA ShapeInit == Init => Shape
<1> SUFFICES ASSUME Init PROVE Shape
  OBVIOUS
<1>1. AbsentJob \in JobRow /\ RowShape(AbsentJob)
  BY LimitAssumption DEF AbsentJob, JobRow, RowShape, NoLease, RunningState,
     FinalizingState, Outcome, Terminal
<1>2. AbsentWorker \in WorkerRow
  BY DEF AbsentWorker, WorkerRow
<1> HIDE DEF AbsentJob, AbsentWorker
<1> QED BY <1>1, <1>2 DEF Init, Shape, TypeOK, RowsConsistent

\* In every reachable state the tables are well formed and rows are in shape.
THEOREM ShapeInvariant == Spec => []Shape
BY ShapeInit, ShapeStep, PTL DEF Spec

\* The model's tables, snapshots and finalizations are always well formed: no
\* transaction of repository/src/jobs.rs writes a row outside the schema.
THEOREM TypeCorrect == Spec => []TypeOK
BY ShapeInvariant, PTL DEF Shape

\* The columns of a job row agree in every reachable state, the ones no CHECK of
\* migration 0003 enforces included; delivery_attempts never passes the limit.
THEOREM RowsAlwaysConsistent == Spec => []RowsConsistent
BY ShapeInvariant, PTL DEF Shape

-------------------------------------------------------------------------------
(* What one step may do to one row: the rows of the table see only these   *)
(* changes, whoever makes them.                                            *)

\* A change of one row by transition_job_state.
Moved(old, new) ==
    \E to \in JobState, evidence \in TransitionEvidence :
        /\ old.lease # NoLease \/ old.state \in FinalizingState
        /\ ValidTransition(old.state, to, evidence)
        /\ evidence.pending # NoOutcome
              => old.pending \in {NoOutcome, evidence.pending}
        /\ EvidenceChecks(new)
        /\ new = TransitionedRow(old, to, evidence)

\* A change of one row by recover_stale_job.
Recovered(old, new) ==
    /\ old.lease # NoLease
    /\ \/ old.pending # "cancelled" /\ new = RequeuedRow(old)
       \/ old.pending = "cancelled" /\ new = ClosedRow(old, "cancelled")
       \/ old.pending # "cancelled" /\ new = ClosedRow(old, "infra_failed")

OrdinaryStep(old, new) ==
    \/ new = old
    \/ old.state = "absent" /\ new = [old EXCEPT !.state = "queued"]
    \/ /\ old.pending = NoOutcome
       /\ old.state # "absent" /\ ~Terminal(old.state)
       /\ new = [old EXCEPT !.state = "collecting_artifacts",
                            !.pending = "cancelled"]
    \/ old.lease # NoLease /\ \E e \in Nat : new = [old EXCEPT !.expires = e]
    \/ /\ old.state = "queued"
       /\ \E w \in Workers, n, e \in Nat :
             new = [old EXCEPT !.state = "claimed", !.worker = w, !.lease = n,
                               !.expires = e, !.attempts = n]
    \/ Moved(old, new)
    \/ /\ old.lease # NoLease
       /\ \E outcome \in Outcome, done \in SUBSET Evidence :
             /\ old.pending \in {NoOutcome, outcome}
             /\ new = [old EXCEPT !.pending = outcome, !.done = @ \cup done]

RowStep(old, new) == OrdinaryStep(old, new) \/ Recovered(old, new)

RecoveryStep(x) == RecoverRequeue(x) \/ RecoverCancelling(x) \/ RecoverExhausted(x)

\* A row changes in an ordinary way, or a recovery works on a snapshot of it.
Stepped(i) ==
    \/ OrdinaryStep(jobs[i], jobs'[i])
    \/ \E x \in stale : x.job = i /\ RecoveryStep(x)

\* Every step changes every row in one of these ways.
LEMMA EveryRowStepped ==
    ASSUME Shape, [Next]_vars, NEW i \in Jobs
    PROVE  Stepped(i)
<1>a. TypeOK /\ RowsConsistent
  BY DEF Shape
<1>b. jobs \in [Jobs -> JobRow]
  BY <1>a DEF TypeOK
<1>c. ASSUME jobs' = jobs PROVE Stepped(i)
  BY <1>c DEF Stepped, OrdinaryStep
<1>d. ASSUME NEW j \in Jobs, NEW row, jobs' = [jobs EXCEPT ![j] = row],
             OrdinaryStep(jobs[j], row)
      PROVE  Stepped(i)
  <2>1. jobs'[i] = IF i = j THEN row ELSE jobs[i]
    BY <1>b, <1>d
  <2>2. OrdinaryStep(jobs[i], jobs[i])
    BY DEF OrdinaryStep
  <2> QED BY <1>d, <2>1, <2>2 DEF Stepped
<1>1. ASSUME NEW j \in Jobs, ApiStep(j) PROVE Stepped(i)
  <2>1. CASE CreateJob(j)
    <3> DEFINE row == [jobs[j] EXCEPT !.state = "queued"]
    <3>1. jobs' = [jobs EXCEPT ![j] = row] /\ OrdinaryStep(jobs[j], row)
      BY <2>1, <1>b DEF CreateJob, OrdinaryStep
    <3> HIDE DEF row
    <3> QED BY <3>1, <1>d
  <2>2. CASE CancelJob(j)
    <3> DEFINE row == [jobs[j] EXCEPT !.state = "collecting_artifacts",
                                      !.pending = "cancelled"]
    <3>1. jobs' = [jobs EXCEPT ![j] = row]
      BY <2>2, <1>b DEF CancelJob, JobRow
    <3>2. OrdinaryStep(jobs[j], row)
      BY <2>2 DEF CancelJob, Live, OrdinaryStep
    <3> HIDE DEF row
    <3> QED BY <3>1, <3>2, <1>d
  <2> QED BY <1>1, <2>1, <2>2 DEF ApiStep
<1>2. ASSUME NEW w \in Workers, WorkerStep(w) PROVE Stepped(i)
  <2>1. ASSUME NEW c \in Capacities, RegisterWorker(w, c)
        PROVE  Stepped(i)
    BY <2>1, <1>c DEF RegisterWorker
  <2>2. ASSUME NEW st \in OperatorStates, SetWorkerState(w, st)
        PROVE  Stepped(i)
    BY <2>2, <1>c DEF SetWorkerState
  <2>3. ASSUME NEW presented \in HeartbeatReports, NEW c \in Capacities,
               Heartbeat(w, presented, c)
        PROVE  Stepped(i)
    <3>1. CASE i \in presented /\ Extends(w, i)
      <4>1. /\ jobs[i].lease # NoLease
            /\ clock + LeaseTtl \in Nat
            /\ jobs'[i] = [jobs[i] EXCEPT !.expires = clock + LeaseTtl]
        BY <2>3, <3>1, <1>a, LimitAssumption DEF Heartbeat, Extends, TypeOK
      <4> QED BY <4>1 DEF Stepped, OrdinaryStep
    <3>2. CASE ~(i \in presented /\ Extends(w, i))
      <4>1. jobs'[i] = jobs[i]
        BY <2>3, <3>2 DEF Heartbeat
      <4> QED BY <4>1 DEF Stepped, OrdinaryStep
    <3> QED BY <3>1, <3>2
  <2>4. ASSUME NEW j \in Jobs, NEW l \in 1 .. MaxRunAttempts, NEW to \in JobState,
               NEW evidence \in TransitionEvidence,
               WorkerTransition(j, w, l, to, evidence)
        PROVE  Stepped(i)
    <3> DEFINE row == TransitionedRow(jobs[j], to, evidence)
    <3>1. jobs[j].lease # NoLease
      BY <2>4 DEF WorkerTransition, LeaseGuard, NoLease
    <3>2. jobs' = [jobs EXCEPT ![j] = row]
      BY <2>4 DEF WorkerTransition, Transition
    <3>3. Moved(jobs[j], row)
      BY <2>4, <3>1 DEF WorkerTransition, Transition, Moved
    <3> HIDE DEF row
    <3> QED BY <3>2, <3>3, <1>d DEF OrdinaryStep
  <2>5. ASSUME NEW j \in Jobs, NEW l \in 1 .. MaxRunAttempts,
               NEW outcome \in WorkerOutcomes, NEW done \in WorkerEvidence,
               RecordResult(j, w, l, outcome, done)
        PROVE  Stepped(i)
    <3> DEFINE row == [jobs[j] EXCEPT !.pending = outcome,
                                      !.done = jobs[j].done \cup done]
    <3>1. /\ jobs[j].lease # NoLease
          /\ jobs[j].pending \in {NoOutcome, outcome}
      BY <2>5 DEF RecordResult, LeaseGuard, NoLease
    <3>2. jobs' = [jobs EXCEPT ![j] = row]
      BY <2>5 DEF RecordResult
    <3>3. outcome \in Outcome /\ done \in SUBSET Evidence
      BY IdAssumption
    <3>4. OrdinaryStep(jobs[j], row)
      BY <3>1, <3>3 DEF OrdinaryStep
    <3> HIDE DEF row
    <3> QED BY <3>2, <3>4, <1>d
  <2> QED BY <1>2, <2>1, <2>2, <2>3, <2>4, <2>5, WorkerEvidenceType DEF WorkerStep
<1>3. ASSUME NEW leader \in Leaders, LeaderStep(leader)
      PROVE  Stepped(i)
  <2>1. ASSUME NEW j \in Jobs, NEW w \in Workers, NEW now \in SchedulerClock,
               ClaimJob(j, w, now)
        PROVE  Stepped(i)
    <3> DEFINE n == jobs[j].attempts + 1
               row == [jobs[j] EXCEPT !.state = "claimed", !.worker = w,
                                      !.lease = n, !.expires = now + LeaseTtl,
                                      !.attempts = n]
    <3>1. now + LeaseTtl \in Nat /\ jobs[j].state = "queued" /\ n \in Nat
      BY <2>1, <1>b, LimitAssumption DEF SchedulerClock, ClaimJob, JobRow
    <3>2. jobs' = [jobs EXCEPT ![j] = row]
      BY <2>1, <1>b DEF ClaimJob, JobRow
    <3> HIDE DEF n
    <3>3. OrdinaryStep(jobs[j], row)
      BY <3>1 DEF OrdinaryStep
    <3> HIDE DEF row
    <3> QED BY <3>2, <3>3, <1>d
  <2>2. ASSUME NEW now \in SchedulerClock, FindStaleJobs(leader, now)
        PROVE  Stepped(i)
    BY <2>2, <1>c DEF FindStaleJobs
  <2>3. ASSUME NEW x \in stale, LostRace(x) PROVE Stepped(i)
    BY <2>3, <1>c DEF LostRace
  <2>4. ASSUME NEW x \in stale, RecoveryStep(x) PROVE Stepped(i)
    <3>1. CASE x.job = i
      BY <2>4, <3>1 DEF Stepped
    <3>2. CASE x.job # i
      <4>1. PICK row : jobs' = [jobs EXCEPT ![x.job] = row]
        BY <2>4 DEF RecoveryStep, RecoverRequeue, RecoverCancelling,
           RecoverExhausted, Recover
      <4>2. jobs'[i] = jobs[i]
        BY <4>1, <3>2, <1>b
      <4> QED BY <4>2 DEF Stepped, OrdinaryStep
    <3> QED BY <3>1, <3>2
  <2>5. ASSUME NEW task \in Task, NEW j \in Jobs, BeginFinalize(leader, task, j)
        PROVE  Stepped(i)
    BY <2>5, <1>c DEF BeginFinalize
  <2>6. ASSUME NEW f \in fin, NEW to \in JobState, NEW done \in SUBSET Evidence,
               NEW n, jobs[f.job].state \in FinalizingState,
               Transition(f.job, n, to, [pending |-> f.outcome, done |-> done])
        PROVE  Stepped(i)
    <3> DEFINE evidence == [pending |-> f.outcome, done |-> done]
               row == TransitionedRow(jobs[f.job], to, evidence)
    <3>1. evidence \in TransitionEvidence /\ f.job \in Jobs
      BY <1>a DEF TypeOK, Finalization, TransitionEvidence, Outcome
    <3> HIDE DEF evidence
    <3>2. Transition(f.job, n, to, evidence)
      BY <2>6 DEF evidence
    <3>3. jobs' = [jobs EXCEPT ![f.job] = row]
      BY <3>2 DEF Transition
    <3>4. Moved(jobs[f.job], row)
      BY <2>6, <3>1, <3>2 DEF Transition, Moved
    <3> HIDE DEF row
    <3> QED BY <3>1, <3>3, <3>4, <1>d DEF OrdinaryStep
  <2>7. ASSUME NEW f \in fin, FinalizeArtifacts(f) PROVE Stepped(i)
    BY <2>6, <2>7 DEF FinalizeArtifacts, FinalizingState, JobState, Evidence
  <2>8. ASSUME NEW f \in fin, FinalizeCleanup(f) PROVE Stepped(i)
    <3>1. f.outcome \in JobState
      BY <1>a DEF TypeOK, Finalization, JobState, Outcome
    <3> QED BY <2>6, <2>8, <3>1 DEF FinalizeCleanup, FinalizingState
  <2>9. ASSUME NEW f \in fin, FinalizeDeadLetter(f) \/ FinalizeLost(f)
        PROVE  Stepped(i)
    BY <2>9, <1>c DEF FinalizeDeadLetter, FinalizeLost
  <2>10. CASE Abandon(leader)
    BY <2>10, <1>c DEF Abandon
  <2> QED BY <1>3, <2>1, <2>2, <2>3, <2>4, <2>5, <2>7, <2>8, <2>9, <2>10
          DEF LeaderStep, RecoveryStep
<1>4. CASE Tick
  BY <1>4, <1>c DEF Tick
<1>5. CASE UNCHANGED vars
  BY <1>5, <1>c DEF vars
<1> QED BY <1>1, <1>2, <1>3, <1>4, <1>5 DEF Next

\* What a recovery does to the row of its snapshot.
LEMMA RecoveryRow ==
    ASSUME Shape, NEW x \in stale, RecoveryStep(x)
    PROVE  /\ x.job \in Jobs
           /\ jobs[x.job].lease # NoLease
           /\ Recovered(jobs[x.job], jobs'[x.job])
           /\ \A i \in Jobs : i # x.job => jobs'[i] = jobs[i]
<1>1. x.job \in Jobs /\ jobs[x.job].lease # NoLease
  BY DEF RecoveryStep, RecoverRequeue, RecoverCancelling, RecoverExhausted,
     Recover, StillStale, Shape, TypeOK, StaleJob
<1>2. PICK row : jobs' = [jobs EXCEPT ![x.job] = row] /\ Recovered(jobs[x.job], row)
  BY <1>1 DEF RecoveryStep, RecoverRequeue, RecoverCancelling, RecoverExhausted,
     Recover, Recovered
<1> QED BY <1>1, <1>2 DEF Shape, TypeOK

\* Every step changes every row in one of the ways of RowStep.
LEMMA EveryRowSteps ==
    ASSUME Shape, [Next]_vars, NEW i \in Jobs
    PROVE  RowStep(jobs[i], jobs'[i])
BY EveryRowStepped, RecoveryRow DEF Stepped, RowStep

\* A terminal row takes no step, and a cancelled one stays cancelled, out of the
\* queue and on its last attempt.
LEMMA RowStepFrozen ==
    ASSUME NEW old \in JobRow, RowShape(old), NEW new, RowStep(old, new)
    PROVE  /\ Terminal(old.state) => new = old
           /\ old.pending = "cancelled"
                => /\ new.pending = "cancelled"
                   /\ new.state # "queued"
                   /\ new.attempts = old.attempts
<1>1. Terminal(old.state) => new = old
  <2> SUFFICES ASSUME old.state \in Outcome, new # old PROVE FALSE
    BY DEF Terminal
  <2>1. old.lease = NoLease /\ old.pending # NoOutcome
    BY DEF RowShape, Terminal, Outcome, NoOutcome
  <2>2. ~Moved(old, new)
    BY <2>1, ValidTarget DEF Moved, FinalizingState, Outcome
  <2> QED BY <2>1, <2>2 DEF RowStep, OrdinaryStep, Recovered, Terminal, Outcome, NoOutcome
<1>2. ASSUME old.pending = "cancelled"
      PROVE  /\ new.pending = "cancelled"
             /\ new.state # "queued"
             /\ new.attempts = old.attempts
  <2>1. old.state \notin {"absent", "queued"} /\ NoOutcome # "cancelled"
    BY <1>2 DEF RowShape, NoOutcome
  <2>2. CASE Moved(old, new)
    <3>1. PICK to \in JobState, evidence \in TransitionEvidence :
             /\ ValidTransition(old.state, to, evidence)
             /\ evidence.pending # NoOutcome
                   => old.pending \in {NoOutcome, evidence.pending}
             /\ new = TransitionedRow(old, to, evidence)
      BY <2>2 DEF Moved
    <3>2. to # "queued"
      BY <3>1, ValidTarget DEF RunningState, FinalizingState, Outcome
    <3>3. /\ new.state = to /\ new.attempts = old.attempts
          /\ new.pending = IF evidence.pending = NoOutcome THEN old.pending
                                                           ELSE evidence.pending
      BY <3>1 DEF TransitionedRow, JobRow
    <3> QED BY <1>2, <2>1, <3>1, <3>2, <3>3
  <2>3. CASE Recovered(old, new)
    BY <1>2, <2>3 DEF Recovered, ClosedRow, JobRow
  <2>4. CASE old.lease # NoLease /\ \E e \in Nat : new = [old EXCEPT !.expires = e]
    BY <1>2, <2>1, <2>4 DEF JobRow
  <2>5. ASSUME NEW outcome \in Outcome, NEW done \in SUBSET Evidence,
               old.pending \in {NoOutcome, outcome},
               new = [old EXCEPT !.pending = outcome, !.done = @ \cup done]
        PROVE  /\ new.pending = "cancelled"
               /\ new.state # "queued"
               /\ new.attempts = old.attempts
    BY <1>2, <2>1, <2>5 DEF JobRow
  <2> QED BY <1>2, <2>1, <2>2, <2>3, <2>4, <2>5
          DEF RowStep, OrdinaryStep
<1> QED BY <1>1, <1>2

\* A terminal job row is never written again, by any interleaving of late
\* results, replayed transitions, recoveries and finalizers.
THEOREM TerminalRowsFrozen == Spec => TerminalFrozen
<1>1. Shape /\ [Next]_vars
        => [\A j \in Jobs : Terminal(jobs[j].state) => jobs'[j] = jobs[j]]_vars
  <2> SUFFICES ASSUME Shape, [Next]_vars, NEW j \in Jobs, Terminal(jobs[j].state)
               PROVE  jobs'[j] = jobs[j]
    OBVIOUS
  <2>1. jobs[j] \in JobRow /\ RowShape(jobs[j])
    BY DEF Shape, TypeOK, RowsConsistent
  <2>2. RowStep(jobs[j], jobs'[j])
    BY EveryRowSteps
  <2> QED BY <2>1, <2>2, RowStepFrozen
<1> QED BY <1>1, ShapeInvariant, PTL DEF Spec, TerminalFrozen

\* Once cancellation is pending no step replaces it, requeues the job or starts
\* another attempt: request_job_cancellation wins over every later transaction.
THEOREM CancellationAlwaysSticks == Spec => CancellationSticks
<1> DEFINE Sticks == \A j \in Jobs : jobs[j].pending = "cancelled"
                        => /\ jobs'[j].pending = "cancelled"
                           /\ jobs'[j].state # "queued"
                           /\ jobs'[j].attempts = jobs[j].attempts
<1>1. Shape /\ [Next]_vars => [Sticks]_vars
  <2> SUFFICES ASSUME Shape, [Next]_vars, NEW j \in Jobs,
                      jobs[j].pending = "cancelled"
               PROVE  /\ jobs'[j].pending = "cancelled"
                      /\ jobs'[j].state # "queued"
                      /\ jobs'[j].attempts = jobs[j].attempts
    OBVIOUS
  <2>1. jobs[j] \in JobRow /\ RowShape(jobs[j])
    BY DEF Shape, TypeOK, RowsConsistent
  <2>2. RowStep(jobs[j], jobs'[j])
    BY EveryRowSteps
  <2> QED BY <2>1, <2>2, RowStepFrozen
<1> QED BY <1>1, ShapeInvariant, PTL DEF Spec, CancellationSticks

-------------------------------------------------------------------------------
(* Recovery acts only on what is stale as the leader's clock may read now. *)

\* Snapshots were not taken in the future.
SnapshotsPast == \A x \in stale : x.now <= clock + ClockSkew

\* No step takes a snapshot in the future, and time does not go back.
LEMMA SnapshotsPastStep ==
    ASSUME Shape, SnapshotsPast, [Next]_vars
    PROVE  SnapshotsPast'
<1>1. clock \in Nat /\ clock' \in Nat /\ \A x \in stale : x.now \in Nat
  BY ShapeStep DEF Shape, TypeOK, StaleJob
<1>2. ASSUME clock' >= clock, stale' \subseteq stale PROVE SnapshotsPast'
  BY <1>1, <1>2, LimitAssumption DEF SnapshotsPast
<1>q. ASSUME clock' = clock, stale' \subseteq stale PROVE SnapshotsPast'
  BY <1>1, <1>2, <1>q
<1>3. ASSUME NEW j \in Jobs, ApiStep(j) PROVE SnapshotsPast'
  <2>1. clock' = clock /\ stale' \subseteq stale
    BY <1>3 DEF ApiStep, CreateJob, CancelJob
  <2> QED BY <1>q, <2>1
<1>4. ASSUME NEW w \in Workers, WorkerStep(w) PROVE SnapshotsPast'
  <2>1. clock' = clock /\ stale' \subseteq stale
    BY <1>4, Zenon DEF WorkerStep, RegisterWorker, SetWorkerState, Heartbeat,
       WorkerTransition, RecordResult
  <2> QED BY <1>q, <2>1
<1>5. ASSUME NEW leader \in Leaders, LeaderStep(leader) PROVE SnapshotsPast'
  <2>1. ASSUME NEW now \in SchedulerClock, FindStaleJobs(leader, now)
        PROVE  SnapshotsPast'
    <3>1. now <= clock + ClockSkew /\ clock' = clock
      BY <2>1, <1>1, LimitAssumption DEF SchedulerClock, FindStaleJobs
    <3>2. \A x \in stale' : x \in stale \/ x.now = now
      BY <2>1 DEF FindStaleJobs, Snapshot
    <3> QED BY <3>1, <3>2 DEF SnapshotsPast
  <2>2. ASSUME NEW j \in Jobs, NEW w \in Workers, NEW now \in SchedulerClock,
               ClaimJob(j, w, now)
        PROVE  SnapshotsPast'
    BY <2>2, <1>q DEF ClaimJob
  <2>3. ASSUME NEW x \in stale, LostRace(x) \/ RecoveryStep(x) PROVE SnapshotsPast'
    <3>1. clock' = clock /\ stale' = stale \ {x}
      BY <2>3 DEF LostRace, RecoveryStep, RecoverRequeue, RecoverCancelling,
         RecoverExhausted, Recover
    <3> QED BY <3>1, <1>q
  <2>4. ASSUME NEW task \in Task, NEW j \in Jobs, BeginFinalize(leader, task, j)
        PROVE  SnapshotsPast'
    BY <2>4, <1>q DEF BeginFinalize
  <2>5. ASSUME NEW f \in fin, \/ FinalizeArtifacts(f) \/ FinalizeCleanup(f)
                             \/ FinalizeDeadLetter(f) \/ FinalizeLost(f)
        PROVE  SnapshotsPast'
    <3>1. clock' = clock /\ stale' = stale
      BY <2>5 DEF FinalizeArtifacts, FinalizeCleanup, FinalizeDeadLetter, FinalizeLost
    <3> QED BY <3>1, <1>q
  <2>6. CASE Abandon(leader)
    BY <2>6, <1>q DEF Abandon
  <2> QED BY <1>5, <2>1, <2>2, <2>3, <2>4, <2>5, <2>6 DEF LeaderStep, RecoveryStep
<1>6. CASE Tick
  BY <1>1, <1>2, <1>6 DEF Tick
<1>7. CASE UNCHANGED vars
  BY <1>1, <1>2, <1>7 DEF vars
<1> QED BY <1>3, <1>4, <1>5, <1>6, <1>7 DEF Next

\* A job that loses its lease without ending was recovered by somebody.
LEMMA LeaseTaken ==
    ASSUME Shape, [Next]_vars, NEW j \in Jobs, jobs[j].lease # NoLease,
           jobs'[j].lease = NoLease, ~Terminal(jobs'[j].state)
    PROVE  \E x \in stale : x.job = j /\ RecoveryStep(x)
<1> DEFINE old == jobs[j]
           new == jobs'[j]
<1>1. old \in JobRow /\ RowShape(old)
  BY DEF Shape, TypeOK, RowsConsistent
<1>2. ~OrdinaryStep(old, new)
  <2>1. old.state \notin {"absent", "queued"}
    BY <1>1 DEF RowShape
  <2>2. ~Moved(old, new)
    BY <1>1 DEF Moved, TransitionedRow, JobRow
  <2> QED BY <1>1, <2>1, <2>2 DEF OrdinaryStep, JobRow
<1> QED BY <1>2, EveryRowStepped DEF Stepped

\* A worker's heartbeat or extension that lands before recover_stale_job wins:
\* recovery takes a lease only if it or its worker is stale at this very step,
\* up to the skew between the scheduler's clock and the database's.
THEOREM RecoveryAlwaysStale == Spec => RecoveryOnlyWhenStale
<1> DEFINE OnlyStale ==
        \A j \in Jobs :
          (jobs[j].lease # NoLease /\ jobs'[j].lease = NoLease
              /\ ~Terminal(jobs'[j].state))
            => \/ jobs[j].expires <= clock + ClockSkew
               \/ workers[jobs[j].worker].beat + StaleAfter <= clock + ClockSkew
<1>1. Init => SnapshotsPast
  BY DEF Init, SnapshotsPast
<1>2. Shape /\ SnapshotsPast /\ [Next]_vars => [OnlyStale]_vars
  <2> SUFFICES ASSUME Shape, SnapshotsPast, [Next]_vars, NEW j \in Jobs,
                      jobs[j].lease # NoLease, jobs'[j].lease = NoLease,
                      ~Terminal(jobs'[j].state)
               PROVE  \/ jobs[j].expires <= clock + ClockSkew
                      \/ workers[jobs[j].worker].beat + StaleAfter
                            <= clock + ClockSkew
    OBVIOUS
  <2>1. PICK x \in stale : x.job = j /\ RecoveryStep(x)
    BY LeaseTaken
  <2>2. StillStale(x)
    BY <2>1 DEF RecoveryStep, RecoverRequeue, RecoverCancelling, RecoverExhausted,
       Recover
  <2>3. x.now <= clock + ClockSkew /\ x.now \in Nat /\ clock \in Nat
        /\ jobs[j].expires \in Nat /\ x.worker \in Workers
    BY DEF SnapshotsPast, Shape, TypeOK, StaleJob, JobRow
  <2>4. workers[x.worker].beat \in Nat
    BY <2>3 DEF Shape, TypeOK, WorkerRow
  <2> QED BY <2>1, <2>2, <2>3, <2>4, LimitAssumption DEF StillStale
<1>3. Shape /\ SnapshotsPast /\ [Next]_vars => SnapshotsPast'
  BY SnapshotsPastStep
<1> QED BY <1>1, <1>2, <1>3, ShapeInvariant, PTL DEF Spec, RecoveryOnlyWhenStale

-------------------------------------------------------------------------------
(* Closing a job without a lease.  A row that is being closed belongs to   *)
(* nobody, and every step that touches it keeps outcome and attempts; this *)
(* is why the finalizers' unguarded transitions are safe, and why a dead   *)
(* letter, once written, stays true.                                       *)

\* The row is lease-free and on its way to `outcome', or there.
ClosingAs(row, outcome) ==
    /\ row.lease = NoLease
    /\ row.pending = outcome
    /\ row.state \in FinalizingState \cup {outcome}

\* A row on its way to an outcome stays so.
LEMMA ClosingStays ==
    ASSUME NEW old \in JobRow, RowShape(old), NEW new, RowStep(old, new),
           NEW outcome \in {"cancelled", "infra_failed"}, ClosingAs(old, outcome)
    PROVE  ClosingAs(new, outcome) /\ new.attempts = old.attempts
<1>1. /\ old.lease = NoLease /\ old.pending = outcome /\ outcome # NoOutcome
      /\ old.state \notin {"absent", "queued"}
  BY DEF ClosingAs, FinalizingState, NoOutcome
<1>2. CASE new = old
  BY <1>2
<1>3. CASE Moved(old, new)
  <2>1. PICK to \in JobState, evidence \in TransitionEvidence :
           /\ old.state \in FinalizingState
           /\ ValidTransition(old.state, to, evidence)
           /\ evidence.pending # NoOutcome
                 => old.pending \in {NoOutcome, evidence.pending}
           /\ EvidenceChecks(new)
           /\ new = TransitionedRow(old, to, evidence)
    BY <1>1, <1>3 DEF Moved
  <2>2. /\ new.state = to /\ new.attempts = old.attempts /\ new.lease = NoLease
        /\ new.pending = outcome
    BY <1>1, <2>1 DEF TransitionedRow, JobRow
  <2>3. to \in FinalizingState \cup Outcome
    BY <2>1, ValidTarget
  <2>4. to \in Outcome => to = outcome
    BY <2>1, <2>2 DEF EvidenceChecks, Terminal
  <2> QED BY <2>2, <2>3, <2>4 DEF ClosingAs
<1> QED BY <1>1, <1>2, <1>3 DEF RowStep, OrdinaryStep, Recovered

\* The inductive strengthening of FinalizersUnopposed and ExhaustionRecorded.
Closing ==
    /\ \A f \in fin :
          /\ ClosingAs(jobs[f.job], f.outcome)
          /\ f.at = "dead_letter" => f.outcome = "infra_failed"
          /\ f.outcome = "infra_failed"
                => DeadKey(f.job, jobs[f.job].attempts) \in outbox
    /\ \A j \in Jobs :
          (jobs[j].state \in FinalizingState /\ jobs[j].pending = "infra_failed"
              /\ jobs[j].lease = NoLease)
            => DeadKey(j, jobs[j].attempts) \in outbox
    /\ \A j \in Jobs, n \in Nat :
          DeadKey(j, n) \in outbox
            => /\ n = jobs[j].attempts
               /\ n > 0
               /\ ClosingAs(jobs[j], "infra_failed")

\* The outbox only grows, and only an exhausted recovery adds a dead letter.
LEMMA DeadLettersWritten ==
    ASSUME Shape, Closing, [Next]_vars
    PROVE  /\ outbox \subseteq outbox'
           /\ \A j \in Jobs, n \in Nat :
                 DeadKey(j, n) \in outbox'
                   => \/ DeadKey(j, n) \in outbox
                      \/ \E x \in stale :
                            RecoverExhausted(x) /\ x.job = j /\ x.attempts = n
<1> DEFINE Goal ==
        /\ outbox \subseteq outbox'
        /\ \A j \in Jobs, n \in Nat :
              DeadKey(j, n) \in outbox'
                => \/ DeadKey(j, n) \in outbox
                   \/ \E x \in stale :
                         RecoverExhausted(x) /\ x.job = j /\ x.attempts = n
<1>q. ASSUME outbox' = outbox PROVE Goal
  BY <1>q
<1>1. ASSUME NEW j \in Jobs, ApiStep(j) PROVE Goal
  <2>1. CASE CreateJob(j)
    <3>1. \A i \in Jobs, n \in Nat : DeadKey(i, n) # QueuedKey(j)
      BY DEF DeadKey, QueuedKey
    <3> QED BY <2>1, <3>1 DEF CreateJob
  <2>2. CASE CancelJob(j)
    BY <2>2, <1>q DEF CancelJob
  <2> QED BY <1>1, <2>1, <2>2 DEF ApiStep
<1>2. ASSUME NEW w \in Workers, WorkerStep(w) PROVE Goal
  <2>1. outbox' = outbox
    BY <1>2, Zenon DEF WorkerStep, RegisterWorker, SetWorkerState, Heartbeat,
       WorkerTransition, RecordResult
  <2> QED BY <2>1, <1>q
<1>3. ASSUME NEW leader \in Leaders, LeaderStep(leader) PROVE Goal
  <2>1. ASSUME NEW j \in Jobs, NEW w \in Workers, NEW now \in SchedulerClock,
               ClaimJob(j, w, now)
        PROVE  Goal
    BY <2>1, <1>q DEF ClaimJob
  <2>2. ASSUME NEW now \in SchedulerClock, FindStaleJobs(leader, now) PROVE Goal
    BY <2>2, <1>q DEF FindStaleJobs
  <2>3. ASSUME NEW x \in stale,
               LostRace(x) \/ RecoverRequeue(x) \/ RecoverCancelling(x)
        PROVE  Goal
    BY <2>3, <1>q DEF LostRace, RecoverRequeue, RecoverCancelling
  <2>4. ASSUME NEW x \in stale, RecoverExhausted(x) PROVE Goal
    <3>1. outbox' = outbox \cup {DeadKey(x.job, x.attempts)}
      BY <2>4 DEF RecoverExhausted
    <3>2. \A j \in Jobs, n \in Nat : DeadKey(j, n) = DeadKey(x.job, x.attempts)
                                        => j = x.job /\ n = x.attempts
      BY DEF DeadKey
    <3> QED BY <2>4, <3>1, <3>2
  <2>5. ASSUME NEW task \in Task, NEW j \in Jobs, BeginFinalize(leader, task, j)
        PROVE  Goal
    BY <2>5, <1>q DEF BeginFinalize
  <2>6. ASSUME NEW f \in fin,
               FinalizeArtifacts(f) \/ FinalizeCleanup(f) \/ FinalizeLost(f)
        PROVE  Goal
    BY <2>6, <1>q DEF FinalizeArtifacts, FinalizeCleanup, FinalizeLost
  <2>7. ASSUME NEW f \in fin, FinalizeDeadLetter(f) PROVE Goal
    <3>1. f.job \in Jobs /\ jobs[f.job].attempts \in Nat
      BY DEF Shape, TypeOK, Finalization, JobRow
    <3>2. DeadKey(f.job, jobs[f.job].attempts) \in outbox /\ jobs[f.job].attempts > 0
      BY <2>7, <3>1 DEF FinalizeDeadLetter, Closing
    <3>3. outbox' = outbox
      BY <2>7, <3>2 DEF FinalizeDeadLetter
    <3> QED BY <3>3, <1>q
  <2>8. CASE Abandon(leader)
    BY <2>8, <1>q DEF Abandon
  <2> QED BY <1>3, <2>1, <2>2, <2>3, <2>4, <2>5, <2>6, <2>7, <2>8 DEF LeaderStep
<1>4. CASE Tick
  BY <1>4, <1>q DEF Tick
<1>5. CASE UNCHANGED vars
  BY <1>5, <1>q DEF vars
<1> QED BY <1>1, <1>2, <1>3, <1>4, <1>5 DEF Next

\* A finalization of the next state continues one of this state, or has just
\* read the row and written nothing.
LEMMA FinalizationsContinue ==
    ASSUME Shape, [Next]_vars, NEW f \in fin'
    PROVE  \/ \E g \in fin : /\ f.job = g.job
                             /\ f.outcome = g.outcome
                             /\ f.at = "dead_letter"
                                   => g.at = f.at \/ g.outcome = "infra_failed"
           \/ /\ jobs' = jobs /\ outbox' = outbox
              /\ f.job \in Jobs
              /\ jobs[f.job].state \in FinalizingState
              /\ jobs[f.job].lease = NoLease
              /\ jobs[f.job].pending = f.outcome
              /\ f.outcome \in {"cancelled", "infra_failed"}
              /\ f.at \in FinalizingState
<1> DEFINE Goal ==
        \/ \E g \in fin : /\ f.job = g.job
                          /\ f.outcome = g.outcome
                          /\ f.at = "dead_letter"
                                => g.at = f.at \/ g.outcome = "infra_failed"
        \/ /\ jobs' = jobs /\ outbox' = outbox
           /\ f.job \in Jobs
           /\ jobs[f.job].state \in FinalizingState
           /\ jobs[f.job].lease = NoLease
           /\ jobs[f.job].pending = f.outcome
           /\ f.outcome \in {"cancelled", "infra_failed"}
           /\ f.at \in FinalizingState
<1>q. ASSUME f \in fin PROVE Goal
  BY <1>q
<1>1. ASSUME NEW j \in Jobs, ApiStep(j) PROVE Goal
  BY <1>1, <1>q DEF ApiStep, CreateJob, CancelJob
<1>2. ASSUME NEW w \in Workers, WorkerStep(w) PROVE Goal
  <2>1. fin' = fin
    BY <1>2, Zenon DEF WorkerStep, RegisterWorker, SetWorkerState, Heartbeat,
       WorkerTransition, RecordResult
  <2> QED BY <2>1, <1>q
<1>3. ASSUME NEW leader \in Leaders, LeaderStep(leader) PROVE Goal
  <2>1. ASSUME NEW j \in Jobs, NEW w \in Workers, NEW now \in SchedulerClock,
               ClaimJob(j, w, now)
        PROVE  Goal
    BY <2>1, <1>q DEF ClaimJob
  <2>2. ASSUME NEW now \in SchedulerClock, FindStaleJobs(leader, now) PROVE Goal
    BY <2>2, <1>q DEF FindStaleJobs
  <2>3. ASSUME NEW x \in stale, LostRace(x) \/ RecoveryStep(x) PROVE Goal
    <3>1. fin' = fin
      BY <2>3 DEF LostRace, RecoveryStep, RecoverRequeue, RecoverCancelling,
         RecoverExhausted, Recover
    <3> QED BY <3>1, <1>q
  <2>4. ASSUME NEW task \in Task, NEW j \in Jobs, BeginFinalize(leader, task, j)
        PROVE  Goal
    <3> DEFINE g == [leader |-> leader, task |-> task, job |-> j,
                     outcome |-> jobs[j].pending, at |-> jobs[j].state]
    <3>1. f \in fin \/ f = g
      BY <2>4 DEF BeginFinalize
    <3>2. CASE f = g
      BY <2>4, <3>2 DEF BeginFinalize, ReadyToFinalize
    <3> QED BY <3>1, <3>2, <1>q
  <2>5. ASSUME NEW g \in fin, NEW at, Advance(g, at),
               at = "dead_letter" => g.outcome = "infra_failed"
        PROVE  Goal
    <3>1. f \in fin \/ f = [g EXCEPT !.at = at]
      BY <2>5 DEF Advance
    <3>2. CASE f = [g EXCEPT !.at = at]
      <4>1. f.job = g.job /\ f.outcome = g.outcome /\ f.at = at
        BY <3>2 DEF Shape, TypeOK, Finalization
      <4> QED BY <2>5, <4>1
    <3> QED BY <3>1, <3>2, <1>q
  <2>6. ASSUME NEW g \in fin, Finish(g) PROVE Goal
    BY <2>6, <1>q DEF Finish
  <2>7. ASSUME NEW g \in fin, \/ FinalizeArtifacts(g) \/ FinalizeCleanup(g)
                              \/ FinalizeDeadLetter(g) \/ FinalizeLost(g)
        PROVE  Goal
    BY <2>5, <2>6, <2>7 DEF FinalizeArtifacts, FinalizeCleanup, FinalizeDeadLetter,
       FinalizeLost
  <2>8. CASE Abandon(leader)
    BY <2>8, <1>q DEF Abandon
  <2> QED BY <1>3, <2>1, <2>2, <2>3, <2>4, <2>7, <2>8 DEF LeaderStep, RecoveryStep
<1>4. CASE Tick
  BY <1>4, <1>q DEF Tick
<1>5. CASE UNCHANGED vars
  BY <1>5, <1>q DEF vars
<1> QED BY <1>1, <1>2, <1>3, <1>4, <1>5 DEF Next

\* The row an exhausted recovery leaves, and the dead letter beside it.
LEMMA ExhaustedRow ==
    ASSUME Shape, NEW x \in stale, RecoverExhausted(x)
    PROVE  /\ x.job \in Jobs /\ x.attempts > 0
           /\ ClosingAs(jobs'[x.job], "infra_failed")
           /\ jobs'[x.job].attempts = x.attempts
           /\ DeadKey(x.job, x.attempts) \in outbox'
<1>1. /\ x.job \in Jobs /\ x.attempts \in Nat
      /\ jobs[x.job] \in JobRow /\ RowShape(jobs[x.job])
  BY DEF Shape, TypeOK, StaleJob, RowsConsistent
<1>2. /\ jobs[x.job].lease # NoLease /\ jobs[x.job].attempts = x.attempts
      /\ jobs' = [jobs EXCEPT ![x.job] = ClosedRow(jobs[x.job], "infra_failed")]
  BY DEF RecoverExhausted, Recover, StillStale, Shape, TypeOK, StaleJob
<1>3. x.attempts > 0
  BY <1>1, LimitAssumption DEF RecoverExhausted, AttemptsLeft
<1>4. jobs'[x.job] = ClosedRow(jobs[x.job], "infra_failed")
  BY <1>1, <1>2 DEF Shape, TypeOK
<1>5. ClosedRow(jobs[x.job], "infra_failed").state \in FinalizingState
  BY <1>1, <1>2, ClosedRowShape
<1>6. LET new == ClosedRow(jobs[x.job], "infra_failed")
      IN  /\ new.lease = NoLease /\ new.pending = "infra_failed"
          /\ new.attempts = x.attempts
  BY <1>1, <1>2 DEF ClosedRow, JobRow
<1> QED BY <1>1, <1>3, <1>4, <1>5, <1>6 DEF ClosingAs, RecoverExhausted

\* A lease-free row that is given up was given up before, or a lease was taken.
LEMMA GivenUpBefore ==
    ASSUME NEW old \in JobRow, RowShape(old), NEW new, RowStep(old, new),
           old.lease = NoLease, new.state \in FinalizingState,
           new.pending = "infra_failed"
    PROVE  /\ old.state \in FinalizingState /\ old.pending = "infra_failed"
           /\ new.attempts = old.attempts
<1>1. CASE Moved(old, new)
  <2>1. PICK to \in JobState, evidence \in TransitionEvidence :
           /\ old.state \in FinalizingState
           /\ evidence.pending # NoOutcome
                 => old.pending \in {NoOutcome, evidence.pending}
           /\ new = TransitionedRow(old, to, evidence)
    BY <1>1 DEF Moved
  <2>2. /\ new.attempts = old.attempts
        /\ new.pending = IF evidence.pending = NoOutcome THEN old.pending
                                                         ELSE evidence.pending
    BY <2>1 DEF TransitionedRow, JobRow
  <2> QED BY <2>1, <2>2 DEF RowShape
<1>2. CASE ~Moved(old, new) /\ new # old
  BY <1>2 DEF RowStep, OrdinaryStep, Recovered, JobRow, FinalizingState
<1> QED BY <1>1, <1>2

\* Every step keeps Closing.
LEMMA ClosingStep ==
    ASSUME Shape, Closing, [Next]_vars
    PROVE  Closing'
<1>1. \A j \in Jobs : jobs[j] \in JobRow /\ RowShape(jobs[j])
  BY DEF Shape, TypeOK, RowsConsistent
<1>2. \A j \in Jobs : RowStep(jobs[j], jobs'[j])
  BY EveryRowSteps
<1>3. ASSUME NEW f \in fin'
      PROVE  /\ ClosingAs(jobs'[f.job], f.outcome)
             /\ f.at = "dead_letter" => f.outcome = "infra_failed"
             /\ f.outcome = "infra_failed"
                   => DeadKey(f.job, jobs'[f.job].attempts) \in outbox'
  <2>1. ASSUME NEW g \in fin, f.job = g.job, f.outcome = g.outcome,
               f.at = "dead_letter" => g.at = f.at \/ g.outcome = "infra_failed"
        PROVE  /\ ClosingAs(jobs'[f.job], f.outcome)
               /\ f.at = "dead_letter" => f.outcome = "infra_failed"
               /\ f.outcome = "infra_failed"
                     => DeadKey(f.job, jobs'[f.job].attempts) \in outbox'
    <3>1. g.job \in Jobs /\ g.outcome \in {"cancelled", "infra_failed"}
      BY DEF Shape, TypeOK, Finalization
    <3>2. /\ ClosingAs(jobs[g.job], g.outcome)
          /\ g.at = "dead_letter" => g.outcome = "infra_failed"
          /\ g.outcome = "infra_failed"
                => DeadKey(g.job, jobs[g.job].attempts) \in outbox
      BY DEF Closing
    <3>3. /\ ClosingAs(jobs'[g.job], g.outcome)
          /\ jobs'[g.job].attempts = jobs[g.job].attempts
      BY <1>1, <1>2, <3>1, <3>2, ClosingStays
    <3> QED BY <2>1, <3>2, <3>3, DeadLettersWritten
  <2>2. CASE /\ jobs' = jobs /\ outbox' = outbox
             /\ f.job \in Jobs
             /\ jobs[f.job].state \in FinalizingState
             /\ jobs[f.job].lease = NoLease
             /\ jobs[f.job].pending = f.outcome
             /\ f.outcome \in {"cancelled", "infra_failed"}
             /\ f.at \in FinalizingState
    BY <2>2 DEF Closing, ClosingAs, FinalizingState
  <2> QED BY <2>1, <2>2, FinalizationsContinue
<1>4. ASSUME NEW j \in Jobs, jobs'[j].state \in FinalizingState,
             jobs'[j].pending = "infra_failed", jobs'[j].lease = NoLease
      PROVE  DeadKey(j, jobs'[j].attempts) \in outbox'
  <2>1. CASE jobs[j].lease = NoLease
    <3>1. /\ jobs[j].state \in FinalizingState /\ jobs[j].pending = "infra_failed"
          /\ jobs'[j].attempts = jobs[j].attempts
      BY <1>1, <1>2, <1>4, <2>1, GivenUpBefore
    <3>2. DeadKey(j, jobs[j].attempts) \in outbox
      BY <2>1, <3>1 DEF Closing
    <3> QED BY <3>1, <3>2, DeadLettersWritten
  <2>2. CASE jobs[j].lease # NoLease
    <3>1. ~Terminal(jobs'[j].state)
      BY <1>4 DEF Terminal, Outcome, FinalizingState
    <3>2. PICK x \in stale : x.job = j /\ RecoveryStep(x)
      BY <1>4, <2>2, <3>1, LeaseTaken
    <3>3. RecoverExhausted(x)
      <4>1. SUFFICES ASSUME RecoverRequeue(x) \/ RecoverCancelling(x)
                     PROVE  jobs'[j].pending # "infra_failed"
        BY <1>4, <3>2 DEF RecoveryStep
      <4>2. \/ jobs'[j] = RequeuedRow(jobs[j])
            \/ jobs'[j] = ClosedRow(jobs[j], "cancelled")
        BY <3>2, <4>1 DEF RecoverRequeue, RecoverCancelling, Recover, Shape, TypeOK
      <4> QED BY <1>1, <4>2 DEF RequeuedRow, ClosedRow, JobRow, NoOutcome
    <3> QED BY <3>2, <3>3, ExhaustedRow
  <2> QED BY <2>1, <2>2
<1>5. ASSUME NEW j \in Jobs, NEW n \in Nat, DeadKey(j, n) \in outbox'
      PROVE  /\ n = jobs'[j].attempts
             /\ n > 0
             /\ ClosingAs(jobs'[j], "infra_failed")
  <2>1. CASE DeadKey(j, n) \in outbox
    <3>1. n = jobs[j].attempts /\ n > 0 /\ ClosingAs(jobs[j], "infra_failed")
      BY <2>1 DEF Closing
    <3> QED BY <1>1, <1>2, <3>1, ClosingStays
  <2>2. ASSUME NEW x \in stale, RecoverExhausted(x), x.job = j, x.attempts = n
        PROVE  /\ n = jobs'[j].attempts
               /\ n > 0
               /\ ClosingAs(jobs'[j], "infra_failed")
    BY <2>2, ExhaustedRow
  <2> QED BY <1>5, <2>1, <2>2, DeadLettersWritten
<1> QED BY <1>3, <1>4, <1>5 DEF Closing, ClosingAs, DeadKey

\* Closing holds in every reachable state.
THEOREM ClosingInvariant == Spec => []Closing
<1>1. Init => Closing
  BY DEF Init, Closing, AbsentJob, DeadKey, FinalizingState
<1>2. Shape /\ Closing /\ [Next]_vars => Closing'
  BY ClosingStep
<1> QED BY <1>1, <1>2, ShapeInvariant, PTL DEF Spec

\* From the snapshot to the last transition of finalize_ready_jobs and
\* finalize_queued_cancellation, no worker owns the job and no transaction
\* changes the outcome it is being closed with.
THEOREM FinalizersAlwaysUnopposed == Spec => []FinalizersUnopposed
<1>1. Closing => FinalizersUnopposed
  BY DEF Closing, ClosingAs, FinalizersUnopposed
<1> QED BY <1>1, ClosingInvariant, PTL

\* recover_stale_job's dead letter exists from the step that gives the job up,
\* and a dead-lettered job is never leased, requeued or ended otherwise.
THEOREM ExhaustionAlwaysRecorded == Spec => []ExhaustionRecorded
<1>1. Shape /\ Closing => ExhaustionRecorded
  <2> SUFFICES ASSUME Shape, Closing, NEW j \in Jobs
               PROVE  /\ (Live(j) /\ jobs[j].pending = "infra_failed"
                            /\ jobs[j].lease = NoLease)
                          => DeadKey(j, jobs[j].attempts) \in outbox
                      /\ \A n \in 1 .. MaxRunAttempts :
                           DeadKey(j, n) \in outbox
                             => /\ n = jobs[j].attempts
                                /\ jobs[j].state \in FinalizingState \cup {"infra_failed"}
                                /\ jobs[j].lease = NoLease
    BY DEF ExhaustionRecorded
  <2>1. jobs[j] \in JobRow /\ RowShape(jobs[j])
    BY DEF Shape, TypeOK, RowsConsistent
  <2>2. (Live(j) /\ jobs[j].pending = "infra_failed" /\ jobs[j].lease = NoLease)
          => jobs[j].state \in FinalizingState
    BY <2>1 DEF Live, RowShape, JobRow, JobState, Terminal, NoOutcome
  <2>3. \A n \in 1 .. MaxRunAttempts : n \in Nat
    BY LimitAssumption
  <2> QED BY <2>2, <2>3 DEF Closing, ClosingAs
<1> QED BY <1>1, ShapeInvariant, ClosingInvariant, PTL

===============================================================================
