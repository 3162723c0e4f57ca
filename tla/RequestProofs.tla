----------------------------- MODULE RequestProofs ----------------------------
(***************************************************************************)
(* The parts of the API: transactions of one project, the event stream,    *)
(* paged lists, access control and debug sessions, for every number of     *)
(* calls, writers, keys, projects and rows, and for all limits and clocks. *)
(***************************************************************************)
EXTENDS ApiKeys, DebugSessions, Transactions, EventStream, Paging,
        FiniteSetTheorems, SequenceTheorems, WellFoundedInduction, TLAPS

-------------------------------------------------------------------------------
(* Transactions and row locks.                                             *)

\* The stages at which each kind of call may be, the locks it holds there, and
\* what it has read that must still be so.  A creation knows from its key's
\* lock on that nobody has the key, and from its count on that the project's
\* lock keeps a place for it.
CreatorOk(r) ==
    /\ tx[r].at \in {"idle", "key", "existing", "project", "count", "commit", "done"}
    /\ \A l \in Lock : holder[l] = r <=>
          \/ l = KeyLock(KeyOf[r]) /\ tx[r].at \in {"existing", "project", "count", "commit"}
          \/ l = ProjectLock /\ tx[r].at \in {"count", "commit"}
    /\ tx[r].at \in {"project", "count", "commit"} => Present(KeyOf[r]) = {}
    /\ tx[r].at = "commit" => Cardinality(OutstandingJobs) < Outstanding

\* A claim holds its queued job, then the project, then a worker with room.
ClaimerOk(c) ==
    /\ tx[c].at \in {"idle", "project", "count", "worker", "commit", "done"}
    /\ \A l \in Lock : holder[l] = c <=>
          \/ \E j \in tx[c].jobs : l = JobLock(j)
          \/ l = ProjectLock /\ tx[c].at \in {"count", "worker", "commit"}
          \/ l = WorkerLock(tx[c].worker) /\ tx[c].at = "commit"
    /\ IF tx[c].at \in {"idle", "done"}
       THEN tx[c].jobs = {}
       ELSE \E j \in Creators : tx[c].jobs = {j} /\ rows[j].state = "queued"
    /\ tx[c].at \in {"worker", "commit"} =>
          tx[c].worker \in WorkerIds /\ Cardinality(LeasedJobs) < Concurrent
    /\ tx[c].at = "commit" => load[tx[c].worker].active < load[tx[c].worker].capacity

\* A heartbeat locks jobs in the order of their ids, then its worker.
BeatOk(b) ==
    /\ tx[b].at \in {"idle", "job", "worker", "commit", "done"}
    /\ \A l \in Lock : holder[l] = b =>
          \/ \E j \in tx[b].jobs : l = JobLock(j)
          \/ l = WorkerLock(tx[b].worker) /\ tx[b].at = "commit"
    /\ \A j, k \in tx[b].jobs : holder[JobLock(j)] = b /\ holder[JobLock(k)] # b => j < k
    /\ tx[b].at \in {"idle", "done"} => tx[b].jobs = {}
    /\ tx[b].at \in {"worker", "commit"} => tx[b].worker \in WorkerIds
    /\ tx[b].at = "commit" =>
          /\ holder[WorkerLock(tx[b].worker)] = b
          /\ tx[b].capacity \in CapacitySet
          /\ load[tx[b].worker].active <= tx[b].capacity

\* A terminal transition or a recovery holds its leased job, then its worker.
CloserOk(e) ==
    /\ tx[e].at \in {"idle", "worker", "commit", "done"}
    /\ \A l \in Lock : holder[l] = e <=>
          \/ \E j \in tx[e].jobs : l = JobLock(j)
          \/ l = WorkerLock(tx[e].worker) /\ tx[e].at = "commit"
    /\ IF tx[e].at \in {"idle", "done"}
       THEN tx[e].jobs = {}
       ELSE \E j \in Creators : /\ tx[e].jobs = {j}
                                /\ rows[j].state = "leased"
                                /\ tx[e].worker = rows[j].worker

CallOk(t) ==
    /\ t \in Creators => CreatorOk(t)
    /\ t \in Claimers => ClaimerOk(t)
    /\ t \in Beats => BeatOk(t)
    /\ t \in Closers => CloserOk(t)

JobRow == [state : {"absent", "queued", "leased", "ended"}, worker : WorkerIds \cup {NoOne}]

WorkerRow == [active : Nat, capacity : Nat]

LeasedBy(w) == {j \in Creators : rows[j].state = "leased" /\ rows[j].worker = w}

\* A worker's counter is the number of its leased jobs.
LeasesCounted ==
    /\ \A j \in Creators : rows[j].state = "leased" => rows[j].worker \in WorkerIds
    /\ \A w \in WorkerIds : load[w].active = Cardinality(LeasedBy(w))

TxType ==
    /\ rows \in [Creators -> JobRow]
    /\ load \in [WorkerIds -> WorkerRow]
    /\ tx \in [Tx -> Call]
    /\ holder \in [Lock -> Tx \cup {NoOne}]

LocksGuard == TxType /\ LeasesCounted /\ \A t \in Tx : CallOk(t)

-------------------------------------------------------------------------------
(* Locks.                                                                  *)

LEMMA LocksApart ==
    /\ \A k, m : KeyLock(k) = KeyLock(m) <=> k = m
    /\ \A i, j : JobLock(i) = JobLock(j) <=> i = j
    /\ \A v, w : WorkerLock(v) = WorkerLock(w) <=> v = w
    /\ \A k : KeyLock(k) # ProjectLock
    /\ \A j : JobLock(j) # ProjectLock
    /\ \A w : WorkerLock(w) # ProjectLock
    /\ \A k, j : KeyLock(k) # JobLock(j)
    /\ \A k, w : KeyLock(k) # WorkerLock(w)
    /\ \A j, w : JobLock(j) # WorkerLock(w)
BY DEF KeyLock, ProjectLock, JobLock, WorkerLock

LEMMA LocksKnown ==
    /\ \A r \in Creators : KeyLock(KeyOf[r]) \in Lock
    /\ ProjectLock \in Lock
    /\ \A j \in Creators : JobLock(j) \in Lock
    /\ \A w \in WorkerIds : WorkerLock(w) \in Lock
BY DEF Lock

\* A call that another call's statement leaves alone.
Untouched(u) ==
    /\ tx'[u] = tx[u]
    /\ \A l \in Lock : holder'[l] = u <=> holder[l] = u

\* A statement that takes a lock.
LEMMA TakeEffect ==
    ASSUME TxType, NEW t \in Tx, NEW l \in Lock,
           NEW to \in {"existing", "count", "job", "commit"}, Take(t, l, to)
    PROVE  /\ tx' \in [Tx -> Call] /\ holder' \in [Lock -> Tx \cup {NoOne}]
           /\ tx'[t].at = to
           /\ tx'[t].jobs = tx[t].jobs
           /\ tx'[t].worker = tx[t].worker
           /\ \A k \in Lock : holder'[k] = IF k = l THEN t ELSE holder[k]
           /\ \A k \in Lock : holder'[k] = t <=> k = l \/ holder[k] = t
           /\ \A u \in Tx : u # t => Untouched(u)
<1>1. /\ tx[t] \in Call /\ tx \in [Tx -> Call]
      /\ holder \in [Lock -> Tx \cup {NoOne}]
      /\ holder[l] = NoOne /\ NoOne \notin Tx
  BY TransactionAssumption DEF TxType, Take
<1>2. /\ tx' = [tx EXCEPT ![t] = [tx[t] EXCEPT !.at = to]]
      /\ holder' = [holder EXCEPT ![l] = t]
  BY DEF Take, Go
<1>3. [tx[t] EXCEPT !.at = to] \in Call
  BY <1>1 DEF Call
<1>4. /\ [tx[t] EXCEPT !.at = to].at = to
      /\ [tx[t] EXCEPT !.at = to].jobs = tx[t].jobs
      /\ [tx[t] EXCEPT !.at = to].worker = tx[t].worker
  BY <1>1 DEF Call
<1>5. /\ tx' \in [Tx -> Call] /\ tx'[t] = [tx[t] EXCEPT !.at = to]
      /\ \A u \in Tx : u # t => tx'[u] = tx[u]
  BY <1>1, <1>2, <1>3
<1>6. /\ holder' \in [Lock -> Tx \cup {NoOne}]
      /\ \A k \in Lock : holder'[k] = IF k = l THEN t ELSE holder[k]
  BY <1>1, <1>2
<1> QED BY <1>1, <1>4, <1>5, <1>6 DEF Untouched

\* A statement that takes no lock.
LEMMA GoEffect ==
    ASSUME TxType, NEW t \in Tx, NEW to \in {"key", "project", "count", "commit"},
           Go(t, to), UNCHANGED holder
    PROVE  /\ tx' \in [Tx -> Call] /\ holder' \in [Lock -> Tx \cup {NoOne}]
           /\ tx'[t].at = to
           /\ tx'[t].jobs = tx[t].jobs
           /\ tx'[t].worker = tx[t].worker
           /\ \A u \in Tx : u # t => Untouched(u)
<1>1. tx[t] \in Call /\ tx \in [Tx -> Call] /\ holder \in [Lock -> Tx \cup {NoOne}]
  BY DEF TxType
<1>2. tx' = [tx EXCEPT ![t] = [tx[t] EXCEPT !.at = to]]
  BY DEF Go
<1>3. /\ [tx[t] EXCEPT !.at = to] \in Call
      /\ [tx[t] EXCEPT !.at = to].at = to
      /\ [tx[t] EXCEPT !.at = to].jobs = tx[t].jobs
      /\ [tx[t] EXCEPT !.at = to].worker = tx[t].worker
  BY <1>1 DEF Call
<1>4. /\ tx' \in [Tx -> Call] /\ tx'[t] = [tx[t] EXCEPT !.at = to]
      /\ \A u \in Tx : u # t => tx'[u] = tx[u]
  BY <1>1, <1>2, <1>3
<1> QED BY <1>1, <1>3, <1>4 DEF Untouched

\* A transaction that ends gives back every lock and names nothing.
LEMMA FinishEffect ==
    ASSUME TxType, NEW t \in Tx, Finish(t)
    PROVE  /\ tx' \in [Tx -> Call] /\ holder' \in [Lock -> Tx \cup {NoOne}]
           /\ CallOk(t)'
           /\ \A u \in Tx : u # t => Untouched(u)
<1>1. /\ tx \in [Tx -> Call] /\ holder \in [Lock -> Tx \cup {NoOne}]
      /\ t # NoOne
  BY TransactionAssumption DEF TxType
<1>2. tx' = [tx EXCEPT ![t] = [Idle EXCEPT !.at = "done"]]
  BY DEF Finish
<1>3. [Idle EXCEPT !.at = "done"] = [at |-> "done", jobs |-> {}, worker |-> NoOne, capacity |-> 0]
  BY DEF Idle
<1>4. [at |-> "done", jobs |-> {}, worker |-> NoOne, capacity |-> 0] \in Call
  BY DEF Call
<1>5. /\ tx' \in [Tx -> Call]
      /\ tx'[t] = [at |-> "done", jobs |-> {}, worker |-> NoOne, capacity |-> 0]
      /\ \A u \in Tx : u # t => tx'[u] = tx[u]
  BY <1>1, <1>2, <1>3, <1>4
<1>6. /\ holder' \in [Lock -> Tx \cup {NoOne}]
      /\ \A l \in Lock : holder'[l] = IF holder[l] = t THEN NoOne ELSE holder[l]
  BY <1>1 DEF Finish
<1>7. /\ tx'[t].at = "done" /\ tx'[t].jobs = {}
      /\ \A l \in Lock : holder'[l] # t
  BY <1>1, <1>5, <1>6
<1>8. /\ CreatorOk(t)' /\ ClaimerOk(t)' /\ BeatOk(t)' /\ CloserOk(t)'
  BY <1>7, Zenon DEF CreatorOk, ClaimerOk, BeatOk, CloserOk
<1>9. \A u \in Tx : u # t => Untouched(u)
  BY TransactionAssumption, <1>5, <1>6 DEF Untouched
<1> QED BY <1>5, <1>6, <1>8, <1>9 DEF CallOk

\* What is true of a call depends on its own locks and on the rows.
LEMMA UntouchedKeeps ==
    ASSUME TxType, NEW u \in Tx, CallOk(u), Untouched(u), UNCHANGED <<rows, load>>
    PROVE  CallOk(u)'
<1>1. /\ tx'[u] = tx[u]
      /\ \A l \in Lock : holder'[l] = u <=> holder[l] = u
      /\ rows' = rows /\ load' = load
  BY DEF Untouched
<1>2. u \in Creators => CreatorOk(u)'
  BY <1>1 DEF CallOk, CreatorOk, Present, OutstandingJobs
<1>3. u \in Claimers => ClaimerOk(u)'
  BY <1>1 DEF CallOk, ClaimerOk, LeasedJobs
<1>4. u \in Beats => BeatOk(u)'
  <2>0. tx[u] \in Call
    BY DEF TxType
  <2>1. \A j \in tx[u].jobs : JobLock(j) \in Lock
    BY <2>0, LocksKnown DEF Call
  <2>2. ASSUME u \in Beats, tx[u].at = "commit" PROVE WorkerLock(tx[u].worker) \in Lock
    BY <2>2, LocksKnown DEF CallOk, BeatOk
  <2> QED BY <1>1, <2>1, <2>2 DEF CallOk, BeatOk
<1>5. u \in Closers => CloserOk(u)'
  BY <1>1 DEF CallOk, CloserOk
<1> QED BY <1>2, <1>3, <1>4, <1>5 DEF CallOk

\* A statement that writes no row has only its own call to answer for.
LEMMA StatementKeeps ==
    ASSUME LocksGuard, NEW t \in Tx, UNCHANGED <<rows, load>>,
           tx' \in [Tx -> Call], holder' \in [Lock -> Tx \cup {NoOne}],
           \A u \in Tx : u # t => Untouched(u), CallOk(t)'
    PROVE  LocksGuard'
<1>1. \A u \in Tx : CallOk(u)'
  BY UntouchedKeeps DEF LocksGuard
<1>2. TxType' /\ LeasesCounted'
  BY DEF LocksGuard, TxType, LeasesCounted, LeasedBy
<1> QED BY <1>1, <1>2 DEF LocksGuard

\* A refusal, an answer without a write and a lost connection end a transaction
\* and change no row.
LEMMA RefusalKeeps ==
    ASSUME LocksGuard, NEW t \in Tx, Finish(t), UNCHANGED <<rows, load>>
    PROVE  LocksGuard'
<1>1. TxType
  BY DEF LocksGuard
<1> QED BY <1>1, FinishEffect, StatementKeeps

-------------------------------------------------------------------------------
(* Statements.                                                             *)

\* The statements of a creation before its commit.
LEMMA CreateStatements ==
    ASSUME LocksGuard, NEW r \in Creators,
           FastLookup(r) \/ LockKey(r) \/ FindExisting(r)
             \/ LockProject(r) \/ CountOutstanding(r)
    PROVE  LocksGuard'
<1>1. /\ r \in Tx /\ TxType /\ CreatorOk(r)
      /\ r \notin Claimers /\ r \notin Beats /\ r \notin Closers
  BY TransactionAssumption DEF LocksGuard, CallOk, Tx
<1>2. SUFFICES ASSUME ~Finish(r) PROVE LocksGuard'
  BY <1>1, RefusalKeeps
       DEF FastLookup, LockKey, FindExisting, LockProject, CountOutstanding, Take, Go
<1>3. UNCHANGED <<rows, load>>
  BY DEF FastLookup, LockKey, FindExisting, LockProject, CountOutstanding
<1>4. ASSUME CreatorOk(r)' PROVE CallOk(r)'
  BY <1>1, <1>4 DEF CallOk
<1>5. CASE FastLookup(r)
  <2>1. tx[r].at = "idle" /\ Go(r, "key") /\ UNCHANGED holder
    BY <1>2, <1>5 DEF FastLookup
  <2>2. CreatorOk(r)'
    BY <1>1, <2>1, GoEffect DEF CreatorOk
  <2> QED BY <1>1, <1>3, <1>4, <2>1, <2>2, GoEffect, StatementKeeps
<1>6. CASE LockKey(r)
  <2>1. tx[r].at = "key" /\ Take(r, KeyLock(KeyOf[r]), "existing")
    BY <1>6 DEF LockKey
  <2>2. KeyLock(KeyOf[r]) \in Lock
    BY LocksKnown
  <2>3. CreatorOk(r)'
    BY <1>1, <2>1, <2>2, TakeEffect, LocksApart DEF CreatorOk
  <2> QED BY <1>1, <1>3, <1>4, <2>1, <2>2, <2>3, TakeEffect, StatementKeeps
<1>7. CASE FindExisting(r)
  <2>1. tx[r].at = "existing" /\ Present(KeyOf[r]) = {} /\ Go(r, "project") /\ UNCHANGED holder
    BY <1>2, <1>7 DEF FindExisting
  <2>2. Present(KeyOf[r])' = {}
    BY <1>3, <2>1 DEF Present
  <2>3. CreatorOk(r)'
    BY <1>1, <2>1, <2>2, GoEffect DEF CreatorOk
  <2> QED BY <1>1, <1>3, <1>4, <2>1, <2>3, GoEffect, StatementKeeps
<1>8. CASE LockProject(r)
  <2>1. tx[r].at = "project" /\ Take(r, ProjectLock, "count")
    BY <1>8 DEF LockProject
  <2>2. Present(KeyOf[r])' = {}
    BY <1>1, <1>3, <2>1 DEF Present, CreatorOk
  <2>3. CreatorOk(r)'
    BY <1>1, <2>1, <2>2, TakeEffect, LocksKnown, LocksApart DEF CreatorOk
  <2> QED BY <1>1, <1>3, <1>4, <2>1, <2>3, LocksKnown, TakeEffect, StatementKeeps
<1>9. CASE CountOutstanding(r)
  <2>1. /\ tx[r].at = "count" /\ Cardinality(OutstandingJobs) < Outstanding
        /\ Go(r, "commit") /\ UNCHANGED holder
    BY <1>2, <1>9 DEF CountOutstanding
  <2>2. Present(KeyOf[r])' = {} /\ (Cardinality(OutstandingJobs) < Outstanding)'
    BY <1>1, <1>3, <2>1 DEF Present, OutstandingJobs, CreatorOk
  <2>3. CreatorOk(r)'
    BY <1>1, <2>1, <2>2, GoEffect DEF CreatorOk
  <2> QED BY <1>1, <1>3, <1>4, <2>1, <2>3, GoEffect, StatementKeeps
<1> QED BY <1>5, <1>6, <1>7, <1>8, <1>9

\* The statements of a claim before its commit.
LEMMA ClaimStatements ==
    ASSUME LocksGuard, NEW c \in Claimers,
           \/ \E j \in Creators : ClaimLockJob(c, j)
           \/ LockProject(c)
           \/ \E w \in WorkerIds : CountLeased(c, w)
           \/ ClaimLockWorker(c)
    PROVE  LocksGuard'
<1>1. /\ c \in Tx /\ TxType /\ ClaimerOk(c)
      /\ c \notin Creators /\ c \notin Beats /\ c \notin Closers
      /\ tx \in [Tx -> Call] /\ tx[c] \in Call
      /\ holder \in [Lock -> Tx \cup {NoOne}]
  BY TransactionAssumption DEF LocksGuard, TxType, CallOk, Tx
<1>2. SUFFICES ASSUME ~Finish(c) PROVE LocksGuard'
  BY <1>1, RefusalKeeps DEF ClaimLockJob, LockProject, CountLeased, ClaimLockWorker, Take, Go
<1>3. UNCHANGED <<rows, load>>
  BY DEF ClaimLockJob, LockProject, CountLeased, ClaimLockWorker
<1>4. ASSUME ClaimerOk(c)' PROVE CallOk(c)'
  BY <1>1, <1>4 DEF CallOk
<1>5. ASSUME NEW j \in Creators, ClaimLockJob(c, j) PROVE LocksGuard'
  <2> DEFINE new == [tx[c] EXCEPT !.at = "project", !.jobs = {j}]
  <2>1. /\ tx[c].at = "idle" /\ tx[c].jobs = {} /\ rows[j].state = "queued"
        /\ holder[JobLock(j)] = NoOne
        /\ holder' = [holder EXCEPT ![JobLock(j)] = c]
        /\ tx' = [tx EXCEPT ![c] = new]
    BY <1>1, <1>2, <1>5 DEF ClaimLockJob, ClaimerOk
  <2>2. new \in Call /\ new.at = "project" /\ new.jobs = {j}
    BY <1>1 DEF Call
  <2> HIDE DEF new
  <2>3. /\ tx' \in [Tx -> Call] /\ tx'[c] = new
        /\ \A u \in Tx : u # c => tx'[u] = tx[u]
    BY <1>1, <2>1, <2>2
  <2>4. /\ holder' \in [Lock -> Tx \cup {NoOne}]
        /\ \A l \in Lock : holder'[l] = IF l = JobLock(j) THEN c ELSE holder[l]
    BY <1>1, <2>1
  <2>5. \A u \in Tx : u # c => Untouched(u)
    BY TransactionAssumption, <2>1, <2>3, <2>4 DEF Untouched
  <2>6. ClaimerOk(c)'
    <3>1. \A l \in Lock : holder'[l] = c <=> l = JobLock(j)
      BY <1>1, <2>1, <2>4 DEF ClaimerOk
    <3> QED BY <1>3, <2>1, <2>2, <2>3, <3>1 DEF ClaimerOk
  <2> QED BY <1>1, <1>3, <1>4, <2>3, <2>4, <2>5, <2>6, StatementKeeps
<1>6. CASE LockProject(c)
  <2>1. tx[c].at = "project" /\ Take(c, ProjectLock, "count")
    BY <1>6 DEF LockProject
  <2>2. ClaimerOk(c)'
    BY <1>1, <1>3, <2>1, TakeEffect, LocksKnown, LocksApart DEF ClaimerOk
  <2> QED BY <1>1, <1>3, <1>4, <2>1, <2>2, LocksKnown, TakeEffect, StatementKeeps
<1>7. ASSUME NEW w \in WorkerIds, CountLeased(c, w) PROVE LocksGuard'
  <2> DEFINE new == [tx[c] EXCEPT !.at = "worker", !.worker = w]
  <2>1. /\ tx[c].at = "count" /\ Cardinality(LeasedJobs) < Concurrent
        /\ tx' = [tx EXCEPT ![c] = new] /\ holder' = holder
    BY <1>2, <1>7 DEF CountLeased
  <2>2. new \in Call /\ new.at = "worker" /\ new.jobs = tx[c].jobs /\ new.worker = w
    BY <1>1 DEF Call
  <2> HIDE DEF new
  <2>3. /\ tx' \in [Tx -> Call] /\ tx'[c] = new
        /\ \A u \in Tx : u # c => Untouched(u)
    BY <1>1, <2>1, <2>2 DEF Untouched
  <2>4. ClaimerOk(c)'
    BY <1>1, <1>3, <2>1, <2>2, <2>3 DEF ClaimerOk, LeasedJobs
  <2> QED BY <1>1, <1>3, <1>4, <2>1, <2>3, <2>4, StatementKeeps
<1>8. CASE ClaimLockWorker(c)
  <2>1. /\ tx[c].at = "worker" /\ Take(c, WorkerLock(tx[c].worker), "commit")
        /\ load[tx[c].worker].active < load[tx[c].worker].capacity
    BY <1>2, <1>8 DEF ClaimLockWorker
  <2>2. WorkerLock(tx[c].worker) \in Lock
    BY <1>1, <2>1, LocksKnown DEF ClaimerOk
  <2>3. ClaimerOk(c)'
    BY <1>1, <1>3, <2>1, <2>2, TakeEffect, LocksApart DEF ClaimerOk, LeasedJobs
  <2> QED BY <1>1, <1>3, <1>4, <2>1, <2>2, <2>3, TakeEffect, StatementKeeps
<1> QED BY <1>5, <1>6, <1>7, <1>8

\* The statements of a heartbeat before its commit.
LEMMA BeatStatements ==
    ASSUME LocksGuard, NEW b \in Beats,
           \/ \E presented \in SUBSET Creators : BeatBegins(b, presented)
           \/ \E j \in Creators : BeatLockJob(b, j)
           \/ \E w \in WorkerIds : BeatLocksDone(b, w)
           \/ \E capacity \in CapacitySet : BeatLockWorker(b, capacity)
    PROVE  LocksGuard'
<1>1. /\ b \in Tx /\ TxType /\ BeatOk(b)
      /\ b \notin Creators /\ b \notin Claimers /\ b \notin Closers
      /\ tx \in [Tx -> Call] /\ tx[b] \in Call
      /\ holder \in [Lock -> Tx \cup {NoOne}]
      /\ tx[b].jobs \subseteq Creators
  BY TransactionAssumption DEF LocksGuard, TxType, CallOk, Tx, Call
<1>2. UNCHANGED <<rows, load>>
  BY DEF BeatBegins, BeatLockJob, BeatLocksDone, BeatLockWorker
<1>3. ASSUME BeatOk(b)' PROVE CallOk(b)'
  BY <1>1, <1>3 DEF CallOk
<1>4. ASSUME NEW presented \in SUBSET Creators, BeatBegins(b, presented)
      PROVE  LocksGuard'
  <2> DEFINE new == [tx[b] EXCEPT !.at = "job", !.jobs = presented]
  <2>1. /\ tx[b].at = "idle" /\ tx[b].jobs = {}
        /\ tx' = [tx EXCEPT ![b] = new] /\ holder' = holder
    BY <1>1, <1>4 DEF BeatBegins, BeatOk
  <2>2. new \in Call /\ new.at = "job" /\ new.jobs = presented
    BY <1>1 DEF Call
  <2> HIDE DEF new
  <2>3. /\ tx' \in [Tx -> Call] /\ tx'[b] = new
        /\ \A u \in Tx : u # b => Untouched(u)
    BY <1>1, <2>1, <2>2 DEF Untouched
  <2>4. \A l \in Lock : holder'[l] # b
    BY <1>1, <2>1 DEF BeatOk
  <2>5. BeatOk(b)'
    BY <2>2, <2>3, <2>4, LocksKnown DEF BeatOk
  <2> QED BY <1>1, <1>2, <1>3, <2>1, <2>3, <2>5, StatementKeeps
<1>5. ASSUME NEW j \in Creators, BeatLockJob(b, j) PROVE LocksGuard'
  <2>1. /\ tx[b].at = "job" /\ Take(b, JobLock(j), "job")
        /\ j \in tx[b].jobs
        /\ \A k \in tx[b].jobs : holder[JobLock(k)] # b => j <= k
    BY <1>5 DEF BeatLockJob, NextInOrder, ToLock
  <2>2. JobLock(j) \in Lock
    BY LocksKnown
  <2>3. /\ tx'[b].at = "job" /\ tx'[b].jobs = tx[b].jobs
        /\ \A k \in Lock : holder'[k] = b <=> k = JobLock(j) \/ holder[k] = b
    BY <1>1, <2>1, <2>2, TakeEffect
  <2>4. \A i, k \in tx'[b].jobs : holder'[JobLock(i)] = b /\ holder'[JobLock(k)] # b => i < k
    <3> SUFFICES ASSUME NEW i \in tx[b].jobs, NEW k \in tx[b].jobs,
                        holder'[JobLock(i)] = b, holder'[JobLock(k)] # b
                 PROVE  i < k
      BY <2>3
    <3>1. i \in Nat /\ k \in Nat /\ j \in Nat /\ JobLock(i) \in Lock /\ JobLock(k) \in Lock
      BY <1>1, LocksKnown, TransactionAssumption
    <3>2. holder[JobLock(k)] # b /\ k # j
      BY <2>3, <3>1
    <3>3. i = j \/ holder[JobLock(i)] = b
      BY <2>3, <3>1, LocksApart
    <3> QED BY <1>1, <2>1, <3>1, <3>2, <3>3 DEF BeatOk
  <2>5. BeatOk(b)'
    BY <1>1, <2>1, <2>3, <2>4 DEF BeatOk
  <2> QED BY <1>1, <1>2, <1>3, <2>1, <2>2, <2>5, TakeEffect, StatementKeeps
<1>6. ASSUME NEW w \in WorkerIds, BeatLocksDone(b, w) PROVE LocksGuard'
  <2> DEFINE new == [tx[b] EXCEPT !.at = "worker", !.worker = w]
  <2>1. tx[b].at = "job" /\ tx' = [tx EXCEPT ![b] = new] /\ holder' = holder
    BY <1>6 DEF BeatLocksDone
  <2>2. new \in Call /\ new.at = "worker" /\ new.jobs = tx[b].jobs /\ new.worker = w
    BY <1>1 DEF Call
  <2> HIDE DEF new
  <2>3. /\ tx' \in [Tx -> Call] /\ tx'[b] = new
        /\ \A u \in Tx : u # b => Untouched(u)
    BY <1>1, <2>1, <2>2 DEF Untouched
  <2>4. BeatOk(b)'
    BY <1>1, <2>1, <2>2, <2>3 DEF BeatOk
  <2> QED BY <1>1, <1>2, <1>3, <2>1, <2>3, <2>4, StatementKeeps
<1>7. ASSUME NEW capacity \in CapacitySet, BeatLockWorker(b, capacity)
      PROVE  LocksGuard'
  <2> DEFINE w == tx[b].worker
             new == [tx[b] EXCEPT !.at = "commit", !.capacity = capacity]
  <2>1. tx[b].at = "worker" /\ holder[WorkerLock(w)] = NoOne /\ w \in WorkerIds
    BY <1>1, <1>7 DEF BeatLockWorker, BeatOk
  <2>2. CASE Finish(b)
    BY <1>1, <1>2, <2>2, RefusalKeeps
  <2>3. CASE ~Finish(b)
    <3>1. /\ load[w].active <= capacity
          /\ holder' = [holder EXCEPT ![WorkerLock(w)] = b]
          /\ tx' = [tx EXCEPT ![b] = new]
      BY <1>7, <2>3 DEF BeatLockWorker
    <3>2. /\ new \in Call /\ new.at = "commit" /\ new.jobs = tx[b].jobs
          /\ new.worker = w /\ new.capacity = capacity
      BY <1>1 DEF Call
    <3> HIDE DEF new
    <3>3. /\ tx' \in [Tx -> Call] /\ tx'[b] = new
          /\ \A u \in Tx : u # b => tx'[u] = tx[u]
      BY <1>1, <3>1, <3>2
    <3>4. /\ holder' \in [Lock -> Tx \cup {NoOne}]
          /\ \A l \in Lock : holder'[l] = IF l = WorkerLock(w) THEN b ELSE holder[l]
      BY <1>1, <3>1
    <3>5. \A u \in Tx : u # b => Untouched(u)
      BY TransactionAssumption, <2>1, <3>3, <3>4 DEF Untouched
    <3>6. /\ tx'[b].at = "commit" /\ tx'[b].jobs = tx[b].jobs
          /\ tx'[b].worker = w /\ tx'[b].capacity = capacity
      BY <3>2, <3>3
    <3>7. \A j \in tx[b].jobs : holder'[JobLock(j)] = holder[JobLock(j)]
      BY <1>1, <3>4, LocksKnown, LocksApart
    <3>8. holder'[WorkerLock(w)] = b
      BY <2>1, <3>4, LocksKnown
    <3> HIDE DEF w
    <3>9. BeatOk(b)'
      BY <1>1, <1>2, <2>1, <3>1, <3>4, <3>6, <3>7, <3>8 DEF BeatOk
    <3> QED BY <1>1, <1>2, <1>3, <3>3, <3>4, <3>5, <3>9, StatementKeeps
  <2> QED BY <2>2, <2>3
<1> QED BY <1>4, <1>5, <1>6, <1>7

\* The statements of a terminal transition or a recovery before its commit.
LEMMA CloseStatements ==
    ASSUME LocksGuard, NEW e \in Closers,
           (\E j \in Creators : CloseLockJob(e, j)) \/ CloseLockWorker(e)
    PROVE  LocksGuard'
<1>1. /\ e \in Tx /\ TxType /\ CloserOk(e)
      /\ e \notin Creators /\ e \notin Claimers /\ e \notin Beats
      /\ tx \in [Tx -> Call] /\ tx[e] \in Call
      /\ holder \in [Lock -> Tx \cup {NoOne}]
  BY TransactionAssumption DEF LocksGuard, TxType, CallOk, Tx
<1>2. SUFFICES ASSUME ~Finish(e) PROVE LocksGuard'
  BY <1>1, RefusalKeeps DEF CloseLockJob, CloseLockWorker, Take, Go
<1>3. UNCHANGED <<rows, load>>
  BY DEF CloseLockJob, CloseLockWorker
<1>4. ASSUME CloserOk(e)' PROVE CallOk(e)'
  BY <1>1, <1>4 DEF CallOk
<1>5. ASSUME NEW j \in Creators, CloseLockJob(e, j) PROVE LocksGuard'
  <2> DEFINE new == [tx[e] EXCEPT !.at = "worker", !.jobs = {j}, !.worker = rows[j].worker]
  <2>1. /\ tx[e].at = "idle" /\ tx[e].jobs = {} /\ rows[j].state = "leased"
        /\ holder[JobLock(j)] = NoOne
        /\ holder' = [holder EXCEPT ![JobLock(j)] = e]
        /\ tx' = [tx EXCEPT ![e] = new]
    BY <1>1, <1>2, <1>5 DEF CloseLockJob, CloserOk
  <2>2. rows[j].worker \in WorkerIds
    BY <2>1 DEF LocksGuard, LeasesCounted
  <2>3. /\ new \in Call /\ new.at = "worker" /\ new.jobs = {j}
        /\ new.worker = rows[j].worker
    BY <1>1, <2>2 DEF Call
  <2> HIDE DEF new
  <2>4. /\ tx' \in [Tx -> Call] /\ tx'[e] = new
        /\ \A u \in Tx : u # e => tx'[u] = tx[u]
    BY <1>1, <2>1, <2>3
  <2>5. /\ holder' \in [Lock -> Tx \cup {NoOne}]
        /\ \A l \in Lock : holder'[l] = IF l = JobLock(j) THEN e ELSE holder[l]
    BY <1>1, <2>1
  <2>6. \A u \in Tx : u # e => Untouched(u)
    BY TransactionAssumption, <2>1, <2>4, <2>5 DEF Untouched
  <2>7. CloserOk(e)'
    <3>1. \A l \in Lock : holder'[l] = e <=> l = JobLock(j)
      BY <1>1, <2>1, <2>5 DEF CloserOk
    <3> QED BY <1>3, <2>1, <2>3, <2>4, <3>1 DEF CloserOk
  <2> QED BY <1>1, <1>3, <1>4, <2>4, <2>5, <2>6, <2>7, StatementKeeps
<1>6. CASE CloseLockWorker(e)
  <2>1. tx[e].at = "worker" /\ Take(e, WorkerLock(tx[e].worker), "commit")
    BY <1>6 DEF CloseLockWorker
  <2>2. WorkerLock(tx[e].worker) \in Lock
    BY <1>1, <2>1, LocksKnown DEF CloserOk, LocksGuard, LeasesCounted
  <2>3. CloserOk(e)'
    BY <1>1, <1>3, <2>1, <2>2, TakeEffect DEF CloserOk
  <2> QED BY <1>1, <1>3, <1>4, <2>1, <2>2, <2>3, TakeEffect, StatementKeeps
<1> QED BY <1>5, <1>6

-------------------------------------------------------------------------------
(* Commits.                                                                *)

\* What a commit by `t' may change under the eyes of the other calls: a row it
\* has locked, an absent job, a key or a quota whose lock it holds.
StatementsGuarded(t) ==
    /\ \A x \in Creators :
          rows'[x] # rows[x] => holder[JobLock(x)] = t \/ rows[x].state = "absent"
    /\ \A w \in WorkerIds : load'[w] # load[w] => holder[WorkerLock(w)] = t
    /\ \A r \in Creators :
          Present(KeyOf[r]) = {} /\ Present(KeyOf[r])' # {}
             => holder[KeyLock(KeyOf[r])] = t
    /\ holder[ProjectLock] # t =>
          /\ Cardinality(OutstandingJobs)' <= Cardinality(OutstandingJobs)
          /\ Cardinality(LeasedJobs)' <= Cardinality(LeasedJobs)

LEMMA Counts ==
    /\ IsFiniteSet(Creators)
    /\ Cardinality(OutstandingJobs) \in Nat /\ Cardinality(OutstandingJobs)' \in Nat
    /\ Cardinality(LeasedJobs) \in Nat /\ Cardinality(LeasedJobs)' \in Nat
    /\ \A S \in SUBSET Creators : IsFiniteSet(S) /\ Cardinality(S) \in Nat
<1>1. IsFiniteSet(Creators)
  BY TransactionAssumption
<1>2. \A S \in SUBSET Creators : IsFiniteSet(S) /\ Cardinality(S) \in Nat
  BY <1>1, FS_Subset, FS_CardinalityType
<1>3. /\ OutstandingJobs \in SUBSET Creators /\ OutstandingJobs' \in SUBSET Creators
      /\ LeasedJobs \in SUBSET Creators /\ LeasedJobs' \in SUBSET Creators
  BY DEF OutstandingJobs, LeasedJobs
<1> QED BY <1>1, <1>2, <1>3

\* Whatever another call has read is behind a lock of its own, so a guarded
\* commit leaves it true.
LEMMA BystandersKeep ==
    ASSUME LocksGuard, NEW t \in Tx, NEW u \in Tx, u # t, Untouched(u), StatementsGuarded(t)
    PROVE  CallOk(u)'
<1>1. /\ tx'[u] = tx[u] /\ tx[u] \in Call /\ tx[u].jobs \subseteq Creators
      /\ \A l \in Lock : holder'[l] = u <=> holder[l] = u
      /\ \A l \in Lock : holder[l] = u => holder[l] # t
      /\ CallOk(u)
  BY DEF Untouched, LocksGuard, TxType, Call
<1>2. Outstanding \in Nat /\ Concurrent \in Nat
  BY TransactionAssumption
<1>3. ASSUME u \in Creators PROVE CreatorOk(u)'
  <2>1. CreatorOk(u) /\ KeyLock(KeyOf[u]) \in Lock /\ ProjectLock \in Lock
    BY <1>1, <1>3, LocksKnown DEF CallOk
  <2>2. tx[u].at \in {"project", "count", "commit"} => Present(KeyOf[u])' = {}
    BY <1>1, <1>3, <2>1 DEF CreatorOk, StatementsGuarded
  <2>3. tx[u].at = "commit" => Cardinality(OutstandingJobs)' < Outstanding
    BY <1>1, <1>2, <2>1, Counts DEF CreatorOk, StatementsGuarded
  <2> QED BY <1>1, <2>1, <2>2, <2>3 DEF CreatorOk
<1>4. ASSUME u \in Claimers PROVE ClaimerOk(u)'
  <2>1. ClaimerOk(u)
    BY <1>1, <1>4 DEF CallOk
  <2>2. \A j \in tx[u].jobs : holder[JobLock(j)] = u
    BY <1>1, <2>1, LocksKnown DEF ClaimerOk
  <2>3. IF tx'[u].at \in {"idle", "done"}
        THEN tx'[u].jobs = {}
        ELSE \E j \in Creators : tx'[u].jobs = {j} /\ rows'[j].state = "queued"
    <3>1. CASE tx[u].at \notin {"idle", "done"}
      <4>1. PICK j \in Creators : tx[u].jobs = {j} /\ rows[j].state = "queued"
        BY <2>1, <3>1 DEF ClaimerOk
      <4>2. rows'[j] = rows[j]
        BY <1>1, <2>2, <4>1, LocksKnown DEF StatementsGuarded
      <4> QED BY <1>1, <3>1, <4>1, <4>2
    <3> QED BY <1>1, <2>1, <3>1 DEF ClaimerOk
  <2>4. tx[u].at \in {"worker", "commit"} =>
           tx[u].worker \in WorkerIds /\ Cardinality(LeasedJobs)' < Concurrent
    BY <1>1, <1>2, <2>1, LocksKnown, Counts DEF ClaimerOk, StatementsGuarded
  <2>5. tx[u].at = "commit" => load'[tx[u].worker] = load[tx[u].worker]
    BY <1>1, <2>1, LocksKnown DEF ClaimerOk, StatementsGuarded
  <2> QED BY <1>1, <2>1, <2>3, <2>4, <2>5 DEF ClaimerOk
<1>5. ASSUME u \in Beats PROVE BeatOk(u)'
  <2>1. BeatOk(u)
    BY <1>1, <1>5 DEF CallOk
  <2>2. \A j \in tx[u].jobs : JobLock(j) \in Lock
    BY <1>1, LocksKnown
  <2>3. tx[u].at = "commit" =>
           WorkerLock(tx[u].worker) \in Lock /\ load'[tx[u].worker] = load[tx[u].worker]
    BY <1>1, <2>1, LocksKnown DEF BeatOk, StatementsGuarded
  <2> QED BY <1>1, <2>1, <2>2, <2>3 DEF BeatOk
<1>6. ASSUME u \in Closers PROVE CloserOk(u)'
  <2>1. CloserOk(u)
    BY <1>1, <1>6 DEF CallOk
  <2>2. IF tx'[u].at \in {"idle", "done"}
        THEN tx'[u].jobs = {}
        ELSE \E j \in Creators : /\ tx'[u].jobs = {j}
                                 /\ rows'[j].state = "leased"
                                 /\ tx'[u].worker = rows'[j].worker
    <3>1. CASE tx[u].at \notin {"idle", "done"}
      <4>1. PICK j \in Creators : /\ tx[u].jobs = {j} /\ rows[j].state = "leased"
                                  /\ tx[u].worker = rows[j].worker
        BY <2>1, <3>1 DEF CloserOk
      <4>2. holder[JobLock(j)] = u /\ JobLock(j) \in Lock
        BY <2>1, <4>1, LocksKnown DEF CloserOk
      <4>3. rows'[j] = rows[j]
        BY <1>1, <4>1, <4>2 DEF StatementsGuarded
      <4> QED BY <1>1, <3>1, <4>1, <4>3
    <3> QED BY <1>1, <2>1, <3>1 DEF CloserOk
  <2> QED BY <1>1, <2>1, <2>2 DEF CloserOk
<1> QED BY <1>3, <1>4, <1>5, <1>6 DEF CallOk

\* A guarded commit that keeps the rows well formed keeps the invariant.
LEMMA CommitKeeps ==
    ASSUME LocksGuard, NEW t \in Tx, Finish(t), StatementsGuarded(t),
           rows' \in [Creators -> JobRow], load' \in [WorkerIds -> WorkerRow],
           LeasesCounted'
    PROVE  LocksGuard'
<1>1. TxType
  BY DEF LocksGuard
<1>2. /\ tx' \in [Tx -> Call] /\ holder' \in [Lock -> Tx \cup {NoOne}]
      /\ CallOk(t)' /\ \A u \in Tx : u # t => Untouched(u)
  BY <1>1, FinishEffect
<1>3. \A u \in Tx : CallOk(u)'
  BY <1>2, BystandersKeep
<1>4. TxType'
  BY <1>1, <1>2 DEF TxType
<1> QED BY <1>3, <1>4 DEF LocksGuard

\* A creation commits what it would have done alone.
LEMMA CreateCommits ==
    ASSUME LocksGuard, NEW r \in Creators, CommitCreate(r)
    PROVE  LocksGuard' /\ CreatesAlone(r)
<1>1. /\ r \in Tx /\ CreatorOk(r) /\ tx[r].at = "commit" /\ Finish(r)
      /\ rows \in [Creators -> JobRow] /\ load \in [WorkerIds -> WorkerRow]
      /\ load' = load
  BY DEF CommitCreate, LocksGuard, CallOk, TxType, Tx
<1>2. /\ Present(KeyOf[r]) = {} /\ Cardinality(OutstandingJobs) < Outstanding
      /\ holder[KeyLock(KeyOf[r])] = r /\ holder[ProjectLock] = r
  BY <1>1, LocksKnown DEF CreatorOk
<1>3. rows[r].state = "absent" /\ rows' = [rows EXCEPT ![r].state = "queued"]
  BY <1>2 DEF CommitCreate, Present
<1>4. CreatesAlone(r)
  BY <1>1, <1>2, <1>3 DEF CreatesAlone
<1>5. /\ rows' \in [Creators -> JobRow]
      /\ rows'[r].state = "queued"
      /\ \A x \in Creators : x # r => rows'[x] = rows[x]
  BY <1>1, <1>3 DEF JobRow
<1>6. StatementsGuarded(r)
  <2>1. ASSUME NEW s \in Creators, Present(KeyOf[s]) = {}, Present(KeyOf[s])' # {}
        PROVE  holder[KeyLock(KeyOf[s])] = r
    <3>1. PICK x \in Creators : KeyOf[x] = KeyOf[s] /\ rows'[x].state # "absent"
      BY <2>1 DEF Present
    <3>2. x = r
      BY <1>5, <2>1, <3>1 DEF Present
    <3> QED BY <1>2, <3>1, <3>2
  <2> QED BY <1>1, <1>2, <1>3, <1>5, <2>1 DEF StatementsGuarded
<1>7. LeasesCounted'
  <2>1. \A w \in WorkerIds : LeasedBy(w)' = LeasedBy(w)
    BY <1>3, <1>5 DEF LeasedBy
  <2> QED BY <1>1, <1>5, <2>1 DEF LocksGuard, LeasesCounted
<1> QED BY <1>1, <1>4, <1>5, <1>6, <1>7, CommitKeeps

\* A claim commits what it would have done alone.
LEMMA ClaimCommits ==
    ASSUME LocksGuard, NEW c \in Claimers, CommitClaim(c)
    PROVE  LocksGuard' /\ \E j \in Creators, w \in WorkerIds : ClaimsAlone(j, w)
<1>0. PICK w : w = tx[c].worker
  OBVIOUS
<1>1. /\ c \in Tx /\ ClaimerOk(c) /\ tx[c].at = "commit" /\ Finish(c)
      /\ rows \in [Creators -> JobRow] /\ load \in [WorkerIds -> WorkerRow]
  BY DEF CommitClaim, LocksGuard, CallOk, TxType, Tx
<1>2. PICK j \in Creators : tx[c].jobs = {j} /\ rows[j].state = "queued"
  BY <1>1 DEF ClaimerOk
<1>3. /\ w \in WorkerIds /\ Cardinality(LeasedJobs) < Concurrent
      /\ load[w].active < load[w].capacity
      /\ holder[JobLock(j)] = c /\ holder[ProjectLock] = c /\ holder[WorkerLock(w)] = c
  BY <1>0, <1>1, <1>2, LocksKnown DEF ClaimerOk
<1>4. /\ rows' = [x \in Creators |-> IF x = j THEN [state |-> "leased", worker |-> w] ELSE rows[x]]
      /\ load' = [load EXCEPT ![w] = [load[w] EXCEPT !.active = load[w].active + 1]]
  BY <1>0, <1>2 DEF CommitClaim
<1>5. [state |-> "leased", worker |-> w] \in JobRow
  BY <1>3 DEF JobRow
<1>6. /\ rows' \in [Creators -> JobRow]
      /\ rows'[j] = [state |-> "leased", worker |-> w]
      /\ \A x \in Creators : x # j => rows'[x] = rows[x]
  BY <1>1, <1>4, <1>5
<1>7. /\ load[w].active \in Nat
      /\ [load[w] EXCEPT !.active = load[w].active + 1] \in WorkerRow
      /\ [load[w] EXCEPT !.active = load[w].active + 1].active = load[w].active + 1
  BY <1>1, <1>3 DEF WorkerRow
<1>8. /\ load' \in [WorkerIds -> WorkerRow]
      /\ load'[w].active = load[w].active + 1
      /\ \A v \in WorkerIds : v # w => load'[v] = load[v]
  BY <1>1, <1>3, <1>4, <1>7
<1>9. ClaimsAlone(j, w)
  <2>1. rows' = [rows EXCEPT ![j] = [state |-> "leased", worker |-> w]]
    BY <1>1, <1>4
  <2> QED BY <1>2, <1>3, <1>4, <2>1 DEF ClaimsAlone
<1>10. StatementsGuarded(c)
  <2>1. \A r \in Creators : Present(KeyOf[r])' = Present(KeyOf[r])
    BY <1>2, <1>6 DEF Present
  <2> QED BY <1>3, <1>6, <1>8, <2>1 DEF StatementsGuarded
<1>11. LeasesCounted'
  <2>1. LeasedBy(w)' = LeasedBy(w) \cup {j} /\ j \notin LeasedBy(w)
    BY <1>2, <1>6 DEF LeasedBy
  <2>2. \A v \in WorkerIds : v # w => LeasedBy(v)' = LeasedBy(v)
    BY <1>2, <1>6 DEF LeasedBy
  <2>3. LeasedBy(w) \in SUBSET Creators
    BY DEF LeasedBy
  <2>4. Cardinality(LeasedBy(w)') = Cardinality(LeasedBy(w)) + 1
    BY <2>1, <2>3, Counts, FS_AddElement
  <2> QED BY <1>3, <1>6, <1>8, <2>2, <2>4 DEF LocksGuard, LeasesCounted
<1> QED BY <1>1, <1>3, <1>6, <1>8, <1>9, <1>10, <1>11, CommitKeeps

\* A heartbeat commits what it would have done alone.
LEMMA BeatCommits ==
    ASSUME LocksGuard, NEW b \in Beats, CommitBeat(b)
    PROVE  LocksGuard' /\ \E w \in WorkerIds, c \in CapacitySet : BeatsAlone(w, c)
<1> DEFINE w == tx[b].worker
           capacity == tx[b].capacity
<1>1. /\ b \in Tx /\ BeatOk(b) /\ tx[b].at = "commit" /\ Finish(b)
      /\ load \in [WorkerIds -> WorkerRow] /\ rows \in [Creators -> JobRow]
      /\ rows' = rows
      /\ load' = [load EXCEPT ![w].capacity = capacity]
  BY DEF CommitBeat, LocksGuard, CallOk, TxType, Tx
<1>2. /\ w \in WorkerIds /\ holder[WorkerLock(w)] = b
      /\ capacity \in CapacitySet /\ load[w].active <= capacity
      /\ capacity \in Nat
  BY <1>1, TransactionAssumption DEF BeatOk
<1> HIDE DEF w, capacity
<1>3. BeatsAlone(w, capacity)
  BY <1>1, <1>2 DEF BeatsAlone
<1>4. /\ load' \in [WorkerIds -> WorkerRow]
      /\ load'[w].active = load[w].active
      /\ \A v \in WorkerIds : v # w => load'[v] = load[v]
  BY <1>1, <1>2 DEF WorkerRow
<1>5. /\ OutstandingJobs' = OutstandingJobs /\ LeasedJobs' = LeasedJobs
      /\ \A r \in Creators : Present(KeyOf[r])' = Present(KeyOf[r])
      /\ \A v : LeasedBy(v)' = LeasedBy(v)
  BY <1>1 DEF OutstandingJobs, LeasedJobs, Present, LeasedBy
<1>6. StatementsGuarded(b)
  BY <1>1, <1>2, <1>4, <1>5, Counts DEF StatementsGuarded
<1>7. LeasesCounted'
  BY <1>1, <1>4, <1>5 DEF LocksGuard, LeasesCounted
<1> QED BY <1>1, <1>2, <1>3, <1>4, <1>6, <1>7, CommitKeeps

\* A terminal transition or a recovery commits what it would have done alone.
LEMMA CloseCommits ==
    ASSUME LocksGuard, NEW e \in Closers, NEW requeue \in BOOLEAN, CommitClose(e, requeue)
    PROVE  LocksGuard' /\ \E j \in Creators : ClosesAlone(j)
<1>0. PICK w : w = tx[e].worker
  OBVIOUS
<1>1. /\ e \in Tx /\ CloserOk(e) /\ tx[e].at = "commit" /\ Finish(e)
      /\ rows \in [Creators -> JobRow] /\ load \in [WorkerIds -> WorkerRow]
  BY DEF CommitClose, LocksGuard, CallOk, TxType, Tx
<1>2. PICK j \in Creators : tx[e].jobs = {j} /\ rows[j].state = "leased" /\ w = rows[j].worker
  BY <1>0, <1>1 DEF CloserOk
<1>3. w \in WorkerIds /\ load[w].active = Cardinality(LeasedBy(w)) /\ j \in LeasedBy(w)
  BY <1>2 DEF LocksGuard, LeasesCounted, LeasedBy
<1>4. holder[JobLock(j)] = e /\ holder[WorkerLock(w)] = e
  BY <1>0, <1>1, <1>2, <1>3, LocksKnown DEF CloserOk
<1>5. /\ IsFiniteSet(LeasedBy(w)) /\ load[w].active \in Nat /\ load[w].active > 0
      /\ Cardinality(LeasedBy(w) \ {j}) = load[w].active - 1
  <2>1. LeasedBy(w) \in SUBSET Creators
    BY DEF LeasedBy
  <2>2. IsFiniteSet(LeasedBy(w)) /\ Cardinality(LeasedBy(w)) \in Nat
    BY <2>1, Counts
  <2>3. Cardinality(LeasedBy(w)) # 0
    BY <1>3, <2>2, FS_EmptySet
  <2>4. Cardinality(LeasedBy(w) \ {j}) = Cardinality(LeasedBy(w)) - 1
    BY <1>3, <2>2, FS_RemoveElement
  <2> QED BY <1>3, <2>2, <2>3, <2>4
<1> DEFINE closed == IF requeue THEN [state |-> "queued", worker |-> NoOne]
                                ELSE [rows[j] EXCEPT !.state = "ended"]
<1>6. /\ rows' = [x \in Creators |-> IF x # j THEN rows[x] ELSE closed]
      /\ load' = [load EXCEPT ![w].active = IF @ > 0 THEN @ - 1 ELSE 0]
  BY <1>0, <1>2 DEF CommitClose
<1>7. closed \in JobRow /\ closed.state \in {"queued", "ended"}
  BY <1>1, <1>2 DEF JobRow
<1>8. ClosesAlone(j)
  <2>1. rows' = [rows EXCEPT ![j] = closed]
    BY <1>1, <1>6
  <2>2. \/ rows' = [rows EXCEPT ![j].state = "ended"]
        \/ rows' = [rows EXCEPT ![j] = [state |-> "queued", worker |-> NoOne]]
    BY <2>1
  <2>3. load' = [load EXCEPT ![rows[j].worker].active = @ - 1]
    BY <1>1, <1>2, <1>3, <1>5, <1>6
  <2> QED BY <1>2, <1>5, <2>2, <2>3 DEF ClosesAlone
<1> HIDE DEF closed
<1>9. /\ rows' \in [Creators -> JobRow]
      /\ rows'[j] = closed
      /\ \A x \in Creators : x # j => rows'[x] = rows[x]
  BY <1>1, <1>6, <1>7
<1>10. /\ load' \in [WorkerIds -> WorkerRow]
       /\ load'[w].active = load[w].active - 1
       /\ \A v \in WorkerIds : v # w => load'[v] = load[v]
  <2> DEFINE new == [load[w] EXCEPT !.active = load[w].active - 1]
  <2>1. new \in WorkerRow /\ new.active = load[w].active - 1
    BY <1>1, <1>3, <1>5 DEF WorkerRow
  <2>2. load' = [load EXCEPT ![w] = new]
    BY <1>5, <1>6
  <2> HIDE DEF new
  <2> QED BY <1>1, <1>3, <2>1, <2>2
<1>11. StatementsGuarded(e)
  <2>1. \A r \in Creators : Present(KeyOf[r])' = Present(KeyOf[r])
    BY <1>2, <1>7, <1>9 DEF Present
  <2>2. /\ OutstandingJobs' \subseteq OutstandingJobs /\ LeasedJobs' \subseteq LeasedJobs
        /\ OutstandingJobs \in SUBSET Creators /\ LeasedJobs \in SUBSET Creators
    BY <1>2, <1>7, <1>9 DEF OutstandingJobs, LeasedJobs
  <2>3. /\ Cardinality(OutstandingJobs') <= Cardinality(OutstandingJobs)
        /\ Cardinality(LeasedJobs') <= Cardinality(LeasedJobs)
    BY <2>2, Counts, FS_Subset
  <2> QED BY <1>4, <1>9, <1>10, <2>1, <2>3 DEF StatementsGuarded
<1>12. LeasesCounted'
  <2>1. LeasedBy(w)' = LeasedBy(w) \ {j}
    BY <1>7, <1>9 DEF LeasedBy
  <2>2. \A v \in WorkerIds : v # w => LeasedBy(v)' = LeasedBy(v)
    BY <1>2, <1>7, <1>9 DEF LeasedBy
  <2> QED BY <1>5, <1>7, <1>9, <1>10, <2>1, <2>2 DEF LocksGuard, LeasesCounted
<1> QED BY <1>1, <1>8, <1>9, <1>10, <1>11, <1>12, CommitKeeps

-------------------------------------------------------------------------------
(* Theorems.                                                               *)

LEMMA LocksGuardInit == TransactionsInit => LocksGuard
<1> SUFFICES ASSUME TransactionsInit PROVE LocksGuard
  OBVIOUS
<1>1. TxType
  BY DEF TransactionsInit, TxType, JobRow, WorkerRow, Call, Idle
<1>2. LeasesCounted
  <2>1. \A j \in Creators : rows[j].state = "absent"
    BY DEF TransactionsInit
  <2>2. \A w \in WorkerIds : LeasedBy(w) = {} /\ load[w].active = 0
    BY <2>1 DEF LeasedBy, TransactionsInit
  <2> QED BY <2>1, <2>2, FS_EmptySet DEF LeasesCounted
<1>3. ASSUME NEW t \in Tx PROVE CallOk(t)
  <2>1. tx[t].at = "idle" /\ tx[t].jobs = {}
    BY DEF TransactionsInit, Idle
  <2>2. \A l \in Lock : holder[l] # t
    BY TransactionAssumption DEF TransactionsInit
  <2>3. CreatorOk(t) /\ ClaimerOk(t) /\ BeatOk(t) /\ CloserOk(t)
    BY <2>1, <2>2 DEF CreatorOk, ClaimerOk, BeatOk, CloserOk
  <2> QED BY <2>3 DEF CallOk
<1> QED BY <1>1, <1>2, <1>3 DEF LocksGuard

\* What one step may do to the rows.
Serial ==
    \/ \E r \in Creators : CreatesAlone(r)
    \/ \E j \in Creators, w \in WorkerIds : ClaimsAlone(j, w)
    \/ \E w \in WorkerIds, c \in CapacitySet : BeatsAlone(w, c)
    \/ \E j \in Creators : ClosesAlone(j)

LEMMA LocksGuardStep ==
    ASSUME LocksGuard, [TransactionsNext]_txVars
    PROVE  LocksGuard' /\ (Serial \/ UNCHANGED <<rows, load>>)
<1>1. ASSUME NEW r \in Creators,
             FastLookup(r) \/ LockKey(r) \/ FindExisting(r) \/ CountOutstanding(r)
      PROVE  LocksGuard' /\ UNCHANGED <<rows, load>>
  BY <1>1, CreateStatements DEF FastLookup, LockKey, FindExisting, CountOutstanding
<1>2. ASSUME NEW r \in Creators, CommitCreate(r) PROVE LocksGuard' /\ Serial
  BY <1>2, CreateCommits DEF Serial
<1>3. ASSUME NEW c \in Claimers,
             \/ \E j \in Creators : ClaimLockJob(c, j)
             \/ \E w \in WorkerIds : CountLeased(c, w)
             \/ ClaimLockWorker(c)
      PROVE  LocksGuard' /\ UNCHANGED <<rows, load>>
  BY <1>3, ClaimStatements DEF ClaimLockJob, CountLeased, ClaimLockWorker
<1>4. ASSUME NEW c \in Claimers, CommitClaim(c) PROVE LocksGuard' /\ Serial
  BY <1>4, ClaimCommits DEF Serial
<1>5. ASSUME NEW t \in Creators \cup Claimers, LockProject(t)
      PROVE  LocksGuard' /\ UNCHANGED <<rows, load>>
  BY <1>5, CreateStatements, ClaimStatements DEF LockProject
<1>6. ASSUME NEW b \in Beats,
             \/ \E presented \in SUBSET Creators : BeatBegins(b, presented)
             \/ \E j \in Creators : BeatLockJob(b, j)
             \/ \E w \in WorkerIds : BeatLocksDone(b, w)
             \/ \E capacity \in CapacitySet : BeatLockWorker(b, capacity)
      PROVE  LocksGuard' /\ UNCHANGED <<rows, load>>
  BY <1>6, BeatStatements DEF BeatBegins, BeatLockJob, BeatLocksDone, BeatLockWorker
<1>7. ASSUME NEW b \in Beats, CommitBeat(b) PROVE LocksGuard' /\ Serial
  BY <1>7, BeatCommits DEF Serial
<1>8. ASSUME NEW e \in Closers,
             (\E j \in Creators : CloseLockJob(e, j)) \/ CloseLockWorker(e)
      PROVE  LocksGuard' /\ UNCHANGED <<rows, load>>
  BY <1>8, CloseStatements DEF CloseLockJob, CloseLockWorker
<1>9. ASSUME NEW e \in Closers, NEW requeue \in BOOLEAN, CommitClose(e, requeue)
      PROVE  LocksGuard' /\ Serial
  BY <1>9, CloseCommits DEF Serial
<1>10. ASSUME NEW t \in Severed, Abort(t) PROVE LocksGuard' /\ UNCHANGED <<rows, load>>
  <2>1. t \in Tx
    BY TransactionAssumption
  <2> QED BY <1>10, <2>1, RefusalKeeps DEF Abort
<1>11. CASE UNCHANGED txVars
  <2>1. TxType /\ \A t \in Tx : Untouched(t) /\ CallOk(t)
    BY <1>11 DEF LocksGuard, Untouched, txVars
  <2>2. rows' = rows /\ load' = load /\ tx' = tx /\ holder' = holder
    BY <1>11 DEF txVars
  <2>3. \A t \in Tx : CallOk(t)'
    BY <2>1, <2>2, UntouchedKeeps
  <2> QED BY <2>2, <2>3 DEF LocksGuard, TxType, LeasesCounted, LeasedBy
<1>12. ASSUME TransactionsNext
       PROVE  LocksGuard' /\ (Serial \/ UNCHANGED <<rows, load>>)
  BY <1>1, <1>2, <1>3, <1>4, <1>5, <1>6, <1>7, <1>8, <1>9, <1>10, <1>12
     DEF TransactionsNext
<1> QED BY <1>11, <1>12 DEF txVars

\* Every commit of the repository does what its transaction would have done
\* alone in the rows it finds: the locks of create_job_with_outbox,
\* claim_job_with_options, record_heartbeat, transition_job_state and
\* recover_stale_job protect whatever those calls have read.
THEOREM TransactionsSerialize == TransactionsSpec => CommitsSerial
<1>1. LocksGuard /\ [TransactionsNext]_txVars => LocksGuard'
  BY LocksGuardStep
<1>2. LocksGuard /\ [TransactionsNext]_txVars => [Serial]_<<rows, load>>
  BY LocksGuardStep
<1>3. [Serial]_<<rows, load>> =>
        [rows' # rows \/ load' # load =>
            \/ \E r \in Creators : CreatesAlone(r)
            \/ \E j \in Creators, w \in WorkerIds : ClaimsAlone(j, w)
            \/ \E w \in WorkerIds, c \in CapacitySet : BeatsAlone(w, c)
            \/ \E j \in Creators : ClosesAlone(j)]_<<rows, load>>
  BY DEF Serial
<1> QED BY <1>1, <1>2, <1>3, LocksGuardInit, PTL DEF TransactionsSpec, CommitsSerial

\* A finite set of numbers has a largest one: a number with the fewest above it.
LEMMA LargestOf ==
    ASSUME NEW K \in SUBSET Nat, IsFiniteSet(K), K # {}
    PROVE  \E j \in K : \A k \in K : k <= j
<1> DEFINE Above(j) == {k \in K : k > j}
           T == {Above(j) : j \in K}
<1>1. T \subseteq FiniteSubsetsOf(K) /\ T # {}
  <2>1. \A j \in K : Above(j) \in SUBSET K
    OBVIOUS
  <2>2. \A j \in K : Above(j) \in FiniteSubsetsOf(K)
    BY <2>1, FS_Subset DEF FiniteSubsetsOf
  <2> QED BY <2>2
<1>2. PICK x \in T : \A y \in T : ~(<<y, x>> \in StrictSubsetOrdering(K))
  <2> HIDE DEF T
  <2> QED BY <1>1, FS_StrictSubsetOrderingWellFounded, WFMin
<1>3. PICK j \in K : x = Above(j)
  OBVIOUS
<1>4. ASSUME NEW k \in K, k > j PROVE FALSE
  <2>1. Above(k) \subseteq Above(j) /\ Above(k) # Above(j)
    <3>1. k \in Above(j) /\ k \notin Above(k)
      BY <1>4
    <3>2. \A i \in Above(k) : i \in Above(j)
      BY <1>4
    <3> QED BY <3>1, <3>2
  <2>2. Above(k) \in T /\ <<Above(k), x>> \in StrictSubsetOrdering(K)
    BY <1>3, <2>1 DEF StrictSubsetOrdering
  <2> QED BY <1>2, <2>2
<1> QED BY <1>4

\* Who holds a lock that somebody waits for.
LEMMA Holders ==
    ASSUME LocksGuard, NEW t \in Tx, NEW l \in Lock, holder[l] = t
    PROVE  /\ (\E w : l = WorkerLock(w)) => tx[t].at = "commit"
           /\ l = ProjectLock => tx[t].at \in {"count", "worker", "commit"}
           /\ (\E k : l = KeyLock(k)) =>
                 tx[t].at \in {"existing", "project", "count", "commit"}
           /\ \A j : l = JobLock(j) =>
                 /\ tx[t].at \in {"job", "project", "count", "worker", "commit"}
                 /\ tx[t].at = "job" => t \in Beats /\ j \in tx[t].jobs
<1>1. TxType /\ CallOk(t)
  BY DEF LocksGuard
<1>2. CASE t \in Creators
  BY <1>1, <1>2, LocksApart DEF CallOk, CreatorOk
<1>3. CASE t \in Claimers
  BY <1>1, <1>3, LocksApart DEF CallOk, ClaimerOk
<1>4. CASE t \in Beats
  BY <1>1, <1>4, LocksApart DEF CallOk, BeatOk
<1>5. CASE t \in Closers
  BY <1>1, <1>5, LocksApart DEF CallOk, CloserOk
<1> QED BY <1>2, <1>3, <1>4, <1>5 DEF Tx

\* Workers are locked last, the project before them, jobs before both, and
\* heartbeats take jobs in the order of their ids: in any set of blocked calls
\* one waits for somebody outside.
LEMMA LocksGuardNoCycle == LocksGuard => NoWaitCycle
<1> SUFFICES ASSUME LocksGuard, NEW S \in (SUBSET Blocked) \ {{}}
             PROVE  \E t \in S : \A l \in Wanted(t) : holder[l] \notin S
  BY DEF NoWaitCycle
<1>1. ASSUME NEW t \in S
      PROVE  /\ t \in Tx /\ CallOk(t) /\ tx[t] \in Call
             /\ tx[t].at \in {"key", "project", "job", "worker"}
             /\ \E l \in Wanted(t) : TRUE
  BY DEF Blocked, LocksGuard, TxType, Call, Wanted
<1>2. ASSUME NEW t \in S, NEW l \in Lock, holder[l] \in S
      PROVE  /\ \A w : l # WorkerLock(w)
             /\ l = ProjectLock => tx[holder[l]].at = "worker"
             /\ (\E k : l = KeyLock(k)) => tx[holder[l]].at = "project"
             /\ \A j : l = JobLock(j) =>
                   \/ tx[holder[l]].at \in {"project", "worker"}
                   \/ /\ tx[holder[l]].at = "job"
                      /\ holder[l] \in Beats /\ j \in tx[holder[l]].jobs
  BY <1>1, <1>2, Holders
<1>3. ASSUME NEW t \in S, tx[t].at = "worker"
      PROVE  \A l \in Wanted(t) : holder[l] \notin S
  <2>1. tx[t].worker \in WorkerIds
    BY <1>1, <1>3 DEF CallOk, CreatorOk, ClaimerOk, BeatOk, CloserOk, LocksGuard,
                      LeasesCounted, Tx
  <2>2. Wanted(t) = {WorkerLock(tx[t].worker)} /\ WorkerLock(tx[t].worker) \in Lock
    BY <1>3, <2>1, LocksKnown DEF Wanted
  <2> QED BY <1>2, <2>2
<1>4. ASSUME \A t \in S : tx[t].at # "worker", NEW t \in S, tx[t].at = "project"
      PROVE  \A l \in Wanted(t) : holder[l] \notin S
  <2>1. Wanted(t) = {ProjectLock}
    BY <1>4 DEF Wanted
  <2> QED BY <1>2, <1>4, <2>1, LocksKnown
<1>5. ASSUME \A t \in S : tx[t].at \notin {"worker", "project"},
             NEW s \in S, tx[s].at = "job"
      PROVE  \E t \in S : \A l \in Wanted(t) : holder[l] \notin S
  <2>1. ASSUME NEW t \in S, tx[t].at = "job"
        PROVE  /\ t \in Beats /\ BeatOk(t) /\ tx[t].jobs \subseteq Creators
               /\ Wanted(t) = {JobLock(j) : j \in NextInOrder(ToLock(t))}
               /\ NextInOrder(ToLock(t)) # {}
               /\ NextInOrder(ToLock(t)) \subseteq ToLock(t)
    <3>1. t \in Beats /\ BeatOk(t)
      BY <1>1, <2>1 DEF CallOk, CreatorOk, ClaimerOk, CloserOk, Tx
    <3>2. Wanted(t) = {JobLock(j) : j \in NextInOrder(ToLock(t))}
      BY <2>1 DEF Wanted
    <3> QED BY <1>1, <3>1, <3>2 DEF Call, NextInOrder
  <2> DEFINE Next(j) == \E t \in S : tx[t].at = "job" /\ j \in NextInOrder(ToLock(t))
             K == {j \in Creators : Next(j)}
  <2>2. \A t \in S : tx[t].at = "job" => NextInOrder(ToLock(t)) \subseteq K
    BY <2>1 DEF ToLock
  <2>3. /\ K \in SUBSET Nat /\ IsFiniteSet(K) /\ K # {}
    <3>1. K \in SUBSET Creators
      OBVIOUS
    <3>2. K # {}
      BY <1>5, <2>1, <2>2
    <3> QED BY <3>1, <3>2, TransactionAssumption, FS_Subset
  <2>4. PICK j \in K : \A k \in K : k <= j
    <3> HIDE DEF K
    <3> QED BY <2>3, LargestOf
  <2>5. PICK t \in S : tx[t].at = "job" /\ j \in NextInOrder(ToLock(t))
    OBVIOUS
  <2>6. \A l \in Wanted(t) : l = JobLock(j)
    <3>1. ASSUME NEW i \in NextInOrder(ToLock(t)) PROVE i = j
      <4>1. i <= j /\ j <= i
        BY <2>5, <3>1 DEF NextInOrder
      <4>2. i \in Nat /\ j \in Nat
        BY <2>2, <2>3, <2>5
      <4> QED BY <4>1, <4>2
    <3> QED BY <2>1, <2>5, <3>1
  <2>7. ASSUME holder[JobLock(j)] \in S PROVE FALSE
    <3>1. PICK u \in S : u = holder[JobLock(j)]
      BY <2>7
    <3>2. tx[u].at = "job" /\ j \in tx[u].jobs
      BY <1>2, <1>5, <3>1, LocksKnown
    <3>3. PICK i \in NextInOrder(ToLock(u)) : TRUE
      BY <2>1, <3>2
    <3>4. i \in K /\ i \in tx[u].jobs /\ holder[JobLock(i)] # u
      BY <2>1, <2>2, <3>2, <3>3 DEF ToLock
    <3>5. j < i
      BY <2>1, <3>1, <3>2, <3>4 DEF BeatOk
    <3> QED BY <2>3, <2>4, <3>4, <3>5
  <2> QED BY <2>6, <2>7
<1>6. ASSUME \A t \in S : tx[t].at = "key", NEW t \in S
      PROVE  \A l \in Wanted(t) : holder[l] \notin S
  <2>1. t \in Creators
    BY <1>1, <1>6 DEF CallOk, ClaimerOk, BeatOk, CloserOk, Tx
  <2>2. Wanted(t) = {KeyLock(KeyOf[t])} /\ KeyLock(KeyOf[t]) \in Lock
    BY <1>6, <2>1, LocksKnown DEF Wanted
  <2> QED BY <1>2, <1>6, <2>2
<1>7. PICK t \in S : TRUE
  OBVIOUS
<1> QED BY <1>1, <1>3, <1>4, <1>5, <1>6, <1>7

\* Admissions, claims, heartbeats, transitions and recoveries never wait for each
\* other's locks in a circle, however many there are: PostgreSQL has no deadlock
\* to break among them.
THEOREM NoTransactionsWaitInACircle == TransactionsSpec => []NoWaitCycle
<1>1. LocksGuard /\ [TransactionsNext]_txVars => LocksGuard'
  BY LocksGuardStep
<1> QED BY <1>1, LocksGuardInit, LocksGuardNoCycle, PTL DEF TransactionsSpec

-------------------------------------------------------------------------------
(* Event stream.                                                           *)

Last(s, from) == IF s = <<>> THEN from ELSE s[Len(s)]

\* s is the log after the number `from', as far as s goes.
Run(s, from) ==
    /\ Increasing(s)
    /\ Range(s) = {n \in committed : from < n /\ n <= Last(s, from)}

StreamType ==
    /\ committed \subseteq Nat \ {0}
    /\ drawn \in Nat
    /\ ended \in Nat
    /\ writer \in [Writers -> [at : {"idle", "locked", "inserted", "done"}, number : Nat]]
    /\ stream \in [at : {"loop", "check", "closed", "broken"}, after : Nat,
                   pending : Seq(Nat), closeNext : BOOLEAN]
    /\ wire \in Seq(Nat)
    /\ seen \in Seq(Nat)

\* A number is drawn under the job's row and is larger than every number before.
LogOrdered ==
    /\ \A n \in committed : n <= drawn
    /\ \A w \in Writers : writer[w].at \in {"locked", "inserted"} => jobRow = w
    /\ \A w \in Writers : writer[w].at = "inserted" =>
          /\ writer[w].number = drawn
          /\ \A n \in committed : n < drawn
          /\ drawn > 0

\* What was received, what is on the wire and what is to be sent follow each
\* other in the log without a gap.
FollowsLog ==
    /\ Run(seen, 0)
    /\ Run(wire, Last(seen, 0))
    /\ Run(stream.pending, stream.after)
    /\ stream.at \in {"loop", "check"} => stream.after = Last(wire, Last(seen, 0))
    /\ stream.at \in {"closed", "broken"} => stream.pending = <<>>

StreamInv == StreamType /\ LogOrdered /\ FollowsLog

LEMMA RunEmpty ==
    ASSUME NEW from \in Nat, committed \subseteq Nat
    PROVE  Run(<<>>, from) /\ Last(<<>>, from) = from
<1>1. DOMAIN <<>> = {}
  OBVIOUS
<1>2. Last(<<>>, from) = from
  BY DEF Last
<1>3. Range(<<>>) = {} /\ Increasing(<<>>)
  BY <1>1 DEF Range, Increasing
<1>4. \A n \in committed : ~(from < n /\ n <= from)
  OBVIOUS
<1> QED BY <1>2, <1>3, <1>4 DEF Run

\* The end of a run is where it began or an event.
LEMMA RunEnds ==
    ASSUME NEW s \in Seq(Nat), NEW from \in Nat, Run(s, from), committed \subseteq Nat \ {0}
    PROVE  /\ Last(s, from) \in Nat
           /\ s # <<>> => Last(s, from) \in committed /\ from < Last(s, from)
           /\ \A i \in DOMAIN s : s[i] \in committed /\ s[i] <= Last(s, from) /\ from < s[i]
<1>1. s # <<>> => Len(s) \in DOMAIN s
  OBVIOUS
<1>2. \A i \in DOMAIN s : s[i] \in Range(s)
  BY DEF Range
<1> QED BY <1>1, <1>2 DEF Run, Last

\* The first event of a run joins the run that ends where it begins.
LEMMA RunHandsOver ==
    ASSUME NEW s \in Seq(Nat), NEW t \in Seq(Nat), NEW from \in Nat,
           committed \subseteq Nat \ {0},
           Run(s, from), Run(t, Last(s, from)), t # <<>>
    PROVE  /\ Append(s, Head(t)) \in Seq(Nat) /\ Tail(t) \in Seq(Nat) /\ Head(t) \in Nat
           /\ Run(Append(s, Head(t)), from)
           /\ Last(Append(s, Head(t)), from) = Head(t)
           /\ Run(Tail(t), Head(t))
           /\ Last(Tail(t), Head(t)) = Last(t, Last(s, from))
<1> DEFINE m == Last(s, from)
           h == Head(t)
           a == Append(s, h)
           r == Tail(t)
<1>1. /\ Len(s) \in Nat /\ Len(t) \in Nat \ {0} /\ DOMAIN s = 1 .. Len(s)
      /\ DOMAIN t = 1 .. Len(t) /\ h = t[1] /\ h \in Nat /\ 1 \in DOMAIN t
      /\ Len(t) \in DOMAIN t
  OBVIOUS
<1>2. /\ a \in Seq(Nat) /\ a # <<>> /\ Len(a) = Len(s) + 1 /\ DOMAIN a = 1 .. (Len(s) + 1)
      /\ a[Len(s) + 1] = h
      /\ \A i \in DOMAIN s : a[i] = s[i]
  <2>1. PICK e : e = h
    OBVIOUS
  <2>2. e \in Nat
    BY <1>1, <2>1
  <2>3. /\ Append(s, e) \in Seq(Nat) /\ Len(Append(s, e)) = Len(s) + 1
        /\ \A i \in 1 .. Len(s) : Append(s, e)[i] = s[i]
        /\ Append(s, e)[Len(s) + 1] = e
    BY <2>2, AppendProperties
  <2>4. Append(s, e) # <<>> /\ DOMAIN Append(s, e) = 1 .. (Len(s) + 1)
    BY <1>1, <2>2, <2>3
  <2> QED BY <1>1, <2>1, <2>3, <2>4
<1>3. /\ r \in Seq(Nat) /\ Len(r) = Len(t) - 1 /\ DOMAIN r = 1 .. (Len(t) - 1)
      /\ \A i \in DOMAIN r : r[i] = t[i + 1] /\ i + 1 \in DOMAIN t
  BY <1>1
<1> HIDE DEF a, r, h
<1>4. /\ m \in Nat
      /\ \A i \in DOMAIN s : s[i] \in committed /\ s[i] <= m /\ from < s[i]
      /\ from <= m
  BY RunEnds DEF Last
<1> HIDE DEF m
<1>16. /\ Len(t) \in Nat /\ Len(r) \in Nat /\ Len(r) + 1 = Len(t)
       /\ r # <<>> => Len(r) \in DOMAIN r
       /\ r = <<>> => Len(r) = 0
  BY <1>1, <1>3
<1>5. /\ Increasing(s) /\ Range(s) = {n \in committed : from < n /\ n <= m}
      /\ Increasing(t) /\ Range(t) = {n \in committed : m < n /\ n <= t[Len(t)]}
  BY DEF Run, Last, m
<1>6. \A i \in DOMAIN t : t[i] \in committed /\ m < t[i] /\ t[i] <= t[Len(t)] /\ t[i] \in Nat
  BY <1>5 DEF Range
<1>7. Increasing(a)
  <2> SUFFICES ASSUME NEW i \in DOMAIN a, NEW k \in DOMAIN a, i < k
               PROVE  a[i] < a[k]
    BY DEF Increasing
  <2>1. i \in DOMAIN s
    BY <1>1, <1>2
  <2>2. CASE k = Len(s) + 1
    <3>1. a[i] = s[i] /\ s[i] <= m /\ s[i] \in Nat
      BY <1>2, <1>4, <2>1
    <3>2. a[k] = h /\ m < h
      BY <1>1, <1>2, <1>6, <2>2
    <3> QED BY <1>1, <1>4, <3>1, <3>2
  <2>3. CASE k # Len(s) + 1
    <3>1. k \in DOMAIN s
      BY <1>1, <1>2, <2>3
    <3> QED BY <1>2, <1>5, <2>1, <3>1 DEF Increasing
  <2> QED BY <2>2, <2>3
<1>8. Last(a, from) = h
  BY <1>1, <1>2 DEF Last
<1>9. \A n \in committed : m < n /\ n <= h => n = h
  <2> SUFFICES ASSUME NEW n \in committed, m < n, n <= h
               PROVE  n = h
    OBVIOUS
  <2>1. n \in Nat /\ h <= t[Len(t)] /\ t[Len(t)] \in Nat
    BY <1>1, <1>6
  <2>2. n \in Range(t)
    BY <1>1, <1>5, <2>1
  <2>3. PICK k \in DOMAIN t : t[k] = n
    BY <2>2 DEF Range
  <2>4. k # 1 => h < n
    BY <1>1, <1>5, <2>3, SMTT(30) DEF Increasing
  <2> QED BY <1>1, <2>1, <2>3, <2>4
<1>10. Range(a) = Range(s) \cup {h}
  <2>1. \A i \in DOMAIN a : i \in DOMAIN s \/ i = Len(s) + 1
    BY <1>1, <1>2
  <2>2. Len(s) + 1 \in DOMAIN a /\ \A i \in DOMAIN s : i \in DOMAIN a
    BY <1>1, <1>2
  <2>3. \A i \in DOMAIN a : a[i] \in Range(s) \cup {h}
    BY <1>2, <2>1 DEF Range
  <2>4. h \in Range(a) /\ \A i \in DOMAIN s : s[i] \in Range(a)
    BY <1>2, <2>2 DEF Range
  <2> QED BY <2>3, <2>4 DEF Range
<1>11. h \in committed /\ m < h
  BY <1>1, <1>6
<1>12. Run(a, from)
  <2>1. \A n \in committed : (from < n /\ n <= h) <=> (from < n /\ n <= m) \/ n = h
    BY <1>1, <1>4, <1>9, <1>11
  <2>2. Range(a) = {n \in committed : from < n /\ n <= h}
    BY <1>5, <1>10, <1>11, <2>1
  <2> QED BY <1>7, <1>8, <2>2 DEF Run
<1>13. Last(r, h) = t[Len(t)]
  <2>1. CASE r = <<>>
    <3>2. Len(t) = 1
      BY <1>16, <2>1
    <3> QED BY <1>1, <2>1, <3>2 DEF Last
  <2>2. CASE r # <<>>
    <3>1. Len(r) \in DOMAIN r /\ Len(r) + 1 = Len(t)
      BY <1>16, <2>2
    <3>2. r[Len(r)] = t[Len(r) + 1]
      BY <1>3, <3>1
    <3>3. Last(r, h) = r[Len(r)]
      BY <2>2, Zenon DEF Last
    <3>4. r[Len(r)] = t[Len(t)]
      BY <3>1, <3>2
    <3> QED BY <3>3, <3>4, Zenon
  <2> QED BY <2>1, <2>2
<1>14. Run(r, h)
  <2>1. Increasing(r)
    <3> SUFFICES ASSUME NEW i \in DOMAIN r, NEW k \in DOMAIN r, i < k
                 PROVE  r[i] < r[k]
      BY DEF Increasing
    <3>1. i + 1 \in DOMAIN t /\ k + 1 \in DOMAIN t /\ i + 1 < k + 1
      BY <1>1, <1>3
    <3> QED BY <1>3, <1>5, <3>1 DEF Increasing
  <2>2. ASSUME NEW n \in committed, h < n, n <= t[Len(t)]
        PROVE  n \in Range(r)
    <3>1. n \in Nat /\ m < n
      BY <1>1, <1>4, <1>11, <2>2
    <3>2. n \in Range(t)
      BY <1>5, <2>2, <3>1
    <3>3. PICK k \in DOMAIN t : t[k] = n
      BY <3>2 DEF Range
    <3>4. k # 1
      BY <1>1, <2>2, <3>1, <3>3
    <3>5. k - 1 \in DOMAIN r /\ (k - 1) + 1 = k
      <4>1. Len(t) \in Nat /\ k \in 1 .. Len(t) /\ DOMAIN r = 1 .. (Len(t) - 1)
        BY <1>1, <1>3
      <4>2. \A N \in Nat : \A x \in 1 .. N : x # 1 => x - 1 \in 1 .. (N - 1) /\ (x - 1) + 1 = x
        OBVIOUS
      <4> QED BY <3>4, <4>1, <4>2, Zenon
    <3>6. r[k - 1] = n
      BY <1>3, <3>3, <3>5
    <3> QED BY <3>5, <3>6 DEF Range
  <2>3. ASSUME NEW n \in Range(r)
        PROVE  n \in committed /\ h < n /\ n <= t[Len(t)]
    <3>1. PICK k \in DOMAIN r : r[k] = n
      BY DEF Range
    <3>2. n = t[k + 1] /\ k + 1 \in DOMAIN t /\ 1 < k + 1
      BY <1>1, <1>3, <3>1
    <3>3. h < n
      BY <1>1, <1>5, <3>2 DEF Increasing
    <3> QED BY <1>6, <3>2, <3>3
  <2> QED BY <1>13, <2>1, <2>2, <2>3 DEF Run
<1>15. Last(t, m) = t[Len(t)]
  BY DEF Last
<1> QED BY <1>1, <1>2, <1>3, <1>8, <1>12, <1>13, <1>14, <1>15 DEF a, r, h, m

\* An event behind the end of a run leaves the run complete.
\* list_job_events_after reads a run.
LEMMA BatchRuns ==
    ASSUME NEW from \in Nat, NEW b \in NextBatch(from), committed \subseteq Nat \ {0}
    PROVE  b \in Seq(Nat) /\ Run(b, from)
<1> DEFINE newer == {n \in committed : n > from}
<1>1. PICK k \in 0 .. EventBatch : b \in [1 .. k -> newer]
  BY DEF NextBatch
<1>2. k \in Nat /\ newer \subseteq Nat
  <2>1. newer \subseteq Nat
    OBVIOUS
  <2>2. k \in Nat
    BY StreamAssumption
  <2> QED BY <2>1, <2>2
<1>3. /\ b \in Seq(Nat) /\ Len(b) = k /\ DOMAIN b = 1 .. k
      /\ \A i \in DOMAIN b : b[i] \in newer
  BY <1>1, <1>2
<1>4. /\ Increasing(b)
      /\ Len(b) = EventBatch \/ Range(b) = newer
      /\ \A n \in newer \ Range(b) : \A i \in DOMAIN b : b[i] < n
  BY DEF NextBatch
<1> HIDE DEF newer
<1>5. Range(b) \subseteq newer
  BY <1>3 DEF Range
<1>6. CASE b = <<>>
  <2>1. Len(b) = 0 /\ EventBatch # 0
    BY <1>6, StreamAssumption
  <2>2. newer = {}
    <3>1. Range(b) = newer
      BY <1>4, <2>1
    <3> QED BY <1>3, <1>6, <2>1, <3>1 DEF Range
  <2> QED BY <1>3, <1>6, RunEmpty
<1>7. CASE b # <<>>
  <2>1. k \in DOMAIN b
    BY <1>2, <1>3, <1>7
  <2>2. \A i \in DOMAIN b : b[i] <= b[k]
    BY <1>2, <1>3, <1>4, <2>1 DEF Increasing
  <2>3. Last(b, from) = b[k]
    BY <1>3, <1>7, Zenon DEF Last
  <2>4. \A n \in newer : n <= b[k] => n \in Range(b)
    BY <1>2, <1>3, <1>4, <2>1
  <2>5. \A n \in Range(b) : n \in newer /\ n <= b[k]
    BY <1>5, <2>2 DEF Range
  <2>6. Range(b) = {n \in committed : from < n /\ n <= b[k]}
    BY <2>4, <2>5 DEF newer
  <2> QED BY <1>3, <1>4, <2>3, <2>6 DEF Run
<1> QED BY <1>6, <1>7

LEMMA RunOutlasts ==
    ASSUME NEW s \in Seq(Nat), NEW from \in Nat, Run(s, from), NEW number \in Nat,
           committed' = committed \cup {number}, committed \subseteq Nat,
           Last(s, from) < number \/ s = <<>>
    PROVE  Run(s, from)'
BY DEF Run, Last

\* A writer has no event to tell of unless it holds the job's row.
LEMMA WritersStep ==
    ASSUME StreamInv, [StreamNext]_streamVars
    PROVE  /\ committed' \subseteq Nat \ {0} /\ drawn' \in Nat /\ ended' \in Nat
           /\ writer' \in [Writers -> [at : {"idle", "locked", "inserted", "done"},
                                       number : Nat]]
           /\ LogOrdered'
           /\ \/ committed' = committed
              \/ /\ UNCHANGED followerVars
                 /\ \E number \in Nat :
                       /\ committed' = committed \cup {number}
                       /\ number > 0
                       /\ \A n \in committed : n < number
<1>1. StreamType /\ LogOrdered
  BY DEF StreamInv
<1>2. CASE UNCHANGED logVars
  BY <1>1, <1>2 DEF logVars, StreamType, LogOrdered
<1>3. ASSUME NEW w \in Writers, LockRow(w)
      PROVE  /\ committed' = committed /\ drawn' = drawn /\ ended' = ended
             /\ writer' \in [Writers -> [at : {"idle", "locked", "inserted", "done"},
                                         number : Nat]]
             /\ LogOrdered'
  <2>1. /\ writer'[w].at = "locked" /\ jobRow' = w
        /\ \A v \in Writers : v # w => writer'[v] = writer[v]
        /\ writer' \in [Writers -> [at : {"idle", "locked", "inserted", "done"},
                                    number : Nat]]
    BY <1>1, <1>3 DEF LockRow, StreamType
  <2>2. \A v \in Writers : v # w => writer[v].at \notin {"locked", "inserted"}
    BY <1>1, <1>3, StreamAssumption DEF LockRow, LogOrdered
  <2> QED BY <1>1, <1>3, <2>1, <2>2 DEF LockRow, LogOrdered
<1>4. ASSUME NEW w \in Writers, InsertEvent(w)
      PROVE  /\ committed' = committed /\ drawn' \in Nat /\ ended' = ended
             /\ writer' \in [Writers -> [at : {"idle", "locked", "inserted", "done"},
                                         number : Nat]]
             /\ LogOrdered'
  <2>1. drawn \in Nat /\ drawn' = drawn + 1 /\ jobRow' = jobRow /\ jobRow = w
        /\ committed' = committed /\ ended' = ended
    BY <1>1, <1>4 DEF InsertEvent, StreamType, LogOrdered
  <2>2. /\ writer'[w] = [at |-> "inserted", number |-> drawn + 1]
        /\ \A v \in Writers : v # w => writer'[v] = writer[v]
        /\ writer' \in [Writers -> [at : {"idle", "locked", "inserted", "done"},
                                    number : Nat]]
    BY <1>1, <1>4, <2>1 DEF InsertEvent, StreamType
  <2>3. \A v \in Writers : v # w => writer'[v].at \notin {"locked", "inserted"}
    BY <1>1, <2>1, <2>2 DEF LogOrdered
  <2>4. committed \subseteq Nat /\ \A n \in committed : n <= drawn
    BY <1>1 DEF StreamType, LogOrdered
  <2>5. \A n \in committed : n <= drawn' /\ n < drawn'
    BY <2>1, <2>4
  <2>6. drawn' \in Nat /\ drawn' > 0 /\ writer'[w].number = drawn' /\ writer'[w].at = "inserted"
    BY <2>1, <2>2
  <2> QED BY <2>1, <2>2, <2>3, <2>5, <2>6 DEF LogOrdered
<1>5. ASSUME NEW w \in Writers, writer[w].at = "inserted",
             writer' = [writer EXCEPT ![w] = [at |-> "done", number |-> 0]],
             jobRow' = IF jobRow = w THEN NoWriter ELSE jobRow,
             drawn' = drawn,
             committed' = committed \/ committed' = committed \cup {writer[w].number}
      PROVE  /\ writer' \in [Writers -> [at : {"idle", "locked", "inserted", "done"},
                                         number : Nat]]
             /\ LogOrdered'
             /\ writer[w].number \in Nat \ {0}
             /\ committed' \subseteq Nat \ {0}
             /\ \A n \in committed : n < writer[w].number
  <2>1. /\ writer'[w].at = "done"
        /\ \A v \in Writers : v # w => writer'[v] = writer[v]
        /\ writer' \in [Writers -> [at : {"idle", "locked", "inserted", "done"},
                                    number : Nat]]
    BY <1>1, <1>5 DEF StreamType
  <2>2. /\ jobRow = w /\ writer[w].number = drawn /\ drawn \in Nat \ {0}
        /\ \A n \in committed : n < drawn
    BY <1>1, <1>5 DEF LogOrdered, StreamType
  <2>3. \A v \in Writers : writer'[v].at \notin {"locked", "inserted"}
    BY <1>1, <2>1, <2>2 DEF LogOrdered
  <2>4. \A n \in committed' : n <= drawn'
    BY <1>1, <1>5, <2>2 DEF LogOrdered
  <2>5. committed \subseteq Nat \ {0}
    BY <1>1 DEF StreamType
  <2> QED BY <1>5, <2>1, <2>2, <2>3, <2>4, <2>5 DEF LogOrdered
<1>6. ASSUME NEW w \in Writers, CommitEvent(w) PROVE ended' \in Nat
  <2>1. writer[w].number \in Nat /\ ended \in Nat
    BY <1>1 DEF StreamType
  <2> QED BY <1>6, <2>1 DEF CommitEvent
<1>7. committed \subseteq Nat \ {0} /\ drawn \in Nat /\ ended \in Nat
  BY <1>1 DEF StreamType
<1>8. CASE \E w \in Writers : LockRow(w)
  BY <1>3, <1>7, <1>8
<1>9. CASE \E w \in Writers : InsertEvent(w)
  BY <1>4, <1>7, <1>9
<1>10. CASE \E w \in Writers : CommitEvent(w)
  <2>1. PICK w \in Writers : CommitEvent(w)
    BY <1>10
  <2>2. /\ writer' \in [Writers -> [at : {"idle", "locked", "inserted", "done"},
                                    number : Nat]]
        /\ LogOrdered'
        /\ writer[w].number \in Nat \ {0}
        /\ committed' \subseteq Nat \ {0}
        /\ \A n \in committed : n < writer[w].number
    BY <1>5, <2>1 DEF CommitEvent
  <2>3. writer[w].number \in Nat /\ writer[w].number > 0
    BY <2>2
  <2> QED BY <1>6, <1>7, <2>1, <2>2, <2>3 DEF CommitEvent
<1>11. CASE \E w \in Writers : RollBackEvent(w)
  <2>1. PICK w \in Writers : RollBackEvent(w)
    BY <1>11
  <2>2. /\ writer' \in [Writers -> [at : {"idle", "locked", "inserted", "done"},
                                    number : Nat]]
        /\ LogOrdered'
    BY <1>5, <2>1 DEF RollBackEvent
  <2> QED BY <1>7, <2>1, <2>2 DEF RollBackEvent
<1>12. CASE \/ CloseAfterTerminal \/ SendPending \/ ListEvents \/ CheckEnded
            \/ StreamFails \/ Receive \/ Reconnect
  <2>1. UNCHANGED logVars
    BY <1>12 DEF CloseAfterTerminal, SendPending, ListEvents, CheckEnded,
                 StreamFails, Receive, Reconnect
  <2> QED BY <1>2, <2>1
<1>13. CASE UNCHANGED streamVars
  BY <1>2, <1>13 DEF streamVars, logVars
<1> QED BY <1>8, <1>9, <1>10, <1>11, <1>12, <1>13 DEF StreamNext

\* A commit disturbs no run: its number is behind all of them.
LEMMA CommitKeepsRuns ==
    ASSUME StreamInv, UNCHANGED followerVars,
           NEW number \in Nat, number > 0, committed' = committed \cup {number},
           \A n \in committed : n < number
    PROVE  FollowsLog'
<1>1. /\ committed \subseteq Nat \ {0} /\ seen \in Seq(Nat) /\ wire \in Seq(Nat)
      /\ stream.pending \in Seq(Nat) /\ stream.after \in Nat
      /\ FollowsLog
  BY DEF StreamInv, StreamType
<1>2. seen' = seen /\ wire' = wire /\ stream' = stream
  BY DEF followerVars
<1>3. Last(seen, 0) \in Nat /\ (seen # <<>> => Last(seen, 0) \in committed)
  BY <1>1, RunEnds DEF FollowsLog
<1>4. Last(seen, 0) < number
  BY <1>3 DEF Last
<1>5. /\ Last(wire, Last(seen, 0)) \in Nat
      /\ wire # <<>> => Last(wire, Last(seen, 0)) \in committed
  BY <1>1, <1>3, RunEnds DEF FollowsLog
<1>6. /\ Last(stream.pending, stream.after) \in Nat
      /\ stream.pending # <<>> => Last(stream.pending, stream.after) \in committed
  BY <1>1, RunEnds DEF FollowsLog
<1>7. Run(seen, 0)'
  BY <1>1, <1>2, <1>4, RunOutlasts DEF FollowsLog
<1>8. Run(wire, Last(seen, 0))'
  BY <1>1, <1>2, <1>3, <1>5, RunOutlasts DEF FollowsLog, Last
<1>9. Run(stream.pending, stream.after)'
  BY <1>1, <1>2, <1>6, RunOutlasts DEF FollowsLog
<1> QED BY <1>1, <1>2, <1>7, <1>8, <1>9 DEF FollowsLog, Last

\* The connection and the client keep the runs joined.
LEMMA FollowerStep ==
    ASSUME StreamInv, UNCHANGED committed,
           \/ CloseAfterTerminal \/ SendPending \/ ListEvents \/ CheckEnded
           \/ StreamFails \/ Receive \/ Reconnect
    PROVE  /\ stream' \in [at : {"loop", "check", "closed", "broken"}, after : Nat,
                           pending : Seq(Nat), closeNext : BOOLEAN]
           /\ wire' \in Seq(Nat)
           /\ seen' \in Seq(Nat)
           /\ FollowsLog'
<1>1. /\ committed \subseteq Nat \ {0} /\ seen \in Seq(Nat) /\ wire \in Seq(Nat)
      /\ stream \in [at : {"loop", "check", "closed", "broken"}, after : Nat,
                     pending : Seq(Nat), closeNext : BOOLEAN]
  BY DEF StreamInv, StreamType
<1>2. /\ Run(seen, 0) /\ Run(wire, Last(seen, 0)) /\ Run(stream.pending, stream.after)
      /\ stream.at \in {"loop", "check"} => stream.after = Last(wire, Last(seen, 0))
      /\ stream.at \in {"closed", "broken"} => stream.pending = <<>>
  BY DEF StreamInv, FollowsLog
<1>3. Last(seen, 0) \in Nat
  BY <1>1, <1>2, RunEnds
<1>4. \A s, from : Run(s, from)' = Run(s, from)
  BY DEF Run
<1>5. stream.pending \in Seq(Nat) /\ stream.after \in Nat
  BY <1>1
<1>6. ASSUME NEW how \in {"closed", "broken"}, Ends(how), UNCHANGED <<seen>>,
             wire' = wire \/ wire' = <<>>
      PROVE  /\ stream' \in [at : {"loop", "check", "closed", "broken"}, after : Nat,
                             pending : Seq(Nat), closeNext : BOOLEAN]
             /\ wire' \in Seq(Nat)
             /\ seen' \in Seq(Nat)
             /\ FollowsLog'
  <2>1. /\ stream' \in [at : {"loop", "check", "closed", "broken"}, after : Nat,
                        pending : Seq(Nat), closeNext : BOOLEAN]
        /\ stream'.at = how /\ stream'.pending = <<>> /\ stream'.after = stream.after
    <3>1. <<>> \in Seq(Nat) /\ stream' = [stream EXCEPT !.at = how, !.pending = <<>>]
      BY <1>6 DEF Ends
    <3> QED BY <1>1, <3>1
  <2>2. Run(stream'.pending, stream'.after)
    BY <1>1, <1>5, <2>1, RunEmpty
  <2>3. Run(wire', Last(seen, 0))
    BY <1>1, <1>2, <1>3, <1>6, RunEmpty
  <2> QED BY <1>1, <1>2, <1>4, <1>6, <2>1, <2>2, <2>3 DEF FollowsLog
<1>7. CASE CloseAfterTerminal
  BY <1>6, <1>7 DEF CloseAfterTerminal
<1>8. CASE SendPending
  <2>1. PICK h : h = Head(stream.pending)
    OBVIOUS
  <2>2. PICK rest : rest = Tail(stream.pending)
    OBVIOUS
  <2>3. stream.pending # <<>> /\ stream.at = "loop" /\ seen' = seen
    BY <1>8 DEF SendPending
  <2>4. /\ Append(wire, h) \in Seq(Nat) /\ rest \in Seq(Nat) /\ h \in Nat
        /\ Run(Append(wire, h), Last(seen, 0))
        /\ Last(Append(wire, h), Last(seen, 0)) = h
        /\ Run(rest, h)
    BY <1>1, <1>2, <1>3, <1>5, <2>1, <2>2, <2>3, RunHandsOver
  <2>5. /\ stream' \in [at : {"loop", "check", "closed", "broken"}, after : Nat,
                        pending : Seq(Nat), closeNext : BOOLEAN]
        /\ stream'.at = "loop" /\ stream'.after = h /\ stream'.pending = rest
        /\ wire' = Append(wire, h)
    BY <1>1, <1>8, <2>1, <2>2, <2>4 DEF SendPending
  <2>6. FollowsLog'
    BY <1>2, <1>4, <2>3, <2>4, <2>5 DEF FollowsLog
  <2> QED BY <1>1, <2>3, <2>4, <2>5, <2>6
<1>9. CASE ListEvents
  <2>1. PICK b \in NextBatch(stream.after) :
           stream' = IF b = <<>> THEN [stream EXCEPT !.at = "check"]
                                 ELSE [stream EXCEPT !.pending = b]
    BY <1>9 DEF ListEvents
  <2>2. b \in Seq(Nat) /\ Run(b, stream.after)
    BY <1>1, <1>5, BatchRuns
  <2>3. stream.at = "loop" /\ stream.pending = <<>> /\ wire' = wire /\ seen' = seen
    BY <1>9 DEF ListEvents
  <2>4. /\ stream' \in [at : {"loop", "check", "closed", "broken"}, after : Nat,
                        pending : Seq(Nat), closeNext : BOOLEAN]
        /\ stream'.at \in {"loop", "check"} /\ stream'.after = stream.after
        /\ stream'.pending = b
    BY <1>1, <2>1, <2>2, <2>3
  <2> QED BY <1>1, <1>2, <1>4, <2>2, <2>3, <2>4 DEF FollowsLog
<1>10. CASE CheckEnded
  <2>1. CASE ended # 0
    BY <1>6, <1>10, <2>1 DEF CheckEnded
  <2>2. CASE ended = 0
    <3>1. /\ stream' \in [at : {"loop", "check", "closed", "broken"}, after : Nat,
                          pending : Seq(Nat), closeNext : BOOLEAN]
          /\ stream'.at = "loop" /\ stream'.after = stream.after
          /\ stream'.pending = stream.pending /\ stream.at = "check"
          /\ wire' = wire /\ seen' = seen
      BY <1>1, <1>10, <2>2 DEF CheckEnded
    <3> QED BY <1>1, <1>2, <1>4, <3>1 DEF FollowsLog
  <2> QED BY <2>1, <2>2
<1>11. CASE StreamFails
  BY <1>6, <1>11 DEF StreamFails
<1>12. CASE Receive
  <2>1. PICK h : h = Head(wire)
    OBVIOUS
  <2>2. PICK rest : rest = Tail(wire)
    OBVIOUS
  <2>3. /\ wire # <<>> /\ stream' = stream /\ seen' = Append(seen, h) /\ wire' = rest
    BY <1>12, <2>1, <2>2 DEF Receive
  <2>4. /\ Append(seen, h) \in Seq(Nat) /\ rest \in Seq(Nat) /\ h \in Nat
        /\ Run(Append(seen, h), 0)
        /\ Last(Append(seen, h), 0) = h
        /\ Run(rest, h)
        /\ Last(rest, h) = Last(wire, Last(seen, 0))
    BY <1>1, <1>2, <2>1, <2>2, <2>3, RunHandsOver
  <2>5. FollowsLog'
    BY <1>2, <1>4, <2>3, <2>4 DEF FollowsLog
  <2> QED BY <1>1, <2>3, <2>4, <2>5
<1>13. CASE Reconnect
  <2>1. LastSeen = Last(seen, 0)
    BY DEF LastSeen, Last
  <2>2. /\ wire = <<>> /\ wire' = wire /\ seen' = seen
        /\ stream' = [at |-> "loop", after |-> Last(seen, 0), pending |-> <<>>,
                      closeNext |-> FALSE]
    BY <1>13, <2>1 DEF Reconnect, Opened
  <2>3. Run(<<>>, Last(seen, 0)) /\ Last(<<>>, Last(seen, 0)) = Last(seen, 0)
    BY <1>1, <1>3, RunEmpty
  <2>4. /\ stream' \in [at : {"loop", "check", "closed", "broken"}, after : Nat,
                        pending : Seq(Nat), closeNext : BOOLEAN]
        /\ stream'.after = Last(seen, 0) /\ stream'.pending = <<>> /\ stream'.at = "loop"
    BY <1>3, <2>2
  <2> QED BY <1>1, <1>2, <1>4, <2>2, <2>3, <2>4 DEF FollowsLog
<1> QED BY <1>7, <1>8, <1>9, <1>10, <1>11, <1>12, <1>13

\* "Serializing on the job row prevents an after_sequence consumer from
\* observing a later same-job event before an earlier transaction commits": the
\* client of the event stream has every event up to the last one it received, in
\* order and once, for any number of writers, batches and reconnections.
THEOREM FollowerAlwaysHasPrefix == StreamSpec => []FollowerHasPrefix
<1>1. StreamInit => StreamInv
  <2> SUFFICES ASSUME StreamInit PROVE StreamInv
    OBVIOUS
  <2>1. StreamType /\ LogOrdered
    BY DEF StreamInit, Opened, StreamType, LogOrdered
  <2>2. Run(<<>>, 0) /\ Last(<<>>, 0) = 0
    BY RunEmpty DEF StreamInit
  <2>3. stream.pending = <<>> /\ stream.after = 0 /\ stream.at = "loop"
    BY DEF StreamInit, Opened
  <2> QED BY <2>1, <2>2, <2>3 DEF StreamInit, StreamInv, FollowsLog
<1>2. StreamInv /\ [StreamNext]_streamVars => StreamInv'
  <2> SUFFICES ASSUME StreamInv, [StreamNext]_streamVars PROVE StreamInv'
    OBVIOUS
  <2>1. /\ committed' \subseteq Nat \ {0} /\ drawn' \in Nat /\ ended' \in Nat
        /\ writer' \in [Writers -> [at : {"idle", "locked", "inserted", "done"},
                                    number : Nat]]
        /\ LogOrdered'
    BY WritersStep
  <2>2. CASE \E w \in Writers :
                LockRow(w) \/ InsertEvent(w) \/ CommitEvent(w) \/ RollBackEvent(w)
    <3>1. UNCHANGED followerVars
      BY <2>2 DEF LockRow, InsertEvent, CommitEvent, RollBackEvent
    <3>2. stream' = stream /\ wire' = wire /\ seen' = seen
      BY <3>1 DEF followerVars
    <3>3. FollowsLog'
      <4>1. CASE committed' = committed
        BY <3>2, <4>1 DEF StreamInv, FollowsLog, Run, Last
      <4>2. CASE committed' # committed
        BY <3>1, <4>2, WritersStep, CommitKeepsRuns
      <4> QED BY <4>1, <4>2
    <3> QED BY <2>1, <3>2, <3>3 DEF StreamInv, StreamType
  <2>3. CASE \/ CloseAfterTerminal \/ SendPending \/ ListEvents \/ CheckEnded
             \/ StreamFails \/ Receive \/ Reconnect
    <3>1. UNCHANGED committed
      BY <2>3 DEF CloseAfterTerminal, SendPending, ListEvents, CheckEnded,
                  StreamFails, Receive, Reconnect, logVars
    <3> QED BY <2>1, <2>3, <3>1, FollowerStep DEF StreamInv, StreamType
  <2>4. CASE UNCHANGED streamVars
    BY <2>1, <2>4 DEF streamVars, StreamInv, StreamType, FollowsLog, Run, Last
  <2> QED BY <2>2, <2>3, <2>4 DEF StreamNext
<1>3. StreamInv => FollowerHasPrefix
  <2> SUFFICES ASSUME StreamInv PROVE FollowerHasPrefix
    OBVIOUS
  <2>1. LastSeen = Last(seen, 0) /\ committed \subseteq Nat \ {0}
    BY DEF LastSeen, Last, StreamInv, StreamType
  <2>2. \A n \in committed : 0 < n
    BY <2>1
  <2> QED BY <2>1, <2>2 DEF StreamInv, FollowsLog, Run, FollowerHasPrefix
<1> QED BY <1>1, <1>2, <1>3, PTL DEF StreamSpec

-------------------------------------------------------------------------------
(* Paged lists.                                                            *)

\* Rows of one instant are told apart by their id, so the order is total.
LEMMA ListOrder ==
    ASSUME NEW list, NEW a \in RowKeys, NEW b \in RowKeys, NEW c \in RowKeys
    PROVE  /\ a # NoCursor
           /\ ~Follows(list, a, b) /\ a # b => Follows(list, b, a)
           /\ Follows(list, a, b) => a # b
           /\ Follows(list, a, b) /\ Follows(list, b, c) => Follows(list, a, c)
<1>1. a \in Nat \X Nat /\ b \in Nat \X Nat /\ c \in Nat \X Nat
  BY PagingAssumption
<1>2. /\ a = <<a[1], a[2]>> /\ b = <<b[1], b[2]>>
      /\ a[1] \in Nat /\ a[2] \in Nat /\ b[1] \in Nat /\ b[2] \in Nat
      /\ c[1] \in Nat /\ c[2] \in Nat
  BY <1>1
<1>3. a # <<>>
  <2>1. PICK x \in Nat, y \in Nat : a = <<x, y>>
    BY <1>1
  <2>2. <<x, y>> # <<>>
    OBVIOUS
  <2> QED BY <2>1, <2>2, Zenon
<1>4. a # b => a[1] # b[1] \/ a[2] # b[2]
  BY <1>2
<1> QED BY <1>2, <1>3, <1>4 DEF Follows, Before, NoCursor

WalkType ==
    /\ listed \subseteq RowKeys
    /\ hidden \subseteq RowKeys
    /\ walk \in [at : {"idle", "reading", "done"}, list : Lists,
                 cursor : RowKeys \cup {NoCursor}, got : Seq(RowKeys),
                 steady : SUBSET RowKeys]

\* The client's rows are in the list's order, the cursor is the last of them, and
\* what it has yet to see comes after the cursor.
WalkOk ==
    /\ walk.steady \subseteq listed
    /\ \A i, k \in DOMAIN walk.got : i < k => Follows(walk.list, walk.got[k], walk.got[i])
    /\ walk.at = "reading" =>
          /\ \/ walk.cursor = NoCursor /\ walk.got = <<>>
             \/ walk.got # <<>> /\ walk.cursor = walk.got[Len(walk.got)]
          /\ \A k \in walk.steady : \/ k \in Range(walk.got)
                                    \/ walk.cursor = NoCursor
                                    \/ Follows(walk.list, k, walk.cursor)
    /\ walk.at = "done" => walk.steady \subseteq Range(walk.got)

PagingInv == WalkType /\ WalkOk

\* What a query returns: rows in order, none skipped.
LEMMA RowsInOrder ==
    ASSUME NEW list, NEW wanted \in SUBSET RowKeys, NEW n \in Nat,
           NEW found \in TopRows(list, wanted, n)
    PROVE  /\ found \in Seq(RowKeys) /\ Len(found) <= n /\ Range(found) \subseteq wanted
           /\ \A i, k \in DOMAIN found : i < k => Follows(list, found[k], found[i])
           /\ Len(found) = n \/ Range(found) = wanted
           /\ \A k \in wanted \ Range(found), i \in DOMAIN found : Follows(list, k, found[i])
<1>1. PICK m \in 0 .. n : found \in [1 .. m -> wanted]
  BY DEF TopRows
<1>2. m \in Nat /\ m <= n
  BY <1>1
<1>3. /\ found \in Seq(RowKeys) /\ Len(found) = m /\ DOMAIN found = 1 .. m
      /\ \A i \in DOMAIN found : found[i] \in wanted /\ found[i] \in RowKeys
  BY <1>1, <1>2
<1>4. /\ \A i, k \in DOMAIN found : i < k => found[i] # found[k] /\ ~Follows(list, found[i], found[k])
      /\ Len(found) = n \/ Range(found) = wanted
      /\ \A k \in wanted \ Range(found) : \A i \in DOMAIN found : ~Follows(list, found[i], k)
  BY DEF TopRows
<1>5. Range(found) \subseteq wanted
  BY <1>3 DEF Range
<1>6. \A i, k \in DOMAIN found : i < k => Follows(list, found[k], found[i])
  BY <1>3, <1>4, ListOrder
<1>7. ASSUME NEW k \in wanted \ Range(found), NEW i \in DOMAIN found
      PROVE  Follows(list, k, found[i])
  <2>1. k \in RowKeys /\ found[i] \in RowKeys /\ found[i] # k
    BY <1>3, <1>7 DEF Range
  <2> QED BY <1>4, <2>1, ListOrder
<1> QED BY <1>2, <1>3, <1>4, <1>5, <1>6, <1>7

\* A page ends where the next one begins.
LEMMA PageCuts ==
    ASSUME NEW list, NEW wanted \in SUBSET RowKeys,
           NEW found \in TopRows(list, wanted, PageSize + 1)
    PROVE  /\ Page(found).items \in Seq(RowKeys) /\ Range(Page(found).items) \subseteq wanted
           /\ \A i, k \in DOMAIN Page(found).items :
                 i < k => Follows(list, Page(found).items[k], Page(found).items[i])
           /\ \/ /\ Page(found).next = NoCursor
                 /\ wanted \subseteq Range(Page(found).items)
              \/ /\ Page(found).next \in RowKeys
                 /\ Page(found).items # <<>>
                 /\ Page(found).next = Page(found).items[Len(Page(found).items)]
                 /\ \A k \in wanted \ Range(Page(found).items) :
                       Follows(list, k, Page(found).next)
<1>1. PageSize \in Nat /\ PageSize > 0 /\ PageSize + 1 \in Nat
  BY PagingAssumption
<1>2. /\ found \in Seq(RowKeys) /\ Len(found) <= PageSize + 1 /\ Range(found) \subseteq wanted
      /\ \A i, k \in DOMAIN found : i < k => Follows(list, found[k], found[i])
      /\ Len(found) = PageSize + 1 \/ Range(found) = wanted
      /\ \A k \in wanted \ Range(found), i \in DOMAIN found : Follows(list, k, found[i])
  BY <1>1, RowsInOrder
<1>3. Len(found) \in Nat /\ DOMAIN found = 1 .. Len(found) /\ Len(found) <= PageSize + 1
  BY <1>2
<1>4. CASE Len(found) > PageSize
  <2>1. PICK items : items = SubSeq(found, 1, PageSize)
    OBVIOUS
  <2>2. /\ Page(found).items = items /\ Page(found).next = items[PageSize]
    BY <1>4, <2>1 DEF Page
  <2>3. Len(found) = PageSize + 1
    <3>1. \A p, n \in Nat : n > p /\ n <= p + 1 => n = p + 1
      OBVIOUS
    <3> QED BY <1>1, <1>3, <1>4, <3>1, Zenon
  <2>4. /\ items \in Seq(RowKeys) /\ Len(items) = PageSize
        /\ DOMAIN items = 1 .. PageSize
        /\ \A i \in 1 .. PageSize : items[i] = found[i]
    BY <1>1, <1>2, <2>1, <2>3
  <2>5. \A i \in DOMAIN items : i \in DOMAIN found /\ items[i] = found[i]
    BY <1>1, <1>3, <2>3, <2>4
  <2>6. PageSize \in DOMAIN items /\ items # <<>> /\ items[PageSize] \in RowKeys
    BY <1>1, <2>4
  <2>7. Range(items) \subseteq wanted
    BY <1>2, <2>5 DEF Range
  <2>8. \A i, k \in DOMAIN items : i < k => Follows(list, items[k], items[i])
    BY <1>2, <2>5
  <2>9. ASSUME NEW k \in wanted \ Range(items)
        PROVE  Follows(list, k, items[PageSize])
    <3>1. CASE k \notin Range(found)
      BY <1>2, <2>5, <2>6, <3>1
    <3>2. CASE k \in Range(found)
      <4>1. PICK i \in DOMAIN found : found[i] = k
        BY <3>2 DEF Range
      <4>2. i \notin DOMAIN items
        BY <2>5, <2>9, <4>1 DEF Range
      <4>3. PageSize < i
        BY <1>1, <1>3, <2>4, <4>1, <4>2
      <4> QED BY <1>2, <2>5, <2>6, <4>1, <4>3
    <3> QED BY <3>1, <3>2
  <2> QED BY <2>2, <2>4, <2>6, <2>7, <2>8, <2>9
<1>5. CASE ~(Len(found) > PageSize)
  <2>1. Page(found).items = found /\ Page(found).next = NoCursor
    BY <1>5 DEF Page
  <2>2. Range(found) = wanted
    <3>1. \A p, n \in Nat : ~(n > p) => n # p + 1
      OBVIOUS
    <3>2. Len(found) # PageSize + 1
      BY <1>1, <1>3, <1>5, <3>1, Zenon
    <3> QED BY <1>2, <3>2
  <2> QED BY <1>2, <2>1, <2>2
<1> QED BY <1>4, <1>5

\* A page goes on where the last one ended.
LEMMA PageStep ==
    ASSUME PagingInv, NextPage
    PROVE  PagingInv'
<1> DEFINE list == walk.list
           wanted == Remaining(list, walk.cursor)
<1>1. /\ listed \subseteq RowKeys /\ hidden \subseteq RowKeys
      /\ walk \in [at : {"idle", "reading", "done"}, list : Lists,
                   cursor : RowKeys \cup {NoCursor}, got : Seq(RowKeys),
                   steady : SUBSET RowKeys]
  BY DEF PagingInv, WalkType
<1>2. walk.at = "reading" /\ listed' = listed /\ hidden' = hidden
  BY DEF NextPage
<1>3. PICK found \in TopRows(walk.list, Remaining(walk.list, walk.cursor), PageSize + 1) :
        walk' = [walk EXCEPT
              !.at = IF Page(found).next = NoCursor THEN "done" ELSE "reading",
              !.cursor = Page(found).next,
              !.got = @ \o Page(found).items]
  BY DEF NextPage
<1>4. PICK items, next : items = Page(found).items /\ next = Page(found).next
  OBVIOUS
<1>5. wanted \in SUBSET RowKeys
  BY <1>1 DEF Remaining
<1>6. /\ items \in Seq(RowKeys) /\ Range(items) \subseteq wanted
      /\ \A i, k \in DOMAIN items : i < k => Follows(list, items[k], items[i])
      /\ \/ /\ next = NoCursor
            /\ wanted \subseteq Range(items)
         \/ /\ next \in RowKeys
            /\ items # <<>>
            /\ next = items[Len(items)]
            /\ \A k \in wanted \ Range(items) : Follows(list, k, next)
  BY <1>4, <1>5, PageCuts
<1>7. PICK got : got = walk.got
  OBVIOUS
<1>8. got \in Seq(RowKeys)
  BY <1>1, <1>7
<1>9. PICK both : both = got \o items
  OBVIOUS
<1>10. /\ both \in Seq(RowKeys) /\ Len(both) = Len(got) + Len(items)
       /\ Len(got) \in Nat /\ Len(items) \in Nat
       /\ DOMAIN got = 1 .. Len(got) /\ DOMAIN items = 1 .. Len(items)
       /\ DOMAIN both = 1 .. (Len(got) + Len(items))
       /\ \A i \in 1 .. Len(got) : both[i] = got[i]
       /\ \A i \in 1 .. Len(items) : both[Len(got) + i] = items[i]
  BY <1>6, <1>8, <1>9
<1>11. /\ walk' \in [at : {"idle", "reading", "done"}, list : Lists,
                     cursor : RowKeys \cup {NoCursor}, got : Seq(RowKeys),
                     steady : SUBSET RowKeys]
       /\ walk'.list = list /\ walk'.steady = walk.steady
       /\ walk'.cursor = next /\ walk'.got = both
       /\ walk'.at = IF next = NoCursor THEN "done" ELSE "reading"
  BY <1>1, <1>3, <1>4, <1>6, <1>7, <1>9, <1>10
<1>12. /\ walk.steady \subseteq listed
       /\ \A i, k \in DOMAIN got : i < k => Follows(list, got[k], got[i])
       /\ \/ walk.cursor = NoCursor /\ got = <<>>
          \/ got # <<>> /\ walk.cursor = got[Len(got)]
       /\ \A k \in walk.steady : \/ k \in Range(got)
                                 \/ walk.cursor = NoCursor
                                 \/ Follows(list, k, walk.cursor)
  BY <1>2, <1>7 DEF PagingInv, WalkOk
<1>13. \A i \in DOMAIN got : got[i] \in RowKeys
  BY <1>8
<1>14. ASSUME NEW i \in DOMAIN got, NEW k \in wanted
       PROVE  Follows(list, k, got[i])
  <2>1. Len(got) \in DOMAIN got /\ got # <<>>
    BY <1>10
  <2>2. walk.cursor = got[Len(got)] /\ walk.cursor \in RowKeys
    BY <1>12, <1>13, <2>1
  <2>3. k \in RowKeys /\ Follows(list, k, walk.cursor)
    BY <1>5, <2>2, ListOrder DEF Remaining
  <2>4. CASE i = Len(got)
    BY <2>2, <2>3, <2>4
  <2>5. CASE i # Len(got)
    <3>1. Follows(list, walk.cursor, got[i])
      BY <1>10, <1>12, <2>1, <2>2, <2>5
    <3> QED BY <1>13, <2>2, <2>3, <3>1, ListOrder
  <2> QED BY <2>4, <2>5
<1> HIDE DEF wanted, list
<1>15. ASSUME NEW i \in DOMAIN both, NEW k \in DOMAIN both, i < k
       PROVE  Follows(list, both[k], both[i])
  <2>1. CASE k \in DOMAIN got
    <3>1. i \in DOMAIN got
      BY <1>10, <1>15, <2>1
    <3> QED BY <1>10, <1>12, <1>15, <2>1, <3>1
  <2>2. CASE k \notin DOMAIN got
    <3>1. PICK n \in DOMAIN items : k = Len(got) + n
      <4>1. k - Len(got) \in DOMAIN items /\ k = Len(got) + (k - Len(got))
        BY <1>10, <2>2
      <4> QED BY <4>1
    <3>2. both[k] = items[n] /\ items[n] \in wanted
      BY <1>6, <1>10, <3>1 DEF Range
    <3>3. CASE i \in DOMAIN got
      BY <1>10, <1>14, <3>2, <3>3
    <3>4. CASE i \notin DOMAIN got
      <4>1. PICK m \in DOMAIN items : i = Len(got) + m
        <5>1. i - Len(got) \in DOMAIN items /\ i = Len(got) + (i - Len(got))
          BY <1>10, <3>4
        <5> QED BY <5>1
      <4>2. both[i] = items[m] /\ m < n
        BY <1>10, <1>15, <3>1, <4>1
      <4> QED BY <1>6, <3>2, <4>1, <4>2
    <3> QED BY <3>3, <3>4
  <2> QED BY <2>1, <2>2
<1>16. Range(got) \subseteq Range(both) /\ Range(items) \subseteq Range(both)
  <2>1. \A i \in DOMAIN got : i \in DOMAIN both /\ both[i] = got[i]
    BY <1>10
  <2>2. \A i \in DOMAIN items : Len(got) + i \in DOMAIN both /\ both[Len(got) + i] = items[i]
    BY <1>10
  <2> QED BY <2>1, <2>2 DEF Range
<1>17. \A k \in walk.steady : k \in Range(got) \/ k \in wanted
  BY <1>12 DEF Remaining, wanted, list
<1>18. CASE next = NoCursor
  <2>1. wanted \subseteq Range(items)
    BY <1>6, <1>18, ListOrder
  <2>2. walk.steady \subseteq Range(both)
    BY <1>16, <1>17, <2>1
  <2>3. walk'.at = "done"
    BY <1>11, <1>18
  <2> QED BY <1>1, <1>2, <1>11, <1>12, <1>15, <2>2, <2>3 DEF PagingInv, WalkType, WalkOk
<1>19. CASE next # NoCursor
  <2>1. /\ items # <<>> /\ next = items[Len(items)]
        /\ \A k \in wanted \ Range(items) : Follows(list, k, next)
    BY <1>6, <1>19
  <2>2. Len(items) \in DOMAIN items /\ Len(both) = Len(got) + Len(items)
    BY <1>10, <2>1
  <2>3. both # <<>> /\ next = both[Len(both)]
    <3>1. both[Len(both)] = items[Len(items)]
      BY <1>10, <2>2
    <3>2. Len(both) # 0
      BY <1>10, <2>2
    <3> QED BY <1>10, <2>1, <3>1, <3>2
  <2>4. \A k \in walk.steady : k \in Range(both) \/ Follows(list, k, next)
    BY <1>16, <1>17, <2>1
  <2>5. walk'.at = "reading"
    BY <1>11, <1>19
  <2> QED BY <1>1, <1>2, <1>11, <1>12, <1>15, <2>3, <2>4, <2>5
          DEF PagingInv, WalkType, WalkOk
<1> QED BY <1>18, <1>19

\* Following the cursors never shows a row twice, and shows every row that
\* matched from the first page to the last, for every set of rows, any number of
\* them of one instant, and every page size.
THEOREM WalkAlwaysComplete == PagingSpec => []WalkIsComplete
<1>1. PagingInit => PagingInv
  <2> SUFFICES ASSUME PagingInit PROVE PagingInv
    OBVIOUS
  <2>1. (CHOOSE l \in Lists : TRUE) \in Lists
    BY PagingAssumption
  <2>2. /\ walk.at = "idle" /\ walk.cursor = NoCursor /\ walk.got = <<>>
        /\ walk.steady = {} /\ listed \subseteq RowKeys /\ hidden = {}
        /\ walk.list \in Lists
        /\ walk \in [at : {"idle", "reading", "done"}, list : Lists,
                     cursor : RowKeys \cup {NoCursor}, got : Seq(RowKeys),
                     steady : SUBSET RowKeys]
    BY <2>1 DEF PagingInit
  <2>3. DOMAIN walk.got = {}
    BY <2>2
  <2> QED BY <2>2, <2>3 DEF PagingInv, WalkType, WalkOk
<1>2. PagingInv /\ [PagingNext]_pagingVars => PagingInv'
  <2> SUFFICES ASSUME PagingInv, [PagingNext]_pagingVars PROVE PagingInv'
    OBVIOUS
  <2>1. /\ listed \subseteq RowKeys /\ hidden \subseteq RowKeys
        /\ walk \in [at : {"idle", "reading", "done"}, list : Lists,
                     cursor : RowKeys \cup {NoCursor}, got : Seq(RowKeys),
                     steady : SUBSET RowKeys]
    BY DEF PagingInv, WalkType
  <2>2. ASSUME NEW k \in RowKeys, InsertRow(k) PROVE PagingInv'
    <3>1. /\ listed \subseteq listed' /\ listed' \subseteq RowKeys /\ hidden' \subseteq RowKeys
          /\ walk' = walk
      BY <2>1, <2>2 DEF InsertRow
    <3> QED BY <3>1 DEF PagingInv, WalkType, WalkOk
  <2>3. ASSUME NEW k \in RowKeys, Refilter(k) PROVE PagingInv'
    <3>1. /\ listed \ {k} \subseteq listed' /\ listed' \subseteq RowKeys
          /\ hidden' \subseteq RowKeys
      BY <2>1, <2>3 DEF Refilter
    <3>2. /\ walk' \in [at : {"idle", "reading", "done"}, list : Lists,
                        cursor : RowKeys \cup {NoCursor}, got : Seq(RowKeys),
                        steady : SUBSET RowKeys]
          /\ walk'.at = walk.at /\ walk'.list = walk.list /\ walk'.cursor = walk.cursor
          /\ walk'.got = walk.got /\ walk'.steady = walk.steady \ {k}
      BY <2>1, <2>3 DEF Refilter
    <3> QED BY <3>1, <3>2 DEF PagingInv, WalkType, WalkOk
  <2>4. ASSUME NEW list \in Lists, StartWalk(list) PROVE PagingInv'
    <3>1. /\ walk' = [at |-> "reading", list |-> list, cursor |-> NoCursor,
                      got |-> <<>>, steady |-> listed]
          /\ listed' = listed /\ hidden' = hidden
      BY <2>4 DEF StartWalk
    <3>2. /\ walk' \in [at : {"idle", "reading", "done"}, list : Lists,
                        cursor : RowKeys \cup {NoCursor}, got : Seq(RowKeys),
                        steady : SUBSET RowKeys]
          /\ walk'.at = "reading" /\ walk'.cursor = NoCursor /\ walk'.got = <<>>
          /\ walk'.steady = listed
      BY <2>1, <3>1
    <3>3. DOMAIN walk'.got = {}
      BY <3>2
    <3> QED BY <2>1, <3>1, <3>2, <3>3 DEF PagingInv, WalkType, WalkOk
  <2>5. CASE UNCHANGED pagingVars
    BY <2>5 DEF pagingVars, PagingInv, WalkType, WalkOk
  <2>6. ASSUME NEW list \in Lists, ForeignCursor(list) PROVE UNCHANGED pagingVars
    BY <2>6 DEF ForeignCursor
  <2> QED BY <2>2, <2>3, <2>4, <2>5, <2>6, PageStep DEF PagingNext
<1>3. PagingInv => WalkIsComplete
  <2> SUFFICES ASSUME PagingInv PROVE WalkIsComplete
    OBVIOUS
  <2>1. walk.got \in Seq(RowKeys)
    BY DEF PagingInv, WalkType
  <2>2. \A i \in DOMAIN walk.got : walk.got[i] \in RowKeys /\ i \in Nat
    BY <2>1
  <2>3. ASSUME NEW i \in DOMAIN walk.got, NEW k \in DOMAIN walk.got, i # k
        PROVE  walk.got[i] # walk.got[k]
    <3>1. i < k \/ k < i
      BY <2>2, <2>3
    <3>2. \/ Follows(walk.list, walk.got[k], walk.got[i])
          \/ Follows(walk.list, walk.got[i], walk.got[k])
      BY <3>1 DEF PagingInv, WalkOk
    <3> QED BY <2>2, <3>2, ListOrder
  <2> QED BY <2>3 DEF WalkIsComplete, PagingInv, WalkOk, Range
<1> QED BY <1>1, <1>2, <1>3, PTL DEF PagingSpec

-------------------------------------------------------------------------------
(* API keys.                                                               *)

Key == [tenant : Tenants, scopes : SUBSET Scope, revoked : BOOLEAN, used : BOOLEAN]

ApiCall ==
    [at     : {"idle", "touch", "handler", "served", "refused"},
     token  : Keys \cup {AdminToken, UnknownToken},
     tenant : Tenants \cup {NoTenant},
     scopes : SUBSET Scope,
     needs  : Scope,
     target : Tenants \cup {NoTenant}]

\* The context of a call that was admitted is its key's, and the key was not
\* revoked before that.
Admitted(c) ==
    IF call[c].token \in Keys
    THEN /\ call[c].tenant = apiKey[call[c].token].tenant
         /\ call[c].scopes = apiKey[call[c].token].scopes
         /\ apiKey[call[c].token].used
         /\ <<call[c].token, c>> \notin late
    ELSE call[c].token = AdminToken /\ call[c].tenant = NoTenant

\* A call goes from the lookup of its key to the handler with that key, and a
\* late pair belongs to a revoked key, so touch_api_key_last_used refuses it.
CallsEntitled ==
    /\ apiKey \in [Keys -> Key]
    /\ call \in [Calls -> ApiCall]
    /\ late \subseteq Keys \X Calls
    /\ \A k \in Keys, c \in Calls : <<k, c>> \in late => apiKey[k].revoked
    /\ \A c \in Calls :
          /\ call[c].at = "touch" => call[c].token \in Keys
          /\ call[c].at \in {"handler", "served"} => Admitted(c)
          /\ call[c].at = "served"
                => /\ call[c].needs \in call[c].scopes
                   /\ call[c].target \in {NoTenant, call[c].tenant}

\* Refusing a call touches no other.
LEMMA RefuseKeeps ==
    ASSUME CallsEntitled, NEW c \in Calls, Refuse(c), UNCHANGED <<apiKey, late>>
    PROVE  CallsEntitled'
<1>1. [NoCall EXCEPT !.at = "refused"] \in ApiCall
      /\ [NoCall EXCEPT !.at = "refused"].at = "refused"
  BY DEF NoCall, ApiCall, Scope
<1>2. /\ call' \in [Calls -> ApiCall]
      /\ call'[c].at = "refused"
      /\ \A d \in Calls : d # c => call'[d] = call[d]
  BY <1>1 DEF Refuse, CallsEntitled
<1> QED BY <1>2 DEF CallsEntitled, Admitted

\* Every step of a call and every revocation keeps the invariant.
LEMMA CallsEntitledStep ==
    ASSUME CallsEntitled, [KeyNext]_keyVars
    PROVE  CallsEntitled'
<1> USE KeyAssumption
<1>t. /\ apiKey \in [Keys -> Key] /\ call \in [Calls -> ApiCall]
      /\ late \subseteq Keys \X Calls
  BY DEF CallsEntitled
<1>1. ASSUME NEW c \in Calls, NEW token \in Keys \cup {AdminToken, UnknownToken},
             NEW needs \in Scope, NEW target \in Tenants \cup {NoTenant},
             Authenticate(c, token, needs, target)
      PROVE  CallsEntitled'
  <2>1. apiKey' = apiKey /\ late' = late
    BY <1>1 DEF Authenticate
  <2>2. CASE token = AdminToken
    <3> DEFINE new == [at |-> "handler", token |-> token, tenant |-> NoTenant,
                       scopes |-> {"admin"}, needs |-> needs, target |-> target]
    <3>1. call' = [call EXCEPT ![c] = new]
      BY <1>1, <2>2 DEF Authenticate
    <3>2. /\ new \in ApiCall
          /\ new.at = "handler" /\ new.token = AdminToken /\ new.tenant = NoTenant
      BY <2>2 DEF ApiCall, Scope
    <3> HIDE DEF new
    <3>3. /\ call' \in [Calls -> ApiCall] /\ call'[c] = new
          /\ \A d \in Calls : d # c => call'[d] = call[d]
      BY <3>1, <3>2, <1>t
    <3> QED BY <2>1, <3>2, <3>3 DEF CallsEntitled, Admitted
  <2>3. CASE token \in Keys /\ ~apiKey[token].revoked
    <3> DEFINE new == [at |-> "touch", token |-> token, tenant |-> NoTenant,
                       scopes |-> {}, needs |-> needs, target |-> target]
    <3>1. call' = [call EXCEPT ![c] = new]
      BY <1>1, <2>3 DEF Authenticate
    <3>2. new \in ApiCall /\ new.at = "touch" /\ new.token \in Keys
      BY <2>3 DEF ApiCall
    <3> HIDE DEF new
    <3>3. /\ call' \in [Calls -> ApiCall] /\ call'[c] = new
          /\ \A d \in Calls : d # c => call'[d] = call[d]
      BY <3>1, <3>2, <1>t
    <3> QED BY <2>1, <3>2, <3>3 DEF CallsEntitled, Admitted
  <2>4. CASE token # AdminToken /\ ~(token \in Keys /\ ~apiKey[token].revoked)
    <3>1. Refuse(c)
      BY <1>1, <2>4 DEF Authenticate
    <3> QED BY <2>1, <3>1, RefuseKeeps
  <2> QED BY <2>2, <2>3, <2>4
<1>2. ASSUME NEW c \in Calls, Touch(c) PROVE CallsEntitled'
  <2> DEFINE key == call[c].token
  <2>1. key \in Keys /\ late' = late
    BY <1>2 DEF Touch, CallsEntitled
  <2>2. CASE ~Touchable(key)
    BY <1>2, <2>2, RefuseKeeps DEF Touch
  <2>3. CASE Touchable(key)
    <3>1. /\ apiKey' = [apiKey EXCEPT ![key].used = TRUE]
          /\ call' = [call EXCEPT ![c].at = "handler",
                                  ![c].tenant = apiKey[key].tenant,
                                  ![c].scopes = apiKey[key].scopes]
      BY <1>2, <2>3 DEF Touch
    <3>2. /\ apiKey' \in [Keys -> Key]
          /\ apiKey'[key].used
          /\ \A k \in Keys : /\ apiKey'[k].tenant = apiKey[k].tenant
                             /\ apiKey'[k].scopes = apiKey[k].scopes
                             /\ apiKey'[k].revoked = apiKey[k].revoked
                             /\ apiKey[k].used => apiKey'[k].used
      BY <3>1, <2>1, <1>t DEF Key
    <3>3. /\ call' \in [Calls -> ApiCall]
          /\ call'[c].at = "handler" /\ call'[c].token = key
          /\ call'[c].tenant = apiKey[key].tenant
          /\ call'[c].scopes = apiKey[key].scopes
          /\ \A d \in Calls : d # c => call'[d] = call[d]
      <4> DEFINE new == [call[c] EXCEPT !.at = "handler",
                                        !.tenant = apiKey[key].tenant,
                                        !.scopes = apiKey[key].scopes]
      <4>1. call[c] \in ApiCall
        BY <1>t
      <4>2. apiKey[key].tenant \in Tenants /\ apiKey[key].scopes \in SUBSET Scope
        BY <2>1, <1>t DEF Key
      <4>3. /\ new.at = "handler" /\ new.token = key
            /\ new.tenant = apiKey[key].tenant /\ new.scopes = apiKey[key].scopes
        BY <4>1 DEF ApiCall
      <4>4. new \in ApiCall
        BY <4>1, <4>2 DEF ApiCall
      <4>5. call' = [call EXCEPT ![c] = new]
        BY <3>1
      <4> HIDE DEF new
      <4> QED BY <4>3, <4>4, <4>5, <1>t
    <3>4. <<key, c>> \notin late
      BY <2>1, <2>3 DEF Touchable, CallsEntitled
    <3> HIDE DEF key
    <3>5. Admitted(c)'
      BY <2>1, <3>2, <3>3, <3>4 DEF Admitted
    <3>6. \A d \in Calls : d # c /\ Admitted(d) => Admitted(d)'
      BY <2>1, <3>2, <3>3 DEF Admitted
    <3> QED BY <2>1, <3>2, <3>3, <3>5, <3>6 DEF CallsEntitled
  <2> QED BY <2>2, <2>3
<1>3. ASSUME NEW c \in Calls, Handle(c) PROVE CallsEntitled'
  <2>1. apiKey' = apiKey /\ late' = late /\ call[c].at = "handler"
    BY <1>3 DEF Handle
  <2>2. CASE Refuse(c)
    BY <2>1, <2>2, RefuseKeeps
  <2>3. CASE /\ call[c].needs \in call[c].scopes
             /\ call[c].target \in {NoTenant, call[c].tenant}
             /\ call' = [call EXCEPT ![c].at = "served"]
    <3>1. /\ call' \in [Calls -> ApiCall]
          /\ call'[c].at = "served"
          /\ call'[c].token = call[c].token /\ call'[c].tenant = call[c].tenant
          /\ call'[c].scopes = call[c].scopes /\ call'[c].needs = call[c].needs
          /\ call'[c].target = call[c].target
          /\ \A d \in Calls : d # c => call'[d] = call[d]
      BY <2>3, <1>t DEF ApiCall
    <3> QED BY <2>1, <2>3, <3>1 DEF CallsEntitled, Admitted
  <2> QED BY <1>3, <2>2, <2>3 DEF Handle
<1>4. ASSUME NEW k \in Keys, Revoke(k) PROVE CallsEntitled'
  <2>1. /\ call' = call
        /\ apiKey' = [apiKey EXCEPT ![k].revoked = TRUE]
    BY <1>4 DEF Revoke
  <2>2. /\ apiKey' \in [Keys -> Key]
        /\ apiKey'[k].revoked
        /\ \A j \in Keys : /\ apiKey'[j].tenant = apiKey[j].tenant
                           /\ apiKey'[j].scopes = apiKey[j].scopes
                           /\ apiKey'[j].used = apiKey[j].used
                           /\ apiKey[j].revoked => apiKey'[j].revoked
    BY <2>1, <1>t DEF Key
  <2>3. late' \subseteq Keys \X Calls
    BY <1>4, <1>t DEF Revoke
  <2>4. \A j \in Keys, c \in Calls :
           <<j, c>> \in late' => \/ <<j, c>> \in late
                                 \/ j = k /\ call[c].at \in {"idle", "touch"}
    BY <1>4 DEF Revoke
  <2>5. \A c \in Calls : call[c].at \in {"handler", "served"} => Admitted(c)'
    BY <2>1, <2>2, <2>4 DEF CallsEntitled, Admitted
  <2> QED BY <2>1, <2>2, <2>3, <2>4, <2>5 DEF CallsEntitled
<1>5. CASE UNCHANGED keyVars
  BY <1>5 DEF keyVars, CallsEntitled, Admitted
<1>6. "admin" \in Scope
  BY DEF Scope
<1> QED BY <1>1, <1>2, <1>3, <1>4, <1>5, <1>6 DEF KeyNext

\* Every call that is served had a live key with the right scope and project
\* when it was admitted (or was the operator's), for any interleaving of
\* lookups, updates of last_used_at, handlers and revocations.
THEOREM ServedAreEntitled == KeySpec => []OnlyEntitledServed
<1>1. KeyInit => CallsEntitled
  <2> SUFFICES ASSUME KeyInit PROVE CallsEntitled
    OBVIOUS
  <2>1. ASSUME NEW k \in Keys PROVE apiKey[k] \in Key
    <3>1. apiKey[k] \in [tenant : Tenants, scopes : (SUBSET Scope) \ {{}},
                          revoked : {FALSE}, used : {FALSE}]
      BY DEF KeyInit, CreatedKeys
    <3> QED BY <3>1 DEF Key
  <2>2. apiKey \in [Keys -> Key]
    <3>1. apiKey = [k \in Keys |-> apiKey[k]]
      BY DEF KeyInit, CreatedKeys
    <3> QED BY <2>1, <3>1
  <2>3. NoCall \in ApiCall /\ NoCall.at = "idle"
    BY DEF NoCall, ApiCall, Scope
  <2>4. call \in [Calls -> ApiCall] /\ \A c \in Calls : call[c].at = "idle"
    BY <2>3 DEF KeyInit
  <2> QED BY <2>2, <2>4 DEF KeyInit, CallsEntitled
<1>2. CallsEntitled /\ [KeyNext]_keyVars => CallsEntitled'
  BY CallsEntitledStep
<1>3. CallsEntitled => OnlyEntitledServed
  <2> SUFFICES ASSUME CallsEntitled, NEW c \in Calls, call[c].at = "served"
               PROVE  /\ call[c].target # NoTenant =>
                           /\ call[c].token \in Keys
                           /\ apiKey[call[c].token].tenant = call[c].target
                      /\ call[c].token \in Keys =>
                           /\ call[c].needs \in apiKey[call[c].token].scopes
                           /\ apiKey[call[c].token].used
                           /\ <<call[c].token, c>> \notin late
    BY DEF OnlyEntitledServed
  <2> QED BY DEF CallsEntitled, Admitted
<1> QED BY <1>1, <1>2, <1>3, PTL DEF KeySpec

-------------------------------------------------------------------------------
(* Debug sessions.                                                         *)

Session == [stage : {"none", "open", "ended"}, expires : Nat, audits : Nat]

\* A call that has not inserted its session has none yet, and the expiry it
\* computed lies within the job's deadline.
ExpiriesBounded ==
    /\ dbTime \in Nat
    /\ session \in [SessionCalls -> Session]
    /\ sessionCall \in [SessionCalls -> [at : {"idle", "begin", "done"}, expires : Nat]]
    /\ \A c \in SessionCalls :
          /\ sessionCall[c].expires <= Deadline
          /\ sessionCall[c].at # "done" => session[c].stage = "none"

\* What a step may do to one session.
Guarded(c) ==
    /\ session[c].stage = "none" /\ session'[c].stage # "none" =>
          /\ jobState = "debug_available"
          /\ session'[c].expires > dbTime
          /\ session'[c].expires <= Deadline
          /\ \A d \in SessionCalls \ {c} : session'[d].stage # "open"
    /\ session[c].stage = "open" /\ session'[c].stage # "open" =>
          \/ session[c].expires <= dbTime + HostSkew
          \/ jobState = "ended"
    /\ session[c].stage = "ended" => session'[c] = session[c]

\* Every step keeps the expiries in bounds and guards every session.
LEMMA SessionStep ==
    ASSUME ExpiriesBounded, [SessionNext]_sessionVars
    PROVE  ExpiriesBounded' /\ \A c \in SessionCalls : Guarded(c)
<1> USE SessionAssumption
<1> DEFINE CallType == [at : {"idle", "begin", "done"}, expires : Nat]
<1>t. /\ dbTime \in Nat /\ session \in [SessionCalls -> Session]
      /\ sessionCall \in [SessionCalls -> CallType]
  BY DEF ExpiriesBounded
<1>s. ASSUME session' = session PROVE \A c \in SessionCalls : Guarded(c)
  BY <1>s DEF Guarded
<1>1. ASSUME NEW to, JobMoves(to)
      PROVE  ExpiriesBounded' /\ \A c \in SessionCalls : Guarded(c)
  BY <1>1, <1>s DEF JobMoves, ExpiriesBounded
<1>2. ASSUME SessionTick
      PROVE  ExpiriesBounded' /\ \A c \in SessionCalls : Guarded(c)
  BY <1>2, <1>s DEF SessionTick, ExpiriesBounded
<1>3. ASSUME NEW c \in SessionCalls, NEW now \in HostTime, Prepare(c, now)
      PROVE  ExpiriesBounded' /\ \A d \in SessionCalls : Guarded(d)
  <2>1. now \in Nat
    BY <1>t DEF HostTime
  <2>2. SessionExpiry(now) \in Nat /\ SessionExpiry(now) <= Deadline
    BY <2>1 DEF SessionExpiry, Smaller
  <2>3. /\ sessionCall' = [sessionCall EXCEPT ![c] =
                             [at |-> "begin", expires |-> SessionExpiry(now)]]
        /\ session' = session /\ dbTime' = dbTime /\ sessionCall[c].at = "idle"
    BY <1>3 DEF Prepare
  <2>4. ExpiriesBounded'
    BY <1>t, <2>2, <2>3 DEF ExpiriesBounded
  <2> QED BY <2>3, <2>4, <1>s
<1>4. ASSUME NEW c \in SessionCalls, CreateSession(c)
      PROVE  ExpiriesBounded' /\ \A d \in SessionCalls : Guarded(d)
  <2> DEFINE new == [stage |-> "open", expires |-> sessionCall[c].expires,
                     audits |-> 1]
  <2>1. /\ sessionCall' = [sessionCall EXCEPT ![c] = [at |-> "done", expires |-> 0]]
        /\ dbTime' = dbTime
        /\ sessionCall[c].at = "begin"
    BY <1>4 DEF CreateSession
  <2>2. CASE session' = session
    BY <1>t, <1>s, <2>1, <2>2 DEF ExpiriesBounded
  <2>3. CASE /\ StillDebuggable
             /\ \A d \in SessionCalls : WithoutExpired[d].stage # "open"
             /\ sessionCall[c].expires > dbTime
             /\ session' = [WithoutExpired EXCEPT ![c] = new]
    <3>1. new \in Session /\ new.expires = sessionCall[c].expires
      BY <1>t DEF Session
    <3> HIDE DEF new
    <3>2. session[c].stage = "none" /\ sessionCall[c].expires <= Deadline
      BY <2>1 DEF ExpiriesBounded
    <3>3. \A d \in SessionCalls :
             /\ WithoutExpired[d] \in Session
             /\ \/ WithoutExpired[d] = session[d]
                \/ session[d].stage = "open" /\ session[d].expires <= dbTime
             /\ session[d].stage = "none" => WithoutExpired[d].stage = "none"
      <4> SUFFICES ASSUME NEW d \in SessionCalls
                   PROVE  /\ WithoutExpired[d] \in Session
                          /\ \/ WithoutExpired[d] = session[d]
                             \/ session[d].stage = "open" /\ session[d].expires <= dbTime
                          /\ session[d].stage = "none" => WithoutExpired[d].stage = "none"
        OBVIOUS
      <4>1. session[d] \in Session
        BY <1>t
      <4>2. [session[d] EXCEPT !.stage = "ended"] \in Session
        BY <4>1 DEF Session
      <4>3. CASE session[d].stage = "open" /\ session[d].expires <= dbTime
        BY <4>2, <4>3 DEF WithoutExpired, Unended
      <4>4. CASE ~(session[d].stage = "open" /\ session[d].expires <= dbTime)
        BY <4>1, <4>4 DEF WithoutExpired, Unended
      <4> QED BY <4>3, <4>4
    <3>4. /\ session' \in [SessionCalls -> Session]
          /\ session'[c] = new
          /\ \A d \in SessionCalls : d # c => session'[d] = WithoutExpired[d]
      BY <2>3, <3>1, <3>3 DEF WithoutExpired
    <3>5. ExpiriesBounded'
      <4>1. /\ sessionCall' \in [SessionCalls -> CallType]
            /\ sessionCall'[c].at = "done" /\ sessionCall'[c].expires = 0
            /\ \A d \in SessionCalls : d # c => sessionCall'[d] = sessionCall[d]
        BY <1>t, <2>1
      <4>2. 0 <= Deadline
        OBVIOUS
      <4>3. ASSUME NEW d \in SessionCalls
            PROVE  /\ sessionCall'[d].expires <= Deadline
                   /\ sessionCall'[d].at # "done" => session'[d].stage = "none"
        <5>1. CASE d = c
          BY <4>1, <4>2, <5>1
        <5>2. CASE d # c
          BY <4>1, <3>3, <3>4, <5>2 DEF ExpiriesBounded
        <5> QED BY <5>1, <5>2
      <4> QED BY <1>t, <2>1, <3>4, <4>1, <4>3 DEF ExpiriesBounded
    <3>6. ASSUME NEW d \in SessionCalls, d # c PROVE Guarded(d)
      <4>1. session[d].expires <= dbTime => session[d].expires <= dbTime + HostSkew
        BY <1>t DEF Session
      <4> QED BY <3>3, <3>4, <3>6, <4>1 DEF Guarded
    <3>7. Guarded(c)
      BY <2>3, <3>1, <3>2, <3>4 DEF Guarded, StillDebuggable
    <3> QED BY <3>5, <3>6, <3>7
  <2> QED BY <1>4, <2>2, <2>3 DEF CreateSession
<1>5. ASSUME NEW now \in HostTime, NEW some \in SUBSET SessionCalls,
             EndSessions(now, some)
      PROVE  ExpiriesBounded' /\ \A c \in SessionCalls : Guarded(c)
  <2>1. /\ some \subseteq EndCandidates(now)
        /\ sessionCall' = sessionCall /\ dbTime' = dbTime
        /\ session' = [c \in SessionCalls |->
             IF c \in some
             THEN [session[c] EXCEPT !.stage = "ended", !.audits = @ + 1]
             ELSE session[c]]
    BY <1>5 DEF EndSessions
  <2>2. now <= dbTime + HostSkew /\ now \in Nat
    BY <1>t DEF HostTime
  <2>3. \A c \in some : /\ session[c].stage = "open"
                        /\ session[c].expires <= now \/ jobState = "ended"
    BY <2>1 DEF EndCandidates, Unended
  <2>4. \A c \in SessionCalls :
           [session[c] EXCEPT !.stage = "ended", !.audits = @ + 1] \in Session
    <3> SUFFICES ASSUME NEW c \in SessionCalls
                 PROVE  [session[c] EXCEPT !.stage = "ended",
                                           !.audits = session[c].audits + 1] \in Session
      OBVIOUS
    <3> DEFINE more == session[c].audits + 1
    <3>1. session[c] \in Session
      BY <1>t
    <3>2. more \in Nat
      BY <3>1 DEF Session
    <3> HIDE DEF more
    <3>3. [session[c] EXCEPT !.stage = "ended", !.audits = more] \in Session
      BY <3>1, <3>2 DEF Session
    <3> QED BY <3>3 DEF more
  <2>5. session' \in [SessionCalls -> Session]
    BY <1>t, <2>1, <2>4
  <2>6. \A c \in SessionCalls \ some : session'[c] = session[c]
    BY <2>1
  <2>7. \A c \in SessionCalls : session[c].expires \in Nat
    BY <1>t DEF Session
  <2>8. ExpiriesBounded'
    BY <1>t, <2>1, <2>3, <2>5, <2>6 DEF ExpiriesBounded
  <2>9. \A c \in SessionCalls : Guarded(c)
    BY <1>t, <2>2, <2>3, <2>6, <2>7 DEF Guarded
  <2> QED BY <2>8, <2>9
<1>6. ASSUME UNCHANGED sessionVars
      PROVE  ExpiriesBounded' /\ \A c \in SessionCalls : Guarded(c)
  BY <1>6, <1>s DEF sessionVars, ExpiriesBounded
<1> QED BY <1>1, <1>2, <1>3, <1>4, <1>5, <1>6 DEF SessionNext

\* create_debug_session inserts only under the job's lock and deadline and never
\* beside an open session, and sessions end only when they may, whatever passes
\* between the handler's read and its transaction.
THEOREM SessionsAlwaysGuarded == SessionSpec => SessionsGuarded
<1>1. SessionInit => ExpiriesBounded
  BY SessionAssumption DEF SessionInit, ExpiriesBounded, Session, NoSession
<1>2. ExpiriesBounded /\ [SessionNext]_sessionVars => ExpiriesBounded'
  BY SessionStep
<1>3. ExpiriesBounded /\ [SessionNext]_sessionVars
        => [\A c \in SessionCalls : Guarded(c)]_sessionVars
  BY SessionStep
<1>4. (\A c \in SessionCalls : Guarded(c)) <=>
        \A c \in SessionCalls :
        /\ session[c].stage = "none" /\ session'[c].stage # "none" =>
              /\ jobState = "debug_available"
              /\ session'[c].expires > dbTime
              /\ session'[c].expires <= Deadline
              /\ \A d \in SessionCalls \ {c} : session'[d].stage # "open"
        /\ session[c].stage = "open" /\ session'[c].stage # "open" =>
              \/ session[c].expires <= dbTime + HostSkew
              \/ jobState = "ended"
        /\ session[c].stage = "ended" => session'[c] = session[c]
  BY Zenon DEF Guarded
<1> QED BY <1>1, <1>2, <1>3, <1>4, PTL DEF SessionSpec, SessionsGuarded

===============================================================================
