----------------------------- MODULE ReaperProofs -----------------------------
(***************************************************************************)
(* OwnerKept, GraceKept and FinalizedAfterCleanup of Reaper, for any number*)
(* of jobs, leases, leaders and failures and for every grace period.       *)
(***************************************************************************)
EXTENDS Reaper, TLAPS

JobRow ==
    [state : {"queued", "running", "cancelling", "failing", "ended"},
     lease : 0 .. MaxLeases, granted : 0 .. MaxLeases]

\* What `todo' ranges over depends on the part of the pass.
ReaperPass ==
    [at : {"idle", "inventory", "examine", "finalize"}, lag : 0 .. PassTime,
     todo : SUBSET (Containers \cup Jobs), doomed : SUBSET Containers,
     remaining : SUBSET Jobs]

ReaperTypes ==
    /\ job \in [Jobs -> JobRow]
    /\ container \in [Containers -> {"unborn", "up", "gone"}]
    /\ pass \in [Leaders -> ReaperPass]
    /\ seen \in [Leaders -> [Containers -> {None} \cup Nat]]
    /\ unowned \in [Containers -> 0 .. Grace]
    /\ listed \in [Leaders -> SUBSET Containers]

\* A lease is the last one that was granted, and only a job that runs or is being
\* closed has one.
LastGranted(j) ==
    job[j].lease # NoLease =>
        /\ job[j].lease = job[j].granted
        /\ job[j].state \notin {"queued", "ended"}

\* Its lease was granted before the container was started.
BornLater(c) ==
    container[c] # "unborn" => LeaseOf(c) <= job[JobOf(c)].granted

\* A leader knows only containers that were started.  One that it has seen without
\* an owner still has none, and was without one for as long as the leader counts,
\* but for the part of the first pass that went before; so was one that it removes,
\* for the grace.
Watched(l, c) ==
    /\ (\/ c \in pass[l].doomed
        \/ seen[l][c] # None
        \/ pass[l].at = "examine" /\ c \in pass[l].todo) => container[c] # "unborn"
    /\ seen[l][c] # None =>
          /\ ~Owned(c)
          /\ container[c] = "up" => unowned[c] + PassTime >= seen[l][c]
    /\ c \in pass[l].doomed =>
          /\ ~Owned(c)
          /\ container[c] = "up" => unowned[c] + PassTime >= Grace

\* Every listed container is waiting to be examined or removed, has left its job
\* waiting, or is gone.
Accounted(l) ==
    /\ pass[l].at # "examine" => pass[l].doomed = {}
    /\ \A c, d \in pass[l].doomed : c = d
    /\ pass[l].at = "examine" =>
          \A c \in listed[l] :
             \/ c \in pass[l].todo \cup pass[l].doomed
             \/ JobOf(c) \in pass[l].remaining
             \/ container[c] = "gone"
    /\ pass[l].at = "finalize" =>
          \A c \in listed[l] : JobOf(c) \in pass[l].todo => container[c] = "gone"

ReaperInv ==
    /\ ReaperTypes
    /\ \A j \in Jobs : LastGranted(j)
    /\ \A c \in Containers : BornLater(c)
    /\ \A l \in Leaders : \A c \in Containers : Watched(l, c)
    /\ \A l \in Leaders : Accounted(l)

\* The labels of a container.
LEMMA Labels ==
    ASSUME NEW c \in Containers
    PROVE  JobOf(c) \in Jobs /\ LeaseOf(c) \in 1 .. MaxLeases
BY DEF Containers, JobOf, LeaseOf

\* Rows move so that a container that was started and lost its lease never gets it
\* back: leases are fresh.
LEMMA LeasesFresh ==
    ASSUME ReaperInv, NEW j \in Jobs, NEW row \in JobRow, job' = [job EXCEPT ![j] = row],
           job[j].granted <= row.granted,
           row.lease \in {NoLease, job[j].lease} \/ row.lease > job[j].granted,
           row.lease # NoLease =>
              row.lease = row.granted /\ row.state \notin {"queued", "ended"}
    PROVE  /\ job' \in [Jobs -> JobRow]
           /\ \A k \in Jobs : LastGranted(k)'
           /\ \A c \in Containers :
                 LeaseOf(c) <= job[JobOf(c)].granted =>
                    /\ LeaseOf(c) <= job'[JobOf(c)].granted
                    /\ ~Owned(c) => ~Owned(c)'
<1>1. /\ job \in [Jobs -> JobRow] /\ \A k \in Jobs : LastGranted(k)
      /\ job[j] \in JobRow /\ MaxLeases \in Nat
  BY ReaperAssumption DEF ReaperInv, ReaperTypes
<1>2. job' \in [Jobs -> JobRow] /\ job'[j] = row /\ \A k \in Jobs : k # j => job'[k] = job[k]
  BY <1>1
<1>3. ASSUME NEW k \in Jobs PROVE LastGranted(k)'
  BY <1>1, <1>2 DEF LastGranted
<1>4. ASSUME NEW c \in Containers, LeaseOf(c) <= job[JobOf(c)].granted
      PROVE  LeaseOf(c) <= job'[JobOf(c)].granted /\ (~Owned(c) => ~Owned(c)')
  <2>1. JobOf(c) \in Jobs /\ LeaseOf(c) \in Nat /\ LeaseOf(c) # 0
    BY <1>1, Labels
  <2>2. CASE JobOf(c) = j
    <3>1. /\ job[j].granted \in Nat /\ row.granted \in Nat /\ row.lease \in Nat
      BY <1>1 DEF JobRow
    <3> QED BY <1>2, <1>4, <2>1, <2>2, <3>1 DEF Owned, NoLease
  <2>3. CASE JobOf(c) # j
    BY <1>2, <1>4, <2>1, <2>3 DEF Owned
  <2> QED BY <2>2, <2>3
<1> QED BY <1>2, <1>3, <1>4

\* A step that only moves rows in that way.
LEMMA RowsMove ==
    ASSUME ReaperInv, UNCHANGED <<container, pass, seen, unowned, listed>>,
           job' \in [Jobs -> JobRow],
           \A k \in Jobs : LastGranted(k)',
           \A c \in Containers :
              LeaseOf(c) <= job[JobOf(c)].granted =>
                 /\ LeaseOf(c) <= job'[JobOf(c)].granted
                 /\ ~Owned(c) => ~Owned(c)'
    PROVE  ReaperInv'
<1>1. ReaperTypes'
  BY DEF ReaperInv, ReaperTypes
<1>2. ASSUME NEW c \in Containers PROVE BornLater(c)'
  BY DEF ReaperInv, BornLater
<1>3. ASSUME NEW l \in Leaders, NEW c \in Containers PROVE Watched(l, c)'
  BY DEF ReaperInv, BornLater, Watched
<1>4. ASSUME NEW l \in Leaders PROVE Accounted(l)'
  BY DEF ReaperInv, Accounted
<1> QED BY <1>1, <1>2, <1>3, <1>4 DEF ReaperInv

\* A pass moves, and its leader's observations; rows and containers do not.
LEMMA PassMoves ==
    ASSUME ReaperInv, UNCHANGED <<job, container, unowned>>, NEW l \in Leaders,
           NEW p \in ReaperPass, pass' = [pass EXCEPT ![l] = p],
           NEW s \in [Containers -> {None} \cup Nat], seen' = [seen EXCEPT ![l] = s],
           NEW q \in SUBSET Containers, listed' = [listed EXCEPT ![l] = q],
           \A c \in Containers :
              /\ (\/ c \in p.doomed
                  \/ s[c] # None
                  \/ p.at = "examine" /\ c \in p.todo) => container[c] # "unborn"
              /\ s[c] # None =>
                    /\ ~Owned(c)
                    /\ container[c] = "up" => unowned[c] + PassTime >= s[c]
              /\ c \in p.doomed =>
                    /\ ~Owned(c)
                    /\ container[c] = "up" => unowned[c] + PassTime >= Grace,
           p.at # "examine" => p.doomed = {},
           \A c, d \in p.doomed : c = d,
           p.at = "examine" =>
              \A c \in q : \/ c \in p.todo \cup p.doomed
                           \/ JobOf(c) \in p.remaining
                           \/ container[c] = "gone",
           p.at = "finalize" => \A c \in q : JobOf(c) \in p.todo => container[c] = "gone"
    PROVE  ReaperInv'
<1>0. /\ pass \in [Leaders -> ReaperPass] /\ listed \in [Leaders -> SUBSET Containers]
      /\ seen \in [Leaders -> [Containers -> {None} \cup Nat]]
  BY DEF ReaperInv, ReaperTypes
<1>1. /\ pass'[l] = p /\ seen'[l] = s /\ listed'[l] = q
      /\ \A k \in Leaders : k # l =>
            pass'[k] = pass[k] /\ seen'[k] = seen[k] /\ listed'[k] = listed[k]
  BY <1>0
<1>2. ReaperTypes'
  BY <1>0 DEF ReaperInv, ReaperTypes
<1>3. ASSUME NEW k \in Leaders, NEW c \in Containers PROVE Watched(k, c)'
  <2>1. Watched(k, c) /\ (Owned(c)' <=> Owned(c))
    BY DEF ReaperInv, Owned
  <2> QED BY <1>1, <2>1 DEF Watched
<1>4. ASSUME NEW k \in Leaders PROVE Accounted(k)'
  BY <1>1 DEF ReaperInv, Accounted
<1>5. \A j \in Jobs : LastGranted(j)'
  BY DEF ReaperInv, LastGranted
<1>6. \A c \in Containers : BornLater(c)'
  BY DEF ReaperInv, BornLater
<1> QED BY <1>2, <1>3, <1>4, <1>5, <1>6 DEF ReaperInv

\* Everything a leader's part of the invariant says.
LEMMA LeaderFacts ==
    ASSUME ReaperInv, NEW l \in Leaders
    PROVE  /\ pass[l] \in ReaperPass /\ seen[l] \in [Containers -> {None} \cup Nat]
           /\ listed[l] \in SUBSET Containers /\ Accounted(l)
           /\ \A c \in Containers : Watched(l, c)
           /\ pass[l].lag \in 0 .. PassTime /\ pass[l].doomed \in SUBSET Containers
           /\ pass[l].todo \in SUBSET (Containers \cup Jobs)
           /\ pass[l].remaining \in SUBSET Jobs
           /\ seen = [seen EXCEPT ![l] = seen[l]]
           /\ listed = [listed EXCEPT ![l] = listed[l]]
           /\ unowned \in [Containers -> 0 .. Grace]
           /\ container \in [Containers -> {"unborn", "up", "gone"}]
BY DEF ReaperInv, ReaperTypes, ReaperPass

\* The pass that has not begun.
LEMMA IdleFacts ==
    /\ IdlePass \in ReaperPass /\ IdlePass.at = "idle" /\ IdlePass.doomed = {}
    /\ IdlePass.todo = {} /\ IdlePass.remaining = {}
BY ReaperAssumption DEF IdlePass, ReaperPass

\* claim_job_with_options.
LEMMA ClaimKeeps ==
    ASSUME ReaperInv, NEW j \in Jobs, Claim(j)
    PROVE  ReaperInv'
<1> DEFINE row == [state |-> "running", lease |-> job[j].granted + 1,
                   granted |-> job[j].granted + 1]
<1>1. /\ job[j].granted < MaxLeases /\ job' = [job EXCEPT ![j] = row]
      /\ UNCHANGED <<container, pass, seen, unowned, listed>>
  BY DEF Claim
<1>2. job[j].granted \in 0 .. MaxLeases /\ MaxLeases \in Nat
  BY ReaperAssumption DEF ReaperInv, ReaperTypes, JobRow
<1>3. /\ row \in JobRow /\ row.lease = job[j].granted + 1 /\ row.granted = job[j].granted + 1
      /\ row.state = "running"
  BY <1>1, <1>2 DEF JobRow
<1> HIDE DEF row
<1>4. job[j].granted <= row.granted /\ row.lease > job[j].granted
  BY <1>2, <1>3
<1>5. /\ job' \in [Jobs -> JobRow]
      /\ \A k \in Jobs : LastGranted(k)'
      /\ \A c \in Containers :
            LeaseOf(c) <= job[JobOf(c)].granted =>
               /\ LeaseOf(c) <= job'[JobOf(c)].granted
               /\ ~Owned(c) => ~Owned(c)'
  BY <1>1, <1>3, <1>4, LeasesFresh
<1> QED BY <1>1, <1>5, RowsMove

\* A row that keeps its lease or loses it.
LEMMA RowKeeps ==
    ASSUME ReaperInv, NEW j \in Jobs, NEW row \in JobRow, job' = [job EXCEPT ![j] = row],
           row.granted = job[j].granted, row.lease \in {NoLease, job[j].lease},
           row.lease # NoLease => row.state \notin {"queued", "ended"}
    PROVE  /\ job' \in [Jobs -> JobRow]
           /\ \A k \in Jobs : LastGranted(k)'
           /\ \A c \in Containers :
                 LeaseOf(c) <= job[JobOf(c)].granted =>
                    /\ LeaseOf(c) <= job'[JobOf(c)].granted
                    /\ ~Owned(c) => ~Owned(c)'
<1>1. job[j].granted \in Int /\ LastGranted(j)
  BY ReaperAssumption DEF ReaperInv, ReaperTypes, JobRow
<1>2. job[j].granted <= row.granted
  BY <1>1
<1>3. row.lease # NoLease =>
         row.lease = row.granted /\ row.state \notin {"queued", "ended"}
  BY <1>1 DEF LastGranted
<1> QED BY <1>2, <1>3, LeasesFresh

\* The rows' other writers.
LEMMA JobStepKeeps ==
    ASSUME ReaperInv, NEW j \in Jobs, JobStep(j)
    PROVE  ReaperInv'
<1>0. /\ job[j] \in JobRow /\ job \in [Jobs -> JobRow] /\ LastGranted(j)
      /\ NoLease \in 0 .. MaxLeases
  BY ReaperAssumption DEF ReaperInv, ReaperTypes, NoLease
<1>1. CASE Claim(j)
  BY <1>1, ClaimKeeps
<1>2. CASE Cancel(j)
  <2>1. PICK row : row = [job[j] EXCEPT !.state = "cancelling"]
    OBVIOUS
  <2>2. /\ job' = [job EXCEPT ![j] = row]
        /\ UNCHANGED <<container, pass, seen, unowned, listed>>
    BY <1>2, <2>1 DEF Cancel
  <2>3. /\ row \in JobRow /\ row.granted = job[j].granted /\ row.lease = job[j].lease
        /\ row.state = "cancelling"
    BY <1>0, <2>1 DEF JobRow
  <2> QED BY <2>2, <2>3, RowKeeps, RowsMove
<1>3. CASE Recover(j)
  <2>1. PICK state : state = IF job[j].state # "running" THEN job[j].state
                             ELSE IF job[j].granted < MaxLeases THEN "queued"
                             ELSE "failing"
    OBVIOUS
  <2>2. PICK row : row = [job[j] EXCEPT !.state = state, !.lease = NoLease]
    OBVIOUS
  <2>3. /\ job' = [job EXCEPT ![j] = row]
        /\ UNCHANGED <<container, pass, seen, unowned, listed>>
    BY <1>0, <1>3, <2>1, <2>2 DEF Recover
  <2>4. state \in {"queued", "running", "cancelling", "failing", "ended"}
    BY <1>0, <2>1 DEF JobRow
  <2>5. row \in JobRow /\ row.granted = job[j].granted /\ row.lease = NoLease
    BY <1>0, <2>2, <2>4 DEF JobRow
  <2> QED BY <2>3, <2>5, RowKeeps, RowsMove
<1>4. CASE WorkerEnds(j)
  <2>1. PICK row : row = [job[j] EXCEPT !.state = "ended", !.lease = NoLease]
    OBVIOUS
  <2>2. /\ job' = [job EXCEPT ![j] = row]
        /\ UNCHANGED <<container, pass, seen, unowned, listed>>
    BY <1>0, <1>4, <2>1 DEF WorkerEnds
  <2>3. row \in JobRow /\ row.granted = job[j].granted /\ row.lease = NoLease
    BY <1>0, <2>1 DEF JobRow
  <2> QED BY <2>2, <2>3, RowKeeps, RowsMove
<1>5. CASE DispatcherFinalizes(j)
  <2>1. PICK row : row = [job[j] EXCEPT !.state = "ended"]
    OBVIOUS
  <2>2. /\ job' = [job EXCEPT ![j] = row] /\ job[j].granted = 0
        /\ UNCHANGED <<container, pass, seen, unowned, listed>>
    BY <1>0, <1>5, <2>1 DEF DispatcherFinalizes
  <2>3. row \in JobRow /\ row.granted = job[j].granted /\ row.lease = job[j].lease
    BY <1>0, <2>1 DEF JobRow
  <2>4. job[j].lease = NoLease
    BY <1>0, <2>2 DEF LastGranted, NoLease
  <2> QED BY <2>2, <2>3, <2>4, RowKeeps, RowsMove
<1> QED BY <1>1, <1>2, <1>3, <1>4, <1>5 DEF JobStep

\* A container is started under a lease that was granted, and has not been seen.
LEMMA StartRuntimeKeeps ==
    ASSUME ReaperInv, NEW c \in Containers, StartRuntime(c)
    PROVE  ReaperInv'
<1>1. /\ container[c] = "unborn" /\ LeaseOf(c) <= job[JobOf(c)].granted
      /\ container' = [container EXCEPT ![c] = "up"]
      /\ job' = job /\ pass' = pass /\ seen' = seen /\ unowned' = unowned /\ listed' = listed
  BY DEF StartRuntime
<1>2. /\ ReaperTypes /\ container'[c] = "up"
      /\ \A d \in Containers : d # c => container'[d] = container[d]
  BY <1>1 DEF ReaperInv, ReaperTypes
<1>3. ReaperTypes'
  BY <1>1, <1>2 DEF ReaperTypes
<1>4. ASSUME NEW d \in Containers PROVE BornLater(d)'
  BY <1>1, <1>2 DEF ReaperInv, BornLater
<1>5. ASSUME NEW l \in Leaders, NEW d \in Containers PROVE Watched(l, d)'
  <2>1. Watched(l, d) /\ (Owned(d)' <=> Owned(d))
    BY <1>1 DEF ReaperInv, Owned
  <2> QED BY <1>1, <1>2, <2>1 DEF Watched
<1>6. ASSUME NEW l \in Leaders PROVE Accounted(l)'
  <2>1. Accounted(l) /\ listed[l] \in SUBSET Containers
    BY LeaderFacts
  <2>2. \A d \in Containers : container[d] = "gone" => container'[d] = "gone"
    BY <1>1, <1>2
  <2> QED BY <1>1, <2>1, <2>2 DEF Accounted
<1>7. \A j \in Jobs : LastGranted(j)'
  BY <1>1 DEF ReaperInv, LastGranted
<1> QED BY <1>3, <1>4, <1>5, <1>6, <1>7 DEF ReaperInv

\* A container that stops, or is removed, is no concern any more.
LEMMA GoneKeeps ==
    ASSUME ReaperInv, NEW c \in Containers, container[c] # "unborn",
           container' = [container EXCEPT ![c] = "gone"],
           UNCHANGED <<job, pass, seen, unowned, listed>>
    PROVE  ReaperInv'
<1>2. /\ ReaperTypes /\ container'[c] = "gone"
      /\ \A d \in Containers : d # c => container'[d] = container[d]
  BY DEF ReaperInv, ReaperTypes
<1>3. ReaperTypes'
  BY <1>2 DEF ReaperTypes
<1>4. ASSUME NEW d \in Containers PROVE BornLater(d)'
  BY <1>2 DEF ReaperInv, BornLater
<1>5. ASSUME NEW l \in Leaders, NEW d \in Containers PROVE Watched(l, d)'
  <2>1. Watched(l, d) /\ (Owned(d)' <=> Owned(d))
    BY DEF ReaperInv, Owned
  <2> QED BY <1>2, <2>1 DEF Watched
<1>6. ASSUME NEW l \in Leaders PROVE Accounted(l)'
  <2>1. Accounted(l) /\ listed[l] \in SUBSET Containers
    BY LeaderFacts
  <2>2. \A d \in Containers : container[d] = "gone" => container'[d] = "gone"
    BY <1>2
  <2> QED BY <2>1, <2>2 DEF Accounted
<1>7. \A j \in Jobs : LastGranted(j)'
  BY DEF ReaperInv, LastGranted
<1> QED BY <1>3, <1>4, <1>5, <1>6, <1>7 DEF ReaperInv

\* A pass begins, or ends one way or another; what the leader remembers of the
\* containers it keeps or loses.
LEMMA PassRests ==
    ASSUME ReaperInv, NEW l \in Leaders, NEW p \in ReaperPass,
           p.at \in {"idle", "inventory"}, p.doomed = {},
           pass' = [pass EXCEPT ![l] = p], UNCHANGED <<job, container, unowned>>,
           NEW q \in SUBSET Containers, listed' = [listed EXCEPT ![l] = q],
           NEW s \in [Containers -> {None} \cup Nat], seen' = [seen EXCEPT ![l] = s],
           \A c \in Containers : s[c] \in {None, seen[l][c]}
    PROVE  ReaperInv'
<1>1. \A c \in Containers :
         s[c] # None =>
            /\ container[c] # "unborn" /\ ~Owned(c)
            /\ container[c] = "up" => unowned[c] + PassTime >= s[c]
  BY LeaderFacts DEF Watched
<1> QED BY <1>1, PassMoves

\* The beginning and the ends of a pass.
LEMMA PassEndsKeep ==
    ASSUME ReaperInv, NEW l \in Leaders,
           StartPass(l) \/ InventoryFails(l) \/ EndPass(l) \/ PassFails(l) \/ Restart(l)
    PROVE  ReaperInv'
<1>0. /\ seen[l] \in [Containers -> {None} \cup Nat] /\ listed[l] \in SUBSET Containers
      /\ seen = [seen EXCEPT ![l] = seen[l]] /\ listed = [listed EXCEPT ![l] = listed[l]]
      /\ [c \in Containers |-> None] \in [Containers -> {None} \cup Nat]
      /\ {} \in SUBSET Containers
  BY LeaderFacts
<1>1. CASE StartPass(l)
  <2>1. PICK p : p = [IdlePass EXCEPT !.at = "inventory"]
    OBVIOUS
  <2>2. p \in ReaperPass /\ p.at = "inventory" /\ p.doomed = {}
    BY <2>1, IdleFacts DEF ReaperPass
  <2>3. /\ pass' = [pass EXCEPT ![l] = p] /\ UNCHANGED <<job, container, unowned>>
        /\ seen' = seen /\ listed' = listed
    BY <1>1, <2>1 DEF StartPass
  <2> QED BY <1>0, <2>2, <2>3, PassRests
<1>2. CASE InventoryFails(l)
  <2>1. /\ pass' = [pass EXCEPT ![l] = IdlePass] /\ UNCHANGED <<job, container, unowned>>
        /\ seen' = seen /\ listed' = listed
    BY <1>2 DEF InventoryFails
  <2> QED BY <1>0, <2>1, PassRests, IdleFacts
<1>3. CASE EndPass(l) \/ PassFails(l)
  <2>1. /\ pass' = [pass EXCEPT ![l] = IdlePass] /\ UNCHANGED <<job, container, unowned>>
        /\ seen' = seen /\ listed' = [listed EXCEPT ![l] = {}]
    BY <1>3 DEF EndPass, PassFails
  <2> QED BY <1>0, <2>1, PassRests, IdleFacts
<1>4. CASE Restart(l)
  <2>1. PICK s \in [Containers -> {None} \cup Nat] : s = [c \in Containers |-> None]
    BY <1>0
  <2>2. \A c \in Containers : s[c] \in {None, seen[l][c]}
    BY <2>1
  <2>3. /\ pass' = [pass EXCEPT ![l] = IdlePass] /\ UNCHANGED <<job, container, unowned>>
        /\ seen' = [seen EXCEPT ![l] = s] /\ listed' = [listed EXCEPT ![l] = {}]
    BY <1>4, <2>1 DEF Restart
  <2>4. {} \in SUBSET Containers /\ IdlePass.at \in {"idle", "inventory"}
    BY IdleFacts
  <2> QED BY <2>2, <2>3, <2>4, PassRests, IdleFacts
<1> QED BY <1>1, <1>2, <1>3, <1>4

\* inventory.
LEMMA InventoryKeeps ==
    ASSUME ReaperInv, NEW l \in Leaders, Inventory(l)
    PROVE  ReaperInv'
<1>1. PICK up \in SUBSET Containers : up = {c \in Containers : container[c] = "up"}
  OBVIOUS
<1>2. PICK p : p = [pass[l] EXCEPT !.at = "examine", !.todo = up]
  OBVIOUS
<1>3. /\ pass[l].at = "inventory" /\ pass' = [pass EXCEPT ![l] = p]
      /\ UNCHANGED <<job, container, unowned>>
      /\ listed' = [listed EXCEPT ![l] = up] /\ seen' = seen
  BY <1>1, <1>2 DEF Inventory, At
<1>4. up \in SUBSET (Containers \cup Jobs)
  OBVIOUS
<1>5. p \in ReaperPass /\ p.at = "examine" /\ p.todo = up /\ p.doomed = pass[l].doomed
  BY <1>2, <1>4, LeaderFacts DEF ReaperPass
<1>6. p.doomed = {}
  BY <1>3, <1>5, LeaderFacts DEF Accounted
<1>7. \A c \in Containers :
         seen[l][c] # None =>
            /\ container[c] # "unborn" /\ ~Owned(c)
            /\ container[c] = "up" => unowned[c] + PassTime >= seen[l][c]
  BY LeaderFacts DEF Watched
<1>8. \A c \in up : container[c] = "up"
  BY <1>1
<1> QED BY <1>3, <1>5, <1>6, <1>7, <1>8, LeaderFacts, PassMoves

\* What an examination concludes: only a container whose lease is not its job's is
\* seen as unsafe, and only one that has been so for the grace is removed.
LEMMA Conclusion ==
    ASSUME ReaperInv, NEW l \in Leaders, NEW c \in Containers, pass[l].at = "examine",
           c \in pass[l].todo, NEW ownership \in {Ownership(c), "Unknown"}
    PROVE  /\ Observe(l, c, ownership) \in {None} \cup Nat
           /\ Observe(l, c, ownership) # None =>
                 /\ ~Owned(c) /\ container[c] # "unborn"
                 /\ container[c] = "up" =>
                       unowned[c] + PassTime >= Observe(l, c, ownership)
           /\ EvaluateReap(ownership, Observe(l, c, ownership) - pass[l].lag) = "Reap" =>
                 /\ ~Owned(c) /\ container[c] # "unborn"
                 /\ container[c] = "up" => unowned[c] + PassTime >= Grace
<1>1. /\ Watched(l, c) /\ seen[l][c] \in {None} \cup Nat
      /\ pass[l].lag \in 0 .. PassTime /\ unowned[c] \in 0 .. Grace
      /\ Grace \in Nat /\ PassTime \in Nat
  BY LeaderFacts, ReaperAssumption
<1>2. Unsafe(ownership) => ~Owned(c) /\ container[c] # "unborn"
  <2>1. container[c] # "unborn"
    BY <1>1 DEF Watched
  <2>2. job[JobOf(c)].state = "ended" => job[JobOf(c)].lease = NoLease
    BY Labels DEF ReaperInv, LastGranted
  <2>3. LeaseOf(c) # NoLease
    BY Labels, ReaperAssumption DEF NoLease
  <2> QED BY <2>1, <2>2, <2>3 DEF Unsafe, Ownership, Owned
<1>3. ASSUME Unsafe(ownership)
      PROVE  /\ Observe(l, c, ownership) \in Nat
             /\ container[c] = "up" => unowned[c] + PassTime >= Observe(l, c, ownership)
  <2>1. CASE seen[l][c] = None
    BY <1>1, <1>3, <2>1 DEF Observe
  <2>2. CASE seen[l][c] # None
    BY <1>1, <1>3, <2>2 DEF Observe, Watched
  <2> QED BY <2>1, <2>2
<1>4. ~Unsafe(ownership) => Observe(l, c, ownership) = None
  BY DEF Observe
<1>5. ASSUME EvaluateReap(ownership, Observe(l, c, ownership) - pass[l].lag) = "Reap"
      PROVE  Unsafe(ownership) /\ ~(Observe(l, c, ownership) - pass[l].lag < Grace)
  BY <1>5 DEF EvaluateReap
<1>6. PICK since : since = Observe(l, c, ownership)
  OBVIOUS
<1>7. EvaluateReap(ownership, Observe(l, c, ownership) - pass[l].lag) = "Reap" =>
         /\ Unsafe(ownership)
         /\ container[c] = "up" => unowned[c] + PassTime >= Grace
  BY <1>1, <1>3, <1>5, <1>6
<1> QED BY <1>2, <1>3, <1>4, <1>7

\* A look at one container, with the answer that the lookup of its job got.
LEMMA ExamineKeeps ==
    ASSUME ReaperInv, NEW l \in Leaders, NEW c \in Containers,
           NEW ownership \in {Ownership(c), "Unknown"}, ExamineAs(l, c, ownership)
    PROVE  ReaperInv'
<1>1. PICK since : since = Observe(l, c, ownership)
  OBVIOUS
<1>2. PICK doomed : doomed = IF EvaluateReap(ownership, since - pass[l].lag) = "Reap"
                             THEN {c} ELSE {}
  OBVIOUS
<1>3. PICK remaining : remaining = IF EvaluateReap(ownership, since - pass[l].lag) = "Reap"
                                   THEN pass[l].remaining
                                   ELSE pass[l].remaining \cup {JobOf(c)}
  OBVIOUS
<1>4. PICK p : p = [pass[l] EXCEPT !.todo = @ \ {c}, !.doomed = doomed, !.remaining = remaining]
  OBVIOUS
<1>5. PICK s : s = [seen[l] EXCEPT ![c] = since]
  OBVIOUS
<1>6. /\ pass[l].at = "examine" /\ pass[l].doomed = {} /\ c \in pass[l].todo
      /\ UNCHANGED <<job, container, unowned>> /\ listed' = listed
  BY DEF ExamineAs, At
<1>7. seen' = [seen EXCEPT ![l] = s]
  BY <1>1, <1>5 DEF ExamineAs
<1>8. pass' = [pass EXCEPT ![l] = p]
  BY <1>1, <1>2, <1>3, <1>4 DEF ExamineAs
<1>9. doomed \in SUBSET Containers /\ remaining \in SUBSET Jobs
  BY <1>2, <1>3, Labels, LeaderFacts
<1>10. /\ p \in ReaperPass /\ p.at = "examine" /\ p.todo = pass[l].todo \ {c}
       /\ p.doomed = doomed /\ p.remaining = remaining
  BY <1>4, <1>6, <1>9, LeaderFacts DEF ReaperPass
<1>11. /\ since \in {None} \cup Nat
       /\ since # None =>
             /\ ~Owned(c) /\ container[c] # "unborn"
             /\ container[c] = "up" => unowned[c] + PassTime >= since
       /\ c \in doomed =>
             /\ ~Owned(c) /\ container[c] # "unborn"
             /\ container[c] = "up" => unowned[c] + PassTime >= Grace
  BY <1>1, <1>2, <1>6, Conclusion
<1>12. s \in [Containers -> {None} \cup Nat] /\ s[c] = since
       /\ \A d \in Containers : d # c => s[d] = seen[l][d]
  BY <1>5, <1>11, LeaderFacts
<1>13. ASSUME NEW d \in Containers
       PROVE  /\ (\/ d \in p.doomed
                  \/ s[d] # None
                  \/ p.at = "examine" /\ d \in p.todo) => container[d] # "unborn"
              /\ s[d] # None =>
                    /\ ~Owned(d)
                    /\ container[d] = "up" => unowned[d] + PassTime >= s[d]
              /\ d \in p.doomed =>
                    /\ ~Owned(d)
                    /\ container[d] = "up" => unowned[d] + PassTime >= Grace
  <2>1. Watched(l, d)
    BY LeaderFacts
  <2>2. CASE d = c
    BY <1>6, <1>10, <1>11, <1>12, <2>1, <2>2 DEF Watched
  <2>3. CASE d # c
    BY <1>2, <1>6, <1>10, <1>12, <2>1, <2>3 DEF Watched
  <2> QED BY <2>2, <2>3
<1>14. \A d \in listed[l] : \/ d \in p.todo \cup p.doomed
                            \/ JobOf(d) \in p.remaining
                            \/ container[d] = "gone"
  <2>1. \A d \in listed[l] : \/ d \in pass[l].todo
                             \/ JobOf(d) \in pass[l].remaining
                             \/ container[d] = "gone"
    BY <1>6, LeaderFacts DEF Accounted
  <2>2. c \in doomed \/ JobOf(c) \in remaining
    BY <1>2, <1>3
  <2>3. pass[l].remaining \subseteq remaining
    BY <1>3
  <2> QED BY <1>10, <2>1, <2>2, <2>3
<1>15. listed[l] \in SUBSET Containers /\ listed' = [listed EXCEPT ![l] = listed[l]]
  BY <1>6, LeaderFacts
<1>16. p.at # "finalize" /\ \A d, e \in p.doomed : d = e
  BY <1>2, <1>10
<1> QED BY <1>6, <1>7, <1>8, <1>10, <1>12, <1>13, <1>14, <1>15, <1>16, PassMoves

\* The removal of a container.
LEMMA ReapKeeps ==
    ASSUME ReaperInv, NEW l \in Leaders, NEW c \in Containers, Reap(l, c)
    PROVE  ReaperInv'
<1>1. PICK p : p = [pass[l] EXCEPT !.doomed = {}]
  OBVIOUS
<1>2. PICK s : s = [seen[l] EXCEPT ![c] = None]
  OBVIOUS
<1>3. /\ c \in pass[l].doomed /\ container' = [container EXCEPT ![c] = "gone"]
      /\ pass' = [pass EXCEPT ![l] = p] /\ seen' = [seen EXCEPT ![l] = s]
      /\ job' = job /\ unowned' = unowned /\ listed' = listed
  BY <1>1, <1>2 DEF Reap
<1>4. /\ pass[l].at = "examine" /\ container[c] # "unborn"
  BY <1>3, LeaderFacts DEF Accounted, Watched
<1>5. /\ p \in ReaperPass /\ p.at = "examine" /\ p.doomed = {} /\ p.todo = pass[l].todo
      /\ p.remaining = pass[l].remaining
      /\ s \in [Containers -> {None} \cup Nat]
      /\ \A d \in Containers : s[d] \in {None, seen[l][d]}
  BY <1>1, <1>2, <1>4, LeaderFacts DEF ReaperPass
<1>6. /\ ReaperTypes /\ container'[c] = "gone"
      /\ \A d \in Containers : d # c => container'[d] = container[d]
      /\ pass'[l] = p /\ seen'[l] = s
      /\ \A k \in Leaders : k # l => pass'[k] = pass[k] /\ seen'[k] = seen[k]
  BY <1>3 DEF ReaperInv, ReaperTypes
<1>7. ReaperTypes'
  BY <1>3, <1>5, <1>6 DEF ReaperTypes
<1>8. ASSUME NEW d \in Containers PROVE BornLater(d)'
  BY <1>3, <1>4, <1>6 DEF ReaperInv, BornLater
<1>9. ASSUME NEW k \in Leaders, NEW d \in Containers PROVE Watched(k, d)'
  <2>1. Watched(k, d) /\ (Owned(d)' <=> Owned(d))
    BY <1>3 DEF ReaperInv, Owned
  <2>2. CASE k = l
    BY <1>3, <1>4, <1>5, <1>6, <2>1, <2>2 DEF Watched
  <2>3. CASE k # l
    BY <1>3, <1>4, <1>6, <2>1, <2>3 DEF Watched
  <2> QED BY <2>2, <2>3
<1>10. ASSUME NEW k \in Leaders PROVE Accounted(k)'
  <2>1. Accounted(k) /\ listed[k] \in SUBSET Containers
    BY LeaderFacts
  <2>2. \A d \in Containers : container[d] = "gone" => container'[d] = "gone"
    BY <1>6
  <2>3. CASE k = l
    <3>1. pass[l].doomed = {c}
      BY <1>3, <2>1, <2>3 DEF Accounted
    <3> QED BY <1>3, <1>4, <1>5, <1>6, <2>1, <2>2, <2>3, <3>1 DEF Accounted
  <2>4. CASE k # l
    BY <1>3, <1>6, <2>1, <2>2, <2>4 DEF Accounted
  <2> QED BY <2>3, <2>4
<1>11. \A j \in Jobs : LastGranted(j)'
  BY <1>3 DEF ReaperInv, LastGranted
<1> QED BY <1>7, <1>8, <1>9, <1>10, <1>11 DEF ReaperInv

\* A removal that fails leaves the job waiting.
LEMMA ReapFailsKeeps ==
    ASSUME ReaperInv, NEW l \in Leaders, NEW c \in Containers, ReapFails(l, c)
    PROVE  ReaperInv'
<1>1. PICK p : p = [pass[l] EXCEPT !.doomed = {}, !.remaining = @ \cup {JobOf(c)}]
  OBVIOUS
<1>2. /\ c \in pass[l].doomed /\ pass' = [pass EXCEPT ![l] = p]
      /\ UNCHANGED <<job, container, unowned>> /\ seen' = seen /\ listed' = listed
  BY <1>1 DEF ReapFails
<1>3. pass[l].at = "examine" /\ pass[l].doomed = {c}
  BY <1>2, LeaderFacts DEF Accounted
<1>4. pass[l].remaining \cup {JobOf(c)} \in SUBSET Jobs
  BY LeaderFacts, Labels
<1>5. /\ p \in ReaperPass /\ p.at = "examine" /\ p.doomed = {} /\ p.todo = pass[l].todo
      /\ p.remaining = pass[l].remaining \cup {JobOf(c)}
  BY <1>1, <1>3, <1>4, LeaderFacts DEF ReaperPass
<1>6. ASSUME NEW d \in Containers
      PROVE  /\ (\/ seen[l][d] # None
                 \/ p.at = "examine" /\ d \in p.todo) => container[d] # "unborn"
             /\ seen[l][d] # None =>
                   /\ ~Owned(d)
                   /\ container[d] = "up" => unowned[d] + PassTime >= seen[l][d]
  BY <1>3, <1>5, LeaderFacts DEF Watched
<1>7. \A d \in listed[l] : \/ d \in p.todo \cup p.doomed
                           \/ JobOf(d) \in p.remaining
                           \/ container[d] = "gone"
  BY <1>3, <1>5, LeaderFacts DEF Accounted
<1> QED BY <1>2, <1>5, <1>6, <1>7, LeaderFacts, PassMoves

\* The examination is over: jobs of which nothing remains may be closed.
LEMMA FinishKeeps ==
    ASSUME ReaperInv, NEW l \in Leaders, FinishExamination(l)
    PROVE  ReaperInv'
<1>1. PICK p : p = [pass[l] EXCEPT !.at = "finalize", !.todo = Closable(l)]
  OBVIOUS
<1>2. PICK s : s = [c \in Containers |-> IF c \in listed[l] THEN seen[l][c] ELSE None]
  OBVIOUS
<1>3. /\ pass[l].at = "examine" /\ pass[l].todo = {} /\ pass[l].doomed = {}
      /\ pass' = [pass EXCEPT ![l] = p] /\ listed' = listed
      /\ UNCHANGED <<job, container, unowned>>
  BY <1>1 DEF FinishExamination, At
<1>4. seen' = [seen EXCEPT ![l] = s]
  BY <1>2 DEF FinishExamination
<1>5. Closable(l) \in SUBSET (Containers \cup Jobs)
  BY DEF Closable
<1>6. /\ p \in ReaperPass /\ p.at = "finalize" /\ p.doomed = {} /\ p.todo = Closable(l)
  BY <1>1, <1>3, <1>5, LeaderFacts DEF ReaperPass
<1>7. s \in [Containers -> {None} \cup Nat] /\ \A c \in Containers : s[c] \in {None, seen[l][c]}
  BY <1>2, LeaderFacts
<1>8. \A c \in Containers :
         s[c] # None =>
            /\ container[c] # "unborn" /\ ~Owned(c)
            /\ container[c] = "up" => unowned[c] + PassTime >= s[c]
  BY <1>7, LeaderFacts DEF Watched
<1>9. \A c \in listed[l] : JobOf(c) \in p.todo => container[c] = "gone"
  BY <1>3, <1>6, LeaderFacts DEF Accounted, Closable
<1> QED BY <1>3, <1>4, <1>6, <1>7, <1>8, <1>9, LeaderFacts, PassMoves, ZenonT(30)

\* finalize_ready_jobs, one job.
LEMMA FinalizeKeeps ==
    ASSUME ReaperInv, NEW l \in Leaders, NEW j \in Jobs, FinalizeJob(l, j)
    PROVE  ReaperInv'
<1>1. PICK state : state = IF LeaseFree(j) THEN "ended" ELSE job[j].state
  OBVIOUS
<1>2. PICK row : row = [job[j] EXCEPT !.state = state]
  OBVIOUS
<1>3. PICK p : p = [pass[l] EXCEPT !.todo = @ \ {j}]
  OBVIOUS
<1>4. /\ pass[l].at = "finalize" /\ pass' = [pass EXCEPT ![l] = p]
      /\ job' = [job EXCEPT ![j] = row] /\ container' = container /\ seen' = seen
      /\ unowned' = unowned /\ listed' = listed
  BY <1>1, <1>2, <1>3 DEF FinalizeJob, At
<1>5. job[j] \in JobRow /\ LastGranted(j)
  BY DEF ReaperInv, ReaperTypes
<1>6. /\ row \in JobRow /\ row.granted = job[j].granted /\ row.lease = job[j].lease
      /\ row.state = state
  BY <1>1, <1>2, <1>5 DEF JobRow
<1>7. row.lease # NoLease => row.state \notin {"queued", "ended"}
  BY <1>1, <1>5, <1>6 DEF LastGranted, LeaseFree
<1>8. /\ job' \in [Jobs -> JobRow]
      /\ \A k \in Jobs : LastGranted(k)'
      /\ \A c \in Containers :
            LeaseOf(c) <= job[JobOf(c)].granted =>
               /\ LeaseOf(c) <= job'[JobOf(c)].granted
               /\ ~Owned(c) => ~Owned(c)'
  BY <1>4, <1>6, <1>7, RowKeeps
<1>9. /\ p \in ReaperPass /\ p.at = "finalize" /\ p.doomed = pass[l].doomed
      /\ p.todo = pass[l].todo \ {j}
  BY <1>3, <1>4, LeaderFacts DEF ReaperPass
<1>10. /\ ReaperTypes /\ pass'[l] = p
       /\ \A k \in Leaders : k # l => pass'[k] = pass[k]
  BY <1>4 DEF ReaperInv, ReaperTypes
<1>11. ReaperTypes'
  BY <1>4, <1>8, <1>9, <1>10 DEF ReaperTypes
<1>12. ASSUME NEW c \in Containers PROVE BornLater(c)'
  BY <1>4, <1>8 DEF ReaperInv, BornLater
<1>13. ASSUME NEW k \in Leaders, NEW c \in Containers PROVE Watched(k, c)'
  <2>1. Watched(k, c) /\ BornLater(c)
    BY DEF ReaperInv
  <2>2. CASE k = l
    BY <1>4, <1>8, <1>9, <1>10, <2>1, <2>2 DEF Watched, BornLater
  <2>3. CASE k # l
    BY <1>4, <1>8, <1>10, <2>1, <2>3 DEF Watched, BornLater
  <2> QED BY <2>2, <2>3
<1>14. ASSUME NEW k \in Leaders PROVE Accounted(k)'
  <2>1. Accounted(k)
    BY DEF ReaperInv
  <2> QED BY <1>4, <1>9, <1>10, <2>1 DEF Accounted
<1> QED BY <1>8, <1>11, <1>12, <1>13, <1>14 DEF ReaperInv

\* Time passes for the observations and for the unowned alike.
LEMMA TickKeeps ==
    ASSUME ReaperInv, Tick
    PROVE  ReaperInv'
<1>0. /\ ReaperTypes /\ job' = job /\ container' = container /\ listed' = listed
      /\ Grace \in Nat /\ PassTime \in Nat /\ None \notin Nat
  BY ReaperAssumption DEF ReaperInv, Tick, None
<1>1. ASSUME NEW l \in Leaders
      PROVE  /\ pass'[l] \in ReaperPass /\ pass'[l].at = pass[l].at
             /\ pass'[l].todo = pass[l].todo /\ pass'[l].doomed = pass[l].doomed
             /\ pass'[l].remaining = pass[l].remaining
  <2>1. pass'[l] = IF At(l, "idle") THEN pass[l] ELSE [pass[l] EXCEPT !.lag = pass[l].lag + 1]
    BY DEF Tick
  <2>2. ~At(l, "idle") => pass[l].lag + 1 \in 0 .. PassTime
    BY <1>0, LeaderFacts DEF Tick
  <2>3. CASE At(l, "idle")
    BY <2>1, <2>3, LeaderFacts
  <2>4. CASE ~At(l, "idle")
    <3>1. PICK lag \in 0 .. PassTime : lag = pass[l].lag + 1
      BY <2>2, <2>4
    <3>2. pass'[l] = [pass[l] EXCEPT !.lag = lag]
      BY <2>1, <2>4, <3>1
    <3>3. pass[l] \in ReaperPass
      BY LeaderFacts
    <3> QED BY <3>1, <3>2, <3>3 DEF ReaperPass
  <2> QED BY <2>3, <2>4
<1>2. ASSUME NEW l \in Leaders, NEW c \in Containers
      PROVE  /\ seen'[l][c] \in {None} \cup Nat
             /\ seen'[l][c] # None => /\ seen[l][c] # None
                                      /\ seen'[l][c] <= seen[l][c] + 1
                                      /\ seen'[l][c] <= Grace + PassTime
  <2>1. /\ seen'[l][c] = IF seen[l][c] = None THEN None
                         ELSE Cap(seen[l][c], Grace + PassTime)
        /\ seen[l][c] \in {None} \cup Nat
    BY LeaderFacts DEF Tick
  <2>2. CASE seen[l][c] = None
    BY <2>1, <2>2
  <2>3. CASE seen[l][c] # None
    <3>1. seen[l][c] \in Nat /\ Grace + PassTime \in Nat
      BY <1>0, <2>1, <2>3
    <3>2. seen'[l][c] = IF seen[l][c] < Grace + PassTime THEN seen[l][c] + 1 ELSE Grace + PassTime
      BY <2>1, <2>3 DEF Cap
    <3> QED BY <2>3, <3>1, <3>2
  <2> QED BY <2>2, <2>3
<1>3. ASSUME NEW c \in Containers
      PROVE  /\ unowned'[c] \in 0 .. Grace
             /\ (container[c] = "up" /\ ~Owned(c)) =>
                   unowned'[c] = Grace \/ unowned'[c] = unowned[c] + 1
  <2>1. /\ unowned'[c] = IF container[c] # "up" \/ Owned(c) THEN 0 ELSE Cap(unowned[c], Grace)
        /\ unowned[c] \in 0 .. Grace
    BY <1>0 DEF Tick, ReaperTypes
  <2> QED BY <1>0, <2>1 DEF Cap
<1>4. /\ pass' = [l \in Leaders |-> pass'[l]] /\ unowned' = [c \in Containers |-> unowned'[c]]
      /\ seen' = [l \in Leaders |-> [c \in Containers |-> seen'[l][c]]]
  BY DEF Tick
<1>5. ReaperTypes'
  <2>1. pass' \in [Leaders -> ReaperPass] /\ unowned' \in [Containers -> 0 .. Grace]
    BY <1>1, <1>3, <1>4
  <2>2. seen' \in [Leaders -> [Containers -> {None} \cup Nat]]
    BY <1>2, <1>4
  <2> QED BY <1>0, <2>1, <2>2 DEF ReaperTypes
<1>6. ASSUME NEW l \in Leaders, NEW c \in Containers PROVE Watched(l, c)'
  <2>1. Watched(l, c) /\ (Owned(c)' <=> Owned(c))
    BY <1>0 DEF ReaperInv, Owned
  <2>2. /\ unowned[c] \in 0 .. Grace /\ seen[l][c] \in {None} \cup Nat
    BY LeaderFacts
  <2>3. ASSUME seen'[l][c] # None, container[c] = "up"
        PROVE  unowned'[c] + PassTime >= seen'[l][c]
    <3>1. /\ ~Owned(c) /\ unowned[c] + PassTime >= seen[l][c] /\ seen[l][c] \in Nat
          /\ seen'[l][c] \in Nat
      BY <1>2, <2>1, <2>2, <2>3 DEF Watched
    <3> QED BY <1>0, <1>2, <1>3, <2>2, <2>3, <3>1
  <2>4. ASSUME c \in pass[l].doomed, container[c] = "up"
        PROVE  unowned'[c] + PassTime >= Grace
    <3>1. ~Owned(c) /\ unowned[c] + PassTime >= Grace
      BY <2>1, <2>4 DEF Watched
    <3> QED BY <1>0, <1>3, <2>2, <2>4, <3>1
  <2> QED BY <1>0, <1>1, <1>2, <2>1, <2>3, <2>4 DEF Watched
<1>7. ASSUME NEW l \in Leaders PROVE Accounted(l)'
  BY <1>0, <1>1, LeaderFacts DEF Accounted
<1>8. \A j \in Jobs : LastGranted(j)'
  BY <1>0 DEF ReaperInv, LastGranted
<1>9. \A c \in Containers : BornLater(c)'
  BY <1>0 DEF ReaperInv, BornLater
<1> QED BY <1>5, <1>6, <1>7, <1>8, <1>9 DEF ReaperInv

\* At first there is nothing to watch.
LEMMA ReaperInvInit == Init => ReaperInv
<1> SUFFICES ASSUME Init PROVE ReaperInv
  OBVIOUS
<1>1. MaxLeases \in Nat /\ Grace \in Nat /\ None = -1
  BY ReaperAssumption DEF None
<1>2. ReaperTypes
  BY <1>1, IdleFacts DEF Init, ReaperTypes, JobRow, NoLease
<1>3. /\ \A j \in Jobs : job[j].lease = NoLease
      /\ \A c \in Containers : container[c] = "unborn"
      /\ \A l \in Leaders : pass[l] = IdlePass /\ listed[l] = {}
      /\ \A l \in Leaders, c \in Containers : seen[l][c] = None
  BY DEF Init
<1>4. \A j \in Jobs : LastGranted(j)
  BY <1>3 DEF LastGranted
<1>5. \A c \in Containers : BornLater(c)
  BY <1>3 DEF BornLater
<1>6. \A l \in Leaders : \A c \in Containers : Watched(l, c)
  BY <1>3, IdleFacts DEF Watched
<1>7. \A l \in Leaders : Accounted(l)
  BY <1>3, IdleFacts DEF Accounted
<1> QED BY <1>2, <1>4, <1>5, <1>6, <1>7 DEF ReaperInv

\* Every step of a job, a worker, a leader or the clock.
LEMMA ReaperInvStep == ReaperInv /\ [Next]_vars => ReaperInv'
<1> SUFFICES ASSUME ReaperInv, [Next]_vars PROVE ReaperInv'
  OBVIOUS
<1>1. ASSUME NEW j \in Jobs, JobStep(j) PROVE ReaperInv'
  BY <1>1, JobStepKeeps
<1>2. ASSUME NEW c \in Containers, StartRuntime(c) PROVE ReaperInv'
  BY <1>2, StartRuntimeKeeps
<1>3. ASSUME NEW c \in Containers, StopRuntime(c) PROVE ReaperInv'
  BY <1>3, GoneKeeps DEF StopRuntime
<1>4. ASSUME NEW l \in Leaders, PassStep(l) \/ Restart(l) PROVE ReaperInv'
  <2>1. ASSUME NEW c \in Containers, Examine(l, c) \/ LookupFails(l, c) PROVE ReaperInv'
    BY <2>1, ExamineKeeps DEF Examine, LookupFails
  <2>2. ASSUME NEW c \in Containers, Reap(l, c) \/ ReapFails(l, c) PROVE ReaperInv'
    BY <2>2, ReapKeeps, ReapFailsKeeps
  <2> QED BY <1>4, <2>1, <2>2, PassEndsKeep, InventoryKeeps, FinishKeeps, FinalizeKeeps
          DEF PassStep
<1>5. CASE Tick
  BY <1>5, TickKeeps
<1>6. CASE UNCHANGED vars
  <2>1. /\ ReaperTypes' /\ \A l \in Leaders : Accounted(l)'
        /\ \A j \in Jobs : LastGranted(j)'
    BY <1>6 DEF vars, ReaperInv, ReaperTypes, Accounted, LastGranted
  <2>2. /\ \A c \in Containers : BornLater(c)'
        /\ \A l \in Leaders : \A c \in Containers : Watched(l, c)'
    BY <1>6 DEF vars, ReaperInv, BornLater, Watched, Owned
  <2> QED BY <2>1, <2>2 DEF ReaperInv
<1> QED BY <1>1, <1>2, <1>3, <1>4, <1>5, <1>6 DEF Next

\* ReaperInv holds throughout.
LEMMA ReaperInvAlways == Spec => []ReaperInv
BY ReaperInvInit, ReaperInvStep, PTL DEF Spec

\* reap removes no container whose lease is its job's, although the owner was
\* looked up before and the row may have changed since: a lease that a container
\* has lost is never granted again.
THEOREM OwnerAlwaysKept == Spec => []OwnerKept
<1>1. ReaperInv => OwnerKept
  BY LeaderFacts DEF OwnerKept, Watched
<1> QED BY <1>1, ReaperInvAlways, PTL

\* evaluate_reap leaves every container alone for the grace after it lost its
\* lease, less the duration of the pass that first saw it, however many passes,
\* failed lookups and restarts there are in between.
THEOREM GraceAlwaysKept == Spec => []GraceKept
<1>1. ReaperInv => GraceKept
  BY LeaderFacts DEF GraceKept, Watched
<1> QED BY <1>1, ReaperInvAlways, PTL

\* finalize_ready_jobs ends a job only when every container of it that the
\* inventory of its own pass had listed is gone.
THEOREM CleanupAlwaysFirst == Spec => FinalizedAfterCleanup
<1>1. ReaperInv /\ [Next]_vars =>
         [\A l \in Leaders, j \in Jobs :
             (At(l, "finalize") /\ Closing(j) /\ job'[j].state = "ended"
                 /\ pass'[l].todo = pass[l].todo \ {j} /\ j \in pass[l].todo)
               => \A c \in listed[l] : JobOf(c) = j => container[c] = "gone"]_vars
  BY LeaderFacts DEF Accounted, At
<1> QED BY <1>1, ReaperInvAlways, PTL DEF Spec, FinalizedAfterCleanup

=============================================================================
