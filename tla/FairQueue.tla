------------------------------ MODULE FairQueue ------------------------------
(***************************************************************************)
(* The bounded fairness buffer of crates/scheduler/src/fairness.rs as the  *)
(* dispatcher uses it (crates/scheduler/src/dispatcher.rs run,             *)
(* accept_delivery, dispatch_one, requeue): weighted round-robin over two  *)
(* lanes with an aging override for batch work, round-robin over the       *)
(* projects of a lane, first-in-first-out within a project.                *)
(*                                                                         *)
(* The dispatcher is one task.  It accepts deliveries or runs a dispatch   *)
(* pass, never both; during a pass it holds one popped entry in hand while *)
(* it talks to the database and a worker, then drops or requeues it.       *)
(*                                                                         *)
(* Simplifications.                                                        *)
(*  - A job id is its rank by (created_at, job_id).                        *)
(*  - An entry is aged once batch_aging has passed since enqueued_at; a    *)
(*    requeue keeps enqueued_at, so an aged entry stays aged while it is   *)
(*    in the buffer or in hand.                                            *)
(*  - The payload (the delivery to acknowledge) belongs to Delivery.       *)
(***************************************************************************)
EXTENDS Integers, Sequences, FiniteSets, Functions

CONSTANTS
    Jobs,              \* jobs, as ranks by (created_at, job_id)
    NoJob,
    Projects,
    LaneOf,            \* PriorityLane::from(mode) of each job
    ProjectOf,
    Capacity,          \* SCHEDULER_FAIRNESS_BUFFER_SIZE
    InteractiveWeight,
    BatchWeight,
    PullBatch          \* pull_batch_size: the budget of a dispatch pass

Lane == {"interactive", "batch"}

\* FairQueue::new refuses a buffer or a lane without room.
ASSUME FairAssumption ==
    /\ Jobs \subseteq Nat
    /\ NoJob \notin Jobs
    /\ IsFiniteSet(Projects)
    /\ LaneOf \in [Jobs -> Lane]
    /\ ProjectOf \in [Jobs -> Projects]
    /\ Capacity \in Nat \ {0}
    /\ InteractiveWeight \in Nat \ {0}
    /\ BatchWeight \in Nat \ {0}
    /\ InteractiveWeight + BatchWeight <= 1024
    /\ PullBatch \in Nat \ {0}

VARIABLES
    ring,     \* project_ring of each lane
    bucket,   \* entries of each lane and project, by rank
    jobIds,   \* job_ids
    len,      \* len
    cursor,   \* cursor, an index of the schedule
    forced,   \* last_pop_forced_aged_batch
    aged,     \* entries older than batch_aging
    hand,     \* the entry popped by dispatch_one, NoJob between two
    budget,   \* pops left in this dispatch pass
    passed,   \* ghost: pops that went to the other lane while one waited
    turns     \* ghost: pops of a lane that went to other projects

vars == <<ring, bucket, jobIds, len, cursor, forced, aged, hand, budget, passed,
          turns>>

queueVars == <<ring, bucket, jobIds, len>>

-------------------------------------------------------------------------------
(* The lanes.                                                              *)

Weight == InteractiveWeight + BatchWeight

\* schedule: the interactive slots, then the batch slots, counted from 0.
Slot(i) == IF i < InteractiveWeight THEN "interactive" ELSE "batch"

Other(lane) == IF lane = "batch" THEN "interactive" ELSE "batch"

\* LaneQueue::pop finds nothing when the ring is empty.
Waiting(lane) == ring[lane] # <<>>

Buffered(lane) == UNION {Range(bucket[lane][p]) : p \in Projects}

\* Fault: entries are kept in the order of their arrival.
FaultAppend(s, j) == Append(s, j)

\* binary_search_by and insert: behind the entries of a lower rank.
InsertByRank(s, j) ==
    LET position == Cardinality({i \in DOMAIN s : s[i] < j})
    IN  SubSeq(s, 1, position) \o <<j>> \o SubSeq(s, position + 1, Len(s))

\* Fault: a requeued project goes to the head of the ring.
FaultFrontOfRing(s, p) == <<p>> \o s

\* project_ring.push_back
BackOfRing(s, p) == Append(s, p)

-------------------------------------------------------------------------------
Init ==
    /\ ring = [lane \in Lane |-> <<>>]
    /\ bucket = [lane \in Lane |-> [p \in Projects |-> <<>>]]
    /\ jobIds = {}
    /\ len = 0
    /\ cursor = 0
    /\ forced = FALSE
    /\ aged = {}
    /\ hand = NoJob
    /\ budget = 0
    /\ passed = [lane \in Lane |-> 0]
    /\ turns = [lane \in Lane |-> [p \in Projects |-> 0]]

\* FairQueue::push of an entry that is neither a duplicate nor one too many,
\* and LaneQueue::push: a project without a bucket joins the end of the ring.
Push(j) ==
    LET lane == LaneOf[j]
        p    == ProjectOf[j]
    IN  /\ j \notin jobIds
        /\ len # Capacity
        /\ jobIds' = jobIds \cup {j}
        /\ len' = len + 1
        /\ bucket' = [bucket EXCEPT ![lane][p] = InsertByRank(@, j)]
        /\ ring' = IF bucket[lane][p] = <<>>
                   THEN [ring EXCEPT ![lane] = BackOfRing(@, p)]
                   ELSE ring

\* Fault: deliveries are accepted while an entry is in hand.
FaultAcceptsAnytime == budget = 0

\* The one task is in its select: no pass is running, no entry is in hand.
LoopIdle == budget = 0 /\ hand = NoJob

\* accept_delivery of a job to buffer, between two passes.  A job that is
\* already buffered only exchanges the delivery it holds; in a full buffer the
\* delivery is left to the stream.
Accept(j) ==
    /\ LoopIdle
    /\ Push(j)
    /\ aged' = aged \ {j}
    /\ UNCHANGED <<cursor, forced, hand, budget, passed, turns>>

\* A dispatch tick: at most one pull batch, and no more than is buffered now.
StartPass ==
    /\ LoopIdle
    /\ len > 0
    /\ budget' = IF len < PullBatch THEN len ELSE PullBatch
    /\ UNCHANGED <<ring, bucket, jobIds, len, cursor, forced, aged, hand, passed,
                   turns>>

\* Fault: the project goes to the end of the ring in any case.
FaultKeepsProject(s, p, rest) == BackOfRing(Tail(s), p)

\* The served project goes to the end of the ring if it has more.
RingAfter(s, p, rest) == IF rest = <<>> THEN Tail(s) ELSE BackOfRing(Tail(s), p)

\* LaneQueue::pop and pop_lane: the first entry of the first project.
PopLane(lane) ==
    LET p    == Head(ring[lane])
        j    == Head(bucket[lane][p])
        rest == Tail(bucket[lane][p])
    IN  /\ Waiting(lane)
        /\ hand' = j
        /\ bucket' = [bucket EXCEPT ![lane][p] = rest]
        /\ ring' = [ring EXCEPT ![lane] = RingAfter(@, p, rest)]
        /\ jobIds' = jobIds \ {j}
        /\ len' = len - 1
        /\ passed' = [l \in Lane |->
              IF l # lane /\ Waiting(l) THEN passed[l] + 1 ELSE 0]
        /\ turns' = [turns EXCEPT ![lane] = [q \in Projects |->
              IF q # p /\ bucket[lane][q] # <<>> THEN @[q] + 1 ELSE 0]]

\* Fault: an aged entry jumps the schedule as often as it likes.
FaultAlwaysForced == \E j \in Buffered("batch") : j \in aged

\* The oldest batch entry has aged, and the last pop was not an override.
AgingOverride ==
    /\ \E j \in Buffered("batch") : j \in aged
    /\ ~forced

\* pop, first case: a batch entry jumps the schedule.
PopAged ==
    /\ hand = NoJob
    /\ budget > 0
    /\ AgingOverride
    /\ forced' = TRUE
    /\ PopLane("batch")
    /\ budget' = budget - 1
    /\ UNCHANGED <<cursor, aged>>

\* The cursor stops behind the slot that was served.
CursorAfter(n) == (cursor + n + 1) % Weight

\* pop, second case: the first slot from the cursor on whose lane has work.
PopScheduled ==
    /\ hand = NoJob
    /\ budget > 0
    /\ ~AgingOverride
    /\ forced' = FALSE
    /\ \E n \in 0 .. (Weight - 1) :
          /\ \A k \in 0 .. (n - 1) : ~Waiting(Slot((cursor + k) % Weight))
          /\ PopLane(Slot((cursor + n) % Weight))
          /\ cursor' = CursorAfter(n)
    /\ budget' = budget - 1
    /\ UNCHANGED aged

\* dispatch_one is done with the entry: claimed, acknowledged, dead-lettered, or
\* lost to an error, in which case the stream delivers it again.
Settle ==
    /\ hand # NoJob
    /\ hand' = NoJob
    /\ UNCHANGED <<ring, bucket, jobIds, len, cursor, forced, aged, budget, passed,
                   turns>>

\* requeue: no worker, no quota, or an owner to wait for.
Requeue ==
    /\ hand # NoJob
    /\ Push(hand)
    /\ hand' = NoJob
    /\ UNCHANGED <<cursor, forced, aged, budget, passed, turns>>

\* Time passes for one entry.
Age(j) ==
    /\ j \in jobIds \ aged
    /\ LaneOf[j] = "batch"
    /\ aged' = aged \cup {j}
    /\ UNCHANGED <<ring, bucket, jobIds, len, cursor, forced, hand, budget, passed,
                   turns>>

Pop == PopAged \/ PopScheduled

Next ==
    \/ \E j \in Jobs : Accept(j) \/ Age(j)
    \/ StartPass
    \/ Pop
    \/ Settle
    \/ Requeue

Spec == Init /\ [][Next]_vars

-------------------------------------------------------------------------------
(* Properties.                                                             *)

\* "project ring and buckets stay synchronized": the ring names each project
\* that has entries once, so the expect of LaneQueue::pop cannot panic and no
\* entry is out of reach; job_ids and len agree with the buckets, and a
\* pass never asks an empty buffer for an entry.
Synchronized ==
    /\ \A lane \in Lane :
          /\ Range(ring[lane]) = {p \in Projects : bucket[lane][p] # <<>>}
          /\ Len(ring[lane]) = Cardinality(Range(ring[lane]))
    /\ jobIds = Buffered("interactive") \cup Buffered("batch")
    /\ len = Cardinality(jobIds)
    /\ budget <= len

\* A popped entry can always go back: nothing fills its place, and nothing
\* brings the same job in, while the dispatcher has it in hand.
RequeueFits == hand # NoJob => hand \notin jobIds /\ len < Capacity

\* The lanes do not starve each other, although batch entries may jump the
\* schedule and requeued ones stay aged: waiting batch work is passed over by at
\* most InteractiveWeight pops, waiting interactive work by at most
\* 2 * BatchWeight + 1.
LaneWaitBounded ==
    /\ Waiting("batch") => passed["batch"] <= InteractiveWeight
    /\ Waiting("interactive") => passed["interactive"] <= 2 * BatchWeight + 1

\* Within a lane a waiting project is passed over at most once by each other,
\* however often another project's entry is popped and requeued.
ProjectWaitBounded ==
    \A lane \in Lane, p \in Projects :
        bucket[lane][p] # <<>> => turns[lane][p] < Cardinality(Projects)

\* "FIFO ordering by canonical creation time and job ID within each project",
\* whatever order deliveries and requeues come in.
ServedInOrder ==
    [][hand' # hand /\ hand' # NoJob
          => \A j \in jobIds : LaneOf[j] = LaneOf[hand'] /\ ProjectOf[j] = ProjectOf[hand']
                                  => hand' <= j]_vars
=============================================================================
