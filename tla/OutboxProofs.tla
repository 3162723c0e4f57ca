----------------------------- MODULE OutboxProofs -----------------------------
(***************************************************************************)
(* published_at tells the truth on every channel, for every number of rows *)
(* and of tasks, with shared or separate dispatcher ids; and every backoff *)
(* keeps to its bounds.                                                    *)
(***************************************************************************)
EXTENDS Outbox, FiniteSetTheorems, TLAPS

\* backoff_for returns at least one millisecond and never more than
\* max_backoff, whatever the attempt (`capped' is the exponential delay after
\* its first cap) and the hash of row and attempt: the retry delays of the model
\* are all there are.
THEOREM BackoffBounded ==
    ASSUME NEW max \in Nat \ {0}, NEW capped \in 0 .. max, NEW mixed \in Nat
    PROVE  Jittered(capped, mixed, max) \in 1 .. max
<1> DEFINE scaled == (capped * (75 + (mixed % 51))) \div 100
<1>1. mixed % 51 \in 0 .. 50
  OBVIOUS
<1>2. capped * (75 + (mixed % 51)) \in Nat
  BY <1>1
<1>3. scaled \in Nat
  BY <1>2
<1> HIDE DEF scaled
<1>4. Greatest(Least(scaled, max), 1) \in 1 .. max
  BY <1>3 DEF Greatest, Least
<1> QED BY <1>4 DEF Jittered, scaled

\* A row that some task is about to mark was accepted by the stream, or its
\* webhook had been deactivated.
MarksDeserved ==
    /\ table \in [Rows -> Row]
    /\ phase \in [Tasks -> [Rows -> {"idle", "publish", "mark", "retry"}]]
    /\ \A t \in Tasks, r \in Rows : phase[t][r] = "mark" => r \in stored \/ ~active
    /\ PublishedMeansStored

\* A row loses nothing when the stream accepts more or the webhook goes away.
LEMMA StaysDeserved ==
    ASSUME MarksDeserved, stored \subseteq stored', active' => active,
           table' \in [Rows -> Row],
           phase' \in [Tasks -> [Rows -> {"idle", "publish", "mark", "retry"}]],
           \A r \in Rows : table'[r].state = "published"
                              => \/ table[r].state = "published"
                                 \/ \E t \in Tasks : phase[t][r] = "mark",
           \A t \in Tasks, r \in Rows :
              phase'[t][r] = "mark" => phase[t][r] = "mark" \/ r \in stored' \/ ~active'
    PROVE  MarksDeserved'
BY DEF MarksDeserved, PublishedMeansStored

\* A task that is done with a row, or with its batch, marks nothing more.
LEMMA FailureType ==
    ASSUME MarksDeserved, NEW t \in Tasks, NEW r \in Rows,
           AfterFailure(t, r) \/ Settle(t, r)
    PROVE  /\ phase' \in [Tasks -> [Rows -> {"idle", "publish", "mark", "retry"}]]
           /\ \A u \in Tasks, q \in Rows :
                 phase'[u][q] = "mark" => phase[u][q] = "mark"
BY DEF AfterFailure, Settle, GiveUp, MarksDeserved

\* The values of the two clocks of a row, without their arithmetic.
Ages == 0 .. LeaseTimeout
Delays == 0 .. MaxDelay

\* The fields of a row, with the intervals named.
LEMMA RowFields ==
    /\ Row = [state : {"absent", "pending", "published"}, by : Ids \cup {NoId},
              age : Ages, delay : Delays]
    /\ 0 \in Ages /\ 0 \in Delays /\ RetryDelays \subseteq Delays
BY OutboxAssumption DEF Row, Ages, Delays, RetryDelays

\* What lease_row writes is a row, in the state it was.
LEMMA LeasedRow ==
    ASSUME NEW row \in Row, NEW by \in Ids
    PROVE  /\ [row EXCEPT !.by = by, !.age = 0] \in Row
           /\ [row EXCEPT !.by = by, !.age = 0].state = row.state
BY RowFields

\* What mark_outbox_published writes is a row.
LEMMA MarkedRow ==
    ASSUME NEW row \in Row
    PROVE  [row EXCEPT !.state = "published", !.by = NoId, !.age = 0] \in Row
BY RowFields

\* What retry_outbox_message writes is a row, in the state it was.
LEMMA RetriedRow ==
    ASSUME NEW row \in Row, NEW delay \in RetryDelays
    PROVE  /\ [row EXCEPT !.by = NoId, !.age = 0, !.delay = delay] \in Row
           /\ [row EXCEPT !.by = NoId, !.age = 0, !.delay = delay].state = row.state
BY RowFields

\* Every step keeps the marks deserved.
LEMMA MarksDeservedStep ==
    ASSUME MarksDeserved, id \in [Tasks -> Ids], [Next]_vars
    PROVE  MarksDeserved'
<1> USE OutboxAssumption
<1>t. /\ table \in [Rows -> Row]
      /\ phase \in [Tasks -> [Rows -> {"idle", "publish", "mark", "retry"}]]
  BY DEF MarksDeserved
<1>1. ASSUME NEW r \in Rows, InsertRow(r) PROVE MarksDeserved'
  <2>1. table' \in [Rows -> Row]
    BY <1>1, <1>t DEF InsertRow, Row
  <2>2. \A q \in Rows : table'[q].state = "published" => table[q].state = "published"
    BY <1>1, <1>t DEF InsertRow, Row
  <2> QED BY <1>1, <1>t, <2>1, <2>2, StaysDeserved DEF InsertRow
<1>2. CASE Deactivate
  BY <1>2, <1>t, StaysDeserved DEF Deactivate
<1>3. ASSUME NEW t \in Tasks, Lease(t) PROVE MarksDeserved'
  <2>1. /\ table' = [q \in Rows |-> table'[q]]
        /\ \A q \in Rows :
              table'[q] \in {table[q], [table[q] EXCEPT !.by = id[t], !.age = 0]}
    BY <1>3 DEF Lease
  <2>2. ASSUME NEW q \in Rows
        PROVE  table'[q] \in Row /\ table'[q].state = table[q].state
    <3>1. table[q] \in Row /\ id[t] \in Ids
      BY <1>t
    <3> DEFINE new == [table[q] EXCEPT !.by = id[t], !.age = 0]
    <3>2. new \in Row /\ new.state = table[q].state
      BY <3>1, LeasedRow
    <3> HIDE DEF new
    <3>3. table'[q] \in {table[q], new}
      BY <2>1 DEF new
    <3> QED BY <3>1, <3>2, <3>3
  <2>3. table' \in [Rows -> Row]
    BY <2>1, <2>2
  <2>4. /\ phase' \in [Tasks -> [Rows -> {"idle", "publish", "mark", "retry"}]]
        /\ \A u \in Tasks, q \in Rows :
              phase'[u][q] = "mark" => phase[u][q] = "mark"
    <3>1. PICK b \in Leasable :
             phase' = [phase EXCEPT ![t] = [q \in Rows |->
                IF q \in Range(b) THEN "publish" ELSE @[q]]]
      BY <1>3 DEF Lease
    <3> QED BY <1>t, <3>1
  <2>5. stored' = stored /\ active' = active
    BY <1>3 DEF Lease
  <2> QED BY <2>2, <2>3, <2>4, <2>5, StaysDeserved
<1>4. ASSUME NEW t \in Tasks, NEW r \in Rows, PublishOk(t, r) PROVE MarksDeserved'
  <2>1. table' = table /\ active' = active /\ stored \subseteq stored'
        /\ (r \in stored' \/ ~active)
    BY <1>4 DEF PublishOk
  <2>2. phase' = [phase EXCEPT ![t][r] = "mark"]
    BY <1>4 DEF PublishOk
  <2>3. phase' \in [Tasks -> [Rows -> {"idle", "publish", "mark", "retry"}]]
    BY <1>t, <2>2
  <2>4. \A u \in Tasks, q \in Rows :
           phase'[u][q] = "mark" => phase[u][q] = "mark" \/ q \in stored' \/ ~active'
    BY <1>t, <2>1, <2>2
  <2> QED BY <1>t, <2>1, <2>3, <2>4, StaysDeserved
<1>5. ASSUME NEW t \in Tasks, NEW r \in Rows, PublishFails(t, r)
      PROVE  MarksDeserved'
  <2>1. table' = table /\ active' = active /\ stored \subseteq stored'
    BY <1>5 DEF PublishFails
  <2>2. phase' = [phase EXCEPT ![t][r] = "retry"]
    BY <1>5 DEF PublishFails
  <2>3. phase' \in [Tasks -> [Rows -> {"idle", "publish", "mark", "retry"}]]
    BY <1>t, <2>2
  <2>4. \A u \in Tasks, q \in Rows : phase'[u][q] = "mark" => phase[u][q] = "mark"
    BY <1>t, <2>2
  <2> QED BY <1>t, <2>1, <2>3, <2>4, StaysDeserved
<1>6. ASSUME NEW t \in Tasks, NEW r \in Rows, MarkPublished(t, r)
      PROVE  MarksDeserved'
  <2>1. /\ table' = [table EXCEPT ![r] =
                        [@ EXCEPT !.state = "published", !.by = NoId, !.age = 0]]
        /\ phase[t][r] = "mark" /\ stored' = stored /\ active' = active
        /\ Settle(t, r)
    BY <1>6 DEF MarkPublished
  <2> DEFINE new == [table[r] EXCEPT !.state = "published", !.by = NoId, !.age = 0]
  <2>a. new \in Row
    BY <1>t, MarkedRow
  <2>b. table' = [table EXCEPT ![r] = new]
    BY <2>1
  <2> HIDE DEF new
  <2>2. table' \in [Rows -> Row]
    BY <1>t, <2>a, <2>b
  <2>3. \A q \in Rows : q # r => table'[q] = table[q]
    BY <1>t, <2>1
  <2> QED BY <2>1, <2>2, <2>3, FailureType, StaysDeserved
<1>7. ASSUME NEW t \in Tasks, NEW r \in Rows, Retry(t, r) PROVE MarksDeserved'
  <2>1. PICK d \in RetryDelays :
           table' = [table EXCEPT ![r] =
                        [@ EXCEPT !.by = NoId, !.age = 0, !.delay = d]]
    BY <1>7 DEF Retry
  <2> DEFINE new == [table[r] EXCEPT !.by = NoId, !.age = 0, !.delay = d]
  <2>a. new \in Row /\ new.state = table[r].state
    <3>1. table[r] \in Row
      BY <1>t
    <3> QED BY <3>1, RetriedRow
  <2>b. table' = [table EXCEPT ![r] = new]
    BY <2>1
  <2> HIDE DEF new
  <2>2. table' \in [Rows -> Row]
    BY <1>t, <2>a, <2>b
  <2>3. \A q \in Rows : table'[q].state = table[q].state
    BY <1>t, <2>a, <2>b
  <2>4. AfterFailure(t, r) /\ stored' = stored /\ active' = active
    BY <1>7 DEF Retry
  <2> QED BY <2>2, <2>3, <2>4, FailureType, StaysDeserved
<1>8. ASSUME NEW t \in Tasks, NEW r \in Rows, SettleLost(t, r) PROVE MarksDeserved'
  BY <1>8, <1>t, FailureType, StaysDeserved DEF SettleLost
<1>9. ASSUME NEW i \in Ids, Crash(i) PROVE MarksDeserved'
  <2>1. table' = table /\ stored' = stored /\ active' = active
    BY <1>9 DEF Crash
  <2>2. /\ phase' \in [Tasks -> [Rows -> {"idle", "publish", "mark", "retry"}]]
        /\ \A u \in Tasks, q \in Rows :
              phase'[u][q] = "mark" => phase[u][q] = "mark"
    BY <1>9, <1>t DEF Crash
  <2> QED BY <1>t, <2>1, <2>2, StaysDeserved
<1>10. CASE TimePasses
  <2> DEFINE older(r) == [table[r] EXCEPT
          !.delay = Greatest(@ - 1, 0),
          !.age   = IF table[r].by = NoId THEN 0 ELSE Least(@ + 1, LeaseTimeout)]
  <2>1. table' = [r \in Rows |-> older(r)]
    BY <1>10 DEF TimePasses
  <2>2. \A r \in Rows : older(r) \in Row /\ older(r).state = table[r].state
    <3> SUFFICES ASSUME NEW r \in Rows
                 PROVE  older(r) \in Row /\ older(r).state = table[r].state
      OBVIOUS
    <3>1. table[r] \in Row
      BY <1>t
    <3>2. Greatest(table[r].delay - 1, 0) \in 0 .. MaxDelay
      BY <3>1 DEF Row, Greatest
    <3>3. Least(table[r].age + 1, LeaseTimeout) \in 0 .. LeaseTimeout
      BY <3>1 DEF Row, Least
    <3> DEFINE delay == Greatest(table[r].delay - 1, 0)
               age == IF table[r].by = NoId THEN 0
                                            ELSE Least(table[r].age + 1, LeaseTimeout)
    <3>4. older(r) = [table[r] EXCEPT !.delay = delay, !.age = age]
      OBVIOUS
    <3>5. delay \in Delays /\ age \in Ages
      BY <3>2, <3>3, RowFields DEF Delays, Ages
    <3> HIDE DEF delay, age, older
    <3> QED BY <3>1, <3>4, <3>5, RowFields
  <2> HIDE DEF older
  <2>3. /\ table' \in [Rows -> Row]
        /\ \A r \in Rows : table'[r].state = table[r].state
    BY <2>1, <2>2
  <2>4. phase' = phase /\ stored' = stored /\ active' = active
    BY <1>10 DEF TimePasses
  <2> QED BY <1>t, <2>3, <2>4, StaysDeserved
<1>11. CASE UNCHANGED vars
  BY <1>11, <1>t, StaysDeserved DEF vars
<1> QED BY <1>1, <1>2, <1>3, <1>4, <1>5, <1>6, <1>7, <1>8, <1>9, <1>10, <1>11
        DEF Next, TaskStep, Tick, Stall

\* mark_outbox_published runs only for rows the stream (or the webhook's
\* endpoint) has accepted, or whose webhook was deactivated, although it knows
\* the holder of a row by its dispatcher id alone.
THEOREM PublishedAlwaysStored == Spec => []PublishedMeansStored
<1> DEFINE Inv == MarksDeserved /\ id \in [Tasks -> Ids]
<1>1. Init => Inv
  BY OutboxAssumption DEF Init, MarksDeserved, PublishedMeansStored, NoRow, Row
<1>2. Inv /\ [Next]_vars => Inv'
  <2>1. [Next]_vars => id' = id
    BY Zenon DEF Next, InsertRow, Deactivate, TaskStep, Lease, PublishOk,
       PublishFails, MarkPublished, Retry, SettleLost, Crash, Tick, Stall,
       TimePasses, vars
  <2> QED BY <2>1, MarksDeservedStep
<1>3. Inv => PublishedMeansStored
  BY DEF MarksDeserved
<1> QED BY <1>1, <1>2, <1>3, PTL DEF Spec

-------------------------------------------------------------------------------
(* Exclusive leases.                                                       *)

\* A task is at work only on rows of its batch; and a process that waits for an
\* acknowledgement, with a timer and an id of its own, holds the row's lock, which
\* is no older than its batch.
LeasesHeld ==
    /\ batch \in [Tasks -> Seq(Rows)]
    /\ elapsed \in [Tasks -> 0 .. PublishTimeout]
    /\ \A t \in Tasks, r \in Rows : phase[t][r] # "idle" => r \in Range(batch[t])
    /\ Timed => \A t, u \in Tasks : id[t] = id[u] => t = u
    /\ Timed => \A t \in Tasks, r \in Rows :
                   phase[t][r] = "publish" =>
                      HoldsLock(t, r) /\ table[r].age <= elapsed[t]

ExclusiveInv == MarksDeserved /\ id \in [Tasks -> Ids] /\ LeasesHeld

\* What Without leaves.
LEMMA WithoutRange ==
    ASSUME NEW s \in Seq(Rows), NEW r
    PROVE  /\ Without(s, r) \in Seq(Rows)
           /\ \A q \in Range(s) : q # r => q \in Range(Without(s, r))
<1>1. CASE r \notin Range(s)
  BY <1>1 DEF Without
<1>2. CASE r \in Range(s)
  <2>1. PICK i \in DOMAIN s : i = (CHOOSE j \in DOMAIN s : s[j] = r) /\ s[i] = r
    BY <1>2 DEF Range
  <2>2. PICK n \in Nat : n = Len(s) /\ DOMAIN s = 1 .. n /\ \A k \in 1 .. n : s[k] \in Rows
    OBVIOUS
  <2>3. PICK w : w = [k \in 1 .. (n - 1) |-> IF k < i THEN s[k] ELSE s[k + 1]]
    OBVIOUS
  <2>4. Without(s, r) = w
    BY <1>2, <2>1, <2>2, <2>3 DEF Without
  <2>5. i \in 1 .. n /\ n - 1 \in Nat
    BY <2>1, <2>2
  <2>6. w \in [1 .. (n - 1) -> Rows]
    BY <2>2, <2>3, <2>5
  <2>7. w \in Seq(Rows)
    BY <2>5, <2>6
  <2>8. ASSUME NEW q \in Range(s), q # r PROVE q \in Range(w)
    <3>1. PICK k \in 1 .. n : s[k] = q
      BY <2>2 DEF Range
    <3>2. CASE k < i
      <4>1. k \in 1 .. (n - 1) /\ w[k] = q
        BY <2>3, <2>5, <3>1, <3>2
      <4> QED BY <2>6, <4>1 DEF Range
    <3>3. CASE ~(k < i)
      <4>1. k # i
        BY <2>1, <2>8, <3>1
      <4>2. k - 1 \in 1 .. (n - 1) /\ ~(k - 1 < i) /\ (k - 1) + 1 = k
        BY <2>5, <3>1, <3>3, <4>1
      <4>3. w[k - 1] = q
        BY <2>3, <3>1, <4>2
      <4> QED BY <2>6, <4>2, <4>3 DEF Range
    <3> QED BY <3>2, <3>3
  <2> QED BY <2>4, <2>7, <2>8
<1> QED BY <1>1, <1>2

\* The batch of a task that has none is empty of rows.
LEMMA EmptyRange == Range(<<>>) = {} /\ <<>> \in Seq(Rows)
BY DEF Range

\* What a lease takes: a sequence of due rows.
LEMMA LeasableRows ==
    ASSUME NEW b \in Leasable
    PROVE  b \in Seq(Rows) /\ Range(b) \subseteq Due
<1>1. IsFiniteSet(Due)
  BY OutboxAssumption, FS_Subset DEF Due
<1>2. Cardinality(Due) \in Nat
  BY <1>1, FS_CardinalityType
<1>3. PICK n \in Nat : n = Least(Cardinality(Due), Batch)
  BY <1>2, OutboxAssumption DEF Least
<1>4. b \in [1 .. n -> Due]
  BY <1>3 DEF Leasable
<1> QED BY <1>4 DEF Range, Due

\* A task is done with one row, or with its batch.
LEMMA FailureHeld ==
    ASSUME ExclusiveInv, NEW t \in Tasks, NEW r \in Rows,
           AfterFailure(t, r) \/ Settle(t, r)
    PROVE  /\ batch' \in [Tasks -> Seq(Rows)]
           /\ \A u \in Tasks, q \in Rows :
                 /\ phase'[u][q] \in {"idle", phase[u][q]}
                 /\ u = t /\ q = r => phase'[u][q] = "idle"
                 /\ phase'[u][q] # "idle" => q \in Range(batch'[u])
<1>0. /\ batch \in [Tasks -> Seq(Rows)]
      /\ phase \in [Tasks -> [Rows -> {"idle", "publish", "mark", "retry"}]]
      /\ \A u \in Tasks, q \in Rows : phase[u][q] # "idle" => q \in Range(batch[u])
  BY DEF ExclusiveInv, LeasesHeld, MarksDeserved
<1>1. CASE Settle(t, r)
  <2>1. /\ batch' = [batch EXCEPT ![t] = Without(batch[t], r)]
        /\ phase' = [phase EXCEPT ![t][r] = "idle"]
    BY <1>1 DEF Settle
  <2>2. /\ Without(batch[t], r) \in Seq(Rows)
        /\ \A q \in Range(batch[t]) : q # r => q \in Range(Without(batch[t], r))
    BY <1>0, WithoutRange
  <2>3. batch' \in [Tasks -> Seq(Rows)]
    BY <1>0, <2>1, <2>2
  <2>4. ASSUME NEW u \in Tasks, NEW q \in Rows
        PROVE  /\ phase'[u][q] \in {"idle", phase[u][q]}
               /\ u = t /\ q = r => phase'[u][q] = "idle"
               /\ phase'[u][q] # "idle" => q \in Range(batch'[u])
    BY <1>0, <2>1, <2>2
  <2> QED BY <2>3, <2>4
<1>2. CASE GiveUp(t)
  <2>1. batch' \in [Tasks -> Seq(Rows)]
    BY <1>0, <1>2, EmptyRange DEF GiveUp
  <2>2. ASSUME NEW u \in Tasks, NEW q \in Rows
        PROVE  /\ phase'[u][q] \in {"idle", phase[u][q]}
               /\ u = t /\ q = r => phase'[u][q] = "idle"
               /\ phase'[u][q] # "idle" => q \in Range(batch'[u])
    BY <1>0, <1>2 DEF GiveUp
  <2> QED BY <2>1, <2>2
<1> QED BY <1>1, <1>2 DEF AfterFailure

\* A row that another task writes under its own lock is not one that a process is
\* waiting for.
LEMMA OthersRow ==
    ASSUME ExclusiveInv, Timed, NEW t \in Tasks, NEW u \in Tasks, NEW r \in Rows,
           HoldsLock(t, r), phase[t][r] # "publish"
    PROVE  phase[u][r] # "publish"
BY DEF ExclusiveInv, LeasesHeld, HoldsLock

\* Every step keeps the leases.
LEMMA LeasesHeldStep ==
    ASSUME ExclusiveInv, [Next]_vars
    PROVE  LeasesHeld'
<1>t. /\ table \in [Rows -> Row] /\ batch \in [Tasks -> Seq(Rows)]
      /\ elapsed \in [Tasks -> 0 .. PublishTimeout] /\ id \in [Tasks -> Ids]
      /\ phase \in [Tasks -> [Rows -> {"idle", "publish", "mark", "retry"}]]
      /\ \A u \in Tasks, q \in Rows : phase[u][q] # "idle" => q \in Range(batch[u])
      /\ Timed => \A u, v \in Tasks : id[u] = id[v] => u = v
      /\ Timed => \A u \in Tasks, q \in Rows :
                     phase[u][q] = "publish" =>
                        HoldsLock(u, q) /\ table[q].age <= elapsed[u]
  BY DEF ExclusiveInv, LeasesHeld, MarksDeserved
<1>c. /\ NoId \notin Ids /\ LeaseTimeout \in Nat /\ PublishTimeout \in Nat
      /\ PublishTimeout < LeaseTimeout
  BY OutboxAssumption, ConfigAssumption
<1>i. id' = id /\ (Timed' <=> Timed)
  BY Zenon DEF Next, InsertRow, Deactivate, TaskStep, Lease, PublishOk,
       PublishFails, MarkPublished, Retry, SettleLost, Crash, Tick, Stall,
       TimePasses, vars, Timed
<1>q. ASSUME batch' \in [Tasks -> Seq(Rows)], elapsed' = elapsed,
             \A u \in Tasks, q \in Rows :
                /\ phase'[u][q] # "idle" => q \in Range(batch'[u])
                /\ phase'[u][q] = "publish" => phase[u][q] = "publish"
                /\ (Timed /\ phase'[u][q] = "publish") => table'[q] = table[q]
      PROVE  LeasesHeld'
  BY <1>q, <1>t, <1>i DEF LeasesHeld, HoldsLock, Pending
<1>1. ASSUME NEW r \in Rows, InsertRow(r) PROVE LeasesHeld'
  <2>1. /\ batch' = batch /\ phase' = phase /\ elapsed' = elapsed
        /\ table[r].state = "absent"
        /\ \A q \in Rows : q # r => table'[q] = table[q]
    BY <1>1, <1>t DEF InsertRow
  <2>2. Timed => \A u \in Tasks : phase[u][r] # "publish"
    BY <1>t, <2>1 DEF HoldsLock, Pending
  <2> QED BY <1>q, <1>t, <2>1, <2>2
<1>2. CASE Deactivate
  BY <1>2, <1>q, <1>t DEF Deactivate
<1>3. ASSUME NEW t \in Tasks, Lease(t) PROVE LeasesHeld'
  <2>1. PICK b \in Leasable :
           /\ batch' = [batch EXCEPT ![t] = b]
           /\ table' = [r \in Rows |->
                 IF r \in Range(b) THEN [table[r] EXCEPT !.by = id[t], !.age = 0]
                 ELSE table[r]]
           /\ phase' = [phase EXCEPT ![t] = [r \in Rows |->
                 IF r \in Range(b) THEN "publish" ELSE @[r]]]
    BY <1>3 DEF Lease
  <2>2. /\ batch[t] = <<>> /\ elapsed' = [elapsed EXCEPT ![t] = 0]
    BY <1>3 DEF Lease
  <2>3. b \in Seq(Rows) /\ Range(b) \subseteq Due
    BY LeasableRows
  <2>4. /\ batch' \in [Tasks -> Seq(Rows)] /\ elapsed' \in [Tasks -> 0 .. PublishTimeout]
        /\ elapsed'[t] = 0 /\ \A u \in Tasks : u # t => elapsed'[u] = elapsed[u]
    <3>1. 0 \in 0 .. PublishTimeout
      BY <1>c
    <3> QED BY <1>t, <2>1, <2>2, <2>3, <3>1
  <2>5. \A q \in Rows : phase[t][q] = "idle"
    BY <1>t, <2>2, EmptyRange
  <2>6. /\ \A q \in Rows : phase'[t][q] = IF q \in Range(b) THEN "publish" ELSE "idle"
        /\ \A u \in Tasks : u # t => phase'[u] = phase[u] /\ batch'[u] = batch[u]
        /\ batch'[t] = b
    BY <1>t, <2>1, <2>5
  <2>7. \A u \in Tasks, q \in Rows : phase'[u][q] # "idle" => q \in Range(batch'[u])
    BY <1>t, <2>6
  <2>8. ASSUME Timed, NEW u \in Tasks, NEW q \in Rows, phase'[u][q] = "publish"
        PROVE  HoldsLock(u, q)' /\ table'[q].age <= elapsed'[u]
    <3>1. CASE u = t
      <4>1. q \in Range(b)
        BY <2>6, <2>8, <3>1
      <4>2. q \in Due
        BY <2>3, <4>1
      <4>3. table'[q] = [table[q] EXCEPT !.by = id[t], !.age = 0] /\ table[q] \in Row
        BY <1>t, <2>1, <4>1
      <4>4. table'[q].state = "pending" /\ table'[q].by = id[t] /\ table'[q].age = 0
        BY <4>2, <4>3 DEF Due, Pending, Row
      <4> QED BY <1>i, <2>4, <3>1, <4>4 DEF HoldsLock, Pending
    <3>2. CASE u # t
      <4>1. phase[u][q] = "publish" /\ HoldsLock(u, q) /\ table[q].age <= elapsed[u]
        BY <1>t, <2>6, <2>8, <3>2
      <4>2. q \notin Due
        <5>1. table[q].by # NoId
          BY <1>t, <1>c, <4>1 DEF HoldsLock
        <5>2. table[q].age # LeaseTimeout
          <6>1. elapsed[u] \in 0 .. PublishTimeout
            BY <1>t
          <6> QED BY <1>c, <4>1, <6>1
        <5> QED BY <5>1, <5>2 DEF Due
      <4>3. table'[q] = table[q]
        BY <2>1, <2>3, <4>2
      <4> QED BY <1>i, <2>4, <3>2, <4>1, <4>3 DEF HoldsLock, Pending
    <3> QED BY <3>1, <3>2
  <2> QED BY <1>t, <1>i, <2>4, <2>7, <2>8 DEF LeasesHeld
<1>4. ASSUME NEW t \in Tasks, NEW r \in Rows, PublishOk(t, r) \/ PublishFails(t, r)
      PROVE  LeasesHeld'
  <2>1. /\ phase[t][r] = "publish" /\ table' = table /\ batch' = batch /\ elapsed' = elapsed
        /\ \E to \in {"mark", "retry"} : phase' = [phase EXCEPT ![t][r] = to]
    BY <1>4 DEF PublishOk, PublishFails
  <2>2. \A u \in Tasks, q \in Rows :
           /\ phase'[u][q] # "idle" => phase[u][q] # "idle"
           /\ phase'[u][q] = "publish" => phase[u][q] = "publish"
    BY <1>t, <2>1
  <2> QED BY <1>q, <1>t, <2>1, <2>2
<1>5. ASSUME NEW t \in Tasks, NEW r \in Rows, MarkPublished(t, r) \/ Retry(t, r)
      PROVE  LeasesHeld'
  <2>1. /\ phase[t][r] # "publish" /\ HoldsLock(t, r) /\ elapsed' = elapsed
        /\ AfterFailure(t, r) \/ Settle(t, r)
    BY <1>5 DEF MarkPublished, Retry
  <2>2. \A q \in Rows : q # r => table'[q] = table[q]
    BY <1>5, <1>t DEF MarkPublished, Retry
  <2>3. Timed => \A u \in Tasks : phase[u][r] # "publish"
    BY <2>1, OthersRow
  <2>4. /\ batch' \in [Tasks -> Seq(Rows)]
        /\ \A u \in Tasks, q \in Rows :
              /\ phase'[u][q] \in {"idle", phase[u][q]}
              /\ phase'[u][q] # "idle" => q \in Range(batch'[u])
    BY <2>1, FailureHeld
  <2> QED BY <1>q, <2>1, <2>2, <2>3, <2>4
<1>6. ASSUME NEW t \in Tasks, NEW r \in Rows, SettleLost(t, r) PROVE LeasesHeld'
  <2>1. AfterFailure(t, r) /\ table' = table /\ elapsed' = elapsed
    BY <1>6 DEF SettleLost
  <2>2. /\ batch' \in [Tasks -> Seq(Rows)]
        /\ \A u \in Tasks, q \in Rows :
              /\ phase'[u][q] \in {"idle", phase[u][q]}
              /\ phase'[u][q] # "idle" => q \in Range(batch'[u])
    BY <2>1, FailureHeld
  <2> QED BY <1>q, <2>1, <2>2
<1>7. ASSUME NEW i \in Ids, Crash(i) PROVE LeasesHeld'
  <2>1. table' = table /\ elapsed' = elapsed
    BY <1>7 DEF Crash
  <2>2. batch' \in [Tasks -> Seq(Rows)]
    BY <1>7, <1>t, EmptyRange DEF Crash
  <2>3. \A u \in Tasks, q \in Rows :
           /\ phase'[u][q] \in {"idle", phase[u][q]}
           /\ phase'[u][q] # "idle" => batch'[u] = batch[u]
    BY <1>7, <1>t DEF Crash
  <2> QED BY <1>q, <1>t, <2>1, <2>2, <2>3
<1>8. CASE TimePasses
  <2>1. /\ batch' = batch /\ phase' = phase /\ \A u \in Tasks : ~TimerDue(u)
        /\ elapsed' = [u \in Tasks |->
              IF batch[u] = <<>> THEN 0 ELSE Least(elapsed[u] + 1, PublishTimeout)]
    BY <1>8 DEF TimePasses
  <2>2. \A u \in Tasks : elapsed[u] \in 0 .. PublishTimeout
    BY <1>t
  <2>3. elapsed' \in [Tasks -> 0 .. PublishTimeout]
    <3>1. ASSUME NEW u \in Tasks
          PROVE (IF batch[u] = <<>> THEN 0 ELSE Least(elapsed[u] + 1, PublishTimeout))
                   \in 0 .. PublishTimeout
      BY <1>c, <2>2 DEF Least
    <3> QED BY <2>1, <3>1
  <2>4. ASSUME Timed, NEW u \in Tasks, NEW q \in Rows, phase[u][q] = "publish"
        PROVE  HoldsLock(u, q)' /\ table'[q].age <= elapsed'[u]
    <3>1. /\ HoldsLock(u, q) /\ table[q].age <= elapsed[u] /\ table[q] \in Row
          /\ q \in Range(batch[u])
      BY <1>t, <2>4
    <3>2. batch[u] # <<>> /\ table[q].by # NoId /\ elapsed[u] # PublishTimeout
      BY <1>t, <1>c, <2>1, <2>4, <3>1, EmptyRange DEF HoldsLock, TimerDue
    <3>3. elapsed'[u] = elapsed[u] + 1
      BY <1>c, <2>1, <2>2, <3>2 DEF Least
    <3>4. table'[q] = [table[q] EXCEPT !.delay = Greatest(@ - 1, 0),
                                       !.age = Least(table[q].age + 1, LeaseTimeout)]
      BY <1>8, <3>2 DEF TimePasses
    <3>5. PICK age : age = Least(table[q].age + 1, LeaseTimeout)
      OBVIOUS
    <3>6. PICK delay : delay = Greatest(table[q].delay - 1, 0)
      OBVIOUS
    <3>7. table'[q] = [table[q] EXCEPT !.delay = delay, !.age = age]
      BY <3>4, <3>5, <3>6
    <3>8. table'[q].state = table[q].state /\ table'[q].by = table[q].by /\ table'[q].age = age
      BY <3>1, <3>7 DEF Row
    <3>9. age <= elapsed[u] + 1
      <4>1. table[q].age \in Nat
        BY <3>1, <1>c DEF Row
      <4> QED BY <1>c, <2>2, <3>1, <3>5, <4>1 DEF Least
    <3> QED BY <1>i, <3>1, <3>3, <3>8, <3>9 DEF HoldsLock, Pending
  <2> QED BY <1>t, <1>i, <2>1, <2>3, <2>4 DEF LeasesHeld
<1>9. CASE UNCHANGED vars
  BY <1>9, <1>q, <1>t DEF vars
<1> QED BY <1>1, <1>2, <1>3, <1>4, <1>5, <1>6, <1>7, <1>8, <1>9
        DEF Next, TaskStep, Tick, Stall

\* While an API process waits for the acknowledgement of a row of the job queue it
\* holds that row's lock, so no two publish it at once: publish_timeout is below
\* lease_timeout, and every process leases under an id of its own.
THEOREM PublicationAlwaysExclusive == Spec => []ExclusivePublish
<1>1. Init => ExclusiveInv
  <2> SUFFICES ASSUME Init PROVE ExclusiveInv
    OBVIOUS
  <2>1. MarksDeserved /\ id \in [Tasks -> Ids]
    BY OutboxAssumption DEF Init, MarksDeserved, PublishedMeansStored, NoRow, Row
  <2>2. batch \in [Tasks -> Seq(Rows)] /\ elapsed \in [Tasks -> 0 .. PublishTimeout]
    BY EmptyRange, OutboxAssumption DEF Init
  <2> QED BY <2>1, <2>2 DEF Init, ExclusiveInv, LeasesHeld, Timed
<1>2. ExclusiveInv /\ [Next]_vars => ExclusiveInv'
  <2>1. [Next]_vars => id' = id
    BY Zenon DEF Next, InsertRow, Deactivate, TaskStep, Lease, PublishOk,
       PublishFails, MarkPublished, Retry, SettleLost, Crash, Tick, Stall,
       TimePasses, vars
  <2> QED BY <2>1, MarksDeservedStep, LeasesHeldStep DEF ExclusiveInv
<1>3. ExclusiveInv => ExclusivePublish
  BY DEF ExclusiveInv, LeasesHeld, ExclusivePublish
<1> QED BY <1>1, <1>2, <1>3, PTL DEF Spec

=============================================================================
