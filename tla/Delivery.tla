------------------------------- MODULE Delivery -------------------------------
(***************************************************************************)
(* How queued work reaches a claim and its message leaves the queue: the   *)
(* API's outbox publisher, the JetStream work queue with its consumer, and *)
(* the four tasks of a leading scheduler that handle its messages          *)
(* (crates/scheduler/src/dispatcher.rs, advisory.rs, reconciler.rs,        *)
(* control.rs, with acknowledgements.rs, delivery.rs and dlq.rs).          *)
(*                                                                         *)
(* Jobs are those of JobContract, which the tables implement: this module  *)
(* composes the contract with everything that keeps only memory.  A lease  *)
(* is named by the number of the attempt it was granted for.  Reading a    *)
(* snapshot, acting on it, publishing, acknowledging and recording what was*)
(* done are separate steps; a leader may lose its memory between any two.  *)
(*                                                                         *)
(* Progress acknowledgements have no state here: they only make AckExpires *)
(* rarer.  Where the code sends them, an expiry is counted as a fault.  The*)
(* deduplication window (30 days) is longer than anything that happens here. *)
(***************************************************************************)
EXTENDS JobLifecycle, Naturals, Sequences, FiniteSets

CONSTANTS
    Jobs,
    Leaders,     \* scheduler processes that act as leader, overlapping or not
    MaxTries,    \* SCHEDULER_MAX_RUN_ATTEMPTS
    BufferSize,  \* fairness.buffer_size
    Reported,    \* outcomes workers report
    MaxSeq,      \* bound on stream sequences, for model checking only
    MaxFaults    \* bound on faults, for model checking only

ASSUME DeliveryAssumption ==
    /\ MaxTries \in Nat \ {0}
    /\ BufferSize \in Nat \ {0}
    /\ Reported \subseteq Outcome
    /\ MaxSeq \in Nat
    /\ MaxFaults \in Nat

VARIABLES
    phase, verdict, tries, dead,  \* the jobs, as JobContract has them
    row,         \* each job's row for jobs.queued in the outbox
    stream,      \* the work queue; a message's sequence is its index
    sent,        \* deduplication: jobs whose first message was published
    redriven,    \* deduplication: sequences whose replacement was published
    advisories,  \* sequences with an unacknowledged MaxDeliver advisory
    letters,     \* jobs whose exhaustion dead letter is confirmed published
    poison,      \* sequences whose poison dead letter is confirmed published
    mem,         \* what each leader has in memory
    faults

jobVars == <<phase, verdict, tries, dead>>
natsVars == <<stream, sent, redriven, advisories>>
vars == <<phase, verdict, tries, dead, row, stream, sent, redriven, advisories,
          letters, poison, mem, faults>>

Job == INSTANCE JobContract

-------------------------------------------------------------------------------
(* The work queue.                                                         *)

\* The dispatch consumer's limit: one delivery more than a job has attempts.
MaxDeliver == MaxTries + 1

\* `out': delivered and not yet acknowledged or expired; `n': deliveries.
NewMessage(j, good) ==
    [job |-> j, good |-> good, n |-> 0, out |-> FALSE, there |-> TRUE]

\* An acknowledgement, a Term or a deletion removes the message for good.
Remove(s) == [stream EXCEPT ![s].there = FALSE, ![s].out = FALSE]

\* The message may be delivered again, or has used up its deliveries.
Return(s) ==
    /\ stream' = [stream EXCEPT ![s].out = FALSE]
    /\ advisories' = IF stream[s].n = MaxDeliver /\ stream[s].there
                     THEN advisories \cup {s} ELSE advisories

\* Someone can still be given this message, or is told that nobody can.
Recoverable(s) ==
    /\ stream[s].there
    /\ stream[s].out \/ stream[s].n < MaxDeliver \/ s \in advisories

-------------------------------------------------------------------------------
(* A leader's memory: the dispatcher's fair buffer and the delivery it is  *)
(* handling, the advisory and the recovery in hand, the acknowledgement    *)
(* registry, acknowledgements the control plane is confirming, and the     *)
(* reconciler's pending maps.                                              *)

Idle == [step |-> "idle", job |-> 0, seq |-> 0, lease |-> 0]

Task(step, j, s, lease) == [step |-> step, job |-> j, seq |-> s, lease |-> lease]

NoBinding == [lease |-> 0, seq |-> 0]

\* A confirmation in progress; `acked' is what it has acknowledged so far.
Confirmation(j, lease) == [job |-> j, lease |-> lease, acked |-> 0]

EmptyMemory ==
    [hand |-> Idle, adv |-> Idle, rec |-> Idle,
     buf |-> [j \in Jobs |-> 0],
     reg |-> [j \in Jobs |-> NoBinding],
     conf |-> {},
     exhausted |-> [j \in Jobs |-> 0],
     cancelled |-> [j \in Jobs |-> 0]]

Init ==
    /\ Job!Init
    /\ row = [j \in Jobs |-> "none"]
    /\ stream = <<>>
    /\ sent = {}
    /\ redriven = {}
    /\ advisories = {}
    /\ letters = {}
    /\ poison = {}
    /\ mem = [l \in Leaders |-> EmptyMemory]
    /\ faults = 0

Fault == faults < MaxFaults /\ faults' = faults + 1

Buffered(l) == {j \in Jobs : mem[l].buf[j] # 0}

\* AckRegistry::binding and take: only the lease that owns it finds a binding.
BindingOf(l, j, lease) ==
    IF lease # 0 /\ mem[l].reg[j].lease = lease THEN mem[l].reg[j] ELSE NoBinding

\* What take leaves of a binding, and what retiring it leaves of its message.
Unbound(l, j, lease) ==
    IF BindingOf(l, j, lease) = NoBinding THEN mem[l].reg[j] ELSE NoBinding

Retired(l, j, lease) ==
    IF BindingOf(l, j, lease) = NoBinding THEN stream
    ELSE Remove(BindingOf(l, j, lease).seq)

\* A worker hears of a claim only after its dispatcher has bound it.
Told(j, lease) ==
    \A l \in Leaders : mem[l].hand # [mem[l].hand EXCEPT
                            !.step = "claimed", !.job = j, !.lease = lease]

\* Is a dispatcher handling or buffering the message, and so keeping it alive?
Kept(s) ==
    \E l \in Leaders : mem[l].hand.seq = s \/ mem[l].buf[stream[s].job] = s

-------------------------------------------------------------------------------
(* The API and the workers.                                                *)

Submit(j) ==
    /\ Job!Submit(j)
    /\ row' = [row EXCEPT ![j] = "pending"]
    /\ UNCHANGED <<natsVars, letters, poison, mem, faults>>

Cancel(j) ==
    /\ Job!Cancel(j)
    /\ UNCHANGED <<natsVars, row, letters, poison, mem, faults>>

Report(j, outcome) ==
    /\ Told(j, tries[j])
    /\ Job!Report(j, outcome)
    /\ UNCHANGED <<natsVars, row, letters, poison, mem, faults>>

\* dispatch_message: publish under the job's own message id, then mark the row.
\* A crash in between publishes again, which the stream ignores.
Publish(j) ==
    /\ row[j] = "pending"
    /\ j \notin sent
    /\ Len(stream) < MaxSeq
    /\ stream' = Append(stream, NewMessage(j, TRUE))
    /\ sent' = sent \cup {j}
    /\ UNCHANGED <<jobVars, row, redriven, advisories, letters, poison, mem, faults>>

MarkPublished(j) ==
    /\ row[j] = "pending"
    /\ j \in sent
    /\ row' = [row EXCEPT ![j] = "published"]
    /\ UNCHANGED <<jobVars, natsVars, letters, poison, mem, faults>>

\* A message for a known job whose payload disagrees with the database.
StrayMessage(j) ==
    /\ Fault
    /\ phase[j] # "absent"
    /\ Len(stream) < MaxSeq
    /\ stream' = Append(stream, NewMessage(j, FALSE))
    /\ UNCHANGED <<jobVars, row, sent, redriven, advisories, letters, poison, mem>>

\* redrive_canonical: the source sequence is the deduplication key.
Redrive(s) ==
    /\ s \in redriven \/ Len(stream) < MaxSeq
    /\ stream' = IF s \in redriven THEN stream
                 ELSE Append(stream, NewMessage(stream[s].job, TRUE))
    /\ redriven' = redriven \cup {s}
    /\ UNCHANGED <<sent, advisories>>

\* ensure_published publishes whatever is in the outbox unless its own letter
\* already is.
EnsurePublished(published) == letters' = IF published THEN letters ELSE letters \cup dead

-------------------------------------------------------------------------------
(* The dispatcher: one delivery, or one buffered entry, at a time.         *)

\* Fault: a delivery for a job that already runs is taken for a duplicate.
FaultAckRunning(j, good) ==
    CASE phase[j] \in {"running", "ended"} -> "ack"
      [] phase[j] = "waiting" -> "buffer"
      [] OTHER -> "hold"

\* classify_canonical_delivery on a fresh snapshot, with what
\* finish_terminal_delivery makes of a terminal job.
Decision(j, good) ==
    CASE phase[j] = "ended" ->
            IF verdict[j] = "infra_failed" /\ j \in dead THEN "letter" ELSE "ack"
      [] phase[j] = "closing" /\ verdict[j] = "cancelled" /\ tries[j] = 0 -> "end"
      [] phase[j] \in {"waiting", "running", "closing"} /\ ~good -> "redrive"
      [] phase[j] = "running" /\ good -> "bind"
      [] phase[j] = "waiting" /\ good -> "buffer"
      [] OTHER -> "hold"

\* The dispatcher does `step' next with what it has in hand.
Then(l, step) == [mem EXCEPT ![l].hand.step = step]
Done(l) == [mem EXCEPT ![l].hand = Idle]

\* accept_delivery up to its decision.  A held delivery is left to expire.
Deliver(l, s) ==
    LET j == stream[s].job
        step == Decision(j, stream[s].good)
    IN  /\ mem[l].hand = Idle
        /\ stream[s].there /\ ~stream[s].out /\ stream[s].n < MaxDeliver
        /\ stream' = [stream EXCEPT ![s].out = TRUE, ![s].n = @ + 1]
        /\ mem' = IF step = "hold" THEN mem
                  ELSE [mem EXCEPT ![l].hand = Task(step, j, s, tries[j])]
        /\ UNCHANGED <<jobVars, row, sent, redriven, advisories, letters, poison,
                       faults>>

\* dispatch_one up to its decision.  A held entry goes back into the buffer, as
\* does one whose lease has expired: it may stay there until Recovery.
Pop(l, j) ==
    LET s == mem[l].buf[j]
        step == Decision(j, TRUE)
    IN  /\ mem[l].hand = Idle
        /\ s # 0
        /\ step # "hold"
        /\ mem' = [mem EXCEPT
                ![l].buf[j] = 0,
                ![l].hand = Task(IF step = "buffer" THEN "claim" ELSE step,
                                 j, s, tries[j])]
        /\ UNCHANGED <<jobVars, natsVars, row, letters, poison, faults>>

\* The Buffer decision.  Of two messages for one job the newer is kept; the
\* other is acknowledged, and nobody looks whether that succeeded.
Buffer(l) ==
    LET t == mem[l].hand
        held == mem[l].buf[t.job]
    IN  /\ t.step = "buffer"
        /\ \/ /\ held = 0
              /\ mem' = IF Cardinality(Buffered(l)) < BufferSize
                        THEN [mem EXCEPT ![l].buf[t.job] = t.seq, ![l].hand = Idle]
                        ELSE Done(l)
              /\ UNCHANGED <<stream, faults>>
           \/ /\ held = t.seq
              /\ mem' = Done(l)
              /\ UNCHANGED <<stream, faults>>
           \/ /\ held # 0 /\ held < t.seq
              /\ mem' = [mem EXCEPT ![l].buf[t.job] = t.seq, ![l].hand = Idle]
              /\ \/ stream' = Remove(held) /\ UNCHANGED faults
                 \/ Fault /\ UNCHANGED stream
           \/ /\ held > t.seq
              /\ mem' = Done(l)
              /\ \/ stream' = Remove(t.seq) /\ UNCHANGED faults
                 \/ Fault /\ UNCHANGED stream
        /\ UNCHANGED <<jobVars, row, sent, redriven, advisories, letters, poison>>

\* claim_job_with_options commits; the binding is a later step.
Claim(l) ==
    LET t == mem[l].hand
    IN  /\ t.step = "claim"
        /\ Job!Start(t.job)
        /\ mem' = [mem EXCEPT ![l].hand = Task("claimed", t.job, t.seq, tries'[t.job])]
        /\ UNCHANGED <<natsVars, row, letters, poison, faults>>

\* No worker, no quota, or a claim lost to somebody else: back to the buffer.
NoClaim(l) ==
    LET t == mem[l].hand
    IN  /\ t.step = "claim"
        /\ mem' = [mem EXCEPT ![l].buf[t.job] = t.seq, ![l].hand = Idle]
        /\ UNCHANGED <<jobVars, natsVars, row, letters, poison, faults>>

BindClaimed(l) ==
    LET t == mem[l].hand
    IN  /\ t.step = "claimed"
        /\ mem' = [mem EXCEPT ![l].reg[t.job] = [lease |-> t.lease, seq |-> t.seq],
                              ![l].hand = Idle]
        /\ UNCHANGED <<jobVars, natsVars, row, letters, poison, faults>>

\* bind_or_ack_duplicate, on the lease of the snapshot.
Rebind(l) ==
    LET t == mem[l].hand
        old == BindingOf(l, t.job, t.lease)
    IN  /\ t.step = "bind"
        /\ mem' = IF old.seq > t.seq THEN Done(l)
                  ELSE [mem EXCEPT
                        ![l].reg[t.job] = [lease |-> t.lease, seq |-> t.seq],
                        ![l].hand = Idle]
        /\ \/ old.seq \in {0, t.seq} /\ UNCHANGED <<stream, faults>>
           \/ /\ old.seq \notin {0, t.seq}
              /\ \/ /\ stream' = Remove(IF old.seq > t.seq THEN t.seq ELSE old.seq)
                    /\ UNCHANGED faults
                 \/ Fault /\ UNCHANGED stream
        /\ UNCHANGED <<jobVars, row, sent, redriven, advisories, letters, poison>>

\* finalize_queued_cancellation.  If the reconciler is at it too, a transition may
\* be lost, and the delivery stays, or there may be nothing left to do.
FinalizeCancellation(l) ==
    LET t == mem[l].hand
    IN  /\ t.step = "end"
        /\ \/ phase[t.job] = "closing" /\ Job!End(t.job) /\ mem' = Then(l, "ack")
           \/ phase[t.job] = "ended" /\ mem' = Then(l, "ack") /\ UNCHANGED jobVars
           \/ mem' = Done(l) /\ UNCHANGED jobVars
        /\ UNCHANGED <<natsVars, row, letters, poison, faults>>

\* The redrive of a poison message, its dead letter, ...
RedrivePoison(l) ==
    /\ mem[l].hand.step = "redrive"
    /\ Redrive(mem[l].hand.seq)
    /\ mem' = Then(l, "poison")
    /\ UNCHANGED <<jobVars, row, letters, poison, faults>>

PoisonLetter(l) ==
    /\ mem[l].hand.step = "poison"
    /\ poison' = poison \cup {mem[l].hand.seq}
    /\ EnsurePublished(mem[l].hand.seq \in poison)
    /\ mem' = Then(l, "ack")
    /\ UNCHANGED <<jobVars, natsVars, row, faults>>

\* ... the confirmed dead letter of an exhausted job, ...
ExhaustedLetter(l) ==
    /\ mem[l].hand.step = "letter"
    /\ EnsurePublished(mem[l].hand.job \in letters)
    /\ mem' = Then(l, "ack")
    /\ UNCHANGED <<jobVars, natsVars, row, poison, faults>>

\* ... and the end of the message: acknowledged, or terminated and deleted.
Settle(l) ==
    /\ mem[l].hand.step = "ack"
    /\ stream' = Remove(mem[l].hand.seq)
    /\ mem' = Done(l)
    /\ UNCHANGED <<jobVars, row, sent, redriven, advisories, letters, poison, faults>>

\* Any failed call leaves the delivery pending; a popped entry is forgotten.
DispatcherFails(l) ==
    /\ Fault
    /\ mem[l].hand # Idle
    /\ mem' = Done(l)
    /\ UNCHANGED <<jobVars, natsVars, row, letters, poison>>

DispatcherTask(l) ==
    \/ Buffer(l) \/ NoClaim(l) \/ BindClaimed(l) \/ Rebind(l)
    \/ FinalizeCancellation(l) \/ RedrivePoison(l) \/ PoisonLetter(l)
    \/ ExhaustedLetter(l) \/ Settle(l)

-------------------------------------------------------------------------------
(* Advisory recovery: a message that has used up its deliveries.           *)

\* Faults: an advisory needs no redrive; an advisory for a terminal job needs
\* no deletion.
FaultNoRedrive(s) ==
    IF stream[s].there /\ phase[stream[s].job] = "ended" THEN "delete" ELSE "done"

FaultNoDeletion(s) ==
    IF stream[s].there /\ phase[stream[s].job] # "ended" THEN "redrive" ELSE "done"

\* handle: what becomes of the source, on a fresh snapshot.
AdvisoryDecision(s) ==
    LET j == stream[s].job
    IN  CASE ~stream[s].there -> "done"
          [] stream[s].there /\ j \in dead
                /\ (phase[j] = "ended"
                    \/ (stream[s].good /\ phase[j] = "closing"
                          /\ verdict[j] = "infra_failed")) -> "letter"
          [] stream[s].there /\ phase[j] = "ended" /\ j \notin dead -> "delete"
          [] OTHER -> "redrive"

AdvisoryThen(l, step) == [mem EXCEPT ![l].adv.step = step]

HandleAdvisory(l, s) ==
    /\ mem[l].adv = Idle
    /\ s \in advisories
    /\ mem' = [mem EXCEPT ![l].adv =
                Task(AdvisoryDecision(s), stream[s].job, s, tries[stream[s].job])]
    /\ UNCHANGED <<jobVars, natsVars, row, letters, poison, faults>>

AdvisoryRedrive(l) ==
    /\ mem[l].adv.step = "redrive"
    /\ Redrive(mem[l].adv.seq)
    /\ mem' = AdvisoryThen(l, IF stream[mem[l].adv.seq].good THEN "delete"
                                                             ELSE "poison")
    /\ UNCHANGED <<jobVars, row, letters, poison, faults>>

AdvisoryLetter(l) ==
    /\ \/ /\ mem[l].adv.step = "letter"
          /\ EnsurePublished(mem[l].adv.job \in letters)
          /\ UNCHANGED poison
       \/ /\ mem[l].adv.step = "poison"
          /\ poison' = poison \cup {mem[l].adv.seq}
          /\ EnsurePublished(mem[l].adv.seq \in poison)
    /\ mem' = AdvisoryThen(l, "delete")
    /\ UNCHANGED <<jobVars, natsVars, row, faults>>

DeleteSource(l) ==
    /\ mem[l].adv.step = "delete"
    /\ stream' = Remove(mem[l].adv.seq)
    /\ mem' = AdvisoryThen(l, "done")
    /\ UNCHANGED <<jobVars, row, sent, redriven, advisories, letters, poison, faults>>

AckAdvisory(l) ==
    /\ mem[l].adv.step = "done"
    /\ advisories' = advisories \ {mem[l].adv.seq}
    /\ mem' = [mem EXCEPT ![l].adv = Idle]
    /\ UNCHANGED <<jobVars, row, stream, sent, redriven, letters, poison, faults>>

AdvisoryFails(l) ==
    /\ Fault
    /\ mem[l].adv # Idle
    /\ mem' = [mem EXCEPT ![l].adv = Idle]
    /\ UNCHANGED <<jobVars, natsVars, row, letters, poison>>

AdvisoryTask(l) ==
    \/ AdvisoryRedrive(l) \/ AdvisoryLetter(l) \/ DeleteSource(l) \/ AckAdvisory(l)

-------------------------------------------------------------------------------
(* The reconciler: recovery of stale leases, finalization, dead letters.   *)

\* recover_stale_job requeues; the message is released in a later step.
RecoverRequeue(l, j) ==
    /\ mem[l].rec = Idle
    /\ Job!Retry(j)
    /\ mem' = [mem EXCEPT ![l].rec = Task("nak", j, 0, tries[j])]
    /\ UNCHANGED <<natsVars, row, letters, poison, faults>>

\* AckRegistry::nak: nothing happens if the binding is not that lease's.  A
\* failed Nak has forgotten the binding, and leaves the message to AckWait.
Nak(l) ==
    LET t == mem[l].rec
        b == BindingOf(l, t.job, t.lease)
    IN  /\ t.step = "nak"
        /\ mem' = [mem EXCEPT ![l].rec = Idle,
                              ![l].reg[t.job] = Unbound(l, t.job, t.lease)]
        /\ \/ b # NoBinding /\ stream[b.seq].out /\ Return(b.seq) /\ UNCHANGED faults
           \/ b # NoBinding /\ Fault /\ UNCHANGED <<stream, advisories>>
           \/ /\ ~(b # NoBinding /\ stream[b.seq].out)
              /\ UNCHANGED <<stream, advisories, faults>>
        /\ UNCHANGED <<jobVars, row, sent, redriven, letters, poison>>

RecoverCancelling(l, j) ==
    /\ mem[l].rec = Idle
    /\ Job!TakeOver(j)
    /\ mem' = [mem EXCEPT ![l].cancelled[j] = tries[j]]
    /\ UNCHANGED <<natsVars, row, letters, poison, faults>>

RecoverExhausted(l, j) ==
    /\ mem[l].rec = Idle
    /\ Job!GiveUp(j)
    /\ mem' = [mem EXCEPT ![l].exhausted[j] = tries[j]]
    /\ UNCHANGED <<natsVars, row, letters, poison, faults>>

\* finalize_ready_jobs: the transitions, then what the outcome calls for: a
\* cancellation is confirmed as the control plane does it (its map entry has no
\* later reader), an exhausted job gets its dead letter.
FinalizeReady(l, j) ==
    LET lease == mem[l].cancelled[j]
    IN  /\ mem[l].rec = Idle
        /\ phase[j] = "closing"
        /\ Job!End(j)
        /\ mem' = IF verdict[j] = "cancelled"
                  THEN [mem EXCEPT ![l].cancelled[j] = 0,
                                   ![l].conf = IF lease = 0 THEN @
                                               ELSE @ \cup {Confirmation(j, lease)}]
                  ELSE [mem EXCEPT ![l].rec =
                                Task("letter", j, 0, mem[l].exhausted[j])]
        /\ UNCHANGED <<natsVars, row, letters, poison, faults>>

ReconcilerLetter(l) ==
    /\ mem[l].rec.step = "letter"
    /\ EnsurePublished(mem[l].rec.job \in letters)
    /\ mem' = [mem EXCEPT ![l].rec.step = "retire"]
    /\ UNCHANGED <<jobVars, natsVars, row, poison, faults>>

\* The entry and its binding are forgotten before the message is retired.
RetireExhausted(l) ==
    LET t == mem[l].rec
    IN  /\ t.step = "retire"
        /\ \/ stream' = Retired(l, t.job, t.lease) /\ UNCHANGED faults
           \/ Fault /\ UNCHANGED stream
        /\ mem' = [mem EXCEPT ![l].rec = Idle,
                              ![l].reg[t.job] = Unbound(l, t.job, t.lease),
                              ![l].exhausted[t.job] = 0]
        /\ UNCHANGED <<jobVars, row, sent, redriven, advisories, letters, poison>>

\* Fault: only letters of jobs this leader gave up itself are looked for.
FaultOwnLettersOnly(l) ==
    /\ mem[l].rec = Idle
    /\ letters' = letters \cup {j \in dead : mem[l].exhausted[j] # 0}
    /\ UNCHANGED <<jobVars, natsVars, row, poison, mem, faults>>

\* publish_ready: every dead letter in the outbox.
PublishReady(l) ==
    /\ mem[l].rec = Idle
    /\ dead \ letters # {}
    /\ letters' = letters \cup dead
    /\ UNCHANGED <<jobVars, natsVars, row, poison, mem, faults>>

\* retire_published_exhausted: what an earlier pass could not finish.
RetirePublished(l, j) ==
    LET lease == mem[l].exhausted[j]
    IN  /\ mem[l].rec = Idle
        /\ lease # 0
        /\ phase[j] = "ended" /\ verdict[j] = "infra_failed"
        /\ j \in letters
        /\ \/ /\ stream' = Retired(l, j, lease)
              /\ mem' = [mem EXCEPT ![l].reg[j] = Unbound(l, j, lease),
                                    ![l].exhausted[j] = 0]
              /\ UNCHANGED faults
           \/ /\ Fault
              /\ mem' = [mem EXCEPT ![l].reg[j] = Unbound(l, j, lease)]
              /\ UNCHANGED stream
        /\ UNCHANGED <<jobVars, row, sent, redriven, advisories, letters, poison>>

\* A failed call ends the pass.
ReconcilerFails(l) ==
    /\ Fault
    /\ mem[l].rec # Idle
    /\ mem' = [mem EXCEPT ![l].rec = Idle]
    /\ UNCHANGED <<jobVars, natsVars, row, letters, poison>>

Recovery(l, j) ==
    RecoverRequeue(l, j) \/ RecoverCancelling(l, j) \/ RecoverExhausted(l, j)

ReconcilerTask(l) ==
    Nak(l) \/ ReconcilerLetter(l) \/ RetireExhausted(l)

-------------------------------------------------------------------------------
(* The control plane: a worker's terminal transition and its confirmation. *)

WorkerEnds(l, j) ==
    /\ phase[j] = "running"
    /\ Told(j, tries[j])
    /\ Job!End(j)
    /\ mem' = [mem EXCEPT ![l].conf = @ \cup {Confirmation(j, tries[j])}]
    /\ UNCHANGED <<natsVars, row, letters, poison, faults>>

\* classify_replayed_transition: a worker that held the job repeats, or sends too
\* late, the transition to the state the job ended in.  Nothing is compared with
\* its lease.
Replay(l, j) ==
    /\ Fault
    /\ phase[j] = "ended"
    /\ \E lease \in 1 .. tries[j] :
        /\ Told(j, lease)
        /\ mem' = [mem EXCEPT ![l].conf = @ \cup {Confirmation(j, lease)}]
    /\ UNCHANGED <<jobVars, natsVars, row, letters, poison>>

\* AckRegistry::confirm_ack, first the message, ...
ConfirmAck(l, c) ==
    LET b == BindingOf(l, c.job, c.lease)
    IN  /\ c \in mem[l].conf
        /\ c.acked = 0
        /\ stream' = Retired(l, c.job, c.lease)
        /\ mem' = [mem EXCEPT ![l].conf = (@ \ {c}) \cup
                    (IF b = NoBinding THEN {} ELSE {[c EXCEPT !.acked = b.seq]})]
        /\ UNCHANGED <<jobVars, row, sent, redriven, advisories, letters, poison,
                       faults>>

\* ... then the binding, unless a replacement was bound meanwhile.
DropBinding(l, c) ==
    LET b == BindingOf(l, c.job, c.lease)
    IN  /\ c \in mem[l].conf
        /\ c.acked # 0
        /\ mem' = [mem EXCEPT
                ![l].conf = (@ \ {c}) \cup
                    (IF b.seq \in {0, c.acked} THEN {} ELSE {[c EXCEPT !.acked = 0]}),
                ![l].reg[c.job] = IF b.seq = c.acked THEN NoBinding ELSE @]
        /\ UNCHANGED <<jobVars, natsVars, row, letters, poison, faults>>

\* The worker is told to retry, or never hears.
ControlFails(l, c) ==
    /\ Fault
    /\ c \in mem[l].conf
    /\ mem' = [mem EXCEPT ![l].conf = @ \ {c}]
    /\ UNCHANGED <<jobVars, natsVars, row, letters, poison>>

ControlTask(l) == \E c \in mem[l].conf : ConfirmAck(l, c) \/ DropBinding(l, c)

-------------------------------------------------------------------------------
(* Time and failure.                                                       *)

\* AckWait runs out.  It is a fault where a task keeps the message alive, and
\* where somebody else is about to move the job along.
AckExpires(s) ==
    /\ stream[s].out
    /\ Return(s)
    /\ IF Kept(s) \/ phase[stream[s].job] \in {"running", "closing"}
       THEN Fault ELSE UNCHANGED faults
    /\ UNCHANGED <<jobVars, row, sent, redriven, letters, poison, mem>>

\* A leader dies or is deposed; its successor starts with an empty memory.
LeaderLost(l) ==
    /\ Fault
    /\ mem[l] # EmptyMemory
    /\ mem' = [mem EXCEPT ![l] = EmptyMemory]
    /\ UNCHANGED <<jobVars, natsVars, row, letters, poison>>

JobStep(j) ==
    \/ Submit(j) \/ Cancel(j) \/ Publish(j) \/ MarkPublished(j) \/ StrayMessage(j)
    \/ \E outcome \in Reported : Report(j, outcome)

LeaderStep(l) ==
    \/ \E s \in DOMAIN stream : Deliver(l, s) \/ HandleAdvisory(l, s)
    \/ \E j \in Jobs : Pop(l, j) \/ Recovery(l, j) \/ FinalizeReady(l, j)
                        \/ RetirePublished(l, j) \/ WorkerEnds(l, j)
                        \/ Replay(l, j)
    \/ DispatcherTask(l) \/ Claim(l) \/ DispatcherFails(l)
    \/ AdvisoryTask(l) \/ AdvisoryFails(l)
    \/ ReconcilerTask(l) \/ PublishReady(l) \/ ReconcilerFails(l)
    \/ ControlTask(l) \/ (\E c \in mem[l].conf : ControlFails(l, c))
    \/ LeaderLost(l)

Next ==
    \/ \E j \in Jobs : JobStep(j)
    \/ \E l \in Leaders : LeaderStep(l)
    \/ \E s \in DOMAIN stream : AckExpires(s)

Spec == Init /\ [][Next]_vars

\* A run ends, reports, or is taken from a worker that has gone silent.
RunStep(j) ==
    \E l \in Leaders :
        \/ Recovery(l, j) \/ WorkerEnds(l, j)
        \/ \E outcome \in Reported : Report(j, outcome)

\* Loops and timers that the code keeps running: the outbox poll, the consumer
\* pulls, the one-second dispatch tick, the reconciliation tick, the consumer's
\* AckWait.  A claim is promised only to a job that is tried again and again,
\* as capacity and quota come back.  No fault is promised, and nobody is
\* promised a cancellation.
Fairness ==
    /\ \A j \in Jobs :
        /\ WF_vars(Publish(j) \/ MarkPublished(j))
        /\ WF_vars(RunStep(j))
    /\ \A l \in Leaders :
        /\ WF_vars(DispatcherTask(l))
        /\ WF_vars(\E s \in DOMAIN stream : Deliver(l, s))
        /\ WF_vars(\E j \in Jobs : Pop(l, j))
        /\ SF_vars(Claim(l))
        /\ WF_vars(AdvisoryTask(l))
        /\ WF_vars(\E s \in DOMAIN stream : HandleAdvisory(l, s))
        /\ WF_vars(ReconcilerTask(l))
        /\ WF_vars(PublishReady(l))
        /\ WF_vars(\E j \in Jobs : FinalizeReady(l, j))
        /\ WF_vars(ControlTask(l))
    /\ WF_vars(\E s \in DOMAIN stream : AckExpires(s))

FairSpec == Spec /\ Fairness

-------------------------------------------------------------------------------
(* Properties.                                                             *)

Of(j) == {s \in DOMAIN stream : stream[s].job = j}

\* Work is never lost: as long as a job waits or runs, its queue message is
\* still to be published, or one is in the stream that will be delivered again
\* or whose advisory will be handled, whichever leaders die, whichever
\* acknowledgements fail, and however often a message is replaced.
NoLostWork ==
    \A j \in Jobs : phase[j] \in {"waiting", "running"}
        => \/ row[j] = "pending" /\ j \notin sent
           \/ \E s \in Of(j) : Recoverable(s)

\* A job that was given up keeps a message in the stream until its dead letter
\* is confirmed: the source is never retired first, as the comment on
\* finish_terminal_delivery has it.
LetterBeforeRetirement ==
    \A j \in dead \ letters : \E s \in Of(j) : stream[s].there

\* The dead letter of a job that was given up is published in the end, whoever
\* of the dispatcher, the advisory task and the reconciler gets to it, and even
\* when the leader that gave the job up forgets about it.
LettersArrive == \A j \in Jobs : j \in dead ~> j \in letters

\* Every submitted job ends, although its message may be lost by a dying
\* leader, replaced, or delivered to a leader that cannot use it.
EveryJobEnds == \A j \in Jobs : phase[j] = "waiting" ~> phase[j] = "ended"

\* The queue drains: from some time on no message of an ended job is left, so
\* no duplicate, redrive or forgotten delivery stays in the stream for ever.
QueueDrains ==
    <>[](\A s \in DOMAIN stream : phase[stream[s].job] = "ended"
                                    => ~stream[s].there)

===============================================================================
