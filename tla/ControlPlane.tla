---------------------------- MODULE ControlPlane ------------------------------
(***************************************************************************)
(* The answers of crates/scheduler/src/control.rs to a worker's requests   *)
(* about one job.  A worker that hears nothing, or Retry, asks again, so   *)
(* several handlers may hold the same request; each runs a sequence of     *)
(* short transactions (record_job_result, then one transition_job_state    *)
(* per edge) and, when one of them loses its compare-and-swap, reads the   *)
(* row again to find out whether the same request already won.             *)
(*                                                                         *)
(* The job has one worker, which holds it under a new lease after every    *)
(* recovery.  The other writers of the row (see JobStore) move it between  *)
(* the handlers' transactions.                                             *)
(***************************************************************************)
EXTENDS JobLifecycle, Integers

CONSTANTS
    Handlers,    \* requests in flight, at most MAX_CONCURRENT_CONTROL_REQUESTS
    MaxLeases,   \* bound on the attempts, for model checking only
    Reports,     \* outcomes the worker may report
    Claims,      \* evidence the worker may send with its result
    Stages       \* states in which the requests may find the run

ASSUME ControlAssumption ==
    /\ MaxLeases \in Nat \ {0}
    /\ Reports \subseteq Outcome
    /\ Claims \subseteq SUBSET Evidence
    \* record_job_result refuses a cleanup without its artifacts.
    /\ \A done \in Claims :
          "cleanup_completed" \in done => "artifacts_finalized" \in done
    /\ Stages \subseteq RunningState

VARIABLES
    run,       \* the jobs row (attempts: delivery_attempts), and endedBy, a
               \* ghost: the lease whose request ended the job
    lapsed,    \* whether the row's lease_expires_at has passed
    verdict,   \* per lease, the outcome its worker reports
    handler,   \* per handler, its request and its place
    fenced     \* ghost: a result of the row's last lease was told StaleLease

controlVars == <<run, lapsed, verdict, handler, fenced>>

Lease == 1 .. MaxLeases

\* One row or one registry entry without a lease.
Unleased == 0

Mute == [kind |-> "none", lease |-> Unleased, from |-> "queued", to |-> "queued",
         outcome |-> NoOutcome, done |-> {}]

Resting == [at |-> "idle", req |-> Mute, state |-> "queued", rounds |-> 0]

ControlInit ==
    /\ run = [state |-> "claimed", lease |-> 1, owner |-> "worker",
              attempts |-> 1, pending |-> NoOutcome, done |-> {},
              endedBy |-> Unleased]
    /\ lapsed = FALSE
    /\ verdict = [l \in Lease |-> NoOutcome]
    /\ handler = [h \in Handlers |-> Resting]
    /\ fenced = FALSE

-------------------------------------------------------------------------------
(* Requests.                                                               *)

\* The outcome is one the worker can know: the state machine lets the run be
\* closed with it, or already has.
Knowable(l, outcome) ==
    \/ verdict[l] = outcome
    \/ /\ verdict[l] = NoOutcome
       /\ run.lease = l
       /\ \/ run.state \in FinalizingState
          \/ ValidTransition(run.state, "collecting_artifacts",
                             [pending |-> outcome, done |-> {}])

\* Edges the worker requests itself once it knows: the ones its result does not
\* take, or not without the last evidence.
ClosingEdge(outcome) ==
    {<<"running_tests", "debug_available">>, <<"cleaning_up", outcome>>}

\* The JobResult of lease l.
ResultOf(l, outcome, done) ==
    [Mute EXCEPT !.kind = "result", !.lease = l, !.outcome = outcome,
                 !.done = done]

\* A JobStateTransitionRequest of lease l with its evidence.
TransitionOf(l, edge, outcome) ==
    [kind |-> "transition", lease |-> l, from |-> edge[1], to |-> edge[2],
     outcome |-> outcome, done |-> IF Terminal(edge[2]) THEN Evidence ELSE {}]

Requests(l, outcome) ==
    {ResultOf(l, outcome, done) : done \in Claims}
        \cup {TransitionOf(l, e, outcome) : e \in ClosingEdge(outcome)}

\* The request's evidence, as transition_job_state is given it.
Claimed(req) == [pending |-> req.outcome, done |-> req.done]

Enter(h, to) ==
    /\ handler' = [handler EXCEPT ![h].at = to]
    /\ UNCHANGED fenced

\* A handler goes on to confirm_ack.
Confirm(h) ==
    /\ handler' = [handler EXCEPT ![h] =
          [Resting EXCEPT !.at = "confirm", !.req = handler[h].req]]
    /\ UNCHANGED fenced

\* A handler answers and is free for the next request.
Answer(h, answer) ==
    LET req == handler[h].req
    IN  /\ handler' = [handler EXCEPT ![h] = Resting]
        /\ fenced' = \/ fenced
                     \/ /\ answer = "stale_lease"
                        /\ req.kind = "result"
                        /\ req.lease \in {run.lease, run.endedBy}

\* handle_message and process: a request, new or repeated, reaches a handler.
\* transition_job asks the repository only for an edge that validates.
TakeRequest(h, l, outcome) ==
    /\ handler[h].at = "idle"
    /\ Knowable(l, outcome)
    /\ verdict' = [verdict EXCEPT ![l] = outcome]
    /\ \E req \in Requests(l, outcome) :
          /\ req.kind = "transition"
                => ValidTransition(req.from, req.to, Claimed(req))
          /\ handler' = [handler EXCEPT ![h] = [Resting EXCEPT
                !.at = IF req.kind = "result" THEN "record" ELSE "update",
                !.req = req]]
    /\ UNCHANGED <<run, lapsed, fenced>>

\* What handle_message and the four operations make of a message before it
\* reaches the repository: silence without a reply inbox of the worker the
\* subject names, Retry for a payload that is too large, does not decode or
\* does not validate, StaleLease for one that names another worker.
Refusal(flaw) ==
    CASE flaw \in {"no_reply", "unknown_subject", "foreign_inbox"} -> "none"
      [] flaw \in {"oversized", "undecodable", "invalid"} -> "retry"
      [] flaw = "other_worker" -> "stale_lease"

\* No such message changes anything.
RefuseMessage(h) ==
    /\ handler[h].at = "idle"
    /\ \E flaw \in {"no_reply", "unknown_subject", "foreign_inbox", "oversized",
                    "undecodable", "invalid", "other_worker"} :
          Refusal(flaw) \in {"none", "retry", "stale_lease"}
    /\ UNCHANGED controlVars

-------------------------------------------------------------------------------
(* The repository's side of a request.                                     *)

\* LeaseGuard: this lease, not expired.
Held(l) == run.lease = l /\ l # Unleased /\ ~lapsed

Agrees(outcome) == run.pending \in {NoOutcome, outcome}

Moved(to, req) ==
    [run EXCEPT !.state = to,
                !.pending = req.outcome,
                !.done = @ \cup req.done,
                !.lease = IF Terminal(to) THEN Unleased ELSE @,
                !.endedBy = IF Terminal(to) THEN req.lease ELSE @]

\* transition_job_state commits, or changes nothing.
Moves(req, from) ==
    /\ run.state = from
    /\ Held(req.lease)
    /\ Agrees(req.outcome)

-------------------------------------------------------------------------------
(* record_result.                                                          *)

\* Begin drive_result_finalizer from `state'.
Drive(h, state, rounds) ==
    /\ handler' = [handler EXCEPT ![h].at = "drive", ![h].state = state,
                                  ![h].rounds = rounds]
    /\ UNCHANGED fenced

\* record_job_result: whatever refuses it, the row is read again.
Record(h) ==
    LET req == handler[h].req
    IN  /\ handler[h].at = "record"
        /\ \/ /\ Held(req.lease)
              /\ ~Terminal(run.state)
              /\ Agrees(req.outcome)
              /\ run' = [run EXCEPT !.pending = req.outcome,
                                    !.done = @ \cup req.done]
              /\ Drive(h, run.state, 0)
           \/ /\ \/ ~Held(req.lease)
                 \/ Terminal(run.state)
                 \/ ~Agrees(req.outcome)
              /\ Enter(h, "classify")
              /\ UNCHANGED run
        /\ UNCHANGED <<lapsed, verdict>>

\* Fault: any ended job of this worker ended with this result.
FaultAnyOutcome(req) == Terminal(run.state) /\ run.owner = "worker"

\* The job ended with the outcome this result reports, under this worker.
EndedAlike(req) ==
    /\ Terminal(run.state)
    /\ run.state = req.outcome
    /\ run.owner = "worker"

\* The result is recorded and its lease still the row's.
StillPending(req) == run.lease = req.lease /\ run.pending = req.outcome

\* classify_replayed_result, on a fresh snapshot.
ClassifyResult(h) ==
    LET req == handler[h].req
    IN  /\ handler[h].at = "classify"
        /\ req.kind = "result"
        /\ \/ EndedAlike(req) /\ Confirm(h)
           \/ /\ ~EndedAlike(req)
              /\ StillPending(req)
              /\ Drive(h, run.state, 0)
           \/ /\ ~EndedAlike(req)
              /\ ~StillPending(req)
              /\ Answer(h, "stale_lease")
        /\ UNCHANGED <<run, lapsed, verdict>>

\* next_result_state; "none" where this result takes the job no further.
NextResultState(state, req) ==
    CASE state \in {"queued"} \cup RunningState -> "collecting_artifacts"
      [] /\ state = "collecting_artifacts"
         /\ "artifacts_finalized" \in req.done -> "cleaning_up"
      [] state = "cleaning_up" /\ "cleanup_completed" \in req.done -> req.outcome
      [] OTHER -> "none"

\* Fault: only as many rounds as there are edges.
FaultThreeRounds == 3

\* The bound of the loop in drive_result_finalizer.
MaxRounds == 6

\* The head of a round: ended, nothing more to do, or one edge to take.  An
\* edge the state machine refuses is an InvalidTransition, which is answered
\* StaleLease.
Round(h) ==
    LET req == handler[h].req
        state == handler[h].state
        target == NextResultState(state, req)
    IN  /\ handler[h].at = "drive"
        /\ \/ /\ handler[h].rounds = MaxRounds
              /\ Answer(h, "retry")
              /\ UNCHANGED run
           \/ /\ handler[h].rounds < MaxRounds
              /\ Terminal(state)
              /\ Confirm(h)
              /\ UNCHANGED run
           \/ /\ handler[h].rounds < MaxRounds
              /\ ~Terminal(state)
              /\ \/ /\ target = "none"
                    /\ Answer(h, "accepted")
                    /\ UNCHANGED run
                 \/ /\ target # "none"
                    /\ ~ValidTransition(state, target, Claimed(req))
                    /\ Answer(h, "stale_lease")
                    /\ UNCHANGED run
                 \/ /\ ValidTransition(state, target, Claimed(req))
                    /\ Moves(req, state)
                    /\ run' = Moved(target, req)
                    /\ Drive(h, target, handler[h].rounds + 1)
                 \/ /\ ValidTransition(state, target, Claimed(req))
                    /\ ~Moves(req, state)
                    /\ Enter(h, "reread")
                    /\ UNCHANGED run
        /\ UNCHANGED <<lapsed, verdict>>

\* The round lost its compare-and-swap: look who won it.
Reread(h) ==
    LET req == handler[h].req
    IN  /\ handler[h].at = "reread"
        /\ \/ EndedAlike(req) /\ Confirm(h)
           \/ /\ ~Terminal(run.state)
              /\ StillPending(req)
              /\ Drive(h, run.state, handler[h].rounds + 1)
           \/ /\ ~EndedAlike(req)
              /\ Terminal(run.state) \/ ~StillPending(req)
              /\ Answer(h, "stale_lease")
        /\ UNCHANGED <<run, lapsed, verdict>>

-------------------------------------------------------------------------------
(* transition_job.                                                         *)

Update(h) ==
    LET req == handler[h].req
    IN  /\ handler[h].at = "update"
        /\ \/ /\ Moves(req, req.from)
              /\ run' = Moved(req.to, req)
              /\ IF Terminal(req.to) THEN Confirm(h)
                                     ELSE Answer(h, "accepted")
           \/ /\ ~Moves(req, req.from)
              /\ Enter(h, "classify")
              /\ UNCHANGED run
        /\ UNCHANGED <<lapsed, verdict>>

\* classify_replayed_transition.
ClassifyTransition(h) ==
    LET req == handler[h].req
    IN  /\ handler[h].at = "classify"
        /\ req.kind = "transition"
        /\ \/ /\ run.state = req.to
              /\ Terminal(req.to)
              /\ Confirm(h)
           \/ /\ run.state = req.to
              /\ ~Terminal(req.to)
              /\ Answer(h, IF run.lease = req.lease THEN "accepted"
                                                    ELSE "stale_lease")
           \/ run.state # req.to /\ Answer(h, "stale_lease")
        /\ UNCHANGED <<run, lapsed, verdict>>

-------------------------------------------------------------------------------
(* Both end by confirming the queue message.                               *)

\* AckRegistry::confirm_ack (Delivery has its steps) and confirm_ack.  The
\* registry holds the binding of the last claim, or, after a restart or an
\* earlier confirmation, none, which is taken for acknowledged.
ConfirmAnswer(h) ==
    /\ handler[h].at = "confirm"
    /\ \E binding \in {Unleased, run.attempts} :
          Answer(h, IF binding \in {Unleased, handler[h].req.lease}
                    THEN "accepted" ELSE "stale_lease")
    /\ UNCHANGED <<run, lapsed, verdict>>

\* The database or JetStream fails under a handler: Retry.  Or the scheduler
\* stops: no answer at all.
HandlerFails(h) ==
    /\ handler[h].at # "idle"
    /\ Answer(h, "retry")
    /\ UNCHANGED <<run, lapsed, verdict>>

HandlerStep(h) ==
    \/ Record(h) \/ ClassifyResult(h) \/ Round(h) \/ Reread(h)
    \/ Update(h) \/ ClassifyTransition(h) \/ ConfirmAnswer(h) \/ HandlerFails(h)

-------------------------------------------------------------------------------
(* The other writers of the row and of the registry.                       *)

Course == <<"claimed", "provisioning_runtime", "booting", "installing_apk",
            "running_tests">>

\* The worker's run advances by one edge or more while it knows no outcome.
RunAdvances ==
    /\ Held(run.lease)
    /\ verdict[run.lease] = NoOutcome
    /\ \E i, k \in 1 .. 5 :
          /\ i < k
          /\ run.state = Course[i]
          /\ Course[k] \in Stages
          /\ run' = [run EXCEPT !.state = Course[k]]
    /\ UNCHANGED <<lapsed, verdict, handler, fenced>>

RunCancelled ==
    /\ ~Terminal(run.state)
    /\ run.pending = NoOutcome
    /\ run' = [run EXCEPT !.state = "collecting_artifacts", !.pending = "cancelled"]
    /\ UNCHANGED <<lapsed, verdict, handler, fenced>>

LeaseLapses ==
    /\ Held(run.lease)
    /\ lapsed' = TRUE
    /\ UNCHANGED <<run, verdict, handler, fenced>>

\* recover_stale_job, for an expired lease or a silent worker.
RunRecovered ==
    /\ run.lease # Unleased
    /\ LET closed == [run EXCEPT
                 !.state = IF @ = "cleaning_up" THEN @ ELSE "collecting_artifacts",
                 !.done = IF run.state = "cleaning_up" THEN @ ELSE {},
                 !.lease = Unleased, !.owner = "none"]
       IN  run' = IF run.pending = "cancelled" THEN closed
                  ELSE IF run.attempts < MaxLeases
                  THEN [run EXCEPT !.state = "queued", !.lease = Unleased,
                                   !.owner = "none", !.pending = NoOutcome,
                                   !.done = {}]
                  ELSE [closed EXCEPT !.pending = "infra_failed"]
    /\ lapsed' = FALSE
    /\ fenced' = FALSE
    /\ UNCHANGED <<verdict, handler>>

\* finalize_ready_jobs, one edge at a time, without a lease.
RunFinalized ==
    /\ run.state \in FinalizingState
    /\ run.lease = Unleased
    /\ run' = IF run.state = "collecting_artifacts"
              THEN [run EXCEPT !.state = "cleaning_up",
                               !.done = @ \cup {"artifacts_finalized"}]
              ELSE [run EXCEPT !.state = run.pending, !.done = Evidence]
    /\ UNCHANGED <<lapsed, verdict, handler, fenced>>

\* The dispatcher claims the job for the same worker, binds the delivery and
\* only then tells the worker.
RunClaimed ==
    /\ run.state = "queued"
    /\ run' = [run EXCEPT !.state = "claimed", !.lease = run.attempts + 1,
                          !.attempts = @ + 1, !.owner = "worker"]
    /\ UNCHANGED <<lapsed, verdict, handler, fenced>>

ControlNext ==
    \/ \E h \in Handlers :
          \/ HandlerStep(h)
          \/ RefuseMessage(h)
          \/ \E l \in Lease, outcome \in Reports : TakeRequest(h, l, outcome)
    \/ RunAdvances \/ RunCancelled \/ LeaseLapses \/ RunRecovered \/ RunFinalized
    \/ RunClaimed

ControlSpec == ControlInit /\ [][ControlNext]_controlVars

-------------------------------------------------------------------------------
(* Properties.                                                             *)

\* A request is confirmed only when the job has ended the way it says, whatever
\* raced with it: repeats of itself, transitions, a cancellation, a recovery, a
\* later attempt.  And a result that was told its lease is stale never is the
\* one that ended the job, neither before nor after.
AnswersAgree ==
    /\ \A h \in Handlers :
          handler[h].at = "confirm"
            => run.state = IF handler[h].req.kind = "result"
                           THEN handler[h].req.outcome ELSE handler[h].req.to
    /\ (fenced /\ run.endedBy # Unleased) => run.state # verdict[run.endedBy]

\* The six rounds of drive_result_finalizer are enough: while its lease is the
\* row's, or ended the job, the loop runs out only when that lease expired, never
\* because same-lease requests won its edges.
RoundsSuffice ==
    \A h \in Handlers :
        (/\ handler[h].at = "drive"
         /\ handler[h].rounds = MaxRounds
         /\ handler[h].req.lease \in {run.lease, run.endedBy}) => lapsed

=============================================================================
