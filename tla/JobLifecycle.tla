----------------------------- MODULE JobLifecycle -----------------------------
(***************************************************************************)
(* The job state machine of crates/contracts/src/state_machine.rs, and the *)
(* step a worker's result takes through it (crates/scheduler/src/          *)
(* control.rs).  Constant operators only: the modules that keep job rows   *)
(* extend this one.                                                        *)
(*                                                                         *)
(* States and outcomes are written with the snake_case names the enums     *)
(* serialise to and the jobs table stores, so a terminal state and the     *)
(* outcome it records are the same string, as in the table's CHECKs.  The  *)
(* two evidence booleans of TransitionEvidence are a subset of Evidence.   *)
(***************************************************************************)

\* Terminal states, which are also the five JobOutcomes.
Outcome == {"passed", "failed", "cancelled", "timed_out", "infra_failed"}

\* States a worker drives a job through before its artifacts are collected.
RunningState ==
    {"claimed", "provisioning_runtime", "booting", "installing_apk",
     "running_tests", "debug_available"}

\* States that close a run: artifacts first, then cleanup.
FinalizingState == {"collecting_artifacts", "cleaning_up"}

JobState == {"queued"} \cup RunningState \cup FinalizingState \cup Outcome

Terminal(s) == s \in Outcome

\* The absence of a pending outcome (an SQL NULL).
NoOutcome == "no_outcome"

Evidence == {"artifacts_finalized", "cleanup_completed"}

\* TransitionEvidence: what the requester of a transition claims.
TransitionEvidence ==
    [pending : Outcome \cup {NoOutcome}, done : SUBSET Evidence]

\* Fault: a run may be abandoned early with any outcome.
FaultAnyEarlyOutcome(from, outcome) ==
    from \in {"queued"} \cup RunningState /\ outcome \in Outcome

\* Outcomes with which a run may be abandoned before its tests start.
EarlyOutcomeAllowed(from, outcome) ==
    \/ from = "queued" /\ outcome \in {"cancelled", "timed_out"}
    \/ /\ from \in {"claimed", "provisioning_runtime", "booting"}
       /\ outcome \in {"cancelled", "timed_out", "infra_failed"}
    \/ /\ from = "installing_apk"
       /\ outcome \in {"failed", "cancelled", "timed_out", "infra_failed"}

\* The straight-line edges, which need no evidence.
ForwardEdge ==
    {<<"queued", "claimed">>, <<"claimed", "provisioning_runtime">>,
     <<"provisioning_runtime", "booting">>, <<"booting", "installing_apk">>,
     <<"installing_apk", "running_tests">>}

\* validate_transition: may `from' move to `to' on this evidence?  It is
\* asked of the request, not of the stored row.
ValidTransition(from, to, evidence) ==
    \/ <<from, to>> \in ForwardEdge
    \/ /\ from = "running_tests"
       /\ to = "debug_available"
       /\ evidence.pending \in Outcome
    \/ /\ from \in {"running_tests", "debug_available"}
       /\ to = "collecting_artifacts"
       /\ evidence.pending \in Outcome
    \/ /\ to = "collecting_artifacts"
       /\ evidence.pending \in Outcome
       /\ EarlyOutcomeAllowed(from, evidence.pending)
    \/ /\ from = "collecting_artifacts"
       /\ to = "cleaning_up"
       /\ "artifacts_finalized" \in evidence.done
    \/ /\ from = "cleaning_up"
       /\ Terminal(to)
       /\ "cleanup_completed" \in evidence.done
       /\ evidence.pending = to

===============================================================================
