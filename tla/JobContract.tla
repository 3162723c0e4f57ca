----------------------------- MODULE JobContract ------------------------------
(***************************************************************************)
(* What the job store promises to everyone who uses it, without tables,    *)
(* leases, clocks or scheduler loops: a job waits, runs under one owner at *)
(* a time, is retried a bounded number of times, and ends with exactly one *)
(* outcome.  JobStore implements this (module JobStoreRefinement).         *)
(***************************************************************************)
EXTENDS JobLifecycle, Naturals

CONSTANTS
    Jobs,
    MaxTries   \* how often a job may be started

VARIABLES
    phase,     \* where a job is, seen from outside
    verdict,   \* the outcome it will end, or has ended, with
    tries,     \* how often it was started
    dead       \* jobs with a dead letter

jvars == <<phase, verdict, tries, dead>>

\* A job that is "running" has an owner; one that is "closing" has none left.
Phase == {"absent", "waiting", "running", "closing", "ended"}

Init ==
    /\ phase = [j \in Jobs |-> "absent"]
    /\ verdict = [j \in Jobs |-> NoOutcome]
    /\ tries = [j \in Jobs |-> 0]
    /\ dead = {}

Submit(j) ==
    /\ phase[j] = "absent"
    /\ phase' = [phase EXCEPT ![j] = "waiting"]
    /\ UNCHANGED <<verdict, tries, dead>>

\* A cancellation wins over nothing but the absence of an outcome; the owner of
\* a running job keeps it.
Cancel(j) ==
    /\ phase[j] \in {"waiting", "running"}
    /\ verdict[j] = NoOutcome
    /\ verdict' = [verdict EXCEPT ![j] = "cancelled"]
    /\ phase' = [phase EXCEPT ![j] = IF @ = "waiting" THEN "closing" ELSE @]
    /\ UNCHANGED <<tries, dead>>

Start(j) ==
    /\ phase[j] = "waiting"
    /\ tries[j] < MaxTries
    /\ phase' = [phase EXCEPT ![j] = "running"]
    /\ tries' = [tries EXCEPT ![j] = @ + 1]
    /\ UNCHANGED <<verdict, dead>>

\* The owner names an outcome, once.
Report(j, outcome) ==
    /\ phase[j] = "running"
    /\ verdict[j] = NoOutcome
    /\ verdict' = [verdict EXCEPT ![j] = outcome]
    /\ UNCHANGED <<phase, tries, dead>>

\* The owner finishes the job, or whoever closes it does.
End(j) ==
    /\ phase[j] \in {"running", "closing"}
    /\ verdict[j] # NoOutcome
    /\ phase' = [phase EXCEPT ![j] = "ended"]
    /\ UNCHANGED <<verdict, tries, dead>>

\* The owner is given up: the job waits again, ...
Retry(j) ==
    /\ phase[j] = "running"
    /\ verdict[j] # "cancelled"
    /\ tries[j] < MaxTries
    /\ phase' = [phase EXCEPT ![j] = "waiting"]
    /\ verdict' = [verdict EXCEPT ![j] = NoOutcome]
    /\ UNCHANGED <<tries, dead>>

\* ... or its cancellation is carried out without the owner, ...
TakeOver(j) ==
    /\ phase[j] = "running"
    /\ verdict[j] = "cancelled"
    /\ phase' = [phase EXCEPT ![j] = "closing"]
    /\ UNCHANGED <<verdict, tries, dead>>

\* ... or it has been tried often enough.
GiveUp(j) ==
    /\ phase[j] = "running"
    /\ verdict[j] # "cancelled"
    /\ tries[j] = MaxTries
    /\ phase' = [phase EXCEPT ![j] = "closing"]
    /\ verdict' = [verdict EXCEPT ![j] = "infra_failed"]
    /\ dead' = dead \cup {j}
    /\ UNCHANGED tries

JobNext(j) ==
    \/ Submit(j) \/ Cancel(j) \/ Start(j)
    \/ \E outcome \in Outcome : Report(j, outcome)
    \/ End(j) \/ Retry(j) \/ TakeOver(j) \/ GiveUp(j)

Next == \E j \in Jobs : JobNext(j)

Spec == Init /\ [][Next]_jvars

===============================================================================
