----------------------------- MODULE MCHealthyRun -----------------------------
(***************************************************************************)
(* Instances of HealthyRun for TLC.                                        *)
(***************************************************************************)
EXTENDS HealthyRun

CONSTANTS j1, w1, p1, s1

MCProjectOf == [j \in Jobs |-> p1]
MCCompatible == Jobs \X Workers
MCLimit == [p \in Projects |-> 1]
MCCapacity == {1}
MCEvidence == {{}, {"artifacts_finalized"}, Evidence}

===============================================================================
