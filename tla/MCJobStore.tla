------------------------------ MODULE MCJobStore ------------------------------
(* JobStore and its contract for TLC. *)
EXTENDS JobStoreRefinement

CONSTANTS j1, w1, p1, s1

MCProjectOf == [j \in Jobs |-> p1]
MCCompatible == Jobs \X Workers
MCMaxOutstanding == [p \in Projects |-> 2]
MCMaxConcurrent == [p \in Projects |-> 1]
MCOneCapacity == {1}
MCAllEvidence == SUBSET Evidence

===============================================================================
