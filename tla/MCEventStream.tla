---------------------------- MODULE MCEventStream -----------------------------
(***************************************************************************)
(* Instances of EventStream for TLC.                                       *)
(***************************************************************************)
EXTENDS EventStream

CONSTANTS s1, s2

===============================================================================
