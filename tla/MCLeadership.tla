----------------------------- MODULE MCLeadership -----------------------------
(***************************************************************************)
(* Instances of Leadership for TLC.                                        *)
(***************************************************************************)
EXTENDS Leadership

CONSTANTS s1, s2, s3

===============================================================================
