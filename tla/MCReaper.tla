------------------------------- MODULE MCReaper -------------------------------
(* Reaper for TLC. *)
EXTENDS Reaper

CONSTANTS j1, s1
=============================================================================
