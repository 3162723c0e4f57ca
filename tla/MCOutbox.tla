------------------------------- MODULE MCOutbox -------------------------------
(* Outbox for TLC. *)
EXTENDS Outbox

CONSTANTS t1, t2, i1, i2
=============================================================================
