----------------------------- MODULE MCSchedSMP -----------------------------
(* Model values for TLC instances of SchedSMP. *)
EXTENDS SchedSMP

CONSTANTS c0, c1, t1, t2, w1
=============================================================================
