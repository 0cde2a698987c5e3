------------------------------ MODULE MCSched ------------------------------
(***************************************************************************)
(* Sched on small instances.  The configurations choose which of the tasks *)
(* exist, which services they use and which arguments they pass.           *)
(***************************************************************************)
EXTENDS Sched

CONSTANTS t1, t2, t3, idle   \* model values
=============================================================================
