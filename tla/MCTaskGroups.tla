---------------------------- MODULE MCTaskGroups ----------------------------
(* A root with three groups in every shape, one task, one writer of         *)
(* real-time bandwidth and two callers of sched_setscheduler.               *)
EXTENDS TaskGroups, TLC

CONSTANTS root, g1, g2, g3, t1, w1, k1, k2

Symmetry == Permutations({g1, g2, g3}) \cup Permutations({k1, k2})
=============================================================================
