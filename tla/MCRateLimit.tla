---------------------------- MODULE MCRateLimit ----------------------------
(***************************************************************************)
(* Two connections that hash to the same slot.                             *)
(***************************************************************************)
EXTENDS RateLimit, TLC

MCConn == {<<1, 1, 1, 1>>, <<1, 2, 1, 2>>}
Symmetry == Permutations(Cpu)
=============================================================================
