--------------------------- MODULE MCInspectPool ---------------------------
(***************************************************************************)
(* Instances of InspectPool for TLC: two workers, two or three modules.    *)
(***************************************************************************)
EXTENDS InspectPool, TLC
CONSTANTS w1, w2, a, b
PoolWorkers == {w1, w2}
PoolModules == {a, b}
WorkerSymmetry == Permutations(PoolWorkers)
=============================================================================
