--------------------------- MODULE MCUpdateWorker ---------------------------
(* Instances of UpdateWorker for TLC: versions and snapshot files are      *)
(* interchangeable.                                                        *)
EXTENDS UpdateWorkerRefinement, UpdateWorkerInv, TLC

Symmetry == Permutations(Versions) \cup Permutations(Files)
=============================================================================
