-------------------------- MODULE MCQuotaScheduler --------------------------
(* Instances of QuotaScheduler for TLC.                                    *)
EXTENDS QuotaScheduler, TLC

Symmetry == Permutations(Users) \cup Permutations(Callers)
=============================================================================
