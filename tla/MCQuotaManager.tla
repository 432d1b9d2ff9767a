--------------------------- MODULE MCQuotaManager ---------------------------
(* Instances of QuotaManager for TLC.                                      *)
EXTENDS QuotaManager, TLC

Symmetry == Permutations(Users) \cup Permutations(Callers)
              \cup Permutations(Tokens)
=============================================================================
