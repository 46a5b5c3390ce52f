----------------------------- MODULE MCMergeAudit -----------------------------
(* An instance of MergeAudit with pages of two pull requests. *)
EXTENDS MergeAudit, TLC

CONSTANTS p1, p2, p3

Symmetry == Permutations(Pulls)
=============================================================================
