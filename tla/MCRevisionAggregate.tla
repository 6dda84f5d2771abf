------------------------ MODULE MCRevisionAggregate -------------------------
(* Small instances of the aggregate of a revision for TLC.                 *)
EXTENDS RevisionAggregate, TLC

Symmetry == Permutations(Target) \cup Permutations(Session)
=============================================================================
