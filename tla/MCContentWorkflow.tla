------------------------- MODULE MCContentWorkflow --------------------------
(* Small instances of the content workflow for TLC.                        *)
EXTENDS ContentWorkflowProperties, TLC

Symmetry == Permutations(Manager) \cup Permutations(Key)
              \cup Permutations(Handler)
=============================================================================
