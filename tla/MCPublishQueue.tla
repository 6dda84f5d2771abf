--------------------------- MODULE MCPublishQueue ---------------------------
(* Small instances of the publishing queue for TLC.                        *)
EXTENDS PublishQueueProperties, TLC

(* Workers are interchangeable, and so are targets (safety runs only).     *)
WorkerSymmetry == Permutations(Worker)
TargetSymmetry == Permutations(Target)
Symmetry == WorkerSymmetry \cup TargetSymmetry
=============================================================================
