---------------------------- MODULE MCLifecycle ----------------------------
(* Small instances of the lifecycle for TLC.                               *)
EXTENDS LifecycleProperties

CONSTANTS x1, x2

(* One company in each workspace.                                          *)
OneEach == [c \in Company |-> IF c = 1 THEN x1 ELSE x2]
=============================================================================
