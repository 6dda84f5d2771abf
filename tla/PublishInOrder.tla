--------------------------- MODULE PublishInOrder ---------------------------
(***************************************************************************)
(* What publishing in several parts promises, without jobs, workers, calls *)
(* or faults: the target goes on record first, each part of the plan is    *)
(* begun only when the parts before it are complete, and the target is     *)
(* shown as published only with all of them, for good.                     *)
(***************************************************************************)
EXTENDS Naturals

VARIABLES
  plan,      \* the parts of this publication
  recorded,  \* an operation of the target is on record
  done,      \* the parts that are complete at the provider
  public     \* the target is shown as published

vars == <<plan, recorded, done, public>>

(* A container or an upload is created, its bytes arrive, the provider     *)
(* processes it, and it is put before the public.                          *)
Rank == [create |-> 1, upload |-> 2, process |-> 3, publish |-> 4]
Part == DOMAIN Rank

Init ==
  /\ plan \in SUBSET Part
  /\ recorded = FALSE /\ done = {} /\ public = FALSE

Record ==
  /\ ~recorded /\ recorded' = TRUE
  /\ UNCHANGED <<plan, done, public>>

Do(p) ==
  /\ recorded /\ p \in plan \ done
  /\ \A q \in plan : Rank[q] < Rank[p] => q \in done
  /\ done' = done \cup {p}
  /\ UNCHANGED <<plan, recorded, public>>

Show ==
  /\ plan \subseteq done /\ ~public /\ public' = TRUE
  /\ UNCHANGED <<plan, recorded, done>>

Next == Record \/ Show \/ \E p \in Part : Do(p)

Spec == Init /\ [][Next]_vars
=============================================================================
