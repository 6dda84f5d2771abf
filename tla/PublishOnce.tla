---------------------------- MODULE PublishOnce -----------------------------
(***************************************************************************)
(* What publishing promises, without jobs, workers or leases: a target is  *)
(* put on record, the provider makes one object for it, its id is learned, *)
(* and only then may the target be shown as published, for good.           *)
(***************************************************************************)
EXTENDS Naturals

CONSTANT Target

VARIABLES
  op,      \* what is durably known of the operation of every target
  made,    \* objects the provider made for it
  public   \* the target is shown as published

vars == <<op, made, public>>

Init ==
  /\ op = [t \in Target |-> "none"]
  /\ made = [t \in Target |-> 0]
  /\ public = [t \in Target |-> FALSE]

Intend(t) ==
  /\ op[t] = "none"
  /\ op' = [op EXCEPT ![t] = "intent"]
  /\ UNCHANGED <<made, public>>

Make(t) ==
  /\ op[t] = "intent" /\ made[t] = 0
  /\ made' = [made EXCEPT ![t] = 1]
  /\ UNCHANGED <<op, public>>

Learn(t) ==
  /\ op[t] = "intent" /\ made[t] = 1
  /\ op' = [op EXCEPT ![t] = "accepted"]
  /\ UNCHANGED <<made, public>>

Reveal(t) ==
  /\ op[t] = "accepted" /\ made[t] = 1 /\ ~public[t]
  /\ public' = [public EXCEPT ![t] = TRUE]
  /\ UNCHANGED <<op, made>>

Next == \E t \in Target : Intend(t) \/ Make(t) \/ Learn(t) \/ Reveal(t)

Spec == Init /\ [][Next]_vars
=============================================================================
