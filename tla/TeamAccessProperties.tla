------------------------- MODULE TeamAccessProperties -------------------------
(* What sign-in, the team and the login accounts promise.                  *)
EXTENDS TeamAccess

(* A workspace that is not being deleted has an active owner, whichever    *)
(* owners suspend and delete each other and leave at the same time         *)
(* (team.go:259-275, 343-383, account_lifecycle.go:56-97).                 *)
AnOwnerStays == workspace = "ACTIVE" => ActiveOwners # {}

(* The company that a manager's session has selected is assigned to the    *)
(* manager: a selection that was under way when the assignments were       *)
(* replaced does not survive them (migration 00020:337-347, 458-494,       *)
(* team.go:410-438).                                                       *)
ContextIsAssigned ==
  \A m \in Manager :
    session[m].live /\ session[m].context # Nobody =>
      session[m].context \in assigned[m]

(* No login account of a creator is left without a profile, also when its  *)
(* last profiles are deleted at the same time (server.go:751-812): it      *)
(* could sign in for ever.                                                 *)
NoLoginIsLeftBehind ==
  \A u \in Creator : Exists(u) => \E p \in Profile : profile[p].login = u

(* An invitation makes one account, also when that account has been        *)
(* deleted or has changed its email since (invitations.go:168-185).        *)
InvitationsAreSpent == \A i \in Invitation : made[i] <= 1
=============================================================================
