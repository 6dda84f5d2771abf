------------------------ MODULE LifecycleProperties ------------------------
(* What the end of companies, workspaces and grants promises.              *)
EXTENDS Lifecycle

(* Whoever decides on the withdrawal decides alone: one lifecycle worker,   *)
(* or requests, which hold the lock of the grant.  The worker does not     *)
(* take that lock, so that each may rely on the other (see the README).    *)
(* Nor does the loop of a deletion request take it, which deletes accounts *)
(* of a grant the person has withdrawn: nobody grants anew in between.     *)
DecidesAlone ==
  /\ "pair" \notin open
  /\ "end" \in open => open \cap {"purge", "delete"} = {}
  /\ "notice" \in open => "connect" \notin open

(* When no copy of a shared grant is left, the grant has been withdrawn at *)
(* the provider, or somebody is about to withdraw it: neither of two       *)
(* concurrent disconnects relies on the other, nor does a due company on   *)
(* one that is purged first (oauth.go:1773-1776, lifecycle.go:464-502).    *)
(* Excepted are a provider that refuses and a process that dies on the     *)
(* way.                                                                    *)
GrantIsWithdrawn ==
  grant /\ ~missed /\ DecidesAlone =>
    \/ Linked # {}
    \/ \E r \in Request : request[r].pc \in {"elect", "revoke"}

(* The provider, and the person who asks for the status, are told          *)
(* COMPLETED only when every account found for the request has gone        *)
(* (instagram_privacy.go:93-109, 209-216).                                 *)
ReportedDeletionsAreDone ==
  notice.status = "COMPLETED" => notice.rows = {}

(* A company whose time has come is purged although workers crash or stall *)
(* with its lease, also while workspaces are being deleted                 *)
(* (lifecycle.go:35-104).                                                  *)
DueIsPurged ==
  \A c \in Company : company[c] = "DUE" ~> company[c] = "GONE"

(* So is a workspace its last owner has left, and its receipt says so, if  *)
(* no content command was ever answered in it (lifecycle.go:401-453).      *)
LeftWorkspacesEnd ==
  \A x \in Workspace :
    workspace[x] = "DELETING" /\ ~keyed[x]
      ~> workspace[x] = "GONE" /\ receipt[x] = "COMPLETE"

(* Neither waits for ever, although both are claimed by the same loop and  *)
(* a subject that fails keeps its lease (RunLifecyclePurge).               *)
DeletionsEnd == DueIsPurged /\ LeftWorkspacesEnd
=============================================================================
