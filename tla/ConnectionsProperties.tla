----------------------- MODULE ConnectionsProperties ------------------------
(* What the connections of a company promise.                              *)
EXTENDS Connections

(* While the company is archived nothing of it is connected, due, or on    *)
(* its way to be: no active connection or synchronization, no state, no    *)
(* selection with tokens in it (archiveCompany against saves, refreshes    *)
(* and restores that began before it).                                     *)
ArchivedHoldsNothing ==
  company = "ARCHIVED" =>
    /\ \A a \in Account :
         conn[a].status # "ACTIVE" /\ rows[a].current # "active"
    /\ \A f \in Flow : flow[f].pc \notin {"pending", "select"}

(* A first connection leaves none of the creator's accounts waiting for a  *)
(* reconnect: it never takes the place of one (verifyOAuthReconnectIdentity*)
(* and the order in which a selection is saved).                           *)
FirstConnectionReplacesNobody ==
  [][\A f \in Flow : \A c \in Creator :
       /\ flow[f].owner = c /\ flow[f].acct = NoAccount
       /\ Save(f) \/ CompleteSelection(f)
       => ReauthOf(c)' = {}]_vars

(* Once a reconnect has begun again, the callbacks of the earlier one save *)
(* nothing, as long as the connection is not deleted in between            *)
(* (authorization_generation).                                             *)
SupersededSavesNothing ==
  [][\A f \in Flow : flow[f].newer = "yes" =>
       ~Save(f) /\ ~SaveCompanyVK(f) /\ ~CompleteSelection(f)]_vars

(* A refresh, whether it succeeds or is refused, changes only a connection *)
(* that still holds the token it read: an authorization saved in between   *)
(* stays as it is (the row locks of accessTokenForSync, the second look of *)
(* markOAuthReauthRequired).                                               *)
RefreshSparesReconnect ==
  [][\A w \in Worker : RefreshNext(w) =>
       \A a \in Account : conn'[a] # conn[a] =>
         a = job[w].acct /\ ~job[w].stale]_vars
=============================================================================
