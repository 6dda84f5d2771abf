----------------------------- MODULE MCTeamAccess -----------------------------
(* A small workspace for TLC.                                              *)
EXTENDS TeamAccessProperties, TLC

CONSTANTS o1, o2, o3, m1, m2, m3, k1, k2, e1, e2, e3, e4, c1, c2, p1, p2, i1

FirstTeam == o1 :> e1 @@ o2 :> e2 @@ m1 :> e3
Companies2 == p1 :> c1 @@ p2 :> c2
AsManager == i1 :> [email |-> e4, role |-> "MANAGER"]
=============================================================================
