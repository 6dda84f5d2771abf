--------------------------- MODULE MCConnections ----------------------------
(* Small instances of the connections for TLC.                             *)
EXTENDS ConnectionsProperties, TLC

Symmetry == Permutations(Account) \cup Permutations(Flow)
              \cup Permutations(Worker) \cup Permutations(Creator)
=============================================================================
