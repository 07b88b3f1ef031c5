----------------------------- MODULE MCDataPath -----------------------------
(* Every monitor has its own output file, as every monitor has its own cfg. *)
EXTENDS DataPathInv, TLC
OwnFile == [m \in Monitors |-> m]
OneFile == [m \in Monitors |-> CHOOSE f \in Files : TRUE]
Symmetric == Permutations(Monitors) \cup Permutations(Senders) \cup Permutations(Servers)
=============================================================================
