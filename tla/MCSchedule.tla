----------------------------- MODULE MCSchedule -----------------------------
(* A section at connect only, one of every round, one of every other round.  *)
EXTENDS Schedule
MCMins == [s \in Sections |-> CASE s = "start" -> 0 [] s = "discover" -> 1 [] OTHER -> 2]
=============================================================================
