------------------------------ MODULE MCIncidents ------------------------------
(* The sessions and the symmetry of the run "incidents".                    *)
EXTENDS Incidents, TLC

OtherSessions ==
  {[status |-> "ACTIVE", flag |-> FALSE],
   [status |-> "PAUSED_MANUAL", flag |-> FALSE],
   [status |-> "IN_DANGER", flag |-> TRUE]}

AnyOrder == Permutations(Threads)
================================================================================
