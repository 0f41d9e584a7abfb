-------------------------- MODULE MCIncidentServer --------------------------
(* Instances of IncidentServer for TLC. *)
EXTENDS IncidentServer, TLC

\* min(2^(n-1), cap) with the cap scaled down to the instance's clock.
MCBackoff == [n \in 1..MaxCommandAttempts |-> IF n = 1 THEN 1 ELSE 2]

IncidentSymmetry == Permutations(Incidents)

HandlerSymmetry == Permutations(ParentHandlers) \cup Permutations(DeviceHandlers)
=============================================================================
