---------------------------- MODULE MCUnlockFlow ----------------------------
(* Instances of UnlockFlow for TLC. *)
EXTENDS UnlockFlow, TLC

MCBackoff == [n \in 1..MaxCommandAttempts |-> 1]

MCAppOf == [k \in Keys |-> CHOOSE app \in Apps : TRUE]

FlowSymmetry == Permutations(Incidents) \cup Permutations(DeviceHandlers) \cup Permutations(ParentHandlers)
=============================================================================
