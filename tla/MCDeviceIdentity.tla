-------------------------- MODULE MCDeviceIdentity --------------------------
(* Instances of DeviceIdentity for TLC. *)
EXTENDS DeviceIdentity, TLC

\* A device clock is right, or ahead.
Ahead == {0, 1}

IdentitySymmetry ==
    Permutations(Keys) \cup Permutations(IdempotencyKeys) \cup Permutations(Handlers)
    \cup Permutations(Families)
=============================================================================
