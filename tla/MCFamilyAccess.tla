--------------------------- MODULE MCFamilyAccess ---------------------------
(* Instances of FamilyAccess for TLC. *)
EXTENDS FamilyAccess, TLC

AccessSymmetry == Permutations(Emails) \cup Permutations(Handlers)
=============================================================================
