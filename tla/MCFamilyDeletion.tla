-------------------------- MODULE MCFamilyDeletion --------------------------
(* Instances of FamilyDeletion for TLC. *)
EXTENDS FamilyDeletion, TLC

DeletionSymmetry == Permutations(Evidence) \cup Permutations(Receipts)
=============================================================================
