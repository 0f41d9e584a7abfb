------------------------- MODULE MCEvidenceLifecycle -------------------------
(* Instances of EvidenceLifecycle for TLC. *)
EXTENDS EvidenceLifecycle, TLC

One == {1}

EvidenceSymmetry == Permutations(Handlers) \cup Permutations(Jobs)
=============================================================================
