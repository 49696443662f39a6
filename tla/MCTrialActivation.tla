-------------------------- MODULE MCTrialActivation --------------------------
(* Instances of TrialActivation for TLC. *)
EXTENDS TrialActivation, TLC

Symmetry == Permutations(Calls) \cup Permutations(Sessions)
=============================================================================
