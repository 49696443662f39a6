------------------------- MODULE MCSharedSubscription -------------------------
(* Instances of SharedSubscription for TLC. *)
EXTENDS SharedSubscription, TLC

Alike == Permutations(Calls) \cup Permutations(Domains)

=============================================================================
