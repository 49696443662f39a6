---------------------------- MODULE MCOrgDeletion ----------------------------
(* Calls and codes are interchangeable. *)
EXTENDS OrgDeletion, TLC

Alike == Permutations(Calls) \cup Permutations(Codes) \cup Permutations(Records)
         \cup Permutations(People)
=============================================================================
