--------------------------- MODULE MCBillingGrace ---------------------------
(* Instances of BillingGrace for TLC. *)
EXTENDS BillingGrace, TLC

Symmetry == Permutations(Domains) \cup Permutations(Invoices)
=============================================================================
