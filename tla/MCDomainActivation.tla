-------------------------- MODULE MCDomainActivation --------------------------
(* Instances of DomainActivation for TLC. *)
EXTENDS DomainActivation

=============================================================================
