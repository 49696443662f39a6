--------------------------- MODULE MCMailMigration ---------------------------
(* Instances of MailMigration for TLC. *)
EXTENDS MailMigration
=============================================================================
