-------------------------- MODULE MCEncryptedMigration --------------------------
(* Attempts of the migration for TLC: three crashes and three failures among   *)
(* two changes of the content and two wrong PINs.                              *)
EXTENDS EncryptedMigration

MCBudgets == {[pins |-> 2, changes |-> 2, crashes |-> 3, fails |-> 3]}
=============================================================================
