----------------------------- MODULE MCMigration -----------------------------
(***************************************************************************)
(* Instance of Migration for TLC: two processes, a file with up to two     *)
(* trains of the first schema, one train found later, two ends of a        *)
(* process.                                                                *)
(***************************************************************************)
EXTENDS Migration

MCOldIds == {1, 2}
=============================================================================
