---------------------------- MODULE MCMigration ----------------------------
(***************************************************************************)
(* Instances of Migration for TLC.  No symmetry: MigrationEnds is temporal. *)
(***************************************************************************)
EXTENDS Migration
=============================================================================
