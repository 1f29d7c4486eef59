---------------------------- MODULE MCMigrations ----------------------------
(***************************************************************************)
(* Migrations for TLC.  The instance is in the .cfg file; there is no      *)
(* symmetry, because that every run ends is checked with the rest.         *)
(***************************************************************************)
EXTENDS Migrations, TLC
=============================================================================
