------------------------------ MODULE MCMigrate ------------------------------
(***************************************************************************)
(* Migrate for TLC.                                                        *)
(***************************************************************************)
EXTENDS Migrate

MigrateSymmetry == Permutations(Session) \cup Permutations(Pane) \cup Permutations(Opener)
=============================================================================
