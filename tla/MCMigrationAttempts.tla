------------------------ MODULE MCMigrationAttempts ------------------------
(* Model checking instance of MigrationAttempts. *)
EXTENDS MigrationAttempts
=============================================================================
