-------------------------- MODULE MCMigrationSource --------------------------
(* Model-checking instances of the source side of a migration. *)
EXTENDS MigrationSource

CONSTANTS c1, c2, c3


=============================================================================
