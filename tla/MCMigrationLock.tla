--------------------------- MODULE MCMigrationLock --------------------------
\* Constants for model checking MigrationLock.
EXTENDS MigrationLock

CONSTANTS c1, c2, c3

Three == {c1, c2, c3}
=============================================================================
