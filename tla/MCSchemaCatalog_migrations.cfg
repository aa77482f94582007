\* A marked CREATE TABLE of golang-migrate's own table.
CONSTANTS
  t1 = t1
  t2 = t2
  t3 = t3
  Names <- MCNames
  Migrations = "schema_migrations"
  Definitions <- MCDefinitions
  Bodies <- MCBodies
  Clauses <- MCClauses
  Settings = {"s"}
  MaxStatements = 2
SPECIFICATION Spec
INVARIANTS
  MigrationsStayOut
CHECK_DEADLOCK FALSE
