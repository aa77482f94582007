\* Every sequence of statements, with every clause and pair.
CONSTANTS
  t1 = t1
  t2 = t2
  t3 = t3
  Names <- MCNames
  Migrations = "schema_migrations"
  Definitions <- MCDefinitions
  Bodies <- MCBodies
  Clauses <- MCClauses
  Settings = {"s"}
  MaxStatements = 4
SPECIFICATION Spec
SYMMETRY OrdinaryNames
INVARIANTS
  TypeOK
  CatalogsApart
  OrderListsColumns
  ComputedNeverInsertable
  NoSharedStorage
PROPERTIES
  ImplementsSchemaReplay
CHECK_DEADLOCK FALSE
