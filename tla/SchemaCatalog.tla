--------------------------- MODULE SchemaCatalog ---------------------------
(***************************************************************************)
(* ParseSchemaCatalogs (internal/engine/catalog.go, catalog_exchange.go,   *)
(* schema.go): the statements of the schema inputs, in order, build the    *)
(* physical and the external catalog in memory.                            *)
(*                                                                         *)
(* A Table value of the code holds references: to its map of columns, to   *)
(* its column order and to its engine.  Copying the value shares them, and *)
(* ALTER TABLE writes through them.  They are explicit here: a reference   *)
(* is the number of the statement that allocated the storage, and columns, *)
(* orders and engines say what the references lead to.  ALTER clauses and  *)
(* RENAME pairs are steps of their own, so that a statement can fail after *)
(* some of them.                                                           *)
(*                                                                         *)
(* "alias" stands for ALIAS and MATERIALIZED; codec, comment and TTL of a  *)
(* column follow the rule of its expression and are left out.  A key       *)
(* stands for ORDER BY, PARTITION BY, PRIMARY KEY and SAMPLE BY.           *)
(***************************************************************************)
EXTENDS Naturals, Sequences, SequencesExt, Functions

CONSTANTS
  Names,          \* table names in the inputs
  Migrations,     \* "schema_migrations"
  Definitions,    \* column definitions: records of name, type and expr
  Bodies,         \* column lists of CREATE TABLE: sequences of Definitions
  Clauses,        \* ENGINE clauses: records of family, key, ttl and settings
  Settings,       \* setting names
  MaxStatements   \* length of the inputs (bounds the model)

ASSUME NamesAssumption == Migrations \in Names /\ "none" \notin Names /\ MaxStatements \in Nat

ASSUME InputsAssumption ==
  /\ Bodies \subseteq Seq(Definitions)
  /\ \A d \in Definitions : d.expr \in {"default", "alias", "omitted"}
  /\ Clauses \subseteq [family: {"MergeTree", "Memory"}, key: {c.key : c \in Clauses},
                       ttl: BOOLEAN, settings: SUBSET Settings]

VARIABLES
  physical,    \* catalogs.Physical.Tables: name -> Table
  external,    \* the names in catalogs.External.Tables
  columns,     \* reference -> Columns
  orders,      \* reference -> ColumnOrder
  engines,     \* reference -> TableEngine
  statement,   \* number of the statement being applied
  phase,       \* what is being executed
  target,      \* the table an ALTER works on
  pending,     \* the cloned tables a RENAME works on
  progress     \* has the statement applied a clause or a pair?

storage == <<columns, orders, engines>>
vars == <<physical, external, columns, orders, engines, statement, phase, target,
          pending, progress>>

Refs == 1..MaxStatements
NoEngine == 0
ColumnNames == {d.name : d \in Definitions}
Column == [type: {d.type : d \in Definitions}, expr: {"default", "alias", "omitted"},
           insertable: BOOLEAN]
Engine == [family: {"MergeTree", "Memory", "none"}, key: {c.key : c \in Clauses} \cup {"none"},
           ttl: BOOLEAN, settings: SUBSET Settings]
Table == [name: Names, columns: Refs, order: Refs, engine: Refs \cup {NoEngine}, origin: Refs]
Empty == [n \in {} |-> n]

\* f is a Go map from some of the keys K to values in V.
IsMap(f, K, V) == DOMAIN f \subseteq K /\ f \in [DOMAIN f -> V]

TypeOK ==
  /\ IsMap(physical, Names, Table) /\ IsMap(pending, Names, Table)
  /\ external \subseteq Names
  /\ DOMAIN columns = Refs /\ \A r \in Refs : IsMap(columns[r], ColumnNames, Column)
  /\ orders \in [Refs -> Seq(ColumnNames)]
  /\ engines \in [Refs -> Engine]
  /\ statement \in 0..MaxStatements
  /\ phase \in {"reading", "alter", "rename", "returned", "failed"}
  /\ target \in Names \cup {"none"}
  /\ progress \in BOOLEAN

\* No ENGINE clause.
Unused == [family |-> "none", key |-> "none", ttl |-> FALSE, settings |-> {}]

Init ==
  /\ physical = Empty /\ pending = Empty /\ external = {}
  /\ columns = [r \in Refs |-> Empty]
  /\ orders = [r \in Refs |-> <<>>]
  /\ engines = [r \in Refs |-> Unused]
  /\ statement = 0
  /\ phase = "reading" /\ target = "none" /\ progress = FALSE
-----------------------------------------------------------------------------
With(f, x, v) == [y \in DOMAIN f \cup {x} |-> IF y = x THEN v ELSE f[y]]
Without(f, x) == Restrict(f, DOMAIN f \ {x})

\* The next statement of the inputs begins; it is the allocation site of what
\* it creates.
NextStatement ==
  /\ phase = "reading"
  /\ statement < MaxStatements
  /\ statement' = statement + 1

\* Any error makes ParseSchemaCatalogs return nil and the error.
Refuse ==
  /\ phase' = "failed"
  /\ UNCHANGED <<physical, external, columns, orders, engines, target, pending, progress>>

\* The statement has no effect on the catalogs.
Skip == UNCHANGED <<physical, external, columns, orders, engines, phase, target, pending, progress>>

\* parseColumnDef: computed columns are not insertable.
ParseColumn(d) == [type |-> d.type, expr |-> d.expr, insertable |-> d.expr # "alias"]

\* parseCreateTable on a column list without duplicates.
ParseColumns(body) ==
  [c \in {body[k].name : k \in DOMAIN body} |->
     ParseColumn(body[CHOOSE k \in DOMAIN body : body[k].name = c])]
ParseOrder(body) == [k \in DOMAIN body |-> body[k].name]

\* The physical table under name n becomes table, backed by these contents.
Allocate(n, cols, order, engine) ==
  LET r == statement' IN
  /\ physical' = With(physical, n, [name |-> n, columns |-> r, order |-> r, origin |-> r,
                                    engine |-> IF engine = Unused THEN NoEngine ELSE r])
  /\ columns' = [columns EXCEPT ![r] = cols]
  /\ orders' = [orders EXCEPT ![r] = order]
  /\ engines' = [engines EXCEPT ![r] = engine]
  /\ UNCHANGED <<external, phase, target, pending, progress>>
-----------------------------------------------------------------------------
(***************************************************************************)
(* CREATE TABLE.                                                           *)
(***************************************************************************)

\* A marked CREATE TABLE: a bare column list under a name of its own.
CreateExternal(n, body, clause) ==
  /\ NextStatement
  /\ IF clause # Unused \/ ~IsInjective(ParseOrder(body)) \/ n \in DOMAIN physical \cup external
     THEN Refuse
     ELSE /\ external' = external \cup {n}
          /\ UNCHANGED <<physical, columns, orders, engines, phase, target, pending, progress>>

\* What applyPhysicalCreate decides before it builds the table.
CreateChecks(n, ifNotExists, Build) ==
  /\ NextStatement
  /\ \/ n = Migrations /\ Skip
     \/ n # Migrations /\ n \in external /\ Refuse
     \/ /\ n # Migrations /\ n \in DOMAIN physical \ external
        /\ IF ifNotExists THEN Skip ELSE Refuse
     \/ n \notin DOMAIN physical \cup external \cup {Migrations} /\ Build

CreateTable(n, ifNotExists, body, clause) ==
  CreateChecks(n, ifNotExists,
    IF IsInjective(ParseOrder(body))
    THEN Allocate(n, ParseColumns(body), ParseOrder(body), clause)
    ELSE Refuse)

\* A MergeTree clause without its own key takes the key of the source engine.
Inherit(clause, source) ==
  IF source # NoEngine /\ clause.family = "MergeTree" /\ clause.key = "none"
  THEN [clause EXCEPT !.key = engines[source].key] ELSE clause

\* The copy takes over the source's column map (a seeded fault).
CreateTableAsShared(n, ifNotExists, source, clause) ==
  CreateChecks(n, ifNotExists,
    IF source \notin DOMAIN physical THEN Refuse
    ELSE /\ physical' = With(physical, n, [physical[source] EXCEPT !.name = n, !.order = statement',
                                             !.engine = NoEngine, !.origin = statement'])
         /\ orders' = [orders EXCEPT ![statement'] = orders[physical[source].order]]
         /\ UNCHANGED <<columns, engines, external, phase, target, pending, progress>>)

CreateTableAs(n, ifNotExists, source, clause) ==
  CreateChecks(n, ifNotExists,
    IF source \notin DOMAIN physical THEN Refuse
    ELSE LET s == physical[source] IN
         Allocate(n, columns[s.columns], orders[s.order],
           IF clause # Unused THEN Inherit(clause, s.engine)
           ELSE IF s.engine = NoEngine THEN Unused ELSE engines[s.engine]))
-----------------------------------------------------------------------------
(***************************************************************************)
(* DROP TABLE, EXCHANGE TABLES and RENAME TABLE.                           *)
(***************************************************************************)

DropTable(n, ifExists) ==
  /\ NextStatement
  /\ \/ n = Migrations /\ Skip
     \/ n # Migrations /\ n \in external /\ Refuse
     \/ /\ n \notin DOMAIN physical \cup external \cup {Migrations}
        /\ IF ifExists THEN Skip ELSE Refuse
     \/ /\ n \in DOMAIN physical \ (external \cup {Migrations})
        /\ physical' = Without(physical, n)
        /\ UNCHANGED <<external, columns, orders, engines, phase, target, pending, progress>>

\* The second definition is overwritten before it is saved (a seeded fault).
ExchangeOneSided(a, b) ==
  /\ NextStatement
  /\ IF a = b \/ Migrations \in {a, b} \/ {a, b} \cap external # {} \/ ~({a, b} \subseteq DOMAIN physical)
     THEN Refuse
     ELSE /\ physical' = [physical EXCEPT ![a] = [physical[b] EXCEPT !.name = a]]
          /\ UNCHANGED <<external, columns, orders, engines, phase, target, pending, progress>>

Exchange(a, b) ==
  /\ NextStatement
  /\ IF a = b \/ Migrations \in {a, b} \/ {a, b} \cap external # {} \/ ~({a, b} \subseteq DOMAIN physical)
     THEN Refuse
     ELSE /\ physical' = [physical EXCEPT ![a] = [physical[b] EXCEPT !.name = a],
                                          ![b] = [physical[a] EXCEPT !.name = b]]
          /\ UNCHANGED <<external, columns, orders, engines, phase, target, pending, progress>>

BeginRename ==
  /\ NextStatement
  /\ phase' = "rename" /\ pending' = physical /\ progress' = FALSE
  /\ UNCHANGED <<physical, external, columns, orders, engines, target>>

\* The new name is not looked up among the external schemas (a seeded fault).
RenamePairUnchecked(a, b) ==
  /\ phase = "rename"
  /\ UNCHANGED statement
  /\ IF Migrations \in {a, b} \/ a \notin DOMAIN pending \/ b \in DOMAIN pending
     THEN Refuse
     ELSE /\ pending' = With(Without(pending, a), b, [pending[a] EXCEPT !.name = b])
          /\ progress' = TRUE
          /\ UNCHANGED <<physical, external, columns, orders, engines, phase, target>>

\* One pair, resolved against the pairs before it.
RenamePair(a, b) ==
  /\ phase = "rename"
  /\ UNCHANGED statement
  /\ IF \/ Migrations \in {a, b}
        \/ {a, b} \cap external # {}
        \/ a \notin DOMAIN pending
        \/ b \in DOMAIN pending
     THEN Refuse
     ELSE /\ pending' = With(Without(pending, a), b, [pending[a] EXCEPT !.name = b])
          /\ progress' = TRUE
          /\ UNCHANGED <<physical, external, columns, orders, engines, phase, target>>

PublishRename ==
  /\ phase = "rename" /\ progress
  /\ physical' = pending
  /\ phase' = "reading" /\ pending' = Empty /\ progress' = FALSE
  /\ UNCHANGED <<external, columns, orders, engines, statement, target>>
-----------------------------------------------------------------------------
(***************************************************************************)
(* ALTER TABLE: the clauses write through the references of the table.     *)
(***************************************************************************)

BeginAlter(n, supported) ==
  /\ NextStatement
  /\ \/ n = Migrations /\ Skip
     \/ /\ n # Migrations
        /\ n \in external \/ ~supported \/ n \notin DOMAIN physical
        /\ Refuse
     \/ /\ n \in DOMAIN physical \ (external \cup {Migrations}) /\ supported
        /\ phase' = "alter" /\ target' = n
        /\ UNCHANGED <<physical, external, columns, orders, engines, pending, progress>>

Altering == phase = "alter" /\ UNCHANGED statement
Cols == columns[physical[target].columns]
Order == orders[physical[target].order]

Store(cols, order) ==
  /\ columns' = [columns EXCEPT ![physical[target].columns] = cols]
  /\ orders' = [orders EXCEPT ![physical[target].order] = order]
  /\ UNCHANGED engines

\* A clause is done; the next one, or the end of the statement, follows.
ClauseDone ==
  /\ progress' = TRUE
  /\ UNCHANGED <<physical, external, phase, target, pending>>

\* The slot opened in the order is not filled (a seeded fault).
AddColumnHole(d, ifNotExists, after) ==
  /\ Altering
  /\ d.name \notin DOMAIN Cols
  /\ after = "none" \/ Contains(Order, after)
  /\ Store(With(Cols, d.name, ParseColumn(d)), Append(Order, "none"))
  /\ ClauseDone

\* "after" is "none" for a column at the end.  An unknown "after" is found only
\* when the column is already in the map.
AddColumn(d, ifNotExists, after) ==
  /\ Altering
  /\ \/ /\ d.name \in DOMAIN Cols /\ ifNotExists
        /\ UNCHANGED storage /\ ClauseDone
     \/ d.name \in DOMAIN Cols /\ ~ifNotExists /\ Refuse
     \/ /\ d.name \notin DOMAIN Cols
        /\ IF after = "none" \/ Contains(Order, after)
           THEN /\ Store(With(Cols, d.name, ParseColumn(d)),
                         IF after = "none" THEN Append(Order, d.name)
                         ELSE InsertAt(Order, 1 + CHOOSE k \in DOMAIN Order : Order[k] = after, d.name))
                /\ ClauseDone
           ELSE /\ Store(With(Cols, d.name, ParseColumn(d)), Order)
                /\ phase' = "failed"
                /\ UNCHANGED <<physical, external, target, pending, progress>>

\* Insertability is read off the clause alone (a seeded fault).
RetypeForgets(d, previous) ==
  IF d.expr = "omitted"
  THEN [type |-> d.type, expr |-> previous.expr, insertable |-> TRUE]
  ELSE ParseColumn(d)

\* An expression that the clause omits is kept, with what it says of inserts.
Retype(d, previous) ==
  IF d.expr = "omitted"
  THEN [type |-> d.type, expr |-> previous.expr, insertable |-> previous.insertable]
  ELSE ParseColumn(d)

ModifyColumn(d, ifExists) ==
  /\ Altering
  /\ \/ /\ d.name \notin DOMAIN Cols /\ ifExists
        /\ UNCHANGED storage /\ ClauseDone
     \/ d.name \notin DOMAIN Cols /\ ~ifExists /\ Refuse
     \/ /\ d.name \in DOMAIN Cols
        /\ Store([Cols EXCEPT ![d.name] = Retype(d, Cols[d.name])], Order)
        /\ ClauseDone

\* The column stays in the order (a seeded fault).
DropColumnKeepsOrder(c, ifExists) ==
  /\ Altering
  /\ IF c \in DOMAIN Cols THEN Store(Without(Cols, c), Order) /\ ClauseDone
     ELSE IF ifExists THEN UNCHANGED storage /\ ClauseDone ELSE Refuse

DropColumn(c, ifExists) ==
  /\ Altering
  /\ \/ /\ c \notin DOMAIN Cols /\ ifExists
        /\ UNCHANGED storage /\ ClauseDone
     \/ c \notin DOMAIN Cols /\ ~ifExists /\ Refuse
     \/ /\ c \in DOMAIN Cols
        /\ Store(Without(Cols, c), RemoveFirst(Order, c))
        /\ ClauseDone

\* REMOVE TTL, MODIFY SETTING and RESET SETTING, on a table with an engine.
TableEngine == engines[physical[target].engine]

AlterEngine(altered) ==
  /\ Altering
  /\ IF physical[target].engine = NoEngine THEN UNCHANGED engines
     ELSE engines' = [engines EXCEPT ![physical[target].engine] = altered]
  /\ UNCHANGED <<columns, orders>>
  /\ ClauseDone

RemoveTTL == AlterEngine([TableEngine EXCEPT !.ttl = FALSE])
ModifySetting(s) == AlterEngine([TableEngine EXCEPT !.settings = @ \cup {s}])
ResetSetting(s) == AlterEngine([TableEngine EXCEPT !.settings = @ \ {s}])

\* A projection or index clause concerns nothing the catalog holds.
IgnoredClause == Altering /\ UNCHANGED storage /\ ClauseDone

EndAlter ==
  /\ Altering /\ progress
  /\ phase' = "reading" /\ target' = "none" /\ progress' = FALSE
  /\ UNCHANGED <<physical, external, columns, orders, engines, pending>>
-----------------------------------------------------------------------------
(***************************************************************************)
(* The inputs as a whole.                                                  *)
(***************************************************************************)

\* DROP VIEW, SYSTEM WAIT VIEW, CREATE VIEW and INSERT leave the catalogs alone.
IgnoredStatement == NextStatement /\ Skip

\* Text the parser refuses, a marker without its CREATE TABLE, a qualified or
\* system name, a type that cannot be read, or a statement that is not modelled.
UnsupportedStatement == NextStatement /\ Refuse

\* The same, found in a later clause or pair of a statement.
UnsupportedPart ==
  /\ phase \in {"alter", "rename"}
  /\ UNCHANGED statement
  /\ Refuse

Return ==
  /\ phase = "reading"
  /\ phase' = "returned"
  /\ UNCHANGED <<physical, external, columns, orders, engines, statement, target, pending, progress>>

Create ==
  \E n \in Names, flag \in BOOLEAN, clause \in Clauses \cup {Unused} :
    \/ \E body \in Bodies : CreateExternal(n, body, clause) \/ CreateTable(n, flag, body, clause)
    \/ \E source \in Names : CreateTableAs(n, flag, source, clause)

Move ==
  \/ \E n \in Names, flag \in BOOLEAN : DropTable(n, flag)
  \/ BeginRename
  \/ PublishRename
  \/ \E a, b \in Names : Exchange(a, b) \/ RenamePair(a, b)

Alter ==
  \/ \E n \in Names, supported \in BOOLEAN : BeginAlter(n, supported)
  \/ \E d \in Definitions, flag \in BOOLEAN :
       \/ \E after \in ColumnNames \cup {"none"} : AddColumn(d, flag, after)
       \/ ModifyColumn(d, flag)
       \/ DropColumn(d.name, flag)
  \/ RemoveTTL \/ IgnoredClause
  \/ \E s \in Settings : ModifySetting(s) \/ ResetSetting(s)
  \/ EndAlter

Next ==
  \/ Create \/ Move \/ Alter
  \/ IgnoredStatement \/ UnsupportedStatement \/ UnsupportedPart
  \/ Return

Spec == Init /\ [][Next]_vars
-----------------------------------------------------------------------------
(***************************************************************************)
(* What the catalogs must satisfy.                                         *)
(***************************************************************************)

\* No name is in both catalogs, a table is stored under its own name, and the
\* table of golang-migrate never becomes a physical table, whatever sequence
\* of creates, renames and exchanges the inputs hold.
CatalogsApart ==
  /\ DOMAIN physical \cap external = {}
  /\ Migrations \notin DOMAIN physical
  /\ \A n \in DOMAIN physical : physical[n].name = n

\* As long as no statement was refused, the order of a table lists each of its
\* columns exactly once: positional inserts and wildcards rely on it.
OrderListsColumns ==
  phase # "failed" => \A n \in DOMAIN physical :
    LET order == orders[physical[n].order] IN
    IsInjective(order) /\ Range(order) = DOMAIN columns[physical[n].columns]

\* A computed column never becomes insertable, and no other column stops
\* being insertable, through whatever chain of MODIFY COLUMN and CREATE AS.
ComputedNeverInsertable ==
  \A n \in DOMAIN physical :
    LET cols == columns[physical[n].columns] IN
    \A c \in DOMAIN cols : cols[c].insertable <=> cols[c].expr # "alias"

\* Two tables never share a column map, a column order or an engine, so that
\* an ALTER of one cannot edit another (a copy is independent of its source).
NoSharedStorage ==
  \A n, m \in DOMAIN physical : n # m =>
    /\ physical[n].columns # physical[m].columns
    /\ physical[n].order # physical[m].order
    /\ physical[n].engine # NoEngine => physical[n].engine # physical[m].engine

\* docs/design.md, "schema_migrations handling": a CREATE TABLE of that name,
\* in any schema input, produces no catalog entry.
MigrationsStayOut == Migrations \notin DOMAIN physical \cup external

\* What a caller gets to see of the catalogs.
Definition(t) ==
  [columns |-> columns[t.columns], order |-> orders[t.order], origin |-> t.origin,
   engine |-> IF t.engine = NoEngine THEN Unused ELSE engines[t.engine]]

Promise == INSTANCE SchemaReplay WITH
  NothingYet <- Empty,
  tables <- IF phase = "failed" THEN Empty
            ELSE [n \in DOMAIN physical |-> Definition(physical[n])],
  externals <- IF phase = "failed" THEN {} ELSE external,
  status <- IF phase \in {"alter", "rename"} THEN "reading" ELSE phase

\* Every statement, clause and pair does to the table definitions only what
\* SchemaReplay allows.
ImplementsSchemaReplay == Promise!Spec
=============================================================================
