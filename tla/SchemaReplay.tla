---------------------------- MODULE SchemaReplay ----------------------------
(***************************************************************************)
(* What replaying the schema inputs promises, without saying how the       *)
(* catalog is stored (docs/configuration.md, "Schema order").              *)
(*                                                                         *)
(* A statement declares one table, removes one, changes the definition of  *)
(* one, or moves whole definitions to other names; a definition is never   *)
(* lost, duplicated or edited through another table's statement, and it    *)
(* keeps the location of the CREATE it came from.  A refused statement     *)
(* refuses the whole input: no catalog is returned.                        *)
(***************************************************************************)
EXTENDS Functions, Naturals, Sequences

CONSTANTS
  Names,        \* table names that may appear in the inputs
  Migrations,   \* the name chgen leaves to golang-migrate
  NothingYet    \* the empty catalog

VARIABLES
  tables,       \* tables[n]: the physical definition under name n
  externals,    \* names declared as external row schemas
  status        \* "reading", "returned" or "failed"

vars == <<tables, externals, status>>

\* The order lists every column exactly once; a computed column takes no values.
WellFormed(d) ==
  /\ IsInjective(d.order)
  /\ Range(d.order) = DOMAIN d.columns
  /\ \A c \in DOMAIN d.columns : d.columns[c].insertable <=> d.columns[c].expr # "alias"

Origins(t) == {t[n].origin : n \in DOMAIN t}

Init == tables = NothingYet /\ externals = {} /\ status = "reading"

Reading == status = "reading" /\ status' = "reading"

\* A table is declared under a free name, from a statement of its own.
Declare(n) ==
  /\ Reading
  /\ n \notin DOMAIN tables \cup externals \cup {Migrations}
  /\ DOMAIN tables' = DOMAIN tables \cup {n}
  /\ Restrict(tables', DOMAIN tables) = tables
  /\ WellFormed(tables'[n]) /\ tables'[n].origin \notin Origins(tables)
  /\ UNCHANGED externals

Forget(n) ==
  /\ Reading
  /\ n \in DOMAIN tables
  /\ tables' = Restrict(tables, DOMAIN tables \ {n})
  /\ UNCHANGED externals

\* Only the definition of n changes.
Reshape(n) ==
  /\ Reading
  /\ n \in DOMAIN tables /\ DOMAIN tables' = DOMAIN tables
  /\ \A m \in DOMAIN tables \ {n} : tables'[m] = tables[m]
  /\ WellFormed(tables'[n]) /\ tables'[n].origin = tables[n].origin
  /\ UNCHANGED externals

\* The same definitions under other names.
Rearrange ==
  /\ Reading
  /\ DOMAIN tables' \cap (externals \cup {Migrations}) = {}
  /\ \E from \in Bijection(DOMAIN tables', DOMAIN tables) :
       \A n \in DOMAIN tables' : tables'[n] = tables[from[n]]
  /\ UNCHANGED externals

DeclareExternal(n) ==
  /\ Reading
  /\ n \notin DOMAIN tables \cup externals
  /\ externals' = externals \cup {n}
  /\ UNCHANGED tables

Return == status = "reading" /\ status' = "returned" /\ UNCHANGED <<tables, externals>>

Fail ==
  /\ status = "reading"
  /\ status' = "failed" /\ tables' = NothingYet /\ externals' = {}

Next ==
  \/ \E n \in Names : Declare(n) \/ Forget(n) \/ Reshape(n) \/ DeclareExternal(n)
  \/ Rearrange
  \/ Return
  \/ Fail

Spec == Init /\ [][Next]_vars
=============================================================================
