--------------------------- MODULE MCSchemaCatalog ---------------------------
(***************************************************************************)
(* Instances of SchemaCatalog for TLC: three ordinary table names, two     *)
(* columns that can be computed or not, and one engine with everything.    *)
(***************************************************************************)
EXTENDS SchemaCatalog, TLC

CONSTANTS t1, t2, t3

MCNames == {t1, t2, t3, "schema_migrations"}
Column1(expr) == [name |-> "a", type |-> "UInt64", expr |-> expr]
Column2(expr) == [name |-> "b", type |-> "UInt64", expr |-> expr]
MCDefinitions ==
  {Column1("omitted"), Column1("alias"), Column2("omitted"), Column2("alias")}
MCBodies ==
  {<<Column1("omitted"), Column2("alias")>>, <<Column2("omitted")>>,
   <<Column1("omitted"), Column1("alias")>>}
MCClauses ==
  {[family |-> "MergeTree", key |-> k, ttl |-> k = "id", settings |-> {}] : k \in {"none", "id"}}
    \cup {[family |-> "Memory", key |-> "none", ttl |-> FALSE, settings |-> {}]}

\* The ordinary names are interchangeable.
OrdinaryNames == Permutations({t1, t2, t3})
=============================================================================
