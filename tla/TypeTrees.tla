------------------------------- MODULE TypeTrees -------------------------------
(***************************************************************************)
(* The rules of ChTypes and GoTypes that reach every depth of a type: the  *)
(* strip of LowCardinality and of geometry aliases, the parse of a         *)
(* declaration (schema.go) and the Go type of a column (gotype.go).        *)
(***************************************************************************)
EXTENDS GoTypes

RECURSIVE StripLowCardinality(_)
StripLowCardinality(t) ==
    LET u == Unwrap(t, "LowCardinality")
    IN IF Is(t, "LowCardinality") THEN StripLowCardinality(u)
       ELSE [u EXCEPT !.params = [i \in DOMAIN u.params |-> StripLowCardinality(u.params[i])]]

\* A Point, Ring, ... is a tuple or nested arrays once an expression computes with it.
Point == TupleWith(<<Type("Float64"), Type("Float64")>>)
RECURSIVE WithoutGeometryAliases(_)
WithoutGeometryAliases(t) ==
    CASE Is(t, "Point") -> Point
      [] t.name \in {"Ring", "LineString"} -> ArrayOf(Point)
      [] t.name \in {"Polygon", "MultiLineString"} -> ArrayOf(ArrayOf(Point))
      [] Is(t, "MultiPolygon") -> ArrayOf(ArrayOf(ArrayOf(Point)))
      [] OTHER -> [t EXCEPT !.params =
                      [i \in DOMAIN t.params |-> WithoutGeometryAliases(t.params[i])]]

(***************************************************************************)
(* The result of a call, with the wrappers that survive it.                *)
(***************************************************************************)
ApplyTransport(result, tr, call) ==
    LET s == ResultStack(tr, call)
    IN ApplyStack(IF tr.stripNested /\ ~s.lowCardinality THEN StripLowCardinality(result) ELSE result, s)

\* What a declaration denotes, its parameters first.
RECURSIVE ParseType(_)
ParseType(d) == ParseNode(d, [i \in DOMAIN d.params |-> ParseType(d.params[i])])

(***************************************************************************)
(* The Go type of a column.                                                *)
(***************************************************************************)
RECURSIVE ContainsWideInteger(_)
ContainsWideInteger(t) ==
    IsWideInteger(t.name) \/ \E i \in DOMAIN t.params : ContainsWideInteger(t.params[i])

RECURSIVE GoType(_)
GoType(t) == GoNode(t, [i \in DOMAIN t.params |-> GoType(t.params[i])], ContainsWideInteger(t))
================================================================================
