-------------------------------- MODULE GoTypes --------------------------------
(***************************************************************************)
(* The Go type of a result column and the range guard that walks it, one   *)
(* node of the type at a time (internal/engine: gotype.go, temporal.go).   *)
(* Each operator takes what was found for the parameters of the node;      *)
(* TypeTrees and TypeTemporal apply them at every depth.                   *)
(***************************************************************************)
EXTENDS TypeTransport

(***************************************************************************)
(* A Go type is a tree of pointers, slices and maps over the driver's scan *)
(* targets.                                                                *)
(***************************************************************************)
GoLeaf == [String |-> "string", FixedString |-> "string", Enum8 |-> "string", Enum16 |-> "string",
           UUID |-> "uuid.UUID", IPv4 |-> "net.IP", IPv6 |-> "net.IP", Bool |-> "bool",
           UInt8 |-> "uint8", UInt16 |-> "uint16", UInt32 |-> "uint32", UInt64 |-> "uint64",
           Int8 |-> "int8", Int16 |-> "int16", Int32 |-> "int32", Int64 |-> "int64",
           Float32 |-> "float32", Float64 |-> "float64",
           Decimal |-> "decimal.Decimal", Decimal32 |-> "decimal.Decimal",
           Decimal64 |-> "decimal.Decimal", Decimal128 |-> "decimal.Decimal",
           Decimal256 |-> "decimal.Decimal",
           Date |-> "time.Time", Date32 |-> "time.Time", DateTime |-> "time.Time",
           DateTime64 |-> "time.Time"]

\* gos are the Go types of the parameters of t; wide says that t holds an
\* integer of 128 or 256 bits.
GoNode(t, gos, wide) ==
    LET inner == gos[Len(t.params)]
        key == gos[1]
    IN CASE t.name \in {"LowCardinality", "SimpleAggregateFunction"} -> inner
         [] Is(t, "Nullable") -> IF Fails(inner) \/ Is(inner, "*") THEN inner ELSE Wrap("*", <<inner>>)
         [] Is(t, "Array") -> IF Fails(inner) THEN Refused ELSE Wrap("[]", <<inner>>)
         [] Is(t, "Map") ->
               IF wide \/ Fails(key) \/ Fails(inner) \/ key.name \in {"*", "net.IP"}
               THEN Refused ELSE Wrap("map", <<key, inner>>)
         [] t.name \in DOMAIN GoLeaf -> Type(GoLeaf[t.name])
         [] OTHER -> Refused

(***************************************************************************)
(* The walk of the generated range guard over a value of a type: the paths *)
(* to the moments it checks.  A path goes through an element of an array,  *)
(* a key or a value of a map, and ends in the family that is checked.      *)
(***************************************************************************)
Through(step, paths) == {<<step>> \o p : p \in paths}

\* The keys of a map are not walked (a seeded fault).
GuardedNodeNoKeys(t, paths) ==
    CASE t.name \in {"LowCardinality", "Nullable"} -> paths[1]
      [] Is(t, "Array") -> Through("element", paths[1])
      [] Is(t, "Map") -> Through("value", paths[2])
      [] OTHER -> IF IsDate(t) THEN {<<t.name>>} ELSE {}

\* paths are the paths of the parameters of t.
GuardedNode(t, paths) ==
    CASE t.name \in {"LowCardinality", "Nullable"} -> paths[1]
      [] Is(t, "AggregateFunction") -> IF Len(t.params) >= 2 THEN paths[2] ELSE {}
      [] Is(t, "Array") -> Through("element", paths[1])
      [] Is(t, "Map") -> Through("key", paths[1]) \cup Through("value", paths[2])
      [] IsDate(t) -> {<<t.name>>}
      [] OTHER -> {}

\* The paths to every time.Time in a value of a Go type.
TimeNode(go, paths) ==
    CASE Is(go, "*") -> paths[1]
      [] Is(go, "[]") -> Through("element", paths[1])
      [] Is(go, "map") -> Through("key", paths[1]) \cup Through("value", paths[2])
      [] Is(go, "time.Time") -> {<<>>}
      [] OTHER -> {}
================================================================================
