------------------------------- MODULE ChTypes -------------------------------
(***************************************************************************)
(* The wrappers around a ClickHouse type and the rules that put them on    *)
(* and take them off (internal/engine: arithmetic.go, supertype.go,        *)
(* wrapper_transport.go), and what one node of a column declaration        *)
(* denotes (schema.go).  No operator here is recursive: TypeTrees applies  *)
(* them at every depth.                                                    *)
(***************************************************************************)
EXTENDS NumericTypes, FiniteSets

Wrap(n, ts) == [Type(n) EXCEPT !.params = ts]
ArrayOf(t) == Wrap("Array", <<t>>)
MapOf(k, v) == Wrap("Map", <<k, v>>)
TupleWith(ts) == Wrap("Tuple", ts)
Marked(f, t) == Wrap("SimpleAggregateFunction", <<Type(f), t>>)
StateOf(f, ts) == Wrap("AggregateFunction", <<Type(f)>> \o ts)

Is(t, n) == t.name = n
\* A refusal passes through, any other type is given to F.
Then(t, F(_)) == IF Fails(t) THEN Refused ELSE F(t)
OrElse(t, u) == IF Fails(t) THEN u ELSE t
IsMarked(t) == Is(t, "SimpleAggregateFunction")
Inner(t) == t.params[Len(t.params)]
Containers == {"Array", "Map", "Tuple"}
GeometryNames == {"Point", "Ring", "LineString", "Polygon", "MultiLineString", "MultiPolygon"}
DateNames == {"Date", "Date32", "DateTime", "DateTime64"}
EnumNames == {"Enum8", "Enum16"}
IsDate(t) == t.name \in DateNames

(***************************************************************************)
(* Wrapper constructors: the only two operators that build a Nullable or a *)
(* LowCardinality node.                                                    *)
(***************************************************************************)
CanBeInsideNullable(t) ==
    t.name \notin Containers \cup {"AggregateFunction", "Dynamic", "Variant"} \cup GeometryNames

\* The container exception is forgotten (a seeded fault).
WrapNullableAlways(t) == IF Is(t, "Nullable") THEN t ELSE Wrap("Nullable", <<t>>)
WrapNullable(t) ==
    IF Is(t, "Nullable") \/ ~CanBeInsideNullable(t) THEN t ELSE Wrap("Nullable", <<t>>)

Unwrap(t, n) == IF Is(t, n) THEN Inner(t) ELSE t

ResultRejectsLowCardinality(t) ==
    Unwrap(t, "Nullable").name \in
        Containers \cup EnumNames \cup {"Decimal", "DateTime64"}

WrapLowCardinality(t) ==
    IF Is(t, "LowCardinality") \/ ResultRejectsLowCardinality(t) THEN t
    ELSE Wrap("LowCardinality", <<t>>)

\* splitCHWrappers: what is left below LowCardinality(Nullable(...)).
SplitWrappers(t) ==
    LET u == Unwrap(t, "LowCardinality")
    IN [base |-> Unwrap(u, "Nullable"),
        nullable |-> Is(u, "Nullable"),
        lowCardinality |-> Is(t, "LowCardinality")]

Bare(t) == SplitWrappers(t).base

ApplyWrappers(t, nullable, lowCardinality) ==
    LET n == IF nullable THEN WrapNullable(t) ELSE t
    IN IF lowCardinality THEN WrapLowCardinality(n) ELSE n

(***************************************************************************)
(* The SimpleAggregateFunction marker.                                     *)
(***************************************************************************)
MarkerSurvives(inner) == inner.name \notin {"Nullable", "LowCardinality"} \cup Containers
MarkerSurvivesValuePreserving(inner) == MarkerSurvives(Unwrap(inner, "Nullable"))
MarkedValue(t) == Unwrap(t, "SimpleAggregateFunction")
ReadMarkedValue(t) == IF IsMarked(t) /\ ~MarkerSurvives(Inner(t)) THEN Inner(t) ELSE t

\* Can the value be NULL, does it carry LowCardinality: both read through the marker.
\* Only the outer wrapper is looked at (a seeded fault).
ArgumentNullableOutside(t) == SplitWrappers(t).nullable
ArgumentNullable(t) == SplitWrappers(Unwrap(t, "SimpleAggregateFunction")).nullable
ArgumentLowCardinality(t) ==
    SplitWrappers(t).lowCardinality
        \/ (IsMarked(t) /\ SplitWrappers(Inner(t)).lowCardinality)

(***************************************************************************)
(* What a declaration in a schema file, a CAST or a server answer denotes. *)
(* A declaration has the shape of a type; its family is spelled as         *)
(* written, its literals may be missing.                                   *)
(***************************************************************************)
Aliases == [INT |-> "Int32", INTEGER |-> "Int32", BIGINT |-> "Int64", SMALLINT |-> "Int16",
            TINYINT |-> "Int8", YEAR |-> "UInt16", BIT |-> "UInt64",
            FLOAT |-> "Float32", REAL |-> "Float32", DOUBLE |-> "Float64",
            BOOLEAN |-> "Bool", DEC |-> "Decimal", NUMERIC |-> "Decimal"]
IntegerAliases == {"INT", "INTEGER", "BIGINT", "SMALLINT", "TINYINT", "YEAR", "BIT"}
FloatAliases == {"FLOAT", "REAL", "DOUBLE"}
Canonical(n) == IF n \in DOMAIN Aliases THEN Aliases[n] ELSE n

\* A known family written in another case is refused; aliases may be in any case.
Misspelled == {"string", "int8", "array", "nullable", "tuple", "date", "uuid"}
ZeroArgument == {"String", "Bool", "Date", "Date32", "UUID", "IPv4", "IPv6"}
                  \cup {n \in NumericNames : ~IsWideInteger(n)}
Timezones == {"UTC", "Asia/Tokyo", "Europe/Berlin", "Europe/Moscow"}

Leaf(n, num, text) == [name |-> n, params |-> <<>>, num |-> num, text |-> text]

ParseDateTime(n, num, text) ==
    LET scaled(s) == Leaf("DateTime64", <<s>>, text)
    IN CASE Len(num) = 0 /\ text = <<>> -> IF n = "DateTime64" THEN scaled(3) ELSE Type(n)
         [] Len(num) = 0 /\ text # <<>> ->
               IF n = "DateTime" /\ text[1] \in Timezones
               THEN Leaf(n, <<>>, <<text[1]>>) ELSE Refused
         [] OTHER ->
               IF \/ Len(num) + Len(text) > 2
                  \/ num[1] \notin 0..9
                  \/ \E i \in DOMAIN text : text[i] \notin Timezones
               THEN Refused
               ELSE IF n = "DateTime64" \/ num[1] # 0 THEN scaled(num[1])
               ELSE Leaf(n, <<>>, text)

EnumNumbers == [Enum8 |-> -128..127, Enum16 |-> -32768..32767]
\* Numbers are given for every label or for none; then they count from 1.
ParseEnum(n, num, text) ==
    LET numbers == IF num = <<>> THEN [i \in DOMAIN text |-> i] ELSE num
        Distinct(s) == \A i, j \in DOMAIN s : s[i] = s[j] => i = j
    IN IF /\ text # <<>>
          /\ Distinct(text) /\ Distinct(numbers)
          /\ \A i \in DOMAIN numbers : numbers[i] \in EnumNumbers[n]
       THEN Leaf(n, numbers, text)
       ELSE Refused

FixedStringLengths == 1..16777215
ParseDecimal(num) ==
    LET p == IF num = <<>> THEN 10 ELSE num[1]
        s == IF Len(num) = 2 THEN num[2] ELSE 0
    IN IF Len(num) <= 2 /\ p \in 1..76 /\ s \in 0..p THEN Decimal(p, s) ELSE Refused

\* SimpleAggregateFunction(f, T): only an f whose result type is T again.
ValidMarked(params) ==
    LET f == params[1].name
        t == params[2]
        summed == Unwrap(t, "Nullable")
    IN /\ Len(params) = 2
       /\ \/ f \in {"any", "anyLast", "min", "max"}
          \/ f = "sum" /\ \/ summed.name \in {"Int64", "UInt64", "Int128", "UInt128",
                                                "Int256", "UInt256", "Float64"}
                          \/ Is(summed, "Decimal") /\ Len(summed.num) = 2 /\ summed.num[1] = 38
          \/ f = "groupArrayArray" /\ Is(t, "Array")
               /\ Inner(t).name \notin {"Nullable", "LowCardinality"}

\* The checks are made in this order: an alias leaves before the rules of its family.
ParseScalar(n, num, text) ==
    LET c == Canonical(n)
        literals == Len(num) + Len(text)
        length == literals = 1 /\ Len(num) = 1 /\ num[1] \in FixedStringLengths
    IN IF n \in Misspelled \cup {"Enum"} THEN Refused
       ELSE IF n \in EnumNames THEN ParseEnum(n, num, text)
       ELSE IF n \in {"DateTime", "DateTime64"} THEN ParseDateTime(n, num, text)
       ELSE IF n \in FloatAliases THEN IF literals <= 2 THEN Type(c) ELSE Refused
       ELSE IF n \in IntegerAliases THEN IF literals <= 1 THEN Type(c) ELSE Refused
       ELSE IF c = "Decimal" THEN IF text = <<>> THEN ParseDecimal(num) ELSE Refused
       ELSE IF c = "FixedString" /\ literals > 0
       THEN IF length THEN Leaf(c, num, <<>>) ELSE Refused
       ELSE IF c \in ZeroArgument /\ literals > 0 THEN Refused
       ELSE Leaf(c, num, text)

\* A declaration whose parameters denote params.
ParseNode(d, params) ==
    LET named == \E i \in DOMAIN d.text : d.text[i] # ""
        tuple == [TupleWith(params) EXCEPT !.text = IF named THEN d.text ELSE <<>>]
        refused == \/ d.params = <<>>
                   \/ d.name \in Misspelled
                   \/ \E i \in DOMAIN params : Fails(params[i])
                   \/ IsMarked(d) /\ ~ValidMarked(params)
    IN IF d.params = <<>> /\ d.name \notin {"Tuple", "Nested"} THEN ParseScalar(d.name, d.num, d.text)
       ELSE IF refused THEN Refused
       ELSE IF d.name = "Tuple" THEN tuple
       ELSE IF d.name = "Nested" THEN ArrayOf(tuple)
       ELSE Wrap(d.name, params)
==============================================================================
