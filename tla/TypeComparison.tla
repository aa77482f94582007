---------------------------- MODULE TypeComparison ----------------------------
(***************************************************************************)
(* Which argument a function takes and which two operands a comparison     *)
(* takes (internal/engine/argument_domain.go).  Every base type here has   *)
(* its Nullable and LowCardinality taken off by the caller.                *)
(***************************************************************************)
EXTENDS TypeSupertype

(***************************************************************************)
(* Families.                                                               *)
(***************************************************************************)
IntegerBase(t) == t.params = <<>> /\ t.name \in IntegerNames
FloatBase(t) == t.params = <<>> /\ IsFloat(t.name)
NumberValueBase(t) == IntegerBase(t) \/ FloatBase(t) \/ IsDecimal(t)
NumberBase(t) == NumberValueBase(t) \/ t.name \in EnumNames
OffsetBase(t) == (IntegerBase(t) \/ FloatBase(t)) /\ ~IsWideInteger(t.name)
IndexBase(t) == IntegerBase(t) /\ ~IsWideInteger(t.name)
TemporalBase(t) == t.name \in {"Date", "DateTime", "DateTime64"}
ContainerBase(t) == WithoutGeometryAliases(t).name \in Containers
HoldsState(t) == Is(t, "AggregateFunction")

(***************************************************************************)
(* Argument domains, by name.                                              *)
(***************************************************************************)
CastDomain(t) == ~HoldsState(t) /\ t.name \notin {"JSON", "Variant"} /\ ~ContainerBase(t)

\* Aggregates, and the positions that must be a number, a text or an array.
AcceptsReduced(domain, t) ==
    \/ domain = "any"
    \/ domain = "sum" /\ NumberBase(t)
    \/ domain = "avg" /\ NumberValueBase(t)
    \/ domain = "quantile" /\ (NumberValueBase(t) \/ TemporalBase(t))
    \/ domain = "groupBit" /\ IntegerBase(t)
    \/ domain = "index" /\ IndexBase(t)
    \/ domain = "stringOnly" /\ Is(t, "String")
    \/ domain = "array" /\ Is(t, "Array")

\* Functions that take any value but the ones ClickHouse was seen to refuse.
AcceptsScalar(domain, t) ==
    \/ domain = "scalar" /\ ~ContainerBase(t)
    \/ domain = "hex" /\ ~ContainerBase(t) /\ t.name \notin EnumNames \cup {"Date32", "DateTime64"}
    \/ domain = "cast" /\ CastDomain(t)

AcceptsHeld(domain, t) ==
    \/ domain = "dateFromValue" /\ CastDomain(t) /\ ~IsDecimal(t)
    \/ domain = "has" /\ t.name \in {"Array", "Map"}
    \/ domain = "comparableValue" /\ ~HoldsState(t) /\ t.name \notin {"Dynamic", "Variant"}

\* Texts, dates and operands of logic.
AcceptsTextOrTime(domain, t) ==
    \/ domain = "text" /\ (IsText(t) \/ t.name \in EnumNames)
    \/ domain = "date" /\ IsDate(t)
    \/ domain = "hourMinuteStartOf" /\ t.name \in {"DateTime", "DateTime64"}
    \/ domain = "string" /\ IsText(t)
    \/ domain = "reverse" /\ (IsText(t) \/ t.name \in {"Array", "Tuple"})
    \/ domain = "logicOperator" /\ IsLogicOperand(t)
    \/ domain = "xor" /\ (IsLogicOperand(t) \/ Is(t, "Dynamic"))

AcceptsLength(domain, t) ==
    \/ domain = "countable" /\ (IsText(t) \/ t.name \in {"Array", "Map", "UUID", "IPv4", "IPv6"})
    \/ domain = "byteLength" /\ (IsText(t) \/ t.name \in {"Array", "Map"})
    \/ domain = "castText" /\ IsText(t)

AcceptsShifted(domain, t) ==
    \/ domain = "addSubtractTemporal" /\ IsDate(t)
    \/ domain = "wideInteger" /\ (NumberBase(t) \/ IsDate(t) \/ IsText(t))
    \/ domain = "decimalConstructor" /\ (NumberValueBase(t) \/ IsText(t))

Accepts(domain, t) ==
    \/ AcceptsReduced(domain, t)
    \/ AcceptsScalar(domain, t)
    \/ AcceptsHeld(domain, t)
    \/ AcceptsTextOrTime(domain, t)
    \/ AcceptsLength(domain, t)
    \/ AcceptsShifted(domain, t)

\* Every position that the domain is about is there and has an accepted base;
\* the marker is read through.
DomainValue(t) == Bare(MarkedValue(Bare(t)))
InDomain(domain, indexes, args) ==
    \A i \in indexes : i \in DOMAIN args /\ Accepts(domain, DomainValue(args[i]))

\* These give a marked value back; any other restricted function computes a new one.
ValuePreservingDomain == {"max", "min", "maxIf", "minIf", "argMax", "argMin", "argMaxIf", "argMinIf"}

\* The body of the lambda of a higher-order function that filters.
PredicateBody(t) ==
    LET base == Bare(t)
    IN base.params = <<>> /\ base.name \in {"UInt8", "Bool", "Nothing"}

(***************************************************************************)
(* Interval units: the finest one a date family still has.                 *)
(***************************************************************************)
IntervalUnits == <<"nanosecond", "microsecond", "millisecond", "second", "minute",
                   "hour", "day", "week", "month", "quarter", "year">>
UnitRank(unit) == CHOOSE i \in DOMAIN IntervalUnits : IntervalUnits[i] = unit
UnitFloor == [Date |-> "day", Date32 |-> "day", DateTime |-> "second"]
IntervalAccepted(base, unit) ==
    base.name \in DOMAIN UnitFloor => UnitRank(unit) >= UnitRank(UnitFloor[base.name])

(***************************************************************************)
(* Comparison.  A type belongs to one or two classes; two types compare    *)
(* when they share one and no exception refuses the pair.                  *)
(***************************************************************************)
ComparisonClasses(t) ==
    CASE t.name \in NumericNames \cup DecimalNames \cup {"Bool", "Interval"} -> {"numeric"}
      [] t.name \in EnumNames -> {"numeric", "stringLike"}
      [] IsText(t) -> {"stringLike"}
      [] t.name \in {"Date", "Date32"} -> {"temporal"}
      [] t.name \in {"DateTime", "DateTime64"} -> {"temporal", "numeric"}
      [] t.name \in {"IPv4", "IPv6"} -> {"ip"}
      [] t.name \in {"UUID", "Array", "Tuple", "Map", "Variant", "JSON"} -> {t.name}
      [] OTHER -> {}

RECURSIVE ComparisonKnown(_)
ComparisonKnown(t) ==
    LET base == Bare(WithoutGeometryAliases(t))
    IN CASE IsMarked(base) -> ComparisonKnown(Inner(base))
         [] Is(base, "Dynamic") \/ HoldsState(base) -> TRUE
         [] base.name \in {"Array", "Tuple", "Map", "Variant"} ->
               \A i \in DOMAIN base.params : ComparisonKnown(base.params[i])
         [] OTHER -> ComparisonClasses(base) # {}

\* The table is read from one side only (a seeded fault).
RefusedPairOneSided(l, r) ==
    \/ HoldsState(l) \/ HoldsState(r)
    \/ Is(l, "DateTime") /\ IsDecimal(r)
    \/ ComparisonClasses(l) \cap ComparisonClasses(r) = {}
\* The pairs that share a class and that the server refuses all the same.
RefusedPair(l, r) ==
    LET Pair(A, B) == (l.name \in A /\ r.name \in B) \/ (r.name \in A /\ l.name \in B)
    IN \/ Pair({"Interval"}, {"Date", "Date32", "DateTime64"} \cup DecimalNames)
       \/ HoldsState(l) \/ HoldsState(r)
       \/ "JSON" \in {l.name, r.name} /\ l # r
       \/ Pair({"DateTime"}, DecimalNames)
       \/ Pair({"Dynamic"}, {"Tuple", "Map", "Variant"})
       \/ Pair(EnumNames, DecimalNames)
       \/ ComparisonClasses(l) # {} /\ ComparisonClasses(r) # {}
            /\ ComparisonClasses(l) \cap ComparisonClasses(r) = {}
       \/ Is(l, "Variant") /\ Is(r, "Variant") /\ l # r

RECURSIVE ComparableBase(_, _)
\* Elements of arrays, keys and values of maps also need a common type.
ComparableMembers(l, r, alike) ==
    /\ Len(l.params) = Len(r.params)
    /\ \A i \in DOMAIN l.params :
          LET a == Bare(l.params[i])
              b == Bare(r.params[i])
          IN /\ alike => ~Fails(CommonOfTwo(a, b))
             /\ ComparableBase(a, b)

ComparableBase(left, right) ==
    LET l == WithoutGeometryAliases(left)
        r == WithoutGeometryAliases(right)
        members == l.name = r.name /\ l.name \in Containers
    IN /\ ~RefusedPair(l, r)
       /\ \/ ComparisonClasses(l) # {} /\ ComparisonClasses(r) # {}
          \/ ComparisonKnown(l) /\ ComparisonKnown(r)
       /\ members => ComparableMembers(l, r, ~Is(l, "Tuple"))

ComparisonVerdict(l, r) ==
    CASE HoldsState(l) \/ HoldsState(r) -> "invalid"
      [] ~HoldsState(l) /\ ~HoldsState(r) /\ ~(ComparisonKnown(l) /\ ComparisonKnown(r)) -> "unknown"
      [] OTHER -> IF ComparableBase(l, r) THEN "confirmed" ELSE "invalid"

ComparableOperands(l, r) == ComparisonVerdict(Bare(l), Bare(r)) = "confirmed"

\* The server casts a constant to the type of the other side, unless it is a number.
ComparableExpressions(l, r, lconst, rconst) ==
    LET unknown == (~lconst /\ ~ComparisonKnown(l)) \/ (~rconst /\ ~ComparisonKnown(r))
        cast == /\ ~unknown
                /\ lconst \/ rconst
                /\ lconst # rconst => ComparisonClasses(Bare(IF rconst THEN r ELSE l)) # {"numeric"}
    IN cast \/ ComparableOperands(l, r)

==============================================================================
