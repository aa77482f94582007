---------------------------- MODULE TypeFunctions ----------------------------
(***************************************************************************)
(* The function table and the evaluator that infers the type of a call     *)
(* (internal/engine: registry.go, function_evaluator.go, infer_function.go, *)
(* parameter_verdict.go, infer_expr.go).                                   *)
(*                                                                         *)
(* args are the argument types of a call, consts says which arguments are  *)
(* constant expressions.  A call whose type chgen refuses is Refused.      *)
(***************************************************************************)
EXTENDS TypeTemporal

(***************************************************************************)
(* The table.  class says how wrappers travel, strategy how many arguments *)
(* the rule reads, domain what the arguments at `at` may be.               *)
(***************************************************************************)
Entry(class, strategy, rule, domain, at) ==
    [class |-> class, strategy |-> strategy, rule |-> rule, domain |-> domain, at |-> at]

CastTarget == [toString |-> "String", toDate |-> "Date", toDate32 |-> "Date32",
               toUInt8 |-> "UInt8", toUInt16 |-> "UInt16", toUInt32 |-> "UInt32", toUInt64 |-> "UInt64",
               toInt8 |-> "Int8", toInt16 |-> "Int16", toInt32 |-> "Int32", toInt64 |-> "Int64",
               toFloat32 |-> "Float32", toFloat64 |-> "Float64"]
CastEntry(f) ==
    Entry("transparent", "independent", CastTarget[f],
          CASE f = "toString" -> "any"
            [] f \in {"toDate", "toDate32"} -> "dateFromValue"
            [] OTHER -> "cast",
          IF f = "toString" THEN {} ELSE {1})

Counting == {"count", "countIf", "uniq", "uniqExact", "uniqExactIf", "uniqHLL12", "uniqTheta",
             "countDistinct", "row_number", "rank", "dense_rank", "ntile"}
Rounding == {"round", "roundBankers", "floor", "ceil", "trunc", "truncate"}
Comparators == {"equals", "notEquals", "less", "lessOrEquals", "greater", "greaterOrEquals"}
Extremes == {"max", "min", "maxIf", "minIf"}
ArgExtremes == {"argMax", "argMin", "argMaxIf", "argMinIf"}
GroupArrays == {"groupArray", "groupArrayIf", "groupArraySorted", "groupArraySortedDistinct"}
WindowValues == {"first_value", "last_value", "lag", "lead", "lagInFrame", "leadInFrame", "nth_value",
                 "first_value_respect_nulls", "last_value_respect_nulls"}

FixedScalar(f) ==
    CASE f \in {"empty", "notEmpty"} -> Entry("transparent", "independent", "UInt8", "countable", {1})
      [] f = "length" -> Entry("transparent", "independent", "UInt64", "byteLength", {1})
      [] f = "dateDiff" -> Entry("transparent", "independent", "Int64", "date", {2, 3})
      [] f \in {"toYYYYMM", "toYYYYMMDD"} -> Entry("transparent", "independent", "UInt32", "date", {1})
      [] f = "toYYYYMMDDhhmmss" -> Entry("transparent", "independent", "UInt64", "date", {1})
      [] f = "substring" -> Entry("transparent", "independent", "String", "text", {1})
      [] f \in {"trim", "trimLeft", "trimRight"} -> Entry("transparent", "independent", "String", "string", {1})
      [] f = "hex" -> Entry("transparent", "independent", "String", "hex", {1})
      [] f = "cityHash64" -> Entry("transparent", "independent", "UInt64", "any", {})
      [] f \in Comparators -> Entry("transparent", "independent", "UInt8", "any", {})
      [] f \in {"isNull", "isNotNull"} -> Entry("opaque", "independent", "UInt8", "any", {})
      [] f = "has" -> Entry("opaque", "independent", "UInt8", "has", {1})
      [] f = "arrayStringConcat" -> Entry("opaque", "independent", "String", "array", {1})

Aggregate(f) ==
    CASE f \in {"uniqCombined", "uniqCombined64"} -> Entry("aggregate", "independent", "UInt64", "any", {})
      [] f \in {"avg", "avgIf"} -> Entry("aggregate", "independent", "Float64", "avg", {1})
      [] f \in {"sum", "sumIf"} -> Entry("aggregate", "firstOnly", "sum", "sum", {1})
      [] f = "sumWithOverflow" -> Entry("aggregate", "firstOnly", "sumWithOverflow", "sum", {1})
      [] f \in {"groupBitAnd", "groupBitOr", "groupBitXor"} ->
            Entry("aggregate", "firstOnly", "groupBit", "groupBit", {1})
      [] f \in Extremes -> Entry("aggregate", "firstOnly", "first", "comparableValue", {1})
      [] f \in ArgExtremes -> Entry("aggregate", "firstOnly", "first", "comparableValue", {2})
      [] f \in {"any", "anyLast"} \cup WindowValues -> Entry("aggregate", "firstOnly", "first", "any", {})
      [] f \in {"quantile", "quantileIf", "median", "medianIf"} ->
            Entry("aggregate", "firstOnly", "quantile", "quantile", {1})
      [] f \in {"quantileState", "quantileStateIf"} ->
            Entry("opaque", "firstOnly", "state", "quantile", {1})
      [] f \in GroupArrays -> Entry("opaque", "generic", "groupArray", "any", {})
      [] f \in {"groupUniqArray", "groupUniqArrayIf"} -> Entry("opaque", "generic", "groupUniqArray", "any", {})

Container(f) ==
    CASE f \in {"arraySort", "arraySlice"} -> Entry("aggregate", "firstOnly", "first", "array", {1})
      [] f = "arrayDistinct" -> Entry("aggregate", "firstOnly", "arrayDistinct", "array", {1})
      [] f = "arrayResize" -> Entry("aggregate", "generic", "arrayResize", "array", {1})
      [] OTHER -> Entry("opaque", "generic", f, "any", {})   \* array, tuple, map, arrayElement, mapKeys, mapValues

Scalar(f) ==
    CASE f \in {"abs", "negate"} -> Entry("transparent", "firstOnly", f, "avg", {1})
      [] f \in Rounding -> Entry("transparent", "firstOnly", "first", "avg", {1})
      [] f \in {"lower", "upper"} -> Entry("transparent", "firstOnly", "caseFolding", "string", {1})
      [] f = "reverse" -> Entry("transparent", "firstOnly", "reverse", "reverse", {1})
      [] f = "concat" -> Entry("transparent", "generic", "concat", "any", {})
      [] f = "bitShiftRight" -> Entry("transparent", "generic", "bitShiftRight", "index", {1, 2})
      [] f = "nullIf" -> Entry("transparent", "generic", "nullIf", "scalar", {1})
      [] f = "assumeNotNull" -> Entry("opaque", "generic", "assumeNotNull", "any", {})
      [] f \in {"greatest", "least"} -> Entry("aggregate", "generic", f, "any", {})

FixedScalars == {"empty", "notEmpty", "length", "dateDiff", "toYYYYMM", "toYYYYMMDD", "toYYYYMMDDhhmmss",
                 "substring", "trim", "trimLeft", "trimRight", "hex", "cityHash64", "isNull", "isNotNull",
                 "has", "arrayStringConcat"} \cup Comparators
Scalars == {"abs", "negate", "lower", "upper", "reverse", "concat", "bitShiftRight", "nullIf",
            "assumeNotNull", "greatest", "least"} \cup Rounding
ContainerCalls == {"array", "tuple", "map", "arrayElement", "mapKeys", "mapValues",
                   "arraySort", "arraySlice", "arrayDistinct", "arrayResize"}

\* The measured unary families: sin ... give Float64, sign gives Int8.
NumericUnary == {"sin", "acos", "asin", "atan", "cos", "exp", "log", "log10", "log2", "sqrt", "tan", "tanh"}
StringUnary == {"base64Encode", "lowerUTF8", "reverseUTF8", "upperUTF8"}
Unary(f) ==
    CASE f \in NumericUnary -> Entry("transparent", "independent", "Float64", "avg", {1})
      [] f = "sign" -> Entry("transparent", "independent", "Int8", "avg", {1})
      [] f \in StringUnary -> Entry("transparent", "independent", "String", "stringOnly", {1})

Aggregates == Extremes \cup ArgExtremes \cup GroupArrays \cup WindowValues
                \cup {"uniqCombined", "uniqCombined64", "avg", "avgIf", "sum", "sumIf", "sumWithOverflow",
                      "groupBitAnd", "groupBitOr", "groupBitXor", "any", "anyLast",
                      "quantile", "quantileIf", "median", "medianIf", "quantileState", "quantileStateIf",
                      "groupUniqArray", "groupUniqArrayIf"}
FunctionNames == Counting \cup DOMAIN CastTarget \cup FixedScalars \cup Scalars \cup ContainerCalls
                   \cup NumericUnary \cup StringUnary \cup {"sign"} \cup Aggregates
FunctionTable ==
    [f \in FunctionNames |->
        CASE f \in Counting -> Entry("opaque", "independent", "UInt64", "any", {})
          [] f \in DOMAIN CastTarget -> CastEntry(f)
          [] f \in FixedScalars -> FixedScalar(f)
          [] f \in Scalars -> Scalar(f)
          [] f \in ContainerCalls -> Container(f)
          [] f \in NumericUnary \cup StringUnary \cup {"sign"} -> Unary(f)
          [] f \in Aggregates -> Aggregate(f)]
Function(f) == FunctionTable[f]

(***************************************************************************)
(* The functions with a disposition of their own.                          *)
(***************************************************************************)
Override ==
    [f \in FunctionNames |->
        CASE f \in {"greatest", "least"} -> GreatestLeastTransport
          [] f \in Rounding \cup {"lower", "upper", "reverse", "lowerUTF8", "reverseUTF8", "upperUTF8"} ->
                CaseFoldingTransport
          [] f \in WindowValues \ {"first_value", "last_value"} -> WindowTransport
          [] f = "nullIf" -> NullIfTransport
          [] OTHER -> Transport("none", "none", "none")]
HasOverride(f) == Override[f].lowCardinality # "none"
TransportFor(f, class) == IF HasOverride(f) THEN Override[f] ELSE ClassTransport(class)

(***************************************************************************)
(* Result rules.                                                           *)
(***************************************************************************)
FixedRules == NumericNames \cup {"String", "Date", "Date32", "DateTime"}
\* The probe that finds a fixed rule calls it with one argument: concat answers String too.
IsFixedRule(rule) == rule \in FixedRules \cup {"concat"}

Reversed(s) == [i \in DOMAIN s |-> s[Len(s) + 1 - i]]
ReverseRule(t) ==
    CASE Is(t, "Array") -> ArrayOf(StripLowCardinality(Inner(t)))
      [] Is(t, "Tuple") -> [TupleWith(Reversed(t.params)) EXCEPT !.text = Reversed(t.text)]
      [] OTHER -> IF Is(t, "FixedString") THEN t ELSE Type("String")

ConcatRule(args) ==
    LET All(n) == \A i \in DOMAIN args : Is(args[i], n)
    IN IF Len(args) < 2 THEN Type("String")
       ELSE IF All("Array") \/ All("Map") THEN CommonType(args)
       ELSE IF All("Tuple") THEN Refused
       ELSE Type("String")

ArrayDistinctRule(t) == IF Is(t, "Array") THEN ArrayOf(Unwrap(Inner(t), "Nullable")) ELSE t

ArrayResizeRule(args) ==
    LET array == WithoutGeometryAliases(Bare(args[1]))
    IN IF ~Is(array, "Array") THEN Refused
       ELSE IF Len(args) = 2 THEN array
       ELSE ArrayResult(<<Inner(array), args[3]>>)

\* A sum is computed in the widest type of its family.
SumRule(t) ==
    LET base == Unwrap(t, "Nullable")
        known == base.name \in NumericNames \cup {"Bool"}
        class == IntegerClass(base.name)
        result ==
            CASE IsDecimal(base) ->
                    LET c == CanonicalDecimal(base)
                    IN Decimal(IF c.num[1] > 38 THEN 76 ELSE 38, c.num[2])
              [] base.name \in EnumNames -> Type("Int64")
              [] known /\ IsFloat(base.name) -> Type("Float64")
              [] known /\ IsWideInteger(base.name) -> base
              [] known /\ ~IsFloat(base.name) /\ ~IsWideInteger(base.name) -> Type(NumericTypeName(class.kind, 64))
              [] OTHER -> base
    IN IF Is(t, "Nullable") THEN Wrap("Nullable", <<result>>) ELSE result

\* An Enum or a Bool is computed as its storage type.
StorageRule(t) ==
    LET w == SplitWrappers(t)
        base == IF w.base.name \in EnumNames THEN EnumStorage(w.base) ELSE BoolAsInteger(w.base)
    IN ApplyWrappers(base, w.nullable, w.lowCardinality)
GroupBitRule(t) == IF IntegerBase(Bare(t)) THEN StorageRule(t) ELSE Refused

RECURSIVE QuantileRule(_)
QuantileRule(t) ==
    IF Is(t, "Nullable") THEN Wrap("Nullable", <<QuantileRule(Inner(t))>>)
    ELSE IF IsDecimal(t) THEN CanonicalDecimal(t)
    ELSE IF IntegerBase(t) \/ FloatBase(t) THEN Type("Float64")
    ELSE t

AbsNegateRule(f, t) ==
    LET class == IntegerClass(t.name)
        width == IF f = "negate" /\ class.kind = "unsigned" THEN Promoted(class.bits) ELSE class.bits
    IN IF IsDecimal(t) \/ FloatBase(t) THEN t
       ELSE IF ~IntegerBase(t) THEN Refused
       ELSE Type(NumericTypeName(IF f = "abs" THEN "unsigned" ELSE "signed", width))

BitShiftRule(args) ==
    LET class(i) == IntegerClass(args[i].name)
    IN IF Len(args) # 2 \/ \E i \in DOMAIN args : ~IndexBase(args[i]) THEN Refused
       ELSE Type(NumericTypeName(IF "signed" \in {class(1).kind, class(2).kind} THEN "signed" ELSE "unsigned",
                                 Larger(class(1).bits, class(2).bits)))

AssumeNotNullRule(t) ==
    LET value == WithoutGeometryAliases(ReadMarkedValue(t))
        inner == Inner(value)
    IN CASE Is(value, "LowCardinality") ->
              IF Is(inner, "Nullable") THEN WrapLowCardinality(Inner(inner)) ELSE value
         [] Is(value, "Nullable") -> Inner(value)
         [] OTHER -> StripLowCardinality(value)

MapHalf(t, i) == IF Is(t, "Map") THEN ArrayOf(t.params[i]) ELSE Refused

\* A state of the quantile family keeps its argument whole.
StateRule(t) == StateOf("quantile", <<t>>)
NullIfRule(t) == IF CanBeInsideNullable(t) THEN t ELSE Refused
GroupUniqArrayRule(t) ==
    LET element == GroupArrayElement(t)
    IN ArrayOf(IF Is(element, "DateTime") THEN Type("DateTime") ELSE element)

\* Rules of the first argument alone.
FirstRules == {"first", "sum", "sumWithOverflow", "groupBit", "quantile", "state", "groupArray",
               "groupUniqArray", "abs", "negate", "caseFolding", "reverse", "arrayDistinct",
               "assumeNotNull", "mapKeys", "mapValues"}
FirstRule(rule, t) ==
    CASE rule = "first" -> WithoutGeometryAliases(t)
      [] rule = "sum" -> SumRule(t)
      [] rule = "sumWithOverflow" -> StorageRule(t)
      [] rule = "groupBit" -> GroupBitRule(t)
      [] rule = "quantile" -> QuantileRule(t)
      [] rule = "state" -> StateRule(t)
      [] rule = "groupArray" -> ArrayOf(GroupArrayElement(t))
      [] rule = "groupUniqArray" -> GroupUniqArrayRule(t)
      [] rule \in {"abs", "negate"} -> AbsNegateRule(rule, t)
      [] rule = "caseFolding" -> IF Is(t, "FixedString") THEN t ELSE Type("String")
      [] rule = "reverse" -> ReverseRule(WithoutGeometryAliases(t))
      [] rule = "arrayDistinct" -> ArrayDistinctRule(t)
      [] rule = "assumeNotNull" -> AssumeNotNullRule(t)
      [] rule = "mapKeys" -> MapHalf(t, 1)
      [] rule = "mapValues" -> MapHalf(t, 2)

ListRule(rule, f, args) ==
    CASE rule = "concat" -> ConcatRule(args)
      [] rule = "bitShiftRight" -> BitShiftRule(args)
      [] rule = "nullIf" -> NullIfRule(WithoutGeometryAliases(args[1]))
      [] rule \in {"greatest", "least"} -> GreatestLeast(f, args)
      [] rule = "arrayResize" -> ArrayResizeRule(args)
      [] rule = "array" -> ArrayResult(args)
      [] rule = "tuple" -> TupleWith(args)
      [] rule = "map" -> MapResult(args)
      [] rule = "arrayElement" -> ArrayElement(args[1], args[2])

(***************************************************************************)
(* A parametric result is kept only where the table says what the call     *)
(* does to that family of parameters; the common-type rules compute them.  *)
(***************************************************************************)
Family(t) ==
    CASE IsDecimal(t) -> "Decimal"
      [] t.name \in EnumNames -> "Enum"
      [] IsMarked(t) -> "AggregateFunction"
      [] OTHER -> t.name
LeafFamilies == {"DateTime", "DateTime64", "Decimal", "FixedString", "Enum",
                 "Array", "Map", "Tuple", "AggregateFunction"}
LatticeFunctions == {"concat", "greatest", "least", "array", "map"}

KeptFamilies(f) ==
    CASE f \in Extremes \cup ArgExtremes \cup WindowValues
               \cup {"any", "anyLast", "arraySort", "arraySlice", "arrayResize",
                     "nullIf", "arrayDistinct", "mapKeys", "mapValues"} -> LeafFamilies
      [] f \in {"assumeNotNull", "tuple"} -> LeafFamilies \cup {"LowCardinality"}
      [] f = "arrayElement" -> LeafFamilies \cup {"Nullable"}
      [] f \in {"quantile", "quantileIf", "median", "medianIf"} -> {"Decimal", "DateTime64", "DateTime"}
      [] f \in {"quantileState", "quantileStateIf"} -> {"AggregateFunction"}
      [] f \in {"sum", "sumIf", "sumWithOverflow", "abs", "negate"} \cup (Rounding \ {"truncate"}) -> {"Decimal"}
      [] f \in {"lower", "upper"} -> {"FixedString"}
      [] f = "reverse" -> {"FixedString", "Array", "Tuple"}
      [] f \in GroupArrays \cup {"groupUniqArray", "groupUniqArrayIf"} -> {"Array"}
      [] OTHER -> {}

Verdict(f, t) ==
    IF Fails(t) \/ t = Type(t.name) \/ f \in LatticeFunctions \/ Family(t) \in KeptFamilies(f)
    THEN t ELSE Refused
==============================================================================
