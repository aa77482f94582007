-------------------------- MODULE MCExpressionTypes --------------------------
(* The instance of ExpressionTypes that TLC checks. *)
EXTENDS ExpressionProperties

Nullable(t) == Wrap("Nullable", <<t>>)
LowCardinality(t) == Wrap("LowCardinality", <<t>>)
MCDateTime64 == [Type("DateTime64") EXCEPT !.num = <<3>>]
MCEnum == [Type("Enum8") EXCEPT !.num = <<1, 2>>, !.text = <<"a", "b">>]

MCDeclarations ==
    {Type("UInt8"), Type("Int32"), Type("UInt64"), Type("Float32"), Type("Bool"),
     Nullable(Type("Int32")),
     LowCardinality(Type("String")), LowCardinality(Nullable(Type("String"))),
     ArrayOf(LowCardinality(Type("String"))), ArrayOf(Nullable(Type("Int8"))),
     Marked("sum", Type("Int64")), Marked("any", Nullable(Type("String"))),
     Decimal(9, 2), [Type("DateTime") EXCEPT !.text = <<"UTC">>], MCDateTime64, Type("Date"),
     MCEnum, MapOf(Type("String"), Nullable(Type("Int64"))),
     [TupleWith(<<Type("Int32"), LowCardinality(Type("String"))>>) EXCEPT !.text = <<"a", "b">>],
     StateOf("sum", <<Nullable(Type("Int64"))>>)}

LiteralOperand(t, narrowable) ==
    [Operand(Type(t), FALSE) EXCEPT !.const = TRUE, !.narrowable = narrowable]
MCLiterals ==
    {LiteralOperand("UInt8", FALSE), LiteralOperand("UInt64", TRUE), LiteralOperand("String", FALSE),
     Operand(UntypedNull, TRUE)}

MCTargets == {Type("UInt64"), Nullable(Type("String"))}
MCUnary ==
    Counting \cup {"toString", "toDate", "toInt64", "empty", "length", "toYYYYMM", "substring", "trim",
     "hex", "cityHash64", "avg", "sum", "sumWithOverflow", "groupBitAnd", "max", "any", "quantile", "median",
     "groupArray", "groupUniqArray", "arraySort", "arrayDistinct", "array", "tuple", "mapKeys", "mapValues",
     "abs", "negate", "round", "lower", "reverse", "assumeNotNull", "greatest", "sin", "sign",
     "base64Encode", "uniqCombined", "lagInFrame"}
MCBinary == {"concat", "bitShiftRight", "nullIf", "greatest", "least", "equals", "less", "has", "argMax",
             "array", "tuple", "map", "arrayElement"}
MCCalls == [name : MCUnary, arity : {1}] \cup [name : MCBinary, arity : {2}]
MCBases == {"sum", "max", "any", "argMin", "count", "uniq", "quantile", "groupArray", "groupUniqArray"}
==============================================================================
