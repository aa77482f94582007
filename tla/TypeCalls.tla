------------------------------- MODULE TypeCalls -------------------------------
(***************************************************************************)
(* The type of a call and of a predicate (internal/engine:                 *)
(* function_evaluator.go, infer_expr.go, infer_function.go).  The table of *)
(* TypeFunctions says which arguments are checked and which the rule reads; *)
(* the wrappers of the arguments are carried by TypeTransport.             *)
(***************************************************************************)
EXTENDS TypeFunctions

Restricted(f) == Function(f).domain # "any"

(***************************************************************************)
(* One argument as a rule reads it.  A first argument that is only read    *)
(* for its value loses its marker; one that is given back keeps it.        *)
(***************************************************************************)
Widened(split, nullable, lowCardinality) ==
    [split EXCEPT !.stack.nullable = @ \/ nullable,
                  !.stack.outerNullable = @ \/ nullable,
                  !.stack.lowCardinality = @ \/ lowCardinality]
RuleArgument(f, t) ==
    LET w == SplitWrappers(t)
        value == SplitWrappers(Inner(w.base))
        reads == /\ Restricted(f)
                 /\ f \notin ValuePreservingDomain
                 /\ ~HasOverride(f)
                 /\ IsMarked(w.base)
    IN IF reads
       THEN Widened(SplitStack(value.base), w.nullable \/ value.nullable, w.lowCardinality \/ value.lowCardinality)
       ELSE Widened(SplitStack(w.base), w.nullable, w.lowCardinality)

(***************************************************************************)
(* The transport of a call that is not decided by its first argument.      *)
(***************************************************************************)
CarryWrappers(result, f, class, rule, args, consts) ==
    LET flags == WrapperFlags(class, f, args, consts)
        first == SplitStack(args[1])
        computes == ~HasOverride(f) /\ (Restricted(f) \/ IsFixedRule(rule))
        transport == IF class = "aggregate" THEN TransportFor(f, class)
                     ELSE WithResolvedLowCardinality(TransportFor(f, class), flags.lowCardinality)
    IN ApplyTransport(result, transport,
           [base |-> first.base,
            argCount |-> Len(args),
            stack |-> [NoStack EXCEPT
                         !.lowCardinality = flags.lowCardinality,
                         !.nullable = flags.nullable,
                         !.marker = IF computes THEN NoMarker ELSE first.stack.marker]])

(***************************************************************************)
(* The three evaluation plans.                                             *)
(***************************************************************************)
\* The rule reads no argument.
IndependentCall(f, args, consts) ==
    LET e == Function(f)
    IN IF ~InDomain(e.domain, e.at, args) THEN Refused
       ELSE IF e.class = "opaque" THEN Type(e.rule)
       ELSE CarryWrappers(Type(e.rule), f, e.class, e.rule, args, consts)

\* The rule reads the first argument; later data arguments add their Nullable.
CarryFirst(result, f, class, split, argCount) ==
    LET transport == IF HasOverride(f) THEN Override[f]
                     ELSE WithResolvedLowCardinality(ClassTransport(class), split.stack.lowCardinality)
    IN ApplyTransport(result, transport, [base |-> split.base, stack |-> split.stack, argCount |-> argCount])

FirstOnlyCall(f, args) ==
    LET e == Function(f)
        opaque == e.class = "opaque"
        first == RuleArgument(f, args[1])
        later == \E i \in 2..DataArgCount(f, Len(args)) : SplitWrappers(args[i]).nullable
        Result(t) == IF opaque THEN t
                     ELSE CarryFirst(t, f, e.class, Widened(first, later, FALSE), Len(args))
    IN IF ~InDomain(e.domain, e.at, args) THEN Refused
       ELSE Then(Verdict(f, FirstRule(e.rule, IF opaque THEN args[1] ELSE first.base)), Result)

\* The rule reads every argument without its wrappers.
GenericCall(f, args, consts) ==
    LET e == Function(f)
        opaque == e.class = "opaque"
        bases == [i \in DOMAIN args |-> IF opaque THEN args[i] ELSE SplitStack(args[i]).base]
        Result(t) == IF opaque THEN t ELSE CarryWrappers(t, f, e.class, e.rule, args, consts)
    IN IF ~InDomain(e.domain, {1}, args) THEN Refused
       ELSE Then(Verdict(f, IF e.rule \in FirstRules THEN FirstRule(e.rule, bases[1])
                            ELSE ListRule(e.rule, f, bases)), Result)

\* equals ... and nullIf compare their arguments, has compares with a member.
ComparedPair(f, args) ==
    IF f # "has" THEN <<args[1], args[2]>>
    ELSE <<Bare(DomainValue(args[1]).params[1]), DomainValue(args[2])>>
PairAccepted(f, args, consts) ==
    LET compares == f \in Comparators \cup {"nullIf"}
                      \/ (f = "has" /\ DomainValue(args[1]).name \in {"Array", "Map"})
        pair == ComparedPair(f, args)
    IN compares => ComparableExpressions(pair[1], pair[2], consts[1], consts[2])

EvaluateCall(f, args, consts) ==
    IF ~PairAccepted(f, args, consts) THEN Refused
    ELSE CASE Function(f).strategy = "independent" -> IndependentCall(f, args, consts)
           [] Function(f).strategy = "firstOnly" -> FirstOnlyCall(f, args)
           [] Function(f).strategy = "generic" -> GenericCall(f, args, consts)

(***************************************************************************)
(* Predicates: a UInt8 that is NULL when an operand is.                    *)
(***************************************************************************)
Comparisons == {"=", "!=", "<", "<=", ">", ">="}
Likes == {"LIKE", "ILIKE", "NOT LIKE"}
IsRegexpOperand(t) == IsText(t) \/ t.name \in EnumNames

PredicateFlags(args, consts, dynamic) ==
    [nullable |-> AnyNullable(args) \/ (dynamic /\ \E i \in DOMAIN args : Is(Bare(args[i]), "Dynamic")),
     lowCardinality |-> OneLowCardinalityAmongConstants(args, consts)]

WithFlags(base, transport, flags) ==
    ApplyTransport(base, WithResolvedLowCardinality(transport, flags.lowCardinality),
        [base |-> base, argCount |-> 2,
         stack |-> [NoStack EXCEPT !.nullable = flags.nullable,
                                   !.outerNullable = flags.nullable,
                                   !.lowCardinality = flags.lowCardinality]])

Predicate(op, args, consts) ==
    IF \/ op = "REGEXP" /\ \E i \in DOMAIN args : ~IsRegexpOperand(Bare(args[i]))
       \/ op \in Likes /\ \E i \in DOMAIN args : ~IsRegexpOperand(DomainValue(args[i]))
       \/ op \in Comparisons /\ ~ComparableExpressions(args[1], args[2], consts[1], consts[2])
    THEN Refused
    ELSE WithFlags(Type("UInt8"), TransparentTransport,
                   PredicateFlags(args, consts, op \in Comparisons))

\* IN a subquery has no constant side; IS NULL is never NULL.
InSubquery(left) == IF ArgumentNullable(left) THEN WrapNullable(Type("UInt8")) ELSE Type("UInt8")
IsNullPredicate(operand) == Type("UInt8")

\* x BETWEEN low AND high looks at the outer wrappers only.
Between(args) ==
    IF \E i \in DOMAIN args : SplitWrappers(args[i]).nullable
    THEN WrapNullable(Type("UInt8")) ELSE Type("UInt8")

(***************************************************************************)
(* AND, OR, XOR.  bools says which operands hold a bare Bool: a chain of   *)
(* the same operator hands the ones of its operands up.                    *)
(***************************************************************************)
CarriesBareBool(t) ==
    LET w == SplitWrappers(ReadMarkedValue(t)) IN ~w.nullable /\ Is(w.base, "Bool")
XorCarriesBool(t) == Is(Bare(ReadMarkedValue(t)), "Bool")

\* The operator refuses a wide integer; only the function takes Dynamic in xor.
Logic(op, args, consts, bools) ==
    LET dynamic == \E i \in DOMAIN args : Is(DomainValue(args[i]), "Dynamic")
        flags == [nullable |-> AnyNullable(args) \/ dynamic,
                  lowCardinality |-> OneLowCardinalityAmongConstants(args, consts)]
        domain == IF op = "xor" THEN "xor" ELSE "logicOperator"
        anyBool == \E i \in DOMAIN args : IF op = "xor" THEN XorCarriesBool(args[i]) ELSE bools[i]
    IN IF Len(args) < 2 \/ ~InDomain(domain, DOMAIN args, args) THEN Refused
       ELSE WithFlags(Type(IF anyBool /\ ~dynamic THEN "Bool" ELSE "UInt8"), LogicTransport, flags)

(***************************************************************************)
(* CAST and literals.                                                      *)
(***************************************************************************)
\* CAST(NULL AS T) needs a T that can be NULL.
CastResult(source, target) ==
    IF source = UntypedNull /\ ~(Is(target, "Nullable") /\ CanBeInsideNullable(Inner(target)))
    THEN Refused ELSE target

\* The least type that holds an integer literal; sizes stand for the ranges of values.
LiteralType(bits, negative) ==
    Type(IF negative THEN SignedName[bits] ELSE UnsignedName[bits])

(***************************************************************************)
(* Higher-order array functions.  arrays are the array arguments, body is  *)
(* the type of the lambda over their elements.                             *)
(***************************************************************************)
LinkedElement(t) ==
    LET bare == Unwrap(MarkedValue(Unwrap(t, "LowCardinality")), "LowCardinality")
    IN IF Is(bare, "Array") THEN Unwrap(Inner(bare), "LowCardinality") ELSE Refused

Filtering == {"arrayFilter", "arrayCount", "arrayExists", "arrayAll", "arrayFirst", "arrayFirstOrNull",
              "arrayLast", "arrayLastOrNull", "arrayFirstIndex", "arrayLastIndex",
              "arrayFill", "arrayReverseFill", "arraySplit", "arrayReverseSplit"}
Summing == {"arraySum", "arrayCumSum", "arrayCumSumNonNegative"}
Reducing == {"arrayAvg", "arrayProduct"}
Sorting == {"arraySort", "arrayReverseSort", "arrayPartialSort", "arrayPartialReverseSort"}
WithoutLambda == Sorting \cup Reducing \cup (Summing \ {"arraySum"})

ArraySumResult(body) ==
    LET w == SplitWrappers(body)
        base == w.base
    IN IF w.nullable THEN Refused
       ELSE IF IsDecimalWithParams(base) THEN Decimal(Larger(38, Precision(base)), Scale(base))
       ELSE IF IsFloat(base.name) THEN Type("Float64")
       ELSE IF IsWideInteger(base.name) THEN base
       ELSE IF IntegerBase(base) THEN Type(NumericTypeName(IntegerClass(base.name).kind, 64))
       ELSE Refused

Reducible(body) == LET w == SplitWrappers(body) IN ~w.nullable /\ NumberBase(w.base)

HigherOrder(f, elements, body) ==
    LET first == elements[1]
    IN IF \/ \E i \in DOMAIN elements : Fails(elements[i])
          \/ f \in Filtering /\ ~PredicateBody(body)
          \/ f \in Summing /\ Fails(ArraySumResult(body))
          \/ f \in Reducing /\ ~Reducible(body)
       THEN Refused
       ELSE CASE f = "arrayMap" -> ArrayOf(body)
              [] f \in {"arrayMin", "arrayMax"} -> body
              [] f = "arraySum" -> ArraySumResult(body)
              [] f \in {"arrayCumSum", "arrayCumSumNonNegative"} -> ArrayOf(ArraySumResult(body))
              [] f \in Reducing -> Type("Float64")
              [] f \in Sorting \cup {"arrayFilter", "arrayFill", "arrayReverseFill"} -> ArrayOf(first)
              [] f \in {"arraySplit", "arrayReverseSplit"} -> ArrayOf(ArrayOf(first))
              [] f \in {"arrayCount", "arrayFirstIndex", "arrayLastIndex"} -> Type("UInt32")
              [] f \in {"arrayExists", "arrayAll"} -> Type("UInt8")
              [] f \in {"arrayFirst", "arrayLast"} -> first
              [] f \in {"arrayFirstOrNull", "arrayLastOrNull"} ->
                    IF CanBeInsideNullable(first) \/ Is(first, "Nullable") THEN WrapNullable(first) ELSE Refused

\* arrayFold gives its accumulator back; Bool and UInt8 count as one type.
FoldTypesEqual(body, accumulator) ==
    body = accumulator \/ {body, accumulator} \subseteq {Type("Bool"), Type("UInt8")}
ArrayFold(elements, body, accumulator) ==
    IF (\E i \in DOMAIN elements : Fails(elements[i])) \/ ~FoldTypesEqual(body, accumulator)
    THEN Refused ELSE accumulator

\* Without a lambda the element is the body; the partial sorts take a limit.
LimitAccepted(limit) == LET w == SplitWrappers(limit) IN ~w.nullable /\ IndexBase(w.base)
HigherOrderPlain(f, array) ==
    IF f \notin WithoutLambda THEN Refused
    ELSE HigherOrder(f, <<LinkedElement(array)>>, LinkedElement(array))
==============================================================================
