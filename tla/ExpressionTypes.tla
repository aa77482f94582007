---------------------------- MODULE ExpressionTypes ----------------------------
(***************************************************************************)
(* The inference of one result column (internal/engine: inferExprType of   *)
(* infer_expr.go and inferFunctionTypeAt of infer_function.go), bottom up. *)
(* stack holds the operands whose types are known; an action infers the    *)
(* type of one more node of the expression, and a node that chgen refuses  *)
(* is not built.  Emit gives the result column its Go type.                *)
(*                                                                         *)
(* An operand is                                                           *)
(*   type        the inferred ClickHouse type                              *)
(*   const       a constant expression                                     *)
(*   narrowable  an unsigned literal above 32 bits that also fits Int64,   *)
(*               or a value that is always one of those                    *)
(*   logic       the AND or OR it is the result of, and whether one of the *)
(*               operands of that chain is a bare Bool                     *)
(*   aggregate   holds an aggregate call that no window closes             *)
(*   null        ghost: a row can hold NULL here, whatever the type says   *)
(*                                                                         *)
(* MaxStack and MaxOperations bound the expression.                        *)
(***************************************************************************)
EXTENDS TypeAggregates

CONSTANTS
    Declarations,      \* column declarations of the schema
    Literals,          \* literal operands
    Targets,           \* declarations of CAST targets
    Calls,             \* functions and the number of arguments they are called with
    AggregateBases, AggregateChains,
    IntervalUnitNames,
    MaxStack, MaxOperations

VARIABLES
    stack,
    operations,        \* nodes above the leaves, a bound of the model
    column             \* the emitted column and its Go type, until the next expression
vars == <<stack, operations, column>>

NoColumn == [type |-> Refused, go |-> Refused, null |-> FALSE]

Operand(t, null) ==
    [type |-> t, const |-> FALSE, narrowable |-> FALSE, logic |-> "", bool |-> FALSE,
     aggregate |-> FALSE, null |-> null]

\* Ghost: what a stored value of a type can be, through the wrappers.
RECURSIVE CanBeNull(_)
CanBeNull(t) ==
    Is(t, "Nullable") \/ (t.name \in {"LowCardinality", "SimpleAggregateFunction"} /\ CanBeNull(Inner(t)))

Init ==
    /\ stack = <<>>
    /\ operations = 0
    /\ column = NoColumn

Top(n) == SubSeq(stack, Len(stack) + 1 - n, Len(stack))
TypesOf(xs) == [i \in DOMAIN xs |-> xs[i].type]
ConstsOf(xs) == [i \in DOMAIN xs |-> xs[i].const]
AnyNull(xs) == \E i \in DOMAIN xs : xs[i].null
AllConst(xs) == \A i \in DOMAIN xs : xs[i].const
AnyAggregate(xs) == \E i \in DOMAIN xs : xs[i].aggregate

\* A node takes the n topmost operands and puts its own result in their place.
Build(n, x) ==
    /\ operations < MaxOperations
    /\ ~Fails(x.type)
    /\ stack' = Append(SubSeq(stack, 1, Len(stack) - n), x)
    /\ operations' = operations + 1
    /\ UNCHANGED column

\* A value of a container is never NULL.
Node(xs, t, null) ==
    [Operand(t, null /\ CanBeInsideNullable(Bare(t))) EXCEPT !.const = AllConst(xs), !.aggregate = AnyAggregate(xs)]
Nonconstant(x) == [x EXCEPT !.const = FALSE]

(***************************************************************************)
(* Leaves.                                                                 *)
(***************************************************************************)
Push(x) ==
    /\ Len(stack) < MaxStack
    /\ ~Fails(x.type)
    /\ stack' = Append(stack, x)
    /\ column' = NoColumn
    /\ UNCHANGED operations

Column(d) == Push(Operand(ParseType(d), CanBeNull(ParseType(d))))
Literal(l) == Push(l)

(***************************************************************************)
(* Operators.                                                              *)
(***************************************************************************)
Arithmetics(op) ==
    LET xs == Top(2)
    IN /\ Len(stack) >= 2
       /\ Build(2, Node(xs, BinaryArithmetic(op, xs[1].type, xs[2].type, xs[1].const, xs[2].const),
                        AnyNull(xs)))

Unaries ==
    LET xs == Top(1)
    IN /\ stack # <<>>
       /\ \/ Build(1, Node(xs, Negate(xs[1].type), xs[1].null))
          \/ Build(1, Node(xs, Not(xs[1].type), xs[1].null))

Predicates(op) ==
    LET xs == Top(2)
    IN /\ Len(stack) >= 2
       /\ Build(2, Node(xs, Predicate(op, TypesOf(xs), ConstsOf(xs)), AnyNull(xs)))

\* The chain of one operator hands the Bools of its operands up.
ChainBool(op, x) == IF x.logic = op THEN x.bool ELSE CarriesBareBool(x.type)
LogicNode(op) ==
    LET xs == Top(2)
        bools == [i \in DOMAIN xs |-> ChainBool(op, xs[i])]
    IN /\ Len(stack) >= 2
       /\ Build(2, [Node(xs, Logic(op, TypesOf(xs), ConstsOf(xs), bools), AnyNull(xs)) EXCEPT
                      !.logic = op, !.bool = bools[1] \/ bools[2]])

\* BETWEEN, an index and a later argument of an aggregate do not see the NULL of a marked
\* value: a known divergence (see README) that the ghost follows.
SeenNull(x) == x.null /\ ~IsMarked(x.type)

\* The bounds of BETWEEN are constants.
NullTests ==
    LET xs == Top(1)
    IN /\ stack # <<>>
       /\ \/ Build(1, Nonconstant(Node(xs, IsNullPredicate(xs[1].type), FALSE)))
          \/ Build(1, Nonconstant(Node(xs, InSubquery(xs[1].type), xs[1].null)))
          \/ Build(1, Nonconstant(Node(xs, Between(TypesOf(xs) \o <<Type("UInt8"), Type("UInt8")>>),
                                    SeenNull(xs[1]))))

Cast(d) ==
    LET xs == Top(1)
        target == ParseType(d)
        t == CastResult(xs[1].type, target)
    IN /\ stack # <<>>
       /\ ~Fails(target)
       /\ Build(1, Node(xs, t, Is(target, "Nullable") /\ xs[1].null))

(***************************************************************************)
(* Branches: the two topmost operands are the values of if, multiIf or     *)
(* CASE, or the arguments of coalesce and ifNull.                          *)
(***************************************************************************)
NarrowablesOf(xs) == [i \in DOMAIN xs |-> xs[i].narrowable]
AllNarrowable(xs) == \A i \in DOMAIN xs : xs[i].narrowable

Branches ==
    LET xs == Top(2)
        Result(t, null) == [Node(xs, t, null) EXCEPT !.narrowable = AllNarrowable(xs)]
    IN /\ Len(stack) >= 2
       /\ \/ \E noElse \in BOOLEAN :
                Build(2, Result(Branch(TypesOf(xs), NarrowablesOf(xs), noElse), noElse \/ AnyNull(xs)))
          \/ Build(2, Result(Coalesce(TypesOf(xs), NarrowablesOf(xs)), xs[1].null /\ xs[2].null))
          \/ Build(2, [Node(xs, IfNull(xs[1].type, xs[2].type, NarrowablesOf(xs), ConstsOf(xs)),
                            xs[1].null /\ xs[2].null) EXCEPT !.narrowable = xs[1].narrowable])

(***************************************************************************)
(* Calls of the table.  A function of the opaque class hides the NULL of   *)
(* its arguments; an element that is read out of a container brings its    *)
(* own; concat of containers puts the values one level down.               *)
(***************************************************************************)
ElementNull(t) == Bare(t).name \in {"Array", "Map"} /\ CanBeNull(Inner(Bare(t)))
CallNull(f, xs) ==
    CASE f = "nullIf" -> TRUE
      [] f = "arrayElement" -> ElementNull(xs[1].type) \/ SeenNull(xs[2])
      [] f # "arrayElement" /\ Function(f).class = "opaque" -> FALSE
      [] Function(f).class = "aggregate" ->
            xs[1].null \/ \E i \in 2..DataArgCount(f, Len(xs)) : SeenNull(xs[i])
      [] OTHER -> AnyNull(xs)

\* Nothing outside a window sees the aggregate that it closes.
Call(f, n, over) ==
    LET xs == Top(n)
        aggregate == IsAggregateCall(f)
        Result(t) == [Node(xs, IF over THEN WithoutGeometryAliases(t) ELSE t, CallNull(f, xs)) EXCEPT
                        !.const = @ /\ ~aggregate /\ ~over,
                        !.narrowable = f \in {"nullIf", "assumeNotNull"} /\ xs[1].narrowable,
                        !.aggregate = (@ \/ aggregate) /\ ~over]
    IN /\ Len(stack) >= n
       /\ over => f \in WindowValues \cup AggregateBases
       /\ aggregate => ~AnyAggregate(xs)
       /\ Build(n, Result(EvaluateCall(f, TypesOf(xs), ConstsOf(xs))))

(***************************************************************************)
(* Aggregate combinators.  The data arguments are on the stack, the        *)
(* condition is a UInt8 column, the resample key an Int32 column.          *)
(***************************************************************************)
CombinatorNull(base, chain, args, xs) ==
    LET plan == Plans[chain]
        stored == IF HoldsState(args[1]) THEN Tail(args[1].params) ELSE <<>>
    IN IF plan.returnsState \/ plan.key \/ Function(base).class = "opaque" THEN FALSE
       ELSE IF plan.reads THEN \E i \in DOMAIN stored : CanBeNull(stored[i])
       ELSE IF plan.orNull THEN TRUE
       ELSE IF plan.array THEN ElementNull(args[1])
       ELSE AnyNull(xs)

CombinatorArguments(plan, xs) ==
    TypesOf(xs) \o (IF plan.key THEN <<Type("Int32")>> ELSE <<>>)
                \o (IF plan.condition THEN <<Type("UInt8")>> ELSE <<>>)

CombinatorCall(base, chain) ==
    LET plan == Plans[chain]
        n == IF plan.reads THEN 1 ELSE (CHOOSE k \in Arity(base) \cap 0..2 : \A j \in Arity(base) \cap 0..2 : j <= k)
        xs == Top(n)
        args == CombinatorArguments(plan, xs)
    IN /\ Len(stack) >= n
       /\ ~AnyAggregate(xs)
       /\ Build(n, [Node(xs, Combinator(base, chain, args, FALSE), CombinatorNull(base, chain, args, xs)) EXCEPT
                      !.const = FALSE, !.aggregate = TRUE])

(***************************************************************************)
(* Reading a container, functions with a lambda over its elements.         *)
(***************************************************************************)
Access ==
    LET xs == Top(2)
        ys == Top(1)
        t == ys[1].type
    IN \/ /\ Len(stack) >= 2
          /\ Build(2, Node(xs, Subscript(xs[1].type, xs[2].type),
                           ElementNull(xs[1].type) \/ SeenNull(xs[2])))
       \/ /\ stack # <<>> /\ Is(t, "Tuple")
          /\ \E keep \in BOOLEAN :
                Build(1, Node(ys, TupleElement(t, 1, keep), CanBeNull(t.params[1])))

\* The body of the lambda is the element itself or a predicate on it.
Lambda(f) ==
    LET xs == Top(1)
        element == LinkedElement(xs[1].type)
    IN /\ stack # <<>>
       /\ ~Fails(element)
       /\ \E body \in {element, Type("UInt8")} :
             LET t == WithoutGeometryAliases(HigherOrder(f, <<element>>, body))
                 null == CASE f \in {"arrayFirst", "arrayLast"} -> CanBeNull(element)
                           [] f \in {"arrayFirstOrNull", "arrayLastOrNull"} -> TRUE
                           [] f \in {"arrayMin", "arrayMax"} -> CanBeNull(body)
                           [] OTHER -> FALSE
             IN Build(1, Nonconstant(Node(xs, t, null)))
HigherOrderNames == Filtering \cup Summing \cup Reducing \cup Sorting \cup {"arrayMap", "arrayMin", "arrayMax"}

Fold ==
    LET xs == Top(2)
        element == LinkedElement(xs[1].type)
    IN /\ Len(stack) >= 2
       /\ \E body \in {element, xs[2].type} :
             Build(2, Nonconstant(Node(xs, ArrayFold(<<element>>, body, xs[2].type), xs[2].null)))

(***************************************************************************)
(* Dates.                                                                  *)
(***************************************************************************)
Temporal(unit) ==
    LET xs == Top(1)
        t == xs[1].type
        Result(result) == Build(1, Node(xs, result, xs[1].null))
    IN /\ stack # <<>>
       /\ \/ Result(IntervalArithmetic(t, unit))
          \/ Result(ToStartOfInterval(t, unit))
          \/ Result(TemporalShift(SubDay(unit), t, Type("Int32")))

Zoned ==
    LET xs == Top(1)
        t == xs[1].type
        Result(result) == Build(1, Node(xs, result, xs[1].null))
    IN /\ stack # <<>>
       /\ \/ Result(ToTimeZone(t, "UTC"))
          \/ \E f \in {"toStartOfDay", "toStartOfHour", "toDateTime", "toDateTime64"}, zone \in {<<>>, <<"UTC">>} :
                Result(TimezoneCarrying(f, t, 3, zone))

(***************************************************************************)
(* The whole expression is one operand: it is a column of the result.      *)
(***************************************************************************)
Emit ==
    /\ Len(stack) = 1
    /\ column' = [type |-> stack[1].type, go |-> GoType(stack[1].type), null |-> stack[1].null]
    /\ stack' = <<>>
    /\ operations' = 0

Next ==
    \/ \E d \in Declarations : Column(d)
    \/ \E l \in Literals : Literal(l)
    \/ \E op \in Operators : Arithmetics(op)
    \/ Unaries
    \/ \E op \in {"=", "<", "LIKE", "REGEXP"} : Predicates(op)
    \/ \E op \in {"and", "or", "xor"} : LogicNode(op)
    \/ NullTests
    \/ \E d \in Targets : Cast(d)
    \/ Branches
    \/ \E c \in Calls, over \in BOOLEAN : Call(c.name, c.arity, over)
    \/ \E base \in AggregateBases, chain \in AggregateChains : CombinatorCall(base, chain)
    \/ Access
    \/ \E f \in HigherOrderNames : Lambda(f)
    \/ Fold
    \/ \E unit \in IntervalUnitNames : Temporal(unit)
    \/ Zoned
    \/ Emit

Spec == Init /\ [][Next]_vars
==============================================================================
