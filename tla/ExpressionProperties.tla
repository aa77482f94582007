------------------------- MODULE ExpressionProperties -------------------------
(***************************************************************************)
(* What must hold of every type that ExpressionTypes infers.  A property   *)
(* about two values speaks of the two operands on the stack.               *)
(***************************************************************************)
EXTENDS ExpressionTypes

Values == {stack[i].type : i \in DOMAIN stack}
Pair == Len(stack) = 2
Swapped(i) == <<stack[i].type, stack[3 - i].type>>   \* the pair, and the other way round

(***************************************************************************)
(* One type on its own.                                                    *)
(***************************************************************************)
RECURSIVE WellFormed(_)
WellFormed(t) ==
    /\ \A i \in DOMAIN t.params : WellFormed(t.params[i])
    /\ Is(t, "Nullable") => CanBeInsideNullable(Inner(t)) /\ ~Is(Inner(t), "Nullable")
    /\ Is(t, "LowCardinality") => ~ResultRejectsLowCardinality(Inner(t)) /\ ~Is(Inner(t), "LowCardinality")
    /\ Is(t, "Map") => ~Is(Unwrap(t.params[1], "LowCardinality"), "Nullable")
    /\ t.params = <<>> => ~Fails(t)

\* The server has every inferred type, at every depth: no Nullable around a
\* container, no LowCardinality of a type that takes none, no NULL as the key of
\* a map (wrapNullable, wrapLowCardinality and mapFunctionResult keep this up).
\* Nullable around LowCardinality is left out: a[i] builds it (see README).
TypesWellFormed == \A t \in Values : WellFormed(t)

\* Where a row can hold NULL, the Go type of the column is a pointer: a driver
\* cannot scan NULL into anything else (inferFunctionTypeAt and goType).
NullReachesGo == column.null /\ ~Fails(column.go) => Is(column.go, "*")

\* An inferred type is one that a declaration denotes: parsing what the server
\* answers for it gives the same type back (parseCHType), so inference and
\* DESCRIBE can be compared.
RoundTrip == \A t \in Values : ParseType(t) = t

\* The Go type of every inferred column that holds times is walked whole by the
\* generated range guard: it reaches each time.Time, in slices, in maps and
\* behind pointers, and nothing else (temporalShapeOf against goType).  Types
\* that hold a marker are left out: the walk stops there (see README).
RECURSIVE HoldsMarker(_)
HoldsMarker(t) == IsMarked(t) \/ \E i \in DOMAIN t.params : HoldsMarker(t.params[i])
RECURSIVE TimePaths(_)
TimePaths(go) == TimeNode(go, [i \in DOMAIN go.params |-> TimePaths(go.params[i])])
EveryTimeIsGuarded ==
    ~Fails(column.go) /\ ~HoldsMarker(column.type) =>
        TimePaths(column.go) = {SubSeq(p, 1, Len(p) - 1) : p \in GuardedPaths(column.type)}

(***************************************************************************)
(* Two values and their common type.                                       *)
(***************************************************************************)
\* if(c, a, b) and if(c, b, a) are both refused or have the same Go type
\* (branchResultType): the fold over the branches does not depend on the order
\* of two.
Outcome(t) == <<Fails(t), GoType(t)>>
BranchesCommute ==
    Pair => Cardinality({Outcome(Branch(Swapped(i), <<FALSE, FALSE>>, FALSE)) : i \in 1..2}) = 1

IsPlainNumber(t) == t.name \in NumericNames
PlainNumbers == {d \in Declarations : IsPlainNumber(d)}
NumberLists ==
    {Append(Swapped(1), third) : third \in {d \in PlainNumbers : \A t \in Values : IsPlainNumber(t)}}

\* The common type of three numbers holds every value of each of them
\* (commonBranchType): a sign or a width lost in the fold would lose values.
CommonHoldsEvery ==
    Pair => \A types \in NumberLists :
        LET common == CommonType(types)
        IN ~Fails(common) => \A i \in DOMAIN types : Holds(common, types[i])

\* ... and it is the same in every order of the three, or refused in every order.
NumbersOrderFree ==
    Pair => \A types \in NumberLists :
        Cardinality({CommonType([i \in 1..3 |-> types[p[i]]]) :
                       p \in {<<1, 2, 3>>, <<3, 2, 1>>, <<2, 3, 1>>}}) = 1

\* a = b is accepted exactly when b = a is (comparableBase): the table of
\* refused pairs has no side.
EqualityIsSymmetric ==
    Pair => Cardinality({Fails(Predicate("=", Swapped(i), <<FALSE, FALSE>>)) : i \in 1..2}) = 1

\* fMerge over the column that fState fills gives the type of f itself
\* (inferAggregateCombinatorType against inferFunctionTypeAt), for a base whose
\* rule reads one argument: the state remembers what the result depends on.
MergeReadsItsState ==
    stack # <<>> =>
        LET t == stack[Len(stack)].type
            State(base) == Combinator(base, <<"State">>, <<t>>, FALSE)
        IN \A base \in AggregateBases :
              /\ 1 \in Arity(base) /\ Function(base).strategy = "firstOnly"
              /\ ~(Is(t, "Nullable") /\ IsMarked(Inner(t)))   \* the direct call drops that marker
              /\ ~Fails(State(base))
              => Combinator(base, <<"Merge">>, <<State(base)>>, FALSE) = FirstOnlyCall(base, <<t>>)
==============================================================================
