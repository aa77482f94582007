---------------------------- MODULE TypeAggregates ----------------------------
(***************************************************************************)
(* Aggregate combinators (internal/engine/aggregate_combinator.go): the    *)
(* chains chgen has measured, what a chain does with the arguments of its  *)
(* base aggregate, and the aggregate states that pass from one query to    *)
(* another through a column.                                               *)
(***************************************************************************)
EXTENDS TypeCalls
LOCAL INSTANCE SequencesExt

MeasuredChains ==
    {<<"SimpleState">>, <<"State">>, <<"Merge">>, <<"OrNull">>, <<"OrDefault">>, <<"Resample">>,
     <<"Array">>, <<"If">>, <<"State", "If">>, <<"If", "State">>, <<"If", "Merge", "State">>,
     <<"If", "Merge">>, <<"State", "OrNull">>, <<"Merge", "State">>, <<"Resample", "If">>,
     <<"Array", "If">>, <<"If", "OrNull">>, <<"If", "OrDefault">>}

Bases == {"sum", "min", "max", "any", "anyLast", "avg", "argMin", "argMax", "count", "uniq",
          "uniqExact", "uniqCombined", "quantile", "median", "groupArray", "groupUniqArray",
          "groupArraySorted", "groupBitAnd", "groupBitOr", "groupBitXor"}
SimpleStateBases == {"any", "anyLast", "min", "max", "sum", "groupBitAnd", "groupBitOr", "groupBitXor"}
StateOrNullBases == SimpleStateBases \cup {"avg", "argMin", "argMax", "uniqCombined", "quantile", "median"}

(***************************************************************************)
(* The role of each argument, read off the order of the primitives.        *)
(***************************************************************************)
Position(chain, primitive) ==
    IF primitive \in ToSet(chain) THEN CHOOSE i \in DOMAIN chain : chain[i] = primitive ELSE 0

Plan(chain) ==
    LET if == Position(chain, "If")
        state == Position(chain, "State")
        merge == Position(chain, "Merge")
    IN [condition |-> if > 0 /\ merge = 0,
        array |-> Position(chain, "Array") > 0,
        key |-> Position(chain, "Resample") > 0,
        reads |-> merge > 0,
        readsCondition |-> if > 0 /\ if < merge,
        storesCondition |-> if > 0 /\ state > 0 /\ merge = 0 /\ if < state,
        dropsNullable |-> state > 0 /\ if > state,
        builds |-> state > 0 /\ merge = 0,
        returnsState |-> state > 0,
        simple |-> Position(chain, "SimpleState") > 0,
        orNull |-> Position(chain, "OrNull") > 0]

Plans == [chain \in MeasuredChains |-> Plan(chain)]

Trailing(plan) == (IF plan.condition THEN 1 ELSE 0) + (IF plan.key THEN 1 ELSE 0)

\* Arguments of the base aggregate itself.
Arity(base) == CASE base \in {"argMin", "argMax"} -> {2}
                 [] base = "count" -> {0, 1}
                 [] base \in {"uniq", "uniqExact", "uniqCombined"} -> 1..3
                 [] OTHER -> {1}

\* A median state is a quantile state.
StateName(base) == IF base = "median" THEN "quantile" ELSE base
IsCondition(t) == DomainValue(t).name \in {"UInt8", "Bool"}
TakesCondition(t) == Bare(t).name \in {"UInt8", "Bool"}
ResampleKey(t) ==
    DomainValue(t).name \in {"Bool", "Enum8", "Enum16", "Date", "DateTime"}
                       \cup {n \in NumericNames : ~IsWideInteger(n) /\ ~IsFloat(n)}

(***************************************************************************)
(* The base aggregate over argument types; as is the name whose table row  *)
(* says which parameters of the result are kept.                           *)
(***************************************************************************)
AggregateValue(base, t) ==
    LET value == ReadMarkedValue(t)
        w == SplitWrappers(value)
        reads == Restricted(base) /\ base \notin ValuePreservingDomain /\ IsMarked(w.base)
    IN IF reads THEN ApplyWrappers(Inner(w.base), w.nullable, w.lowCardinality) ELSE value

\* The conditional forms that have a row of their own in the table.
ConditionalRows == {"count", "uniqExact", "max", "min", "sum", "argMax", "argMin", "avg",
                    "quantile", "median", "groupArray", "groupUniqArray"}
\* They keep what their base keeps.
Curated(base, chain, t) == IF chain = <<"If">> /\ base \in ConditionalRows THEN Verdict(base, t) ELSE t

BaseAggregate(base, chain, args) ==
    LET e == Function(base)
        values == [i \in DOMAIN args |-> AggregateValue(base, args[i])]
        stripped == [i \in DOMAIN args |-> Bare(values[i])]
        nullable == \E i \in 1..DataArgCount(base, Len(args)) : SplitWrappers(values[i]).nullable
        Result(t) == IF e.class = "opaque" THEN t ELSE ApplyWrappers(StripLowCardinality(t), nullable, FALSE)
    IN Then(Curated(base, chain, IF e.strategy = "independent" THEN Type(e.rule)
                                 ELSE FirstRule(e.rule, stripped[1])), Result)

(***************************************************************************)
(* States.                                                                 *)
(***************************************************************************)
\* A state never remembers Nullable (a seeded fault).
StateArgumentPlain(t, plan) == StripLowCardinality(Bare(t))
StateArgument(t, plan) ==
    LET encoded == IsMarked(t) /\ Is(Inner(t), "LowCardinality")
        w == SplitWrappers(IF plan.dropsNullable \/ encoded THEN ReadMarkedValue(t) ELSE t)
    IN ApplyWrappers(StripLowCardinality(w.base), w.nullable /\ ~plan.dropsNullable, FALSE)

\* What a state remembers of an argument; an -If state keeps its condition, too.
Remembered(t) == LET w == SplitWrappers(t) IN ApplyWrappers(StripLowCardinality(w.base), w.nullable, FALSE)

BuildState(base, plan, data, args) ==
    CASE plan.storesCondition ->
            StateOf(StateName(base) \o "If",
                    [i \in 1..(Len(data) + 1) |-> Remembered(IF i > Len(data) THEN args[Len(args)] ELSE data[i])])
      [] ~plan.storesCondition /\ plan.orNull ->
            IF base \notin StateOrNullBases THEN Refused
            ELSE StateOf(StateName(base) \o "OrNull", [i \in DOMAIN data |-> Remembered(data[i])])
      [] OTHER -> StateOf(StateName(base), [i \in DOMAIN data |-> StateArgument(data[i], plan)])

\* A merge reads one state, built by the aggregate it names.
Stored(state) == Tail(state.params)
Mergeable(base, plan, state) ==
    LET stored == Stored(state)
    IN /\ HoldsState(state) /\ state.params # <<>>
       /\ state.params[1].name = StateName(base) \o (IF plan.readsCondition THEN "If" ELSE "")
       /\ plan.readsCondition => stored # <<>> /\ IsCondition(stored[Len(stored)])
       /\ (IF plan.readsCondition THEN Len(stored) - 1 ELSE Len(stored)) \in Arity(base)

(***************************************************************************)
(* The call.  args holds the data arguments, then the resample key, then   *)
(* the condition.  caseNull: the one argument of a sum is a CASE without   *)
(* ELSE whose NULL comes from the missing branch.                          *)
(***************************************************************************)
DataArgument(t, plan) ==
    LET w == SplitWrappers(t)
    IN IF ~plan.array THEN t
       ELSE IF ~Is(w.base, "Array") THEN Refused
       ELSE IF w.nullable THEN ApplyWrappers(Inner(w.base), TRUE, FALSE) ELSE Inner(w.base)

SimpleState(base, result, caseNull) ==
    LET moves == base = "sum" /\ caseNull /\ SplitWrappers(result).nullable
    IN IF base \notin SimpleStateBases THEN Refused
       ELSE ApplyWrappers(Marked(StateName(base), IF moves THEN Bare(result) ELSE result), moves, FALSE)

OrNullOf(result) ==
    LET bare == Bare(result)
    IN IF CanBeInsideNullable(bare) THEN ApplyWrappers(bare, TRUE, FALSE) ELSE Refused

RefusedArguments(base, plan, data, args) ==
    \/ Len(data) \notin Arity(base)
    \/ plan.array /\ data = <<>>
    \/ plan.condition /\ ~TakesCondition(args[Len(args)])
    \/ plan.key /\ ~ResampleKey(args[Len(data) + 1])
    \/ \E i \in DOMAIN data : Fails(data[i])
    \/ ~InDomain(Function(base).domain, Function(base).at, data)

\* chain is one of MeasuredChains; any other is refused.
Combinator(base, chain, args, caseNull) ==
    LET plan == Plans[chain]
        data == [i \in 1..(Len(args) - Trailing(plan)) |-> DataArgument(args[i], plan)]
        Result(t) == IF plan.simple THEN SimpleState(base, t, caseNull)
                     ELSE IF plan.orNull THEN OrNullOf(t)
                     ELSE IF plan.key THEN ArrayOf(Bare(t))
                     ELSE t
    IN IF IF plan.reads THEN Len(args) # 1 \/ ~Mergeable(base, plan, args[1])
          ELSE RefusedArguments(base, plan, data, args)
       THEN Refused
       ELSE IF plan.reads /\ plan.returnsState THEN args[1]
       ELSE IF plan.builds THEN BuildState(base, plan, data, args)
       ELSE Then(BaseAggregate(base, chain, IF plan.reads THEN Stored(args[1]) ELSE data), Result)

(***************************************************************************)
(* An aggregate cannot be an argument of an aggregate; a window call may   *)
(* hold one.                                                               *)
(***************************************************************************)
ScalarsInAggregateClass == {"arrayDistinct", "arrayResize", "arraySlice", "arraySort", "greatest", "least"}
IsAggregateCall(f) ==
    /\ f \notin ScalarsInAggregateClass
    /\ f \in Bases \cup GroupArrays \cup {"uniqHLL12", "uniqTheta", "countDistinct", "groupUniqArray"}
         \/ Function(f).class = "aggregate"
==============================================================================
