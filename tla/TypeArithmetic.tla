---------------------------- MODULE TypeArithmetic ----------------------------
(***************************************************************************)
(* The operators + - * / % and the unary minus and NOT                     *)
(* (internal/engine: arithmetic.go, infer_expr.go, infer_operators.go).    *)
(* An operator refuses the pairs the server refuses.                       *)
(***************************************************************************)
EXTENDS TypeTrees

Operators == {"+", "-", "*", "/", "%"}

IsDecimal(t) == t.name \in DecimalNames
Zone(t) == t.text
DateTime(zone) == [Type("DateTime") EXCEPT !.text = zone]
DateTime64(s, zone) == [Type("DateTime64") EXCEPT !.num = <<s>>, !.text = zone]
Subsecond(t) == IF Is(t, "DateTime64") /\ t.num # <<>> THEN t.num[1]
                ELSE IF Is(t, "DateTime64") THEN 3 ELSE 0

(***************************************************************************)
(* Dates.  A difference of two needs one DateTime64, or the same family;   *)
(* an offset is a number that is not a wide integer.                       *)
(***************************************************************************)
DateTime64Difference(l, r) ==
    IF /\ {l.name, r.name} \subseteq {"DateTime", "DateTime64"}
       /\ "DateTime64" \in {l.name, r.name}
    THEN Decimal(18, Larger(Subsecond(l), Subsecond(r)))
    ELSE Refused

NarrowOffset(t) == t.name \in IntegerNames \cup {"Float32", "Float64"} /\ ~IsWideInteger(t.name)

DateArithmetic(op, l, r) ==
    LET difference == DateTime64Difference(l, r)
    IN CASE op = "-" /\ IsDate(l) /\ IsDate(r) ->
               IF ~Fails(difference) THEN difference
               ELSE IF l.name = r.name /\ ~Is(l, "Date32") THEN Type("Int32")
               ELSE Refused
         [] op \in {"+", "-"} /\ IsDate(l) /\ NarrowOffset(r) -> l
         [] op = "+" /\ IsDate(r) /\ NarrowOffset(l) -> r
         [] op = "%" /\ l.name \in {"Date", "DateTime"} /\ NarrowOffset(r) ->
               IF IsFloat(r.name) THEN Type("Float64") ELSE r
         [] OTHER -> Refused

(***************************************************************************)
(* Two operands without LowCardinality.  The marker is read through, the   *)
(* Nullable of either side goes to the result; an Array computes element   *)
(* by element and takes no Nullable anywhere.                              *)
(***************************************************************************)
ScalarArithmetic(op, l, r) ==
    IF IsDate(l) \/ IsDate(r) THEN DateArithmetic(op, l, r)
    ELSE IF IsDecimal(l) \/ IsDecimal(r) THEN DecimalResult(op, l, r)
    ELSE IF IsFloat(l.name) \/ IsFloat(r.name) THEN FloatResult(op, l, r)
    ELSE IF {l.name, r.name} \subseteq IntegerNames THEN IntegerResult(op, l, r)
    ELSE Refused

RECURSIVE Arithmetic(_, _, _)
ArrayArithmetic(op, l, r, le, re) ==
    IF \/ op \notin (IF Is(l, "Array") /\ Is(r, "Array") THEN {"+", "-"} ELSE {"*", "/", "%"})
       \/ Is(le, "Nullable") \/ Is(re, "Nullable")
    THEN Refused ELSE Then(Arithmetic(op, le, re), ArrayOf)

Computed(op, l, r, nullable) ==
    IF Is(l, "Array") \/ Is(r, "Array")
    THEN IF nullable THEN Refused ELSE ArrayArithmetic(op, l, r, Unwrap(l, "Array"), Unwrap(r, "Array"))
    ELSE Then(ScalarArithmetic(op, l, r), LAMBDA t : IF nullable THEN WrapNullable(t) ELSE t)

Arithmetic(op, left, right) ==
    LET l == MarkedValue(left)
        r == MarkedValue(right)
    IN Computed(op, Unwrap(l, "Nullable"), Unwrap(r, "Nullable"), Is(l, "Nullable") \/ Is(r, "Nullable"))

(***************************************************************************)
(* An aggregate state, or an array of them, times an unsigned constant of  *)
(* at most 64 bits is the state again; every other arithmetic on a state   *)
(* is refused.                                                             *)
(***************************************************************************)
RECURSIVE IsStateOperand(_)
IsStateOperand(t) ==
    IF Is(t, "Array") THEN IsStateOperand(Inner(t)) ELSE Is(t, "AggregateFunction")

ReplicatesState(op, count, constant) ==
    /\ op = "*"
    /\ constant
    /\ count.name \in {"Bool", "UInt8", "UInt16", "UInt32", "UInt64"}

StateArithmetic(op, l, r, lconst, rconst) ==
    CASE IsStateOperand(l) /\ ~IsStateOperand(r) /\ ReplicatesState(op, r, rconst) -> l
      [] IsStateOperand(r) /\ ~IsStateOperand(l) /\ ReplicatesState(op, l, lconst) -> r
      [] OTHER -> Refused

(***************************************************************************)
(* The whole operator: LowCardinality survives against a constant.         *)
(***************************************************************************)
BinaryArithmetic(op, l, r, lconst, rconst) ==
    LET ll == Is(l, "LowCardinality")
        rl == Is(r, "LowCardinality")
    IN IF IsStateOperand(l) \/ IsStateOperand(r) THEN StateArithmetic(op, l, r, lconst, rconst)
       ELSE Then(Arithmetic(op, Unwrap(l, "LowCardinality"), Unwrap(r, "LowCardinality")),
                 LAMBDA t : ApplyWrappers(t, FALSE, (ll /\ ~rl /\ rconst) \/ (rl /\ ~ll /\ lconst)))

(***************************************************************************)
(* Unary minus and NOT.                                                    *)
(***************************************************************************)
NegatedName(n) ==
    CASE n \in {"Bool", "UInt8"} -> "Int16"
      [] n = "UInt16" -> "Int32"
      [] n \in {"UInt32", "UInt64"} -> "Int64"
      [] n = "UInt128" -> "Int128"
      [] n = "UInt256" -> "Int256"
      [] OTHER -> n

Negate(t) ==
    LET w == SplitWrappers(MarkedValue(t))
    IN IF w.base.name \in NumericNames \cup DecimalNames \cup {"Bool"}
       THEN ApplyWrappers([w.base EXCEPT !.name = NegatedName(w.base.name)], w.nullable, w.lowCardinality)
       ELSE Refused

LogicNames ==
    {n \in NumericNames : ~IsWideInteger(n)} \cup {"Bool"}
IsLogicOperand(t) == t.name \in LogicNames /\ t.params = <<>>

Not(t) ==
    LET w == SplitWrappers(t)
    IN CASE Is(w.base, "Bool") -> ApplyWrappers(Type("Bool"), w.nullable, w.lowCardinality)
         [] IsLogicOperand(w.base) /\ ~Is(w.base, "Bool") -> ApplyWrappers(Type("UInt8"), w.nullable, w.lowCardinality)
         [] Is(w.base, "Dynamic") -> ApplyWrappers(Type("UInt8"), TRUE, w.lowCardinality)
         [] OTHER -> Refused
==============================================================================
