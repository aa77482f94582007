----------------------------- MODULE TypeTemporal -----------------------------
(***************************************************************************)
(* Dates and times: INTERVAL arithmetic, the functions that keep or set a  *)
(* timezone, the shifts by a count of units (internal/engine: temporal.go, *)
(* infer_operators.go, cursor_functions.go), and the walk over a value     *)
(* that the generated range guard makes.                                   *)
(***************************************************************************)
EXTENDS TypeComparison

(***************************************************************************)
(* An INTERVAL unit: the DateTime64 precision it needs, whether it is      *)
(* below one day.                                                          *)
(***************************************************************************)
UnitPrecision(unit) ==
    CASE unit = "nanosecond" -> 9
      [] unit = "microsecond" -> 6
      [] unit = "millisecond" -> 3
      [] OTHER -> 0
SubDay(unit) == UnitRank(unit) < UnitRank("day")

\* A date family and an INTERVAL; the base only.
IntervalBase(base, unit) ==
    LET p == UnitPrecision(unit)
    IN CASE base.name \in {"Date", "Date32"} /\ p > 0 -> Refused
         [] base.name \in {"Date", "Date32"} /\ p = 0 /\ ~SubDay(unit) -> Type(base.name)
         [] Is(base, "Date") /\ p = 0 /\ SubDay(unit) -> Type("DateTime")
         [] Is(base, "Date32") /\ p = 0 /\ SubDay(unit) -> DateTime64(3, <<>>)
         [] Is(base, "DateTime") -> IF p > 0 THEN DateTime64(p, Zone(base)) ELSE base
         [] Is(base, "DateTime64") -> DateTime64(Larger(p, Subsecond(base)), Zone(base))
         [] OTHER -> Refused

\* Both wrappers of the operand pass to the result.
IntervalArithmetic(operand, unit) ==
    LET w == SplitWrappers(operand)
        result == IntervalBase(w.base, unit)
    IN IF Fails(result) THEN Refused ELSE ApplyWrappers(result, w.nullable, w.lowCardinality)

\* toStartOfInterval: a unit of a week or more gives a Date.
ToStartOfInterval(value, unit) ==
    LET w == SplitWrappers(value)
        p == UnitPrecision(unit)
        result == IF UnitRank(unit) >= UnitRank("week") THEN Type("Date")
                  ELSE IF p > 0 THEN DateTime64(p, Zone(w.base))
                  ELSE DateTime(Zone(w.base))
    IN IF ~IsDate(w.base) \/ ~IntervalAccepted(w.base, unit) THEN Refused
       ELSE ApplyWrappers(result, w.nullable, w.lowCardinality)

ToTimeZone(value, zone) ==
    LET w == SplitWrappers(value)
        result == IF Is(w.base, "DateTime") THEN DateTime(<<zone>>)
                  ELSE DateTime64(Subsecond(w.base), <<zone>>)
    IN IF w.base.name \notin {"DateTime", "DateTime64"} THEN Refused
       ELSE ApplyWrappers(result, w.nullable, w.lowCardinality)

(***************************************************************************)
(* toDateTime, toStartOfDay and the like take the timezone of the argument *)
(* unless the call names one; zone is <<>> when it does not.               *)
(***************************************************************************)
TimezoneDomain(f) ==
    CASE f = "toStartOfDay" -> "date"
      [] f \in {"toStartOfHour", "toStartOfMinute"} -> "hourMinuteStartOf"
      [] f = "toDateTime" -> "dateFromValue"
      [] f = "toDateTime64" -> "cast"

ArgumentZone(base) == IF base.name \in {"DateTime", "DateTime64"} THEN Zone(base) ELSE <<>>

TimezoneCarrying(f, value, precision, zone) ==
    LET base == Bare(value)
        z == IF zone = <<>> THEN ArgumentZone(base) ELSE zone
        result == IF f = "toDateTime64" THEN DateTime64(precision, z) ELSE DateTime(z)
    IN IF ~Accepts(TimezoneDomain(f), DomainValue(value)) THEN Refused
       ELSE ApplyWrappers(result, ArgumentNullable(value), ArgumentLowCardinality(value))

(***************************************************************************)
(* addDays, subtractHours, ...: a shift by a finer unit than a day needs a *)
(* time; a marked value has no rule.                                       *)
(***************************************************************************)
TemporalShift(fine, value, count) ==
    LET base == Bare(value)
        result ==
            CASE Is(base, "Date") -> Type(IF fine THEN "DateTime" ELSE "Date")
              [] Is(base, "Date32") -> IF fine THEN DateTime64(3, <<>>) ELSE base
              [] Is(base, "DateTime") -> base
              [] Is(base, "DateTime64") -> DateTime64(Subsecond(base), Zone(base))
              [] OTHER -> Refused
    IN IF ~Accepts("addSubtractTemporal", DomainValue(value)) \/ Fails(result) THEN Refused
       ELSE ApplyWrappers(result, ArgumentNullable(value) \/ ArgumentNullable(count),
                          ArgumentLowCardinality(value))

(***************************************************************************)
(* The walk of the generated range guard over a value of a type.           *)
(***************************************************************************)
RECURSIVE GuardedPaths(_)
GuardedPaths(t) == GuardedNode(t, [i \in DOMAIN t.params |-> GuardedPaths(t.params[i])])

\* The read side checks only the paths that end in a DateTime64.
ScanCheckedPaths(t) == {p \in GuardedPaths(t) : p[Len(p)] = "DateTime64"}
==============================================================================
