---------------------------- MODULE TypeTransport ----------------------------
(***************************************************************************)
(* How a call carries the wrappers of its arguments to its result          *)
(* (internal/engine/wrapper_transport.go and the callers of it in          *)
(* arithmetic.go).  The argument types are split into stacks, the stacks   *)
(* are combined, the disposition of the called function says which         *)
(* wrappers survive, and the survivors are applied to the result base.     *)
(***************************************************************************)
EXTENDS ChTypes

NoMarker == Type("none")

(***************************************************************************)
(* One wrapper stack.  outerNullable is a Nullable around the marker;      *)
(* innerNullable and innerLowCardinality are the ones inside it.           *)
(***************************************************************************)
NoStack == [nullable |-> FALSE, outerNullable |-> FALSE, lowCardinality |-> FALSE,
            marker |-> NoMarker, innerNullable |-> FALSE, innerLowCardinality |-> FALSE]

SplitStack(t) ==
    LET outer == SplitWrappers(t)
        marked == IsMarked(outer.base)
        inner == SplitWrappers(Inner(outer.base))
        markerNullable == marked /\ inner.nullable
        markerLowCardinality == marked /\ inner.lowCardinality
    IN [base |-> IF marked THEN inner.base ELSE outer.base,
        stack |-> [nullable |-> outer.nullable \/ markerNullable,
                   outerNullable |-> outer.nullable,
                   lowCardinality |-> outer.lowCardinality \/ markerLowCardinality,
                   marker |-> IF marked THEN outer.base ELSE NoMarker,
                   innerNullable |-> markerNullable,
                   innerLowCardinality |-> markerLowCardinality]]

\* The marker is rebuilt around the new base with the wrappers it held.
ApplyStack(base, s) ==
    LET marked == s.marker # NoMarker
        restoreNullable == marked /\ s.nullable /\ s.innerNullable
        restoreLowCardinality == marked /\ s.lowCardinality /\ s.innerLowCardinality
        inner == ApplyWrappers(base, restoreNullable, restoreLowCardinality)
    IN ApplyWrappers(IF marked THEN [s.marker EXCEPT !.params[2] = inner] ELSE base,
                     IF restoreNullable THEN s.outerNullable ELSE s.nullable,
                     s.lowCardinality /\ ~restoreLowCardinality)

(***************************************************************************)
(* Dispositions.  "when" leaves the wrapper to the condition of the call.  *)
(***************************************************************************)
Transport(lc, nullable, marker) ==
    [lowCardinality |-> lc, nullable |-> nullable, marker |-> marker, stripNested |-> FALSE]

OpaqueTransport == Transport("drop", "drop", "drop")
TransparentTransport == Transport("when", "keep", "drop")
AggregateTransport ==
    [Transport("drop", "keep", "survives") EXCEPT !.stripNested = TRUE]
LogicTransport == Transport("drop", "keep", "drop")
CaseFoldingTransport == Transport("keep", "keep", "survives")
NullIfTransport == Transport("when", "add", "valuePreserving")
WindowTransport ==
    [Transport("drop", "keep", "valuePreserving") EXCEPT !.stripNested = TRUE]
GreatestLeastTransport == Transport("single", "keep", "greatestLeast")

ClassTransport(class) ==
    CASE class = "opaque" -> OpaqueTransport
      [] class = "transparent" -> TransparentTransport
      [] class = "aggregate" -> AggregateTransport

(***************************************************************************)
(* A call: the stripped first argument, the combined stack, the number of  *)
(* arguments.                                                              *)
(***************************************************************************)
GreatestLeastNumericInner(base) == IsNumeric(Unwrap(base, "Nullable"))

KeepsMarker(disposition, call) ==
    LET inner == call.stack.marker.params[2]
    IN /\ call.stack.marker # NoMarker
       /\ CASE disposition = "drop" -> FALSE
            [] disposition = "survives" -> MarkerSurvives(inner)
            [] disposition = "valuePreserving" -> MarkerSurvivesValuePreserving(inner)
            [] disposition = "greatestLeast" ->
                  /\ MarkerSurvivesValuePreserving(inner)
                  /\ call.argCount < 2 \/ ~GreatestLeastNumericInner(call.base)

KeepsLowCardinality(disposition, call) ==
    /\ call.stack.lowCardinality
    /\ disposition = "keep" \/ (disposition = "single" /\ call.argCount = 1)

ResultStack(tr, call) ==
    LET s == call.stack
        keepsMarker == KeepsMarker(tr.marker, call)
        nullable == (s.nullable /\ tr.nullable = "keep") \/ tr.nullable = "add"
    IN [s EXCEPT
          !.lowCardinality = KeepsLowCardinality(tr.lowCardinality, call),
          !.nullable = nullable,
          !.outerNullable = nullable /\ (s.outerNullable \/ (tr.nullable = "add" /\ ~s.innerNullable)),
          !.marker = IF keepsMarker THEN s.marker ELSE NoMarker,
          !.innerNullable = keepsMarker /\ s.innerNullable,
          !.innerLowCardinality = keepsMarker /\ s.innerLowCardinality]

\* The caller of a transparent function decides LowCardinality from all arguments.
WithResolvedLowCardinality(tr, keep) ==
    IF tr.lowCardinality # "when" THEN tr
    ELSE [tr EXCEPT !.lowCardinality = IF keep THEN "keep" ELSE "drop"]

(***************************************************************************)
(* The flags the arguments of a call give it.  args are the argument       *)
(* types; consts says which arguments are constant expressions.            *)
(***************************************************************************)
AnyNullable(args) == \E i \in DOMAIN args : ArgumentNullable(args[i])

\* LowCardinality survives exactly one such argument among constants.
OneLowCardinalityAmongConstants(args, consts) ==
    \E i \in DOMAIN args :
        /\ ArgumentLowCardinality(args[i])
        /\ \A j \in DOMAIN args \ {i} : ~ArgumentLowCardinality(args[j]) /\ consts[j]

\* Dynamic wraps the result of these functions in Nullable.
DynamicForcesNullable == {"cityHash64", "concat", "hex", "xor", "equals", "less"}

\* The arguments whose NULL makes the result of an aggregate NULL.
DataArgCount(f, n) ==
    CASE f \in {"uniqCombined", "uniqCombined64", "argMax", "argMin", "greatest", "least"} -> n
      [] f = "uniqCombinedIf" -> IF n > 1 THEN n - 1 ELSE n
      [] f \in {"argMaxIf", "argMinIf"} -> IF n > 2 THEN 2 ELSE n
      [] OTHER -> IF n > 1 THEN 1 ELSE n

WrapperFlags(class, f, args, consts) ==
    IF class = "aggregate"
    THEN [nullable |-> AnyNullable(SubSeq(args, 1, DataArgCount(f, Len(args)))),
          lowCardinality |-> args # <<>> /\ ArgumentLowCardinality(args[1])]
    ELSE [nullable |-> AnyNullable(args)
                         \/ (f \in DynamicForcesNullable /\ \E i \in DOMAIN args : Is(args[i], "Dynamic")),
          lowCardinality |-> OneLowCardinalityAmongConstants(args, consts)]
==============================================================================
