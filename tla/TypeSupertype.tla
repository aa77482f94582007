---------------------------- MODULE TypeSupertype ----------------------------
(***************************************************************************)
(* The common type of several values: the branches of if, multiIf, CASE    *)
(* and coalesce, the elements of an array, the keys and values of a map    *)
(* (internal/engine/supertype.go, the branch functions of                  *)
(* infer_function.go).                                                     *)
(***************************************************************************)
EXTENDS TypeArithmetic
LOCAL INSTANCE SequencesExt

UntypedNull == Wrap("Nullable", <<Type("Nothing")>>)
IsText(t) == t.name \in {"String", "FixedString"}
IsEnum(t) == t.name \in EnumNames /\ t.num # <<>>
\* The storage type keeps the name of the Enum (a seeded fault).
EnumStorageNamed(t) == Type(t.name)
EnumStorage(t) == Type(IF Is(t, "Enum16") THEN "Int16" ELSE "Int8")
BoolAsInteger(t) == IF Is(t, "Bool") THEN Type("UInt8") ELSE t

\* Equal up to LowCardinality and Nullable, at every depth.
RECURSIVE Compatible(_, _)
Compatible(l, r) ==
    CASE Is(l, "LowCardinality") -> Compatible(Inner(l), r)
      [] ~Is(l, "LowCardinality") /\ Is(r, "LowCardinality") -> Compatible(l, Inner(r))
      [] OTHER ->
            \/ /\ l.name = r.name /\ l.num = r.num /\ l.text = r.text
               /\ Len(l.params) = Len(r.params)
               /\ \A i \in DOMAIN l.params : Compatible(l.params[i], r.params[i])
            \/ Is(l, "Nullable") /\ Compatible(Inner(l), r)
            \/ ~Is(l, "Nullable") /\ Is(r, "Nullable") /\ Compatible(l, Inner(r))

(***************************************************************************)
(* Two dates of different families.                                        *)
(***************************************************************************)
CommonDate(l, r) ==
    LET older == {"Date", "Date32"}
        names == {l.name, r.name}
        named(n) == IF Is(l, n) THEN l ELSE r
    IN IF ~(names \subseteq DateNames) \/ l.name = r.name THEN Refused
       ELSE IF names = {"Date32", "DateTime"} THEN DateTime64(0, <<>>)
       ELSE IF names = older THEN Type("Date32")
       ELSE named(IF "DateTime64" \in names THEN "DateTime64" ELSE "DateTime")

(***************************************************************************)
(* The common type of two values.                                          *)
(***************************************************************************)
TupleNames(l, r) ==
    IF /\ Len(l.text) = Len(l.params) /\ l.text = r.text
       /\ \A i \in DOMAIN l.text : l.text[i] # ""
    THEN l.text ELSE <<>>

RECURSIVE CommonOfTwo(_, _)

\* Both wrappers are off, a Bool is a UInt8, an Enum meets only its own kind.
CommonBare(l, r) ==
    LET elements == [i \in DOMAIN l.params |-> CommonOfTwo(l.params[i], r.params[i])]
        anyDecimal == IsDecimalWithParams(l) \/ IsDecimalWithParams(r)
    IN CASE l = r -> l
         [] l # r /\ (anyDecimal \/ (IsNumeric(l) /\ IsNumeric(r))) -> CommonNumber(l, r)
         [] l # r /\ IsText(l) /\ IsText(r) -> Type("String")
         [] /\ l # r /\ l.name = r.name /\ l.name \in Containers
            /\ Len(l.params) = Len(r.params) /\ l.params # <<>> ->
               IF \E i \in DOMAIN elements : Fails(elements[i]) THEN Refused
               ELSE [Wrap(l.name, elements) EXCEPT
                       !.text = IF Is(l, "Tuple") THEN TupleNames(l, r) ELSE <<>>]
         [] OTHER -> CommonDate(l, r)

\* One side is an Enum and the other is not the same type.
CommonWithEnum(l, r) ==
    LET el == IF IsEnum(l) THEN EnumStorage(l) ELSE l
        er == IF IsEnum(r) THEN EnumStorage(r) ELSE r
    IN IF IsText(l) \/ IsText(r) THEN Type("String")
       ELSE IF IsDecimalWithParams(l) \/ IsDecimalWithParams(r) THEN Refused
       ELSE CommonBare(el, er)

CommonUnwrapped(left, right) ==
    LET l == Unwrap(left, "Nullable")
        r == Unwrap(right, "Nullable")
        enums == (IsEnum(l) \/ IsEnum(r)) /\ ~Compatible(l, r)
        Typed(t) == IF (Is(l, "Bool") \/ Is(r, "Bool")) /\ Is(t, "UInt8") THEN Type("Bool") ELSE t
        Result(t) == IF Is(left, "Nullable") \/ Is(right, "Nullable")
                     THEN Wrap("Nullable", <<Typed(t)>>) ELSE Typed(t)
    IN Then(IF enums THEN CommonWithEnum(BoolAsInteger(l), BoolAsInteger(r))
            ELSE CommonBare(BoolAsInteger(l), BoolAsInteger(r)), Result)

\* A marked left value keeps its marker only against its own inner type.
CommonMarked(l, r) ==
    LET inner == MarkedValue(l)
        peer == MarkedValue(r)
    IN CASE ~IsMarked(l) -> CommonOfTwo(l, peer)
         [] IsMarked(l) /\ inner = peer -> l
         [] IsMarked(l) /\ peer = Wrap("Nullable", <<inner>>) -> Wrap("Nullable", <<l>>)
         [] OTHER -> CommonOfTwo(inner, r)

\* A NULL literal counts only on the left (a seeded fault).
CommonStrippedLeftNull(l, r) ==
    IF l = UntypedNull /\ CanBeInsideNullable(r) THEN WrapNullable(r)
    ELSE IF IsMarked(l) \/ IsMarked(r) THEN CommonMarked(l, r) ELSE CommonUnwrapped(l, r)
CommonStripped(l, r) ==
    CASE l = UntypedNull /\ (r = UntypedNull \/ CanBeInsideNullable(r)) -> WrapNullable(r)
      [] l # UntypedNull /\ r = UntypedNull /\ CanBeInsideNullable(l) -> WrapNullable(l)
      [] OTHER -> IF IsMarked(l) \/ IsMarked(r) THEN CommonMarked(l, r) ELSE CommonUnwrapped(l, r)
CommonOfTwo(left, right) == CommonStripped(StripLowCardinality(left), StripLowCardinality(right))

(***************************************************************************)
(* The common type of a list.  Integers of both signs and DateTimes are    *)
(* decided over the whole list; anything else is folded, Decimals before   *)
(* floats before the rest.                                                 *)
(***************************************************************************)
BareDeep(t) == Bare(StripLowCardinality(t))
AnyBareNullable(types) ==
    \E i \in DOMAIN types : SplitWrappers(StripLowCardinality(types[i])).nullable

IntegerInfos(types) == {IntegerClass(BareDeep(types[i]).name) : i \in DOMAIN types}
MixedSignList(types) ==
    /\ \A i \in DOMAIN types : BareDeep(types[i]).name \in IntegerNames
    /\ MixedSign(IntegerInfos(types))

DateTimeList(types) ==
    \A i \in DOMAIN types :
        LET t == BareDeep(types[i])
        IN Is(t, "DateTime") \/ (Is(t, "DateTime64") /\ t.num # <<>>)

\* The finest precision; the zone of the first value if all are as fine,
\* of the last of the finest otherwise.
FinestDateTime(bare, p) ==
    LET at == {i \in DOMAIN bare : Subsecond(bare[i]) = p}
        chosen == IF at = DOMAIN bare THEN 1 ELSE CHOOSE i \in at : \A j \in at : j <= i
    IN IF p = 0 THEN DateTime(Zone(bare[chosen])) ELSE DateTime64(p, Zone(bare[chosen]))
CommonDateTime(types) ==
    LET bare == [i \in DOMAIN types |-> BareDeep(types[i])]
    IN FinestDateTime(bare, CHOOSE p \in {Subsecond(bare[i]) : i \in DOMAIN bare} :
                               \A j \in DOMAIN bare : Subsecond(bare[j]) <= p)

Rank(t) == FoldRank(Bare(t))
\* The branches are folded in the order they are written (a seeded fault).
ByRankAsWritten(types) == types
ByRank(types) ==
    LET OfRank(k) == SelectSeq(types, LAMBDA t : Rank(t) = k)
    IN OfRank(0) \o OfRank(1) \o OfRank(2)

FoldCommon(first, rest) == Folded(CommonOfTwo, first, rest)

FoldByRank(types, ordered) ==
    IF IsMarked(types[1])
    THEN FoldCommon(types[1], SelectSeq(ordered, LAMBDA t : t # types[1]))
    ELSE FoldCommon(StripLowCardinality(ordered[1]), Tail(ordered))

CommonType(types) ==
    LET Result(t) == ApplyWrappers(t, AnyBareNullable(types), FALSE)
    IN IF MixedSignList(types) THEN Then(MixedSignCommon(IntegerInfos(types)), Result)
       ELSE IF DateTimeList(types) THEN Result(CommonDateTime(types))
       ELSE FoldByRank(types, ByRank(types))

(***************************************************************************)
(* Branches: when the list has no common type, the unsigned integer        *)
(* literals that also fit Int64 are taken as Int64 and the list is tried   *)
(* again.  narrowable says which values are such literals.                 *)
(***************************************************************************)
IsUnsigned(t) == t.name \in NumericNames /\ NumericInfo(t.name).kind = "unsigned"

Narrowed(types, narrowable) ==
    [i \in DOMAIN types |->
        LET w == SplitWrappers(types[i])
        IN IF narrowable[i] /\ IsUnsigned(w.base)
           THEN ApplyWrappers(Type("Int64"), w.nullable, w.lowCardinality) ELSE types[i]]

CommonBranch(types, narrowable) ==
    OrElse(CommonType(types), CommonType(Narrowed(types, narrowable)))

\* ifNull and coalesce leave out NULL literals unless there is nothing else.
CommonWithoutNulls(types, narrowable) ==
    LET all == [i \in DOMAIN types |-> i]
        Typed(at) == IF at = <<>> THEN all ELSE at
        Branches(at) == CommonBranch([k \in DOMAIN at |-> types[at[k]]],
                                     [k \in DOMAIN at |-> narrowable[at[k]]])
    IN Branches(Typed(SelectSeq(all, LAMBDA i : types[i] # UntypedNull)))

\* if, multiIf and CASE; a CASE without ELSE may be NULL.
Rewrapped(t, nullable, lowCardinality) == ApplyWrappers(Bare(t), nullable, lowCardinality)
Branch(types, narrowable, noElse) ==
    Then(CommonBranch(types, narrowable),
         LAMBDA t : Rewrapped(t, SplitWrappers(t).nullable \/ noElse, FALSE))

\* Values after the first that cannot be NULL do not count.
UntilNotNull(types) ==
    LET stops == {i \in DOMAIN types : ~ArgumentNullable(types[i])}
    IN IF stops = {} THEN Len(types) ELSE Smallest(stops)

WithoutNullMarker(t) ==
    IF IsMarked(t) /\ SplitWrappers(Inner(t)).nullable THEN Inner(t) ELSE t

Coalesce(types, narrowable) ==
    LET n == UntilNotNull(types)
        nullable == \A i \in 1..n : ArgumentNullable(types[i])
    IN Then(CommonWithoutNulls(SubSeq(types, 1, n), SubSeq(narrowable, 1, n)),
            LAMBDA t : Rewrapped(WithoutNullMarker(t), nullable, FALSE))

IfNull(l, r, narrowable, consts) ==
    Then(CommonWithoutNulls(<<l, r>>, narrowable),
         LAMBDA t : Rewrapped(WithoutNullMarker(t), ArgumentNullable(r),
                              OneLowCardinalityAmongConstants(<<l, r>>, consts)))

(***************************************************************************)
(* greatest and least have a rule of their own for a signed integer        *)
(* against UInt64.                                                         *)
(***************************************************************************)
GreatestLeast(f, types) ==
    LET signed == {"Int8", "Int16", "Int32", "Int64"}
        names == {types[i].name : i \in DOMAIN types}
    IN IF Len(types) = 2 /\ "UInt64" \in names /\ names \cap signed # {}
       THEN Type(IF "Int64" \notin names THEN "Int128"
                 ELSE IF f = "least" THEN "Int64" ELSE "UInt64")
       ELSE CommonType(types)

(***************************************************************************)
(* Containers.  LowCardinality of a member survives where every member     *)
(* carries it, at every depth.                                             *)
(***************************************************************************)
RECURSIVE RestoreLowCardinality(_, _)
RestoreLowCardinality(result, members) ==
    LET bare == [m \in DOMAIN members |-> Unwrap(members[m], "LowCardinality")]
        aligned == members # <<>> /\ \A m \in DOMAIN bare :
                      bare[m].name = result.name /\ Len(bare[m].params) = Len(result.params)
        At(i) == [m \in DOMAIN bare |-> bare[m].params[i]]
        Below(i) == [m \in DOMAIN bare |-> Unwrap(At(i)[m], "LowCardinality")]
        Restored(i) == RestoreLowCardinality(result.params[i], Below(i))
    IN [result EXCEPT !.params = [i \in DOMAIN result.params |->
            IF ~aligned THEN result.params[i]
            ELSE IF \A m \in DOMAIN bare : Is(At(i)[m], "LowCardinality")
            THEN WrapLowCardinality(Restored(i)) ELSE Restored(i)]]

CommonMember(members) ==
    LET inner == [m \in DOMAIN members |-> Unwrap(members[m], "LowCardinality")]
        Member(t) == IF \A m \in DOMAIN members : Is(members[m], "LowCardinality")
                     THEN WrapLowCardinality(t) ELSE t
    IN Then(CommonType(inner), LAMBDA t : Member(RestoreLowCardinality(t, inner)))

ArrayResult(args) == Then(CommonMember(args), ArrayOf)

MapResult(args) ==
    LET half(k) == [i \in 1..(Len(args) \div 2) |-> args[2 * i - k]]
        Keyed(key) == IF Is(Unwrap(key, "LowCardinality"), "Nullable") THEN Refused
                      ELSE Then(CommonMember(half(0)), LAMBDA value : MapOf(key, value))
    IN IF Len(args) % 2 # 0 THEN Refused ELSE Then(CommonMember(half(1)), Keyed)

GroupArrayElement(t) == StripLowCardinality(Bare(ReadMarkedValue(t)))

(***************************************************************************)
(* Reading a container: arrayElement(a, i), a[i], a tuple element.         *)
(***************************************************************************)
ArrayElement(array, index) ==
    LET element == StripLowCardinality(Inner(array))
        nullable == SplitWrappers(index).nullable
    IN IF ~Is(array, "Array") \/ (nullable /\ ~CanBeInsideNullable(element)) THEN Refused
       ELSE IF nullable THEN WrapNullable(element) ELSE element

Subscript(object, index) ==
    IF object.name \notin {"Array", "Map"} THEN Refused
    ELSE ApplyWrappers(Inner(object), SplitWrappers(index).nullable, FALSE)

TupleElement(tuple, i, keepLowCardinality) ==
    LET element == tuple.params[i]
        w == SplitWrappers(element)
    IN IF ~Is(tuple, "Tuple") \/ i \notin DOMAIN tuple.params THEN Refused
       ELSE IF keepLowCardinality THEN element
       ELSE ApplyWrappers(w.base, w.nullable, FALSE)

\* The function form also reads every tuple of an array, and can name a default.
TupleElementCall(t, i, default) ==
    LET array == Is(t, "Array") /\ Is(Inner(t), "Tuple")
        element == TupleElement(IF array THEN Inner(t) ELSE t, i, FALSE)
    IN IF Fails(element) THEN (IF array \/ ~Is(t, "Tuple") THEN Refused ELSE default)
       ELSE IF array THEN ArrayOf(element) ELSE element
==============================================================================
