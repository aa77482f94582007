----------------------------- MODULE NumericTypes -----------------------------
(***************************************************************************)
(* ClickHouse types as chgen holds them (CHType of internal/engine), and   *)
(* the rules about bare numbers: what an arithmetic operator makes of two  *)
(* of them and which type holds the values of several.                     *)
(*                                                                         *)
(* A type is a record: its family, its type parameters, its numeric        *)
(* literals (precision, scale, length, enum numbers) and its text literals *)
(* (timezone, enum labels, tuple element names).  No operator here is      *)
(* recursive.                                                              *)
(***************************************************************************)
EXTENDS Integers, Sequences

Type(n) == [name |-> n, params |-> <<>>, num |-> <<>>, text |-> <<>>]
Refused == Type("refused")
Fails(t) == t.name = "refused"

Decimal(p, s) == [Type("Decimal") EXCEPT !.num = <<p, s>>]
Larger(a, b) == IF a > b THEN a ELSE b

(***************************************************************************)
(* The numeric families: signedness and width in bits.                     *)
(***************************************************************************)
Widths == {8, 16, 32, 64, 128, 256}
UnsignedName == [w \in Widths |->
    CASE w = 8 -> "UInt8" [] w = 16 -> "UInt16" [] w = 32 -> "UInt32"
      [] w = 64 -> "UInt64" [] w = 128 -> "UInt128" [] w = 256 -> "UInt256"]
SignedName == [w \in Widths |->
    CASE w = 8 -> "Int8" [] w = 16 -> "Int16" [] w = 32 -> "Int32"
      [] w = 64 -> "Int64" [] w = 128 -> "Int128" [] w = 256 -> "Int256"]
NumericTypeName(kind, w) ==
    IF kind = "unsigned" THEN UnsignedName[w] ELSE SignedName[w]

Infos == [kind : {"signed", "unsigned"}, bits : Widths]
             \cup [kind : {"float"}, bits : {32, 64}]
InfoName(i) == IF i.kind # "float" THEN NumericTypeName(i.kind, i.bits)
               ELSE IF i.bits = 32 THEN "Float32" ELSE "Float64"
NumericNames == {InfoName(i) : i \in Infos}

\* What a family holds; only asked of a numeric family.
NumericInfo(n) == CHOOSE i \in Infos : InfoName(i) = n

IsWideInteger(n) ==
    n \in {NumericTypeName(k, w) : k \in {"signed", "unsigned"}, w \in {128, 256}}
IsFloat(n) == n \in {"Float32", "Float64"}

(***************************************************************************)
(* Decimals: precision and scale, and the four storage classes.            *)
(***************************************************************************)
SizedDecimal == [Decimal32 |-> 9, Decimal64 |-> 18, Decimal128 |-> 38, Decimal256 |-> 76]
DecimalNames == {"Decimal"} \cup DOMAIN SizedDecimal

\* A sized spelling names the same type as Decimal(P, S).
CanonicalDecimal(t) ==
    IF t.name \in DOMAIN SizedDecimal /\ Len(t.num) = 1
    THEN Decimal(SizedDecimal[t.name], t.num[1])
    ELSE t

IsDecimalWithParams(t) ==
    LET c == CanonicalDecimal(t) IN c.name = "Decimal" /\ Len(c.num) = 2
Precision(t) == CanonicalDecimal(t).num[1]
Scale(t) == CanonicalDecimal(t).num[2]

DecimalClass(p) == IF p <= 9 THEN 9 ELSE IF p <= 18 THEN 18 ELSE IF p <= 38 THEN 38 ELSE 76

\* The decimal digits an integer family needs; absent for the wide integers.
IntegerDigits == [Bool |-> 1, UInt8 |-> 3, Int8 |-> 3, UInt16 |-> 5, Int16 |-> 5,
                  UInt32 |-> 10, Int32 |-> 10, Int64 |-> 19, UInt64 |-> 20]

IsNumeric(t) == t.name \in NumericNames \cup DecimalNames /\ t.params = <<>>

\* The storage class and the scale of a value beside a Decimal.
HasDecimalClass(t) ==
    IsDecimalWithParams(t) \/ (t.name \in DOMAIN IntegerDigits /\ t.params = <<>>)
DecimalClassOf(t) ==
    DecimalClass(IF IsDecimalWithParams(t) THEN Precision(t) ELSE IntegerDigits[t.name])
DecimalScaleOf(t) == IF IsDecimalWithParams(t) THEN Scale(t) ELSE 0

\* The Decimal that holds a Decimal and another Decimal or integer.
CommonDecimal(l, r) ==
    IF /\ IsDecimalWithParams(l) \/ IsDecimalWithParams(r)
       /\ HasDecimalClass(l) /\ HasDecimalClass(r)
    THEN Decimal(Larger(DecimalClassOf(l), DecimalClassOf(r)),
                 Larger(DecimalScaleOf(l), DecimalScaleOf(r)))
    ELSE Refused

(***************************************************************************)
(* The common type of a list of integers of both signs: one signed width   *)
(* that holds every signed branch and, widened for the sign, every         *)
(* unsigned one.  The 128 and 256 bit widths are candidates only when a    *)
(* branch is that wide already.                                            *)
(***************************************************************************)
\* An unsigned branch is not widened for the sign (a seeded fault).
SignedWidthsUnwidened(infos) == {w \in Widths : w <= 64 /\ \A i \in infos : w >= i.bits}
SignedWidths(infos) ==
    LET cap == IF \E i \in infos : i.bits >= 128 THEN 256 ELSE 64
    IN {w \in Widths :
          /\ w <= cap
          /\ \A i \in infos :
                w >= (IF i.kind = "signed" THEN i.bits ELSE 2 * i.bits)}

Smallest(S) == CHOOSE w \in S : \A v \in S : w <= v

MixedSign(infos) ==
    /\ \E i \in infos : i.kind = "signed"
    /\ \E i \in infos : i.kind = "unsigned"

MixedSignCommon(infos) ==
    IF SignedWidths(infos) = {} THEN Refused
    ELSE Type(SignedName[Smallest(SignedWidths(infos))])

(***************************************************************************)
(* The common type of two numbers.                                         *)
(***************************************************************************)
CommonNumeric(l, r) ==
    LET known == l.name \in NumericNames /\ r.name \in NumericNames
        a == NumericInfo(l.name)
        b == NumericInfo(r.name)
        integer == IF a.kind = "float" THEN b ELSE a
        float == IF a.kind = "float" THEN a ELSE b
    IN CASE ~known -> Refused
         [] known /\ a.kind = "float" /\ b.kind = "float" ->
               Type(IF a.bits = 32 /\ b.bits = 32 THEN "Float32" ELSE "Float64")
         [] known /\ (a.kind = "float") # (b.kind = "float") ->
               IF integer.bits <= 16 /\ float.bits = 32 THEN Type("Float32")
               ELSE IF integer.bits <= 32 THEN Type("Float64")
               ELSE Refused
         [] known /\ a.kind # "float" /\ a.kind = b.kind ->
               Type(NumericTypeName(a.kind, Larger(a.bits, b.bits)))
         [] OTHER -> MixedSignCommon({a, b})

\* Two bare numbers, the same one first: a Decimal looks at the other side alone.
CommonNumber(l, r) ==
    CASE l = r -> l
      [] l # r /\ (IsDecimalWithParams(l) \/ IsDecimalWithParams(r)) -> CommonDecimal(l, r)
      [] OTHER -> CommonNumeric(l, r)

\* Decimals are folded before floats, floats before the rest.
FoldRank(t) == IF IsDecimalWithParams(t) THEN 0 ELSE IF IsFloat(t.name) THEN 1 ELSE 2

\* The common type of a list, one more value at a time; a refusal ends it.
Folded(Common(_, _), first, rest) ==
    LET upTo[i \in 0 .. Len(rest)] ==
            IF i = 0 THEN first
            ELSE IF Fails(upTo[i - 1]) THEN Refused ELSE Common(upTo[i - 1], rest[i])
    IN upTo[Len(rest)]

\* wide holds every value of t exactly: a float has half its width for integers.
Holds(wide, t) ==
    LET w == NumericInfo(wide.name)
        i == NumericInfo(t.name)
    IN CASE w.kind = "float" /\ i.kind # "float" -> i.bits <= w.bits \div 2
         [] w.kind = "signed" /\ i.kind = "unsigned" -> i.bits < w.bits
         [] OTHER -> i.kind = w.kind /\ i.bits <= w.bits

(***************************************************************************)
(* Arithmetic of two bare integers.  A result doubles its width below 64   *)
(* bits.                                                                   *)
(***************************************************************************)
IntegerNames == {n \in NumericNames : ~IsFloat(n)} \cup {"Bool"}
IntegerClass(n) == NumericInfo(IF n = "Bool" THEN "UInt8" ELSE n)
Promoted(w) == IF w >= 64 THEN w ELSE 2 * w

IntegerResult(op, l, r) ==
    LET a == IntegerClass(l.name)
        b == IntegerClass(r.name)
        wide == Promoted(Larger(a.bits, b.bits))
    IN CASE op = "/" -> Type("Float64")
         [] op \in {"+", "*"} ->
               Type(NumericTypeName(IF "signed" \in {a.kind, b.kind} THEN "signed" ELSE "unsigned", wide))
         [] op = "-" -> Type(SignedName[wide])
         [] op = "%" ->
               Type(IF a.kind = "signed" THEN SignedName[Promoted(b.bits)]
                    ELSE UnsignedName[b.bits])

\* Arithmetic with a Decimal operand.
DecimalResult(op, l, r) ==
    LET scale == CASE op \in {"+", "-"} -> Larger(Scale(l), Scale(r))
                   [] op = "*" -> Scale(l) + Scale(r)
                   [] OTHER -> Scale(l)
        ld == IsDecimalWithParams(l)
        rd == IsDecimalWithParams(r)
    IN CASE ld /\ rd -> Decimal(DecimalClass(Larger(Precision(l), Precision(r))), scale)
         [] ld /\ r.name \in IntegerNames -> CanonicalDecimal(l)
         [] rd /\ l.name \in IntegerNames -> CanonicalDecimal(r)
         [] (ld /\ IsFloat(r.name)) \/ (rd /\ IsFloat(l.name)) -> Type("Float64")
         [] OTHER -> Refused

\* Arithmetic with a float operand; a wide integer only divides by it.
FloatResult(op, l, r) ==
    IF /\ {l.name, r.name} \subseteq NumericNames \cup {"Bool"}
       /\ op \in {"+", "-", "*"} => ~IsWideInteger(l.name) /\ ~IsWideInteger(r.name)
    THEN Type("Float64")
    ELSE Refused
==============================================================================
