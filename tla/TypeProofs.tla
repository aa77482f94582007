------------------------------ MODULE TypeProofs ------------------------------
(***************************************************************************)
(* Theorems about the type rules: the common type of a list of numbers     *)
(* (commonCHTypes), the type a declaration denotes (parseCHType), the      *)
(* wrappers that a call takes off its arguments and puts back on its       *)
(* result (splitWrapperStack, resultStack, applyWrapperStack), the Go type *)
(* of a column (goType) and the walk of its range guard (temporalShapeOf). *)
(***************************************************************************)
EXTENDS GoTypes, RecursionTheorems, SequenceTheorems

(***************************************************************************)
(* A family has one name.                                                  *)
(***************************************************************************)
LEMMA NameTable ==
  /\ UnsignedName[8] = "UInt8" /\ UnsignedName[16] = "UInt16" /\ UnsignedName[32] = "UInt32"
  /\ UnsignedName[64] = "UInt64" /\ UnsignedName[128] = "UInt128" /\ UnsignedName[256] = "UInt256"
  /\ SignedName[8] = "Int8" /\ SignedName[16] = "Int16" /\ SignedName[32] = "Int32"
  /\ SignedName[64] = "Int64" /\ SignedName[128] = "Int128" /\ SignedName[256] = "Int256"
  BY DEF UnsignedName, SignedName, Widths

LEMMA InfoTable ==
  ASSUME NEW i \in Infos
  PROVE  /\ i.kind \in {"signed", "unsigned", "float"} /\ i.bits \in Widths
         /\ i.kind = "float" => i.bits \in {32, 64}
         /\ i = [kind |-> i.kind, bits |-> i.bits]
         /\ [kind |-> i.kind, bits |-> i.bits] \in Infos
  BY DEF Infos, Widths

LEMMA NamesOfInfos ==
  ASSUME NEW i \in Infos
  PROVE  /\ i.kind = "signed" => InfoName(i) = SignedName[i.bits]
         /\ i.kind = "unsigned" => InfoName(i) = UnsignedName[i.bits]
         /\ i.kind = "float" => InfoName(i) = IF i.bits = 32 THEN "Float32" ELSE "Float64"
  BY InfoTable DEF InfoName, NumericTypeName

LEMMA InfoOfEachName ==
  ASSUME NEW i \in Infos
  PROVE
  /\ InfoName(i) = "Int8" <=> i.kind = "signed" /\ i.bits = 8
  /\ InfoName(i) = "Int16" <=> i.kind = "signed" /\ i.bits = 16
  /\ InfoName(i) = "Int32" <=> i.kind = "signed" /\ i.bits = 32
  /\ InfoName(i) = "Int64" <=> i.kind = "signed" /\ i.bits = 64
  /\ InfoName(i) = "Int128" <=> i.kind = "signed" /\ i.bits = 128
  /\ InfoName(i) = "Int256" <=> i.kind = "signed" /\ i.bits = 256
  /\ InfoName(i) = "UInt8" <=> i.kind = "unsigned" /\ i.bits = 8
  /\ InfoName(i) = "UInt16" <=> i.kind = "unsigned" /\ i.bits = 16
  /\ InfoName(i) = "UInt32" <=> i.kind = "unsigned" /\ i.bits = 32
  /\ InfoName(i) = "UInt64" <=> i.kind = "unsigned" /\ i.bits = 64
  /\ InfoName(i) = "UInt128" <=> i.kind = "unsigned" /\ i.bits = 128
  /\ InfoName(i) = "UInt256" <=> i.kind = "unsigned" /\ i.bits = 256
  /\ InfoName(i) = "Float32" <=> i.kind = "float" /\ i.bits = 32
  /\ InfoName(i) = "Float64" <=> i.kind = "float" /\ i.bits = 64
<1>1. i.bits \in {8, 16, 32, 64, 128, 256} /\ i.kind \in {"signed", "unsigned", "float"}
  BY InfoTable DEF Widths
<1>2. CASE i.kind = "signed"
  BY <1>1, <1>2, NameTable, NamesOfInfos
<1>3. CASE i.kind = "unsigned"
  BY <1>1, <1>3, NameTable, NamesOfInfos
<1>4. CASE i.kind = "float"
  <2>1. i.bits \in {32, 64} /\ InfoName(i) = IF i.bits = 32 THEN "Float32" ELSE "Float64"
    BY <1>4, InfoTable, NamesOfInfos
  <2> QED
    BY <1>4, <2>1
<1> QED
  BY <1>1, <1>2, <1>3, <1>4

LEMMA OneName ==
  ASSUME NEW i \in Infos, NEW j \in Infos, InfoName(i) = InfoName(j)
  PROVE  i = j
<1>1. i.kind = j.kind /\ i.bits = j.bits
  <2>1. /\ i.bits \in {8, 16, 32, 64, 128, 256} /\ i.kind \in {"signed", "unsigned", "float"}
        /\ i.kind = "float" => i.bits \in {32, 64}
    BY InfoTable DEF Widths
  <2>2. CASE i.kind = "signed"
    BY <2>1, <2>2, InfoOfEachName
  <2>3. CASE i.kind = "unsigned"
    BY <2>1, <2>3, InfoOfEachName
  <2>4. CASE i.kind = "float"
    BY <2>1, <2>4, InfoOfEachName
  <2> QED
    BY <2>1, <2>2, <2>3, <2>4
<1> QED
  BY <1>1, InfoTable

LEMMA InfoOfName ==
  ASSUME NEW i \in Infos
  PROVE  NumericInfo(InfoName(i)) = i
  BY OneName DEF NumericInfo

LEMMA NameOfInfo ==
  ASSUME NEW n \in NumericNames
  PROVE  NumericInfo(n) \in Infos /\ InfoName(NumericInfo(n)) = n
  BY InfoOfName DEF NumericNames

LEMMA NamesAre ==
  NumericNames = {"Int8", "Int16", "Int32", "Int64", "Int128", "Int256",
                  "UInt8", "UInt16", "UInt32", "UInt64", "UInt128", "UInt256",
                  "Float32", "Float64"}
<1> DEFINE Known == {"Int8", "Int16", "Int32", "Int64", "Int128", "Int256",
                     "UInt8", "UInt16", "UInt32", "UInt64", "UInt128", "UInt256",
                     "Float32", "Float64"}
<1>1. ASSUME NEW i \in Infos PROVE InfoName(i) \in Known
  <2>1. /\ i.bits \in {8, 16, 32, 64, 128, 256} /\ i.kind \in {"signed", "unsigned", "float"}
        /\ i.kind = "float" => i.bits \in {32, 64}
    BY InfoTable DEF Widths
  <2>2. CASE i.kind = "signed"
    BY <2>1, <2>2, InfoOfEachName
  <2>3. CASE i.kind = "unsigned"
    BY <2>1, <2>3, InfoOfEachName
  <2>4. CASE i.kind = "float"
    BY <2>1, <2>4, InfoOfEachName
  <2> QED
    BY <2>1, <2>2, <2>3, <2>4
<1>2. ASSUME NEW k \in {"signed", "unsigned"}, NEW w \in Widths
      PROVE  NumericTypeName(k, w) \in NumericNames
  <2>1. [kind |-> k, bits |-> w] \in Infos /\ InfoName([kind |-> k, bits |-> w]) = NumericTypeName(k, w)
    BY DEF Infos, InfoName
  <2> QED
    BY <2>1 DEF NumericNames
<1>3. ASSUME NEW w \in {32, 64}
      PROVE  (IF w = 32 THEN "Float32" ELSE "Float64") \in NumericNames
  <2>1. /\ [kind |-> "float", bits |-> w] \in Infos
        /\ InfoName([kind |-> "float", bits |-> w]) = IF w = 32 THEN "Float32" ELSE "Float64"
    BY DEF Infos, InfoName
  <2> QED
    BY <2>1 DEF NumericNames
<1>4. Known \subseteq NumericNames
  <2>1. /\ \A w \in Widths : SignedName[w] \in NumericNames /\ UnsignedName[w] \in NumericNames
        /\ "Float32" \in NumericNames /\ "Float64" \in NumericNames
    BY <1>2, <1>3 DEF NumericTypeName
  <2> QED
    BY <2>1, NameTable DEF Widths
<1>5. NumericNames \subseteq Known
  BY <1>1 DEF NumericNames
<1> QED
  BY <1>4, <1>5

(***************************************************************************)
(* Bare numbers.                                                           *)
(***************************************************************************)
Numbers == {Type(n) : n \in NumericNames}
KindOf(t) == NumericInfo(t.name).kind
BitsOf(t) == NumericInfo(t.name).bits

LEMMA NumberIs ==
  ASSUME NEW t \in Numbers
  PROVE  /\ t = Type(t.name) /\ t.name \in NumericNames
         /\ NumericInfo(t.name) \in Infos
         /\ KindOf(t) \in {"signed", "unsigned", "float"}
         /\ BitsOf(t) \in {8, 16, 32, 64, 128, 256}
         /\ KindOf(t) = "float" => BitsOf(t) \in {32, 64}
<1>1. t = Type(t.name) /\ t.name \in NumericNames
  BY DEF Numbers, Type
<1> QED
  BY <1>1, NameOfInfo, InfoTable DEF KindOf, BitsOf, Widths

LEMMA KindAndBitsName ==
  ASSUME NEW t \in Numbers, NEW u \in Numbers, KindOf(t) = KindOf(u), BitsOf(t) = BitsOf(u)
  PROVE  t = u
<1>1. NumericInfo(t.name) = NumericInfo(u.name)
  <2>1. \A i, j \in Infos : i.kind = j.kind /\ i.bits = j.bits => i = j
    BY InfoTable
  <2> QED
    BY <2>1, NumberIs DEF KindOf, BitsOf
<1>2. t.name = u.name
  BY <1>1, NumberIs, NameOfInfo
<1> QED
  BY <1>2, NumberIs

LEMMA NumberOf ==
  ASSUME NEW i \in Infos
  PROVE  /\ Type(InfoName(i)) \in Numbers
         /\ KindOf(Type(InfoName(i))) = i.kind /\ BitsOf(Type(InfoName(i))) = i.bits
<1>1. InfoName(i) \in NumericNames /\ Type(InfoName(i)).name = InfoName(i)
  BY DEF NumericNames, Type
<1> QED
  BY <1>1, InfoOfName DEF Numbers, KindOf, BitsOf

LEMMA NumberIsNotDecimal ==
  ASSUME NEW t \in Numbers
  PROVE  /\ ~IsDecimalWithParams(t) /\ ~Fails(t) /\ t.params = <<>>
         /\ IsFloat(t.name) <=> KindOf(t) = "float"
<1>1. t.params = <<>> /\ t.num = <<>>
  BY NumberIs DEF Type
<1>2. t.name # "refused" /\ t.name # "Decimal" /\ t.name \notin DOMAIN SizedDecimal
  BY NumberIs, NamesAre DEF SizedDecimal
<1>3. ~IsDecimalWithParams(t)
  BY <1>2 DEF IsDecimalWithParams, CanonicalDecimal
<1>4. IsFloat(t.name) <=> KindOf(t) = "float"
  <2>1. t.name = InfoName(NumericInfo(t.name)) /\ NumericInfo(t.name) \in Infos
    BY NumberIs, NameOfInfo
  <2>2. t.name = "Float32" <=> KindOf(t) = "float" /\ BitsOf(t) = 32
    BY <2>1, InfoOfEachName DEF KindOf, BitsOf
  <2>3. t.name = "Float64" <=> KindOf(t) = "float" /\ BitsOf(t) = 64
    BY <2>1, InfoOfEachName DEF KindOf, BitsOf
  <2> QED
    BY <2>2, <2>3, NumberIs DEF IsFloat
<1> QED
  BY <1>1, <1>2, <1>3, <1>4 DEF Fails

Float32 == Type("Float32")
Float64 == Type("Float64")

LEMMA Floats ==
  /\ Float32 \in Numbers /\ KindOf(Float32) = "float" /\ BitsOf(Float32) = 32
  /\ Float64 \in Numbers /\ KindOf(Float64) = "float" /\ BitsOf(Float64) = 64
<1>1. /\ [kind |-> "float", bits |-> 32] \in Infos /\ [kind |-> "float", bits |-> 64] \in Infos
      /\ InfoName([kind |-> "float", bits |-> 32]) = "Float32"
      /\ InfoName([kind |-> "float", bits |-> 64]) = "Float64"
  BY DEF Infos, InfoName
<1> QED
  BY <1>1, NumberOf DEF Float32, Float64

LEMMA FloatIs ==
  ASSUME NEW t \in Numbers, KindOf(t) = "float"
  PROVE  t = IF BitsOf(t) = 32 THEN Float32 ELSE Float64
  BY Floats, NumberIs, KindAndBitsName

LEMMA TwoFloats ==
  ASSUME NEW l \in Numbers, NEW r \in Numbers, KindOf(l) = "float", KindOf(r) = "float"
  PROVE  CommonNumber(l, r) = IF BitsOf(l) = 32 /\ BitsOf(r) = 32 THEN Float32 ELSE Float64
<1>1. CASE l = r
  BY <1>1, FloatIs DEF CommonNumber
<1>2. CASE l # r
  <2>1. CommonNumber(l, r) = CommonNumeric(l, r)
    BY <1>2, NumberIsNotDecimal DEF CommonNumber
  <2> QED
    BY <2>1, NumberIs DEF CommonNumeric, KindOf, BitsOf, Float32, Float64
<1> QED
  BY <1>1, <1>2

LEMMA FloatAndInteger ==
  ASSUME NEW l \in Numbers, NEW r \in Numbers, KindOf(l) = "float", KindOf(r) # "float"
  PROVE  CommonNumber(l, r) = IF BitsOf(r) > 32 THEN Refused
                              ELSE IF BitsOf(r) = 32 \/ BitsOf(l) = 64 THEN Float64 ELSE Float32
<1>1. l # r
  OBVIOUS
<1>2. CommonNumber(l, r) = CommonNumeric(l, r)
  BY <1>1, NumberIsNotDecimal DEF CommonNumber
<1>3. CommonNumeric(l, r) = IF BitsOf(r) <= 16 /\ BitsOf(l) = 32 THEN Type("Float32")
                            ELSE IF BitsOf(r) <= 32 THEN Type("Float64") ELSE Refused
  BY NumberIs DEF CommonNumeric, KindOf, BitsOf
<1>4. BitsOf(l) \in {32, 64} /\ BitsOf(r) \in {8, 16, 32, 64, 128, 256}
  BY NumberIs
<1> QED
  BY <1>2, <1>3, <1>4 DEF Float32, Float64

LEMMA SameKind ==
  ASSUME NEW l \in Numbers, NEW r \in Numbers, KindOf(l) # "float", KindOf(r) = KindOf(l)
  PROVE  CommonNumber(l, r) = IF BitsOf(l) >= BitsOf(r) THEN l ELSE r
<1>1. CASE l = r
  BY <1>1 DEF CommonNumber
<1>2. CASE l # r
  <2>1. CommonNumber(l, r) = CommonNumeric(l, r)
    BY <1>2, NumberIsNotDecimal DEF CommonNumber
  <2>2. CommonNumeric(l, r) = Type(NumericTypeName(KindOf(l), Larger(BitsOf(l), BitsOf(r))))
    BY NumberIs DEF CommonNumeric, KindOf, BitsOf
  <2>3. ASSUME NEW t \in Numbers, KindOf(t) = KindOf(l)
        PROVE  Type(NumericTypeName(KindOf(l), BitsOf(t))) = t
    <3>1. NumericInfo(t.name) \in Infos /\ t.name = InfoName(NumericInfo(t.name)) /\ t = Type(t.name)
      BY NumberIs, NameOfInfo
    <3>2. InfoName(NumericInfo(t.name)) = NumericTypeName(KindOf(l), BitsOf(t))
      BY <2>3 DEF InfoName, KindOf, BitsOf
    <3> QED
      BY <3>1, <3>2
  <2>4. Larger(BitsOf(l), BitsOf(r)) = IF BitsOf(l) >= BitsOf(r) THEN BitsOf(l) ELSE BitsOf(r)
    BY NumberIs DEF Larger
  <2> QED
    BY <2>1, <2>2, <2>3, <2>4
<1> QED
  BY <1>1, <1>2

(***************************************************************************)
(* The fold of a list.  Inv[i] is what the fold may have found after i     *)
(* more values.                                                            *)
(***************************************************************************)
Joined(acc, t) == IF Fails(acc) THEN Refused ELSE CommonNumber(acc, t)

LEMMA FoldStaysIn ==
  ASSUME NEW first, NEW rest, Len(rest) \in Nat, NEW Inv,
         first \in Inv[0],
         \A i \in 1 .. Len(rest) : \A acc \in Inv[i - 1] : Joined(acc, rest[i]) \in Inv[i]
  PROVE  Folded(CommonNumber, first, rest) \in Inv[Len(rest)]
<1> DEFINE n == Len(rest)
           V == {first} \cup UNION {Inv[i] : i \in 0 .. n}
           Pass == [i \in 1 .. n |-> [acc \in V |-> IF acc \in Inv[i - 1] THEN Joined(acc, rest[i]) ELSE first]]
           Fills(f) == f = [i \in 0 .. n |->
                        IF i = 0 THEN first
                        ELSE IF Fails(f[i - 1]) THEN Refused ELSE CommonNumber(f[i - 1], rest[i])]
<1> USE DEF Joined
<1>1. n \in Nat /\ first \in V
  OBVIOUS
<1>2. Pass \in [1 .. n -> [V -> V]]
  <2>1. ASSUME NEW i \in 1 .. n, NEW acc \in V, acc \in Inv[i - 1] PROVE Joined(acc, rest[i]) \in V
    <3>1. Joined(acc, rest[i]) \in Inv[i] /\ i \in 0 .. n
      BY <2>1
    <3> QED
      BY <3>1
  <2> QED
    BY <1>1, <2>1
<1>3. PICK f \in [0 .. n -> V] : Runs(f, first, n, Pass)
  <2> HIDE DEF V, Pass, n
  <2> QED
    BY <1>1, <1>2, LoopRuns
<1>4. f[0] = first /\ \A i \in 1 .. n : f[i] = Pass[i][f[i - 1]]
  BY <1>3 DEF Runs
<1>5. \A i \in 0 .. n : f[i] \in Inv[i]
  <2> DEFINE P == {i \in 0 .. n : f[i] \in Inv[i]}
  <2>1. 0 \in P
    BY <1>1, <1>4
  <2>2. ASSUME NEW i \in 1 .. n, i - 1 \in P PROVE i \in P
    <3>1. f[i - 1] \in Inv[i - 1] /\ f[i - 1] \in V /\ i \in 0 .. n
      BY <2>2
    <3>2. f[i] = Joined(f[i - 1], rest[i])
      BY <1>4, <3>1
    <3> QED
      BY <3>1, <3>2
  <2> HIDE DEF P
  <2>3. \A i \in 0 .. n : i \in P
    BY <1>1, <2>1, <2>2, UpTo
  <2> QED
    BY <2>3 DEF P
<1>6. Fills(f)
  <2>1. ASSUME NEW i \in 1 .. n PROVE f[i] = Joined(f[i - 1], rest[i])
    <3>1. i - 1 \in 0 .. n /\ f[i - 1] \in V /\ f[i - 1] \in Inv[i - 1]
      BY <1>5
    <3> QED
      BY <1>4, <3>1
  <2> QED
    BY <1>4, <2>1
<1> DEFINE g == CHOOSE h : Fills(h)
<1>7. Folded(CommonNumber, first, rest) = g[n]
  BY DEF Folded
<1>8. Fills(g)
  <2> HIDE DEF Fills
  <2> QED
    BY <1>6
<1> HIDE DEF g
<1>9. \A i \in 0 .. n : g[i] \in Inv[i]
  <2> DEFINE P == {i \in 0 .. n : g[i] \in Inv[i]}
  <2>1. 0 \in P
    BY <1>1, <1>8
  <2>2. ASSUME NEW i \in 1 .. n, i - 1 \in P PROVE i \in P
    <3>1. g[i - 1] \in Inv[i - 1] /\ i \in 0 .. n /\ i # 0
      BY <2>2
    <3>2. g[i] = Joined(g[i - 1], rest[i])
      BY <1>8, <3>1
    <3> QED
      BY <3>1, <3>2
  <2> HIDE DEF P
  <2>3. \A i \in 0 .. n : i \in P
    BY <1>1, <2>1, <2>2, UpTo
  <2> QED
    BY <2>3 DEF P
<1> QED
  BY <1>1, <1>7, <1>9

(***************************************************************************)
(* The largest of a set of numbers.                                        *)
(***************************************************************************)
IsLargest(m, S) == m \in S /\ \A k \in S : k <= m
Largest(S) == CHOOSE m \in S : \A k \in S : k <= m

LEMMA LargestIs ==
  ASSUME NEW S \in SUBSET Int, NEW m, IsLargest(m, S)
  PROVE  Largest(S) = m
<1>1. m \in S /\ \A k \in S : k <= m
  BY DEF IsLargest
<1>2. Largest(S) \in S /\ \A k \in S : k <= Largest(S)
  BY <1>1 DEF Largest
<1>3. m <= Largest(S) /\ Largest(S) <= m /\ m \in Int /\ Largest(S) \in Int
  BY <1>1, <1>2
<1> HIDE DEF Largest
<1> QED
  BY <1>3

LEMMA LargestExists ==
  ASSUME NEW k \in Nat, NEW S \in SUBSET (0 .. k), S # {}
  PROVE  IsLargest(Largest(S), S) /\ Largest(S) \in S
<1> DEFINE T == {n \in 0 .. k : k - n \in S}
<1>1. T \in SUBSET Nat
  OBVIOUS
<1>2. T # {}
  <2>1. PICK m \in S : m \in 0 .. k
    OBVIOUS
  <2>2. k - m \in 0 .. k /\ k - (k - m) = m
    BY <2>1
  <2> QED
    BY <2>1, <2>2
<1> HIDE DEF T
<1>3. PICK n \in T : \A m \in T : n <= m
  BY <1>1, <1>2, LeastNumber
<1>4. ASSUME NEW m \in S PROVE m <= k - n
  <2>1. k - m \in 0 .. k /\ k - (k - m) = m /\ m \in Int /\ n \in 0 .. k
    BY <1>3 DEF T
  <2>2. k - m \in T
    BY <1>4, <2>1 DEF T
  <2> QED
    BY <1>3, <2>1, <2>2
<1>5. IsLargest(k - n, S) /\ k - n \in S
  BY <1>3, <1>4 DEF IsLargest, T
<1>6. S \in SUBSET Int
  OBVIOUS
<1>7. Largest(S) = k - n
  BY <1>5, <1>6, LargestIs
<1> QED
  BY <1>5, <1>7

LEMMA LargestGrows ==
  ASSUME NEW S \in SUBSET Int, NEW m, IsLargest(m, S), NEW k \in Int
  PROVE  IsLargest(Larger(m, k), S \cup {k}) /\ Largest(S \cup {k}) = Larger(m, k)
<1>1. IsLargest(Larger(m, k), S \cup {k})
  BY DEF IsLargest, Larger
<1>2. S \cup {k} \in SUBSET Int
  OBVIOUS
<1> QED
  BY <1>1, <1>2, LargestIs

(***************************************************************************)
(* Decimals with precision and scale, in both spellings.                   *)
(***************************************************************************)
Sized(n, s) == [Type(n) EXCEPT !.num = <<s>>]
Decimals == {Decimal(p, s) : p \in 1 .. 76, s \in 0 .. 76}
              \cup {Sized(n, s) : n \in DOMAIN SizedDecimal, s \in 0 .. 76}
DecimalClasses == {9, 18, 38, 76}

LEMMA ClassOfPrecision == \A p \in Int : DecimalClass(p) \in DecimalClasses
  BY DEF DecimalClass, DecimalClasses

LEMMA DecimalHas ==
  ASSUME NEW p \in Int, NEW s \in Int
  PROVE  /\ IsDecimalWithParams(Decimal(p, s)) /\ ~Fails(Decimal(p, s))
         /\ HasDecimalClass(Decimal(p, s))
         /\ DecimalClassOf(Decimal(p, s)) = DecimalClass(p) /\ DecimalScaleOf(Decimal(p, s)) = s
<1>1. /\ Decimal(p, s).name = "Decimal" /\ Decimal(p, s).num = <<p, s>>
  BY DEF Decimal, Type
<1>2. CanonicalDecimal(Decimal(p, s)) = Decimal(p, s)
  BY <1>1 DEF CanonicalDecimal, SizedDecimal
<1>3. IsDecimalWithParams(Decimal(p, s)) /\ ~Fails(Decimal(p, s))
  BY <1>1, <1>2 DEF IsDecimalWithParams, Fails
<1>4. Precision(Decimal(p, s)) = p /\ Scale(Decimal(p, s)) = s
  BY <1>1, <1>2 DEF Precision, Scale
<1> QED
  BY <1>3, <1>4 DEF HasDecimalClass, DecimalClassOf, DecimalScaleOf

LEMMA DecimalIs ==
  ASSUME NEW t \in Decimals
  PROVE  /\ IsDecimalWithParams(t) /\ ~Fails(t) /\ HasDecimalClass(t)
         /\ DecimalClassOf(t) \in DecimalClasses /\ DecimalScaleOf(t) \in 0 .. 76
<1>1. CASE \E p \in 1 .. 76, s \in 0 .. 76 : t = Decimal(p, s)
  BY <1>1, DecimalHas, ClassOfPrecision
<1>2. CASE \E n \in DOMAIN SizedDecimal, s \in 0 .. 76 : t = Sized(n, s)
  <2>1. PICK n \in DOMAIN SizedDecimal, s \in 0 .. 76 : t = Sized(n, s)
    BY <1>2
  <2>2. t.name = n /\ t.num = <<s>> /\ n # "refused"
    <3>1. t.name = n /\ t.num = <<s>>
      BY <2>1 DEF Sized, Type
    <3> QED
      BY <3>1 DEF SizedDecimal
  <2>3. CanonicalDecimal(t) = Decimal(SizedDecimal[n], s) /\ SizedDecimal[n] \in Int
    BY <2>2 DEF CanonicalDecimal, SizedDecimal
  <2>4. Decimal(SizedDecimal[n], s).name = "Decimal" /\ Decimal(SizedDecimal[n], s).num = <<SizedDecimal[n], s>>
    BY DEF Decimal, Type
  <2> QED
    BY <2>2, <2>3, <2>4, ClassOfPrecision
       DEF IsDecimalWithParams, HasDecimalClass, DecimalClassOf, DecimalScaleOf, Precision, Scale, Fails
<1> QED
  BY <1>1, <1>2 DEF Decimals

LEMMA IntegerDigitsAre ==
  \A n \in DOMAIN IntegerDigits : IntegerDigits[n] \in Int
  BY DEF IntegerDigits

LEMMA ClassIs ==
  ASSUME NEW t \in Numbers \cup Decimals, HasDecimalClass(t)
  PROVE  DecimalClassOf(t) \in DecimalClasses /\ DecimalScaleOf(t) \in 0 .. 76
<1>1. CASE t \in Decimals
  BY <1>1, DecimalIs
<1>2. CASE t \in Numbers
  <2>1. ~IsDecimalWithParams(t)
    BY <1>2, NumberIsNotDecimal
  <2>2. t.name \in DOMAIN IntegerDigits
    BY <2>1 DEF HasDecimalClass
  <2> QED
    BY <2>1, <2>2, IntegerDigitsAre, ClassOfPrecision DEF DecimalClassOf, DecimalScaleOf
<1> QED
  BY <1>1, <1>2

\* A Decimal and another number: the larger class and the larger scale, each of
\* which is looked up in one of the two alone (commonDecimalSupertype).
LEMMA DecimalAndOther ==
  ASSUME NEW l, NEW r, IsDecimalWithParams(l), l # r
  PROVE  CommonNumber(l, r) =
           IF HasDecimalClass(r)
           THEN Decimal(Larger(DecimalClassOf(l), DecimalClassOf(r)),
                        Larger(DecimalScaleOf(l), DecimalScaleOf(r)))
           ELSE Refused
<1>1. CommonNumber(l, r) = CommonDecimal(l, r)
  BY DEF CommonNumber
<1> QED
  BY <1>1 DEF CommonDecimal, HasDecimalClass

(***************************************************************************)
(* The common type of a set of numbers: what the fold finds, without the   *)
(* order it looks at them.                                                 *)
(***************************************************************************)
CommonOfDecimals(S) ==
    IF \E t \in S : S = {t} THEN CHOOSE t \in S : S = {t}
    ELSE IF \E t \in S : ~HasDecimalClass(t) THEN Refused
    ELSE Decimal(Largest({DecimalClassOf(t) : t \in S}), Largest({DecimalScaleOf(t) : t \in S}))

CommonOfFloats(S) ==
    IF \E t \in S : KindOf(t) # "float" /\ BitsOf(t) > 32 THEN Refused
    ELSE IF \E t \in S : BitsOf(t) = IF KindOf(t) = "float" THEN 64 ELSE 32 THEN Float64
    ELSE Float32

Widest(S) == CHOOSE t \in S : \A u \in S : BitsOf(u) <= BitsOf(t)

CommonOfSet(S) ==
    IF \E t \in S : IsDecimalWithParams(t) THEN CommonOfDecimals(S)
    ELSE IF \E t \in S : KindOf(t) = "float" THEN CommonOfFloats(S)
    ELSE Widest(S)

\* The values of a list, and the lists in the order in which they are folded.
ValuesOf(types) == {types[i] : i \in DOMAIN types}
NumberLists == {types \in Seq(Numbers \cup Decimals) : types # <<>>}
InFoldOrder(types) ==
    \A i, j \in DOMAIN types : i < j => FoldRank(types[i]) <= FoldRank(types[j])
Signs(types) == {KindOf(t) : t \in ValuesOf(types)}
CommonOfList(types) == Folded(CommonNumber, types[1], Tail(types))

LEMMA ListIs ==
  ASSUME NEW types \in NumberLists
  PROVE  /\ Len(types) \in Nat \ {0} /\ DOMAIN types = 1 .. Len(types)
         /\ Len(Tail(types)) = Len(types) - 1
         /\ \A i \in 1 .. Len(Tail(types)) : Tail(types)[i] = types[i + 1] /\ i + 1 \in 1 .. Len(types)
         /\ \A i \in 1 .. Len(types) : types[i] \in Numbers \cup Decimals
<1>1. types \in Seq(Numbers \cup Decimals) /\ types # <<>>
  BY DEF NumberLists
<1> QED
  BY <1>1

\* Inv[i] says of the values 1 to i + 1 what the fold has found in them.
LEMMA ListFold ==
  ASSUME NEW types \in NumberLists, NEW Inv,
         types[1] \in Inv[0],
         \A i \in 1 .. (Len(types) - 1) : \A acc \in Inv[i - 1] : Joined(acc, types[i + 1]) \in Inv[i]
  PROVE  CommonOfList(types) \in Inv[Len(types) - 1]
<1> DEFINE rest == Tail(types)
<1>1. Len(rest) = Len(types) - 1 /\ Len(rest) \in Nat
  BY ListIs
<1>2. \A i \in 1 .. Len(rest) : \A acc \in Inv[i - 1] : Joined(acc, rest[i]) \in Inv[i]
  BY <1>1, ListIs
<1> HIDE DEF rest
<1>3. Folded(CommonNumber, types[1], rest) \in Inv[Len(rest)]
  BY <1>1, <1>2, FoldStaysIn
<1> QED
  BY <1>1, <1>3 DEF CommonOfList, rest

LEMMA FloatListFold ==
  ASSUME NEW types \in NumberLists, InFoldOrder(types), types[1] \in Numbers, KindOf(types[1]) = "float"
  PROVE  CommonOfList(types) = CommonOfFloats(ValuesOf(types)) /\ ValuesOf(types) \subseteq Numbers
<1> DEFINE n == Len(types)
           Upto(i) == {types[j] : j \in 1 .. (i + 1)}
           Inv == [i \in 0 .. (n - 1) |-> {CommonOfFloats(Upto(i))}]
<1>1. n \in Nat \ {0} /\ DOMAIN types = 1 .. n /\ \A j \in 1 .. n : types[j] \in Numbers \cup Decimals
  BY ListIs
<1>2. \A j \in 1 .. n : types[j] \in Numbers
  <2>1. SUFFICES ASSUME NEW j \in 1 .. n, types[j] \in Decimals PROVE FALSE
    BY <1>1
  <2>2. FoldRank(types[j]) = 0
    BY <2>1, DecimalIs DEF FoldRank
  <2>3. FoldRank(types[1]) = 1
    BY NumberIsNotDecimal DEF FoldRank
  <2>4. j # 1 /\ 1 < j
    BY <2>2, <2>3
  <2> QED
    BY <1>1, <2>2, <2>3, <2>4 DEF InFoldOrder
<1>3. types[1] = CommonOfFloats({types[1]})
  BY Floats, FloatIs, NumberIs DEF CommonOfFloats
<1>4. ASSUME NEW i \in 1 .. (n - 1)
      PROVE  Joined(CommonOfFloats(Upto(i - 1)), types[i + 1]) = CommonOfFloats(Upto(i))
  <2> DEFINE acc == CommonOfFloats(Upto(i - 1))
             t == types[i + 1]
             S == Upto(i - 1)
  <2>1. Upto(i) = S \cup {t} /\ S \subseteq Numbers /\ t \in Numbers
    BY <1>1, <1>2
  <2> HIDE DEF S, t, Upto
  <2>2. acc \in {Refused, Float32, Float64}
    BY DEF CommonOfFloats, S
  <2>3. CASE acc = Refused
    <3>1. \E u \in S : KindOf(u) # "float" /\ BitsOf(u) > 32
      BY <2>3, Floats, NumberIsNotDecimal DEF CommonOfFloats, S, Fails, Refused, Type
    <3> QED
      BY <2>1, <2>3, <3>1 DEF Joined, CommonOfFloats, Fails, Refused, Type, t
  <2>4. CASE acc # Refused
    <3>1. acc \in Numbers /\ KindOf(acc) = "float" /\ ~Fails(acc)
      BY <2>2, <2>4, Floats, NumberIsNotDecimal
    <3>2. ~ \E u \in S : KindOf(u) # "float" /\ BitsOf(u) > 32
      BY <2>4 DEF CommonOfFloats, S
    <3>3. BitsOf(acc) = 64 <=> \E u \in S : BitsOf(u) = IF KindOf(u) = "float" THEN 64 ELSE 32
      BY <2>4, <3>2, Floats DEF CommonOfFloats, S
    <3>4. BitsOf(acc) \in {32, 64} /\ BitsOf(t) \in {8, 16, 32, 64, 128, 256}
      BY <2>1, <3>1, NumberIs
    <3>5. Joined(acc, t) = CommonNumber(acc, t)
      BY <3>1 DEF Joined
    <3>6. CASE KindOf(t) = "float"
      <4>1. CommonNumber(acc, t) = IF BitsOf(acc) = 32 /\ BitsOf(t) = 32 THEN Float32 ELSE Float64
        BY <2>1, <3>1, <3>6, TwoFloats
      <4>2. BitsOf(t) \in {32, 64}
        BY <2>1, <3>6, NumberIs
      <4> QED
        BY <2>1, <3>2, <3>3, <3>4, <3>5, <3>6, <4>1, <4>2 DEF CommonOfFloats, t
    <3>7. CASE KindOf(t) # "float"
      <4>1. CommonNumber(acc, t) = IF BitsOf(t) > 32 THEN Refused
                                   ELSE IF BitsOf(t) = 32 \/ BitsOf(acc) = 64 THEN Float64 ELSE Float32
        BY <2>1, <3>1, <3>7, FloatAndInteger
      <4> QED
        BY <2>1, <3>2, <3>3, <3>4, <3>5, <3>7, <4>1 DEF CommonOfFloats, t
    <3> QED
      BY <3>6, <3>7
  <2> QED
    BY <2>3, <2>4 DEF t
<1>5. types[1] \in Inv[0] /\ Upto(0) = {types[1]}
  BY <1>1, <1>3
<1>6. ASSUME NEW i \in 1 .. (n - 1), NEW acc \in Inv[i - 1] PROVE Joined(acc, types[i + 1]) \in Inv[i]
  <2>1. i - 1 \in 0 .. (n - 1) /\ i \in 0 .. (n - 1)
    BY <1>1
  <2> HIDE DEF Upto, n
  <2>2. acc = CommonOfFloats(Upto(i - 1))
    BY <1>6, <2>1
  <2> QED
    BY <1>4, <2>1, <2>2
<1>7. CommonOfList(types) \in Inv[n - 1]
  <2> HIDE DEF Inv
  <2> QED
    BY <1>5, <1>6, ListFold
<1>8. Upto(n - 1) = ValuesOf(types) /\ ValuesOf(types) \subseteq Numbers
  BY <1>1, <1>2 DEF ValuesOf
<1>9. CommonOfList(types) = CommonOfFloats(Upto(n - 1))
  <2>1. n - 1 \in 0 .. (n - 1)
    BY <1>1
  <2> HIDE DEF Upto, n
  <2> QED
    BY <1>7, <2>1
<1> QED
  BY <1>8, <1>9

LEMMA IntegerListFold ==
  ASSUME NEW types \in NumberLists, ValuesOf(types) \subseteq Numbers,
         NEW kind \in {"signed", "unsigned"}, \A t \in ValuesOf(types) : KindOf(t) = kind
  PROVE  /\ CommonOfList(types) = Widest(ValuesOf(types))
         /\ CommonOfList(types) \in ValuesOf(types)
         /\ \A u \in ValuesOf(types) : BitsOf(u) <= BitsOf(CommonOfList(types))
<1> DEFINE n == Len(types)
           Upto(i) == {types[j] : j \in 1 .. (i + 1)}
           Inv == [i \in 0 .. (n - 1) |-> {t \in Upto(i) : \A u \in Upto(i) : BitsOf(u) <= BitsOf(t)}]
<1>1. /\ n \in Nat \ {0} /\ DOMAIN types = 1 .. n
      /\ \A j \in 1 .. n : types[j] \in Numbers /\ KindOf(types[j]) = kind
  BY ListIs DEF ValuesOf
<1>2. types[1] \in Inv[0]
  BY <1>1, NumberIs
<1>3. ASSUME NEW i \in 1 .. (n - 1), NEW acc \in Inv[i - 1] PROVE Joined(acc, types[i + 1]) \in Inv[i]
  <2> DEFINE t == types[i + 1]
             S == Upto(i - 1)
  <2>1. i - 1 \in 0 .. (n - 1) /\ i \in 0 .. (n - 1) /\ Upto(i) = S \cup {t}
    BY <1>1
  <2>2. /\ t \in Numbers /\ KindOf(t) = kind
        /\ \A u \in S : u \in Numbers /\ KindOf(u) = kind
    BY <1>1
  <2> HIDE DEF S, t, Upto, n
  <2>3. acc \in S /\ \A u \in S : BitsOf(u) <= BitsOf(acc)
    BY <1>3, <2>1 DEF S
  <2>4. Joined(acc, t) = IF BitsOf(acc) >= BitsOf(t) THEN acc ELSE t
    <3>1. acc \in Numbers /\ KindOf(acc) = kind /\ ~Fails(acc)
      BY <2>2, <2>3, NumberIsNotDecimal
    <3> QED
      BY <2>2, <3>1, SameKind DEF Joined
  <2>5. \A u \in S \cup {t} : BitsOf(u) \in Int
    BY <2>2, NumberIs
  <2>6. /\ Joined(acc, t) \in S \cup {t}
        /\ \A u \in S \cup {t} : BitsOf(u) <= BitsOf(Joined(acc, t))
    BY <2>3, <2>4, <2>5
  <2> QED
    BY <2>1, <2>6 DEF t
<1>4. CommonOfList(types) \in Inv[n - 1]
  <2> HIDE DEF Inv
  <2> QED
    BY <1>2, <1>3, ListFold
<1>5. Upto(n - 1) = ValuesOf(types) /\ n - 1 \in 0 .. (n - 1)
  BY <1>1 DEF ValuesOf
<1>6. /\ CommonOfList(types) \in ValuesOf(types)
      /\ \A u \in ValuesOf(types) : BitsOf(u) <= BitsOf(CommonOfList(types))
  <2> HIDE DEF Upto, n
  <2> QED
    BY <1>4, <1>5
<1>7. ASSUME NEW t \in ValuesOf(types), NEW u \in ValuesOf(types),
             \A v \in ValuesOf(types) : BitsOf(v) <= BitsOf(t) /\ BitsOf(v) <= BitsOf(u)
      PROVE  t = u
  <2>1. BitsOf(t) = BitsOf(u)
    BY <1>7, NumberIs
  <2> QED
    BY <2>1, KindAndBitsName
<1> QED
  BY <1>6, <1>7 DEF Widest

LEMMA DecimalListFold ==
  ASSUME NEW types \in NumberLists, types[1] \in Decimals
  PROVE  CommonOfList(types) = CommonOfDecimals(ValuesOf(types))
<1> DEFINE n == Len(types)
           Upto(i) == {types[j] : j \in 1 .. (i + 1)}
           Inv == [i \in 0 .. (n - 1) |-> {CommonOfDecimals(Upto(i))}]
<1>1. /\ n \in Nat \ {0} /\ DOMAIN types = 1 .. n
      /\ \A j \in 1 .. n : types[j] \in Numbers \cup Decimals
  BY ListIs
<1>2. CommonOfDecimals({types[1]}) = types[1]
  BY DEF CommonOfDecimals
<1>3. ASSUME NEW S \in SUBSET (Numbers \cup Decimals), types[1] \in S, NEW t \in Numbers \cup Decimals
      PROVE  Joined(CommonOfDecimals(S), t) = CommonOfDecimals(S \cup {t})
  <2> DEFINE first == types[1]
             Classes(T) == {DecimalClassOf(u) : u \in T}
             Scales(T) == {DecimalScaleOf(u) : u \in T}
  <2>1. CASE S = {first}
    <3>1. CommonOfDecimals(S) = first /\ ~Fails(first) /\ IsDecimalWithParams(first) /\ HasDecimalClass(first)
      BY <2>1, DecimalIs DEF CommonOfDecimals
    <3>2. CASE t = first
      <4>1. CommonNumber(first, t) = first
        BY <3>2 DEF CommonNumber
      <4> QED
        BY <2>1, <3>1, <3>2, <4>1 DEF Joined
    <3>3. CASE t # first
      <4>1. Joined(first, t) = CommonNumber(first, t)
        BY <3>1 DEF Joined
      <4>2. ~ \E u \in S \cup {t} : S \cup {t} = {u}
        BY <2>1, <3>3
      <4>3. CASE ~HasDecimalClass(t)
        BY <3>1, <3>3, <4>1, <4>2, <4>3, DecimalAndOther DEF CommonOfDecimals
      <4>4. CASE HasDecimalClass(t)
        <5>1. /\ DecimalClassOf(first) \in Int /\ DecimalScaleOf(first) \in Int
              /\ DecimalClassOf(t) \in Int /\ DecimalScaleOf(t) \in Int
          BY <3>1, <4>4, ClassIs DEF DecimalClasses
        <5>2. /\ Classes(S \cup {t}) = {DecimalClassOf(first)} \cup {DecimalClassOf(t)}
              /\ Scales(S \cup {t}) = {DecimalScaleOf(first)} \cup {DecimalScaleOf(t)}
          BY <2>1
        <5>3. /\ IsLargest(DecimalClassOf(first), {DecimalClassOf(first)})
              /\ IsLargest(DecimalScaleOf(first), {DecimalScaleOf(first)})
          BY <5>1 DEF IsLargest
        <5>4. /\ Largest(Classes(S \cup {t})) = Larger(DecimalClassOf(first), DecimalClassOf(t))
              /\ Largest(Scales(S \cup {t})) = Larger(DecimalScaleOf(first), DecimalScaleOf(t))
          <6>1. /\ Largest({DecimalClassOf(first)} \cup {DecimalClassOf(t)})
                     = Larger(DecimalClassOf(first), DecimalClassOf(t))
                /\ Largest({DecimalScaleOf(first)} \cup {DecimalScaleOf(t)})
                     = Larger(DecimalScaleOf(first), DecimalScaleOf(t))
            BY <5>1, <5>3, LargestGrows
          <6> QED
            BY <5>2, <6>1
        <5>5. \A u \in S \cup {t} : HasDecimalClass(u)
          BY <2>1, <3>1, <4>4
        <5> QED
          BY <3>1, <3>3, <4>1, <4>2, <4>4, <5>4, <5>5, DecimalAndOther DEF CommonOfDecimals
      <4> QED
        BY <4>3, <4>4
    <3> QED
      BY <3>2, <3>3
  <2>2. CASE S # {first}
    <3>1. (~ \E u \in S : S = {u}) /\ ~ \E u \in S \cup {t} : S \cup {t} = {u}
      BY <1>3, <2>2
    <3>2. CASE \E u \in S : ~HasDecimalClass(u)
      <4>1. CommonOfDecimals(S) = Refused /\ CommonOfDecimals(S \cup {t}) = Refused
        BY <3>1, <3>2 DEF CommonOfDecimals
      <4> QED
        BY <4>1 DEF Joined, Fails, Refused, Type
    <3>3. CASE \A u \in S : HasDecimalClass(u)
      <4> DEFINE c == Largest(Classes(S))
                 s == Largest(Scales(S))
                 acc == Decimal(c, s)
      <4>1. CommonOfDecimals(S) = acc
        BY <3>1, <3>3 DEF CommonOfDecimals
      <4>2. /\ Classes(S) \subseteq DecimalClasses /\ Scales(S) \subseteq 0 .. 76
            /\ Classes(S) # {} /\ Scales(S) # {}
        BY <1>3, <3>3, ClassIs
      <4>3. c \in DecimalClasses /\ s \in Int /\ IsLargest(c, Classes(S)) /\ IsLargest(s, Scales(S))
        <5>1. Classes(S) \in SUBSET (0 .. 76) /\ Scales(S) \in SUBSET (0 .. 76) /\ 76 \in Nat
          BY <4>2 DEF DecimalClasses
        <5> HIDE DEF Classes, Scales
        <5>2. /\ IsLargest(c, Classes(S)) /\ c \in Classes(S)
              /\ IsLargest(s, Scales(S)) /\ s \in Scales(S)
          BY <4>2, <5>1, LargestExists
        <5> HIDE DEF c, s
        <5> QED
          BY <4>2, <5>2
      <4> HIDE DEF c, s, Classes, Scales
      <4>4. /\ ~Fails(acc) /\ IsDecimalWithParams(acc) /\ HasDecimalClass(acc)
            /\ DecimalClassOf(acc) = c /\ DecimalScaleOf(acc) = s
        <5>1. c \in Int /\ DecimalClass(c) = c
          BY <4>3 DEF DecimalClass, DecimalClasses
        <5> QED
          BY <4>3, <5>1, DecimalHas
      <4> HIDE DEF acc
      <4>5. Joined(CommonOfDecimals(S), t) = CommonNumber(acc, t)
        BY <4>1, <4>4 DEF Joined
      <4>6. CASE ~HasDecimalClass(t)
        BY <3>1, <4>4, <4>5, <4>6, DecimalAndOther DEF CommonOfDecimals
      <4>7. CASE HasDecimalClass(t)
        <5>1. DecimalClassOf(t) \in Int /\ DecimalScaleOf(t) \in Int /\ c \in Int
          BY <4>3, <4>7, ClassIs DEF DecimalClasses
        <5>2. CommonNumber(acc, t) = Decimal(Larger(c, DecimalClassOf(t)), Larger(s, DecimalScaleOf(t)))
          <6>1. CASE t = acc
            <7>1. CommonNumber(acc, t) = acc
              BY <6>1 DEF CommonNumber
            <7> QED
              BY <4>3, <4>4, <5>1, <6>1, <7>1 DEF Larger, acc
          <6>2. CASE t # acc
            BY <4>4, <4>7, <6>2, DecimalAndOther
          <6> QED
            BY <6>1, <6>2
        <5>3. /\ Classes(S \cup {t}) = Classes(S) \cup {DecimalClassOf(t)}
              /\ Scales(S \cup {t}) = Scales(S) \cup {DecimalScaleOf(t)}
          BY DEF Classes, Scales
        <5>4. Classes(S) \subseteq Int /\ Scales(S) \subseteq Int
          BY <4>2 DEF DecimalClasses
        <5>5. /\ Largest(Classes(S \cup {t})) = Larger(c, DecimalClassOf(t))
              /\ Largest(Scales(S \cup {t})) = Larger(s, DecimalScaleOf(t))
          BY <4>3, <5>1, <5>3, <5>4, LargestGrows
        <5>6. CommonOfDecimals(S \cup {t})
                = Decimal(Largest(Classes(S \cup {t})), Largest(Scales(S \cup {t})))
          BY <3>1, <3>3, <4>7 DEF CommonOfDecimals, Classes, Scales
        <5> QED
          BY <4>5, <5>2, <5>5, <5>6
      <4> QED
        BY <4>6, <4>7
    <3> QED
      BY <3>2, <3>3
  <2> QED
    BY <2>1, <2>2
<1>4. types[1] \in Inv[0]
  <2>1. Upto(0) = {types[1]} /\ 0 \in 0 .. (n - 1)
    BY <1>1
  <2> HIDE DEF Upto, n
  <2> QED
    BY <1>2, <2>1
<1>5. ASSUME NEW i \in 1 .. (n - 1), NEW acc \in Inv[i - 1] PROVE Joined(acc, types[i + 1]) \in Inv[i]
  <2>1. /\ i - 1 \in 0 .. (n - 1) /\ i \in 0 .. (n - 1) /\ types[i + 1] \in Numbers \cup Decimals
        /\ Upto(i) = Upto(i - 1) \cup {types[i + 1]} /\ types[1] \in Upto(i - 1)
        /\ Upto(i - 1) \subseteq Numbers \cup Decimals
    BY <1>1
  <2> HIDE DEF Upto, n
  <2>2. acc = CommonOfDecimals(Upto(i - 1))
    BY <1>5, <2>1
  <2>3. Joined(CommonOfDecimals(Upto(i - 1)), types[i + 1]) = CommonOfDecimals(Upto(i))
    BY <1>3, <2>1
  <2> QED
    BY <2>1, <2>2, <2>3
<1>6. CommonOfList(types) \in Inv[n - 1]
  <2> HIDE DEF Inv
  <2> QED
    BY <1>4, <1>5, ListFold
<1>7. Upto(n - 1) = ValuesOf(types) /\ n - 1 \in 0 .. (n - 1)
  BY <1>1 DEF ValuesOf
<1> HIDE DEF Upto, n
<1> QED
  BY <1>6, <1>7

(***************************************************************************)
(* The common type of a list of numbers (commonCHTypes): integers of both  *)
(* signs are decided over the whole list, anything else is folded in the   *)
(* order of the ranks.                                                     *)
(***************************************************************************)
InfosOf(S) == {NumericInfo(t.name) : t \in S}
OnlyIntegers(S) == \A t \in S : t \in Numbers /\ KindOf(t) # "float"
BothSigns(S) == OnlyIntegers(S) /\ MixedSign(InfosOf(S))
CommonOfNumbers(types) ==
    IF BothSigns(ValuesOf(types)) THEN MixedSignCommon(InfosOf(ValuesOf(types)))
    ELSE CommonOfList(types)

LEMMA FirstRanksLeast ==
  ASSUME NEW types \in NumberLists, InFoldOrder(types), NEW t \in ValuesOf(types)
  PROVE  /\ types[1] \in ValuesOf(types) /\ t \in Numbers \cup Decimals
         /\ FoldRank(types[1]) <= FoldRank(t)
<1>1. /\ Len(types) \in Nat \ {0} /\ DOMAIN types = 1 .. Len(types)
      /\ \A j \in 1 .. Len(types) : types[j] \in Numbers \cup Decimals
  BY ListIs
<1>2. PICK j \in 1 .. Len(types) : t = types[j]
  BY <1>1 DEF ValuesOf
<1>3. FoldRank(types[1]) \in {0, 1, 2}
  BY DEF FoldRank
<1>4. CASE j = 1
  BY <1>1, <1>2, <1>3, <1>4 DEF ValuesOf
<1>5. CASE j # 1
  BY <1>1, <1>2, <1>5 DEF InFoldOrder, ValuesOf
<1> QED
  BY <1>4, <1>5

LEMMA RankIs ==
  /\ \A t \in Decimals : FoldRank(t) = 0
  /\ \A t \in Numbers : FoldRank(t) = IF KindOf(t) = "float" THEN 1 ELSE 2
  BY DecimalIs, NumberIsNotDecimal DEF FoldRank

LEMMA SignOf ==
  ASSUME NEW S, OnlyIntegers(S), ~BothSigns(S), S # {}
  PROVE  \E kind \in {"signed", "unsigned"} : \A t \in S : KindOf(t) = kind
<1>1. \A t \in S : KindOf(t) \in {"signed", "unsigned"}
  BY NumberIs DEF OnlyIntegers
<1>2. \/ \A t \in S : KindOf(t) # "signed"
      \/ \A t \in S : KindOf(t) # "unsigned"
  BY DEF BothSigns, MixedSign, InfosOf, KindOf
<1> QED
  BY <1>1, <1>2

\* What the fold answers for a list of any length depends on the set of its
\* values alone: not on their order within a rank, nor on how often one occurs.
\* This is what commonCHTypes reorders its branches for.
THEOREM TheFoldReadsASet ==
  ASSUME NEW types \in NumberLists, InFoldOrder(types), ~BothSigns(ValuesOf(types))
  PROVE  CommonOfList(types) = CommonOfSet(ValuesOf(types))
<1> DEFINE S == ValuesOf(types)
<1>1. /\ types[1] \in S /\ types[1] \in Numbers \cup Decimals
      /\ \A t \in S : t \in Numbers \cup Decimals /\ FoldRank(types[1]) <= FoldRank(t)
  <2>1. types[1] \in S
    BY ListIs DEF ValuesOf
  <2> QED
    BY <2>1, FirstRanksLeast
<1>2. CASE types[1] \in Decimals
  <2>1. IsDecimalWithParams(types[1])
    BY <1>2, DecimalIs
  <2> QED
    BY <1>1, <1>2, <2>1, DecimalListFold DEF CommonOfSet
<1>3. CASE types[1] \in Numbers /\ KindOf(types[1]) = "float"
  <2>1. CommonOfList(types) = CommonOfFloats(S) /\ S \subseteq Numbers
    BY <1>3, FloatListFold
  <2>2. \A t \in S : ~IsDecimalWithParams(t)
    BY <2>1, NumberIsNotDecimal
  <2> QED
    BY <1>1, <1>3, <2>1, <2>2 DEF CommonOfSet
<1>4. CASE types[1] \in Numbers /\ KindOf(types[1]) # "float"
  <2>1. ASSUME NEW t \in S PROVE t \in Numbers /\ KindOf(t) # "float"
    <3>1. FoldRank(types[1]) = 2 /\ 2 <= FoldRank(t) /\ t \in Numbers \cup Decimals
      BY <1>1, <1>4, RankIs
    <3>2. t \notin Decimals
      BY <3>1, RankIs
    <3> QED
      BY <3>1, <3>2, RankIs
  <2>2. OnlyIntegers(S) /\ S \subseteq Numbers
    BY <2>1 DEF OnlyIntegers
  <2>3. PICK kind \in {"signed", "unsigned"} : \A t \in S : KindOf(t) = kind
    BY <1>1, <2>2, SignOf
  <2>4. CommonOfList(types) = Widest(S)
    BY <2>2, <2>3, IntegerListFold
  <2>5. \A t \in S : ~IsDecimalWithParams(t)
    BY <2>2, NumberIsNotDecimal
  <2> QED
    BY <2>1, <2>4, <2>5 DEF CommonOfSet
<1> QED
  BY <1>1, <1>2, <1>3, <1>4

\* Two lists of the same numbers, each folded in the order of the ranks, have
\* the same common type or are both refused, whatever the order and the number
\* of the branches was (commonCHTypes: "keeps the fold order-independent").
THEOREM CommonOfNumbersIsOrderFree ==
  ASSUME NEW types \in NumberLists, NEW other \in NumberLists,
         InFoldOrder(types), InFoldOrder(other), ValuesOf(types) = ValuesOf(other)
  PROVE  CommonOfNumbers(types) = CommonOfNumbers(other)
  BY TheFoldReadsASet DEF CommonOfNumbers

(***************************************************************************)
(* What the common type holds.                                             *)
(***************************************************************************)
HoldsAll(wide, S) == \A t \in S : Holds(wide, t)

LEMMA HoldsIs ==
  ASSUME NEW w \in Numbers, NEW t \in Numbers
  PROVE  /\ KindOf(w) = "float" /\ KindOf(t) # "float" => (Holds(w, t) <=> 2 * BitsOf(t) <= BitsOf(w))
         /\ KindOf(w) = "signed" /\ KindOf(t) = "unsigned" => (Holds(w, t) <=> BitsOf(t) < BitsOf(w))
         /\ KindOf(w) = KindOf(t) => (Holds(w, t) <=> BitsOf(t) <= BitsOf(w))
         /\ KindOf(w) # "float" /\ KindOf(t) = "float" => ~Holds(w, t)
         /\ KindOf(w) = "unsigned" /\ KindOf(t) # "unsigned" => ~Holds(w, t)
<1>1. /\ KindOf(w) \in {"signed", "unsigned", "float"} /\ KindOf(t) \in {"signed", "unsigned", "float"}
      /\ BitsOf(w) \in {8, 16, 32, 64, 128, 256} /\ BitsOf(t) \in {8, 16, 32, 64, 128, 256}
  BY NumberIs
<1>2. CASE KindOf(w) = "float" /\ KindOf(t) # "float"
  <2>1. Holds(w, t) <=> BitsOf(t) <= BitsOf(w) \div 2
    BY <1>2 DEF Holds, KindOf, BitsOf
  <2> QED
    BY <1>1, <1>2, <2>1
<1>3. CASE KindOf(w) = "signed" /\ KindOf(t) = "unsigned"
  BY <1>3 DEF Holds, KindOf, BitsOf
<1>4. CASE /\ ~(KindOf(w) = "float" /\ KindOf(t) # "float")
           /\ ~(KindOf(w) = "signed" /\ KindOf(t) = "unsigned")
  <2>1. Holds(w, t) <=> KindOf(t) = KindOf(w) /\ BitsOf(t) <= BitsOf(w)
    BY <1>4 DEF Holds, KindOf, BitsOf
  <2> QED
    BY <1>1, <1>4, <2>1
<1> QED
  BY <1>2, <1>3, <1>4

LEMMA SmallestIs ==
  ASSUME NEW S \in SUBSET Nat, S # {}
  PROVE  Smallest(S) \in S /\ \A v \in S : Smallest(S) <= v
  BY LeastNumber DEF Smallest

\* The width the branches of both signs get, by the sign of each.
LEMMA SignedWidthIs ==
  ASSUME NEW S \in SUBSET Numbers, NEW w
  PROVE  w \in SignedWidths(InfosOf(S)) <=>
           /\ w \in Widths
           /\ w <= IF \E t \in S : BitsOf(t) >= 128 THEN 256 ELSE 64
           /\ \A t \in S : w >= IF KindOf(t) = "signed" THEN BitsOf(t) ELSE 2 * BitsOf(t)
<1>1. (\E i \in InfosOf(S) : i.bits >= 128) <=> \E t \in S : BitsOf(t) >= 128
  BY DEF InfosOf, BitsOf
<1>2. (\A i \in InfosOf(S) : w >= IF i.kind = "signed" THEN i.bits ELSE 2 * i.bits)
        <=> \A t \in S : w >= IF KindOf(t) = "signed" THEN BitsOf(t) ELSE 2 * BitsOf(t)
  BY DEF InfosOf, BitsOf, KindOf
<1> QED
  BY <1>1, <1>2 DEF SignedWidths

LEMMA MixedIs ==
  ASSUME NEW S \in SUBSET Numbers
  PROVE  LET widths == SignedWidths(InfosOf(S))
             common == MixedSignCommon(InfosOf(S))
         IN /\ Fails(common) <=> widths = {}
            /\ ~Fails(common) =>
                 /\ common \in Numbers /\ KindOf(common) = "signed" /\ BitsOf(common) \in widths
                 /\ \A v \in widths : BitsOf(common) <= v
<1> DEFINE widths == SignedWidths(InfosOf(S))
           common == MixedSignCommon(InfosOf(S))
           w == Smallest(widths)
<1>1. widths \subseteq Widths
  BY DEF SignedWidths
<1>2. CASE widths = {}
  BY <1>2 DEF MixedSignCommon, Fails, Refused, Type
<1>3. CASE widths # {}
  <2>1. w \in widths /\ \A v \in widths : w <= v
    <3>1. widths \in SUBSET Nat
      BY <1>1 DEF Widths
    <3> HIDE DEF widths
    <3> QED
      BY <1>3, <3>1, SmallestIs
  <2>2. w \in Widths
    BY <1>1, <2>1
  <2> HIDE DEF w
  <2> DEFINE i == [kind |-> "signed", bits |-> w]
  <2>3. i \in Infos /\ InfoName(i) = SignedName[w] /\ i.kind = "signed" /\ i.bits = w
    BY <2>2 DEF Infos, InfoName, NumericTypeName
  <2>4. common = Type(SignedName[w])
    BY <1>3 DEF MixedSignCommon, w
  <2> HIDE DEF i, common
  <2>5. common \in Numbers /\ KindOf(common) = "signed" /\ BitsOf(common) = w
    BY <2>3, <2>4, NumberOf
  <2> QED
    BY <1>3, <2>1, <2>5, NumberIsNotDecimal DEF common
<1> QED
  BY <1>2, <1>3

\* A number that holds every value of S, in the widths the code looks at: above
\* 64 bits only beside a branch that is that wide already.
Candidates(S) ==
    {u \in Numbers : /\ HoldsAll(u, S)
                     /\ BitsOf(u) > 64 => \E t \in S : BitsOf(t) > 64}
Narrowest(common, S) ==
    /\ common \in Numbers /\ HoldsAll(common, S)
    /\ \A u \in Numbers : KindOf(u) = KindOf(common) /\ HoldsAll(u, S) => BitsOf(common) <= BitsOf(u)

LEMMA NarrowestOfBothSigns ==
  ASSUME NEW S \in SUBSET Numbers, BothSigns(S)
  PROVE  LET common == MixedSignCommon(InfosOf(S))
         IN /\ ~Fails(common) => Narrowest(common, S)
            /\ Fails(common) => Candidates(S) = {}
<1> DEFINE widths == SignedWidths(InfosOf(S))
           common == MixedSignCommon(InfosOf(S))
<1>1. \A t \in S : /\ t \in Numbers /\ KindOf(t) \in {"signed", "unsigned"}
                   /\ BitsOf(t) \in {8, 16, 32, 64, 128, 256}
  BY NumberIs DEF BothSigns, OnlyIntegers
<1>2. /\ \E t \in S : KindOf(t) = "signed"
      /\ \E t \in S : KindOf(t) = "unsigned"
  BY DEF BothSigns, MixedSign, InfosOf, KindOf
<1>3. ASSUME NEW u \in Numbers, KindOf(u) = "signed"
      PROVE  HoldsAll(u, S) <=> \A t \in S : BitsOf(u) >= IF KindOf(t) = "signed" THEN BitsOf(t) ELSE 2 * BitsOf(t)
  <2>1. BitsOf(u) \in {8, 16, 32, 64, 128, 256}
    BY NumberIs
  <2>2. ASSUME NEW t \in S
        PROVE  Holds(u, t) <=> BitsOf(u) >= IF KindOf(t) = "signed" THEN BitsOf(t) ELSE 2 * BitsOf(t)
    <3>1. CASE KindOf(t) = "signed"
      BY <1>1, <1>3, <2>1, <3>1, HoldsIs
    <3>2. CASE KindOf(t) = "unsigned"
      <4>1. Holds(u, t) <=> BitsOf(t) < BitsOf(u)
        BY <1>1, <1>3, <3>2, HoldsIs
      <4> QED
        BY <1>1, <2>1, <3>2, <4>1
    <3> QED
      BY <1>1, <3>1, <3>2
  <2> QED
    BY <2>2 DEF HoldsAll
<1>4. CASE ~Fails(common)
  <2>1. /\ common \in Numbers /\ KindOf(common) = "signed" /\ BitsOf(common) \in widths
        /\ \A v \in widths : BitsOf(common) <= v
    BY <1>4, MixedIs
  <2> HIDE DEF common, widths
  <2>2. HoldsAll(common, S)
    BY <1>3, <2>1, SignedWidthIs DEF widths
  <2>3. ASSUME NEW u \in Numbers, KindOf(u) = "signed", HoldsAll(u, S)
        PROVE  BitsOf(common) <= BitsOf(u)
    <3>1. BitsOf(u) \in Widths /\ BitsOf(common) \in Widths
      BY <2>1, NumberIs DEF Widths
    <3>2. CASE BitsOf(u) \in widths
      BY <2>1, <3>2
    <3>3. CASE BitsOf(u) \notin widths
      <4>1. ~(BitsOf(u) <= IF \E t \in S : BitsOf(t) >= 128 THEN 256 ELSE 64)
        BY <1>3, <2>3, <3>1, <3>3, SignedWidthIs DEF widths
      <4>2. BitsOf(common) <= IF \E t \in S : BitsOf(t) >= 128 THEN 256 ELSE 64
        BY <2>1, SignedWidthIs DEF widths
      <4> QED
        BY <3>1, <4>1, <4>2 DEF Widths
    <3> QED
      BY <3>2, <3>3
  <2>4. Narrowest(common, S)
    BY <2>1, <2>2, <2>3 DEF Narrowest
  <2> QED
    BY <1>4, <2>4 DEF common
<1>5. CASE Fails(common)
  <2>1. widths = {}
    BY <1>5, MixedIs
  <2> HIDE DEF common, widths
  <2>2. ASSUME NEW u \in Candidates(S) PROVE FALSE
    <3>1. /\ u \in Numbers /\ HoldsAll(u, S)
          /\ BitsOf(u) > 64 => \E t \in S : BitsOf(t) > 64
          /\ BitsOf(u) \in Widths /\ KindOf(u) \in {"signed", "unsigned", "float"}
          /\ KindOf(u) = "float" => BitsOf(u) \in {32, 64}
      BY <2>2, NumberIs DEF Candidates, Widths
    <3>2. CASE KindOf(u) = "signed"
      <4>1. BitsOf(u) <= IF \E t \in S : BitsOf(t) >= 128 THEN 256 ELSE 64
        BY <1>1, <3>1 DEF Widths
      <4>2. BitsOf(u) \in widths
        BY <1>3, <3>1, <3>2, <4>1, SignedWidthIs DEF widths
      <4> QED
        BY <2>1, <4>2
    <3>3. CASE KindOf(u) = "unsigned"
      BY <1>2, <3>1, <3>3, HoldsIs DEF HoldsAll
    <3>4. CASE KindOf(u) = "float"
      <4>1. \A t \in S : 2 * BitsOf(t) <= BitsOf(u)
        <5> TAKE t \in S
        <5>1. KindOf(t) # "float" /\ Holds(u, t)
          BY <1>1, <3>1 DEF HoldsAll
        <5> QED
          BY <3>1, <3>4, <5>1, HoldsIs
      <4>2. \A t \in S : 64 >= IF KindOf(t) = "signed" THEN BitsOf(t) ELSE 2 * BitsOf(t)
        BY <1>1, <3>1, <3>4, <4>1
      <4>3. 64 \in widths
        BY <4>2, SignedWidthIs DEF widths, Widths
      <4> QED
        BY <2>1, <4>3
    <3> QED
      BY <3>1, <3>2, <3>3, <3>4
  <2> QED
    BY <1>5, <2>2 DEF common
<1> QED
  BY <1>4, <1>5

LEMMA NarrowestOfFloats ==
  ASSUME NEW S \in SUBSET Numbers, NEW f \in S, KindOf(f) = "float"
  PROVE  /\ ~Fails(CommonOfFloats(S)) => Narrowest(CommonOfFloats(S), S)
         /\ Fails(CommonOfFloats(S)) => Candidates(S) = {}
<1> DEFINE common == CommonOfFloats(S)
<1>1. \A t \in S : /\ t \in Numbers /\ KindOf(t) \in {"signed", "unsigned", "float"}
                   /\ BitsOf(t) \in {8, 16, 32, 64, 128, 256}
                   /\ KindOf(t) = "float" => BitsOf(t) \in {32, 64}
  BY NumberIs
<1>2. ASSUME NEW u \in Numbers, HoldsAll(u, S)
      PROVE  /\ KindOf(u) = "float" /\ BitsOf(u) \in {32, 64}
             /\ \A t \in S : IF KindOf(t) = "float" THEN BitsOf(t) <= BitsOf(u) ELSE 2 * BitsOf(t) <= BitsOf(u)
  <2>1. KindOf(u) = "float"
    BY <1>2, HoldsIs DEF HoldsAll
  <2> QED
    BY <1>2, <2>1, HoldsIs, NumberIs DEF HoldsAll
<1>3. ASSUME NEW u \in {Float32, Float64},
             \A t \in S : IF KindOf(t) = "float" THEN BitsOf(t) <= BitsOf(u) ELSE 2 * BitsOf(t) <= BitsOf(u)
      PROVE  HoldsAll(u, S)
  BY <1>3, Floats, HoldsIs DEF HoldsAll
<1>4. CASE \E t \in S : KindOf(t) # "float" /\ BitsOf(t) > 32
  <2>1. Fails(common)
    BY <1>4 DEF CommonOfFloats, Fails, Refused, Type
  <2>2. ASSUME NEW u \in Numbers, HoldsAll(u, S) PROVE FALSE
    BY <1>1, <1>2, <1>4, <2>2
  <2> QED
    BY <2>1, <2>2 DEF Candidates
<1>5. CASE ~ \E t \in S : KindOf(t) # "float" /\ BitsOf(t) > 32
  <2>1. CASE \E t \in S : BitsOf(t) = IF KindOf(t) = "float" THEN 64 ELSE 32
    <3>1. common = Float64
      BY <1>5, <2>1 DEF CommonOfFloats
    <3>2. \A t \in S : IF KindOf(t) = "float" THEN BitsOf(t) <= 64 ELSE 2 * BitsOf(t) <= 64
      BY <1>1, <1>5
    <3>3. HoldsAll(Float64, S)
      BY <1>3, <3>2, Floats
    <3>4. ASSUME NEW u \in Numbers, HoldsAll(u, S) PROVE 64 <= BitsOf(u)
      BY <1>2, <2>1, <3>4
    <3> QED
      BY <3>1, <3>3, <3>4, Floats, NumberIsNotDecimal DEF Narrowest
  <2>2. CASE ~ \E t \in S : BitsOf(t) = IF KindOf(t) = "float" THEN 64 ELSE 32
    <3>1. common = Float32
      BY <1>5, <2>2 DEF CommonOfFloats
    <3>2. \A t \in S : IF KindOf(t) = "float" THEN BitsOf(t) <= 32 ELSE 2 * BitsOf(t) <= 32
      BY <1>1, <1>5, <2>2
    <3>3. HoldsAll(Float32, S)
      BY <1>3, <3>2, Floats
    <3>4. ASSUME NEW u \in Numbers, HoldsAll(u, S) PROVE 32 <= BitsOf(u)
      BY <1>2, <3>4
    <3> QED
      BY <3>1, <3>3, <3>4, Floats, NumberIsNotDecimal DEF Narrowest
  <2> QED
    BY <2>1, <2>2
<1> QED
  BY <1>4, <1>5

LEMMA NarrowestOfOneSign ==
  ASSUME NEW S \in SUBSET Numbers, NEW kind \in {"signed", "unsigned"}, \A t \in S : KindOf(t) = kind,
         NEW common \in S, \A t \in S : BitsOf(t) <= BitsOf(common)
  PROVE  Narrowest(common, S) /\ ~Fails(common)
<1>1. HoldsAll(common, S)
  BY HoldsIs DEF HoldsAll
<1>2. ASSUME NEW u \in Numbers, KindOf(u) = kind, HoldsAll(u, S) PROVE BitsOf(common) <= BitsOf(u)
  BY <1>2, HoldsIs DEF HoldsAll
<1> QED
  BY <1>1, <1>2, NumberIsNotDecimal DEF Narrowest

\* The common type of a list of plain numbers, of any length, holds every value
\* of every branch, and it is the narrowest type of its kind that does; a list is
\* refused only when no number of the widths looked at holds them all
\* (commonCHTypes; mixedSignIntegerCHTypes: "the result is the smallest such W").
THEOREM CommonOfNumbersIsNarrowest ==
  ASSUME NEW types \in NumberLists, InFoldOrder(types), ValuesOf(types) \subseteq Numbers
  PROVE  /\ ~Fails(CommonOfNumbers(types)) => Narrowest(CommonOfNumbers(types), ValuesOf(types))
         /\ Fails(CommonOfNumbers(types)) => Candidates(ValuesOf(types)) = {}
<1> DEFINE S == ValuesOf(types)
<1>1. types[1] \in S /\ types[1] \in Numbers /\ S \in SUBSET Numbers
  BY ListIs DEF ValuesOf
<1>2. CASE BothSigns(S)
  BY <1>1, <1>2, NarrowestOfBothSigns DEF CommonOfNumbers
<1>3. CASE ~BothSigns(S) /\ OnlyIntegers(S)
  <2>1. PICK kind \in {"signed", "unsigned"} : \A t \in S : KindOf(t) = kind
    BY <1>1, <1>3, SignOf
  <2>2. CommonOfList(types) \in S /\ \A t \in S : BitsOf(t) <= BitsOf(CommonOfList(types))
    BY <2>1, IntegerListFold
  <2>3. CommonOfNumbers(types) = CommonOfList(types)
    BY <1>3 DEF CommonOfNumbers
  <2> QED
    BY <1>1, <2>1, <2>2, <2>3, NarrowestOfOneSign
<1>4. CASE ~OnlyIntegers(S)
  <2>1. PICK f \in S : f \in Numbers /\ KindOf(f) = "float"
    BY <1>1, <1>4 DEF OnlyIntegers
  <2>2. KindOf(types[1]) = "float"
    BY <1>1, <2>1, FirstRanksLeast, RankIs
  <2>3. CommonOfList(types) = CommonOfFloats(S)
    BY <1>1, <2>2, FloatListFold
  <2>4. CommonOfNumbers(types) = CommonOfFloats(S)
    BY <1>4, <2>3 DEF CommonOfNumbers, BothSigns
  <2> QED
    BY <1>1, <2>1, <2>4, NarrowestOfFloats
<1> QED
  BY <1>2, <1>3, <1>4

(***************************************************************************)
(* A declaration and what it denotes.                                      *)
(***************************************************************************)
LEMMA SequenceOfOne ==
  ASSUME NEW S, NEW s \in Seq(S), Len(s) = 1
  PROVE  s = <<s[1]>> /\ s[1] \in S
<1>1. DOMAIN s = 1 .. 1 /\ s[1] \in S
  OBVIOUS
<1>2. s = [i \in 1 .. 1 |-> s[i]]
  BY <1>1
<1>3. <<s[1]>> = [i \in 1 .. 1 |-> s[i]]
  OBVIOUS
<1> QED
  BY <1>1, <1>2, <1>3

LEMMA NotEmptyIsOne ==
  ASSUME NEW S, NEW s \in Seq(S), s # <<>>, Len(s) <= 1
  PROVE  Len(s) = 1
<1>1. Len(s) \in Nat /\ Len(s) # 0
  OBVIOUS
<1> QED
  BY <1>1

LEMMA DecimalIsLeaf ==
  ASSUME NEW p, NEW s
  PROVE  Decimal(p, s) = Leaf("Decimal", <<p, s>>, <<>>)
BY DEF Decimal, Type, Leaf

LEMMA LeafIs ==
  ASSUME NEW n, NEW num, NEW text
  PROVE  /\ Leaf(n, num, text).name = n /\ Leaf(n, num, text).params = <<>>
         /\ Leaf(n, num, text).num = num /\ Leaf(n, num, text).text = text
         /\ Leaf(n, <<>>, <<>>) = Type(n)
         /\ Fails(Leaf(n, num, text)) <=> n = "refused"
  BY DEF Leaf, Type, Fails

LEMMA AliasesAre ==
  ASSUME NEW n \in DOMAIN Aliases
  PROVE  /\ n \in IntegerAliases \cup FloatAliases \cup {"BOOLEAN", "DEC", "NUMERIC"}
         /\ n \in IntegerAliases => Canonical(n) \in {"Int8", "Int16", "Int32", "Int64", "UInt16", "UInt64"}
         /\ n \in FloatAliases => Canonical(n) \in {"Float32", "Float64"}
         /\ n = "BOOLEAN" => Canonical(n) = "Bool"
         /\ n \in {"DEC", "NUMERIC"} => Canonical(n) = "Decimal"
<1>1. Canonical(n) = Aliases[n]
  BY DEF Canonical
<1>2. n \in IntegerAliases \cup FloatAliases \cup {"BOOLEAN", "DEC", "NUMERIC"}
  BY DEF Aliases, IntegerAliases, FloatAliases
<1>3. \A m \in IntegerAliases : Aliases[m] \in {"Int8", "Int16", "Int32", "Int64", "UInt16", "UInt64"}
  BY DEF Aliases, IntegerAliases
<1>4. \A m \in FloatAliases : Aliases[m] \in {"Float32", "Float64"}
  BY DEF Aliases, FloatAliases
<1>5. Aliases["BOOLEAN"] = "Bool" /\ Aliases["DEC"] = "Decimal" /\ Aliases["NUMERIC"] = "Decimal"
  BY DEF Aliases
<1> QED
  BY <1>1, <1>2, <1>3, <1>4, <1>5

LEMMA ScalarRules ==
  ASSUME NEW n, NEW num, NEW text, n \notin Misspelled \cup {"Enum"}
  PROVE  LET t == ParseScalar(n, num, text)
             literals == Len(num) + Len(text)
         IN /\ n \in EnumNames => t = ParseEnum(n, num, text)
            /\ n \notin EnumNames =>
                 /\ n \in {"DateTime", "DateTime64"} => t = ParseDateTime(n, num, text)
                 /\ n \notin {"DateTime", "DateTime64"} =>
                      /\ n \in FloatAliases \cup IntegerAliases => t \in {Type(Canonical(n)), Refused}
                      /\ n \notin FloatAliases \cup IntegerAliases =>
                           /\ Canonical(n) = "Decimal" => t = IF text = <<>> THEN ParseDecimal(num) ELSE Refused
                           /\ Canonical(n) = "FixedString" /\ literals > 0 =>
                                t = IF literals = 1 /\ Len(num) = 1 /\ num[1] \in FixedStringLengths
                                    THEN Leaf("FixedString", num, <<>>) ELSE Refused
                           /\ Canonical(n) # "Decimal" /\ ~(Canonical(n) = "FixedString" /\ literals > 0) =>
                                t = IF Canonical(n) \in ZeroArgument /\ literals > 0 THEN Refused
                                    ELSE Leaf(Canonical(n), num, text)
<1> DEFINE t == ParseScalar(n, num, text)
           c == Canonical(n)
           literals == Len(num) + Len(text)
<1>1. ASSUME n \in EnumNames PROVE t = ParseEnum(n, num, text)
  BY <1>1 DEF ParseScalar
<1>2. ASSUME n \notin EnumNames, n \in {"DateTime", "DateTime64"} PROVE t = ParseDateTime(n, num, text)
  BY <1>2 DEF ParseScalar
<1>3. ASSUME n \notin EnumNames, n \notin {"DateTime", "DateTime64"}, n \in FloatAliases
      PROVE  t \in {Type(c), Refused}
  BY <1>3 DEF ParseScalar
<1>4. ASSUME n \notin EnumNames, n \notin {"DateTime", "DateTime64"}, n \notin FloatAliases, n \in IntegerAliases
      PROVE  t \in {Type(c), Refused}
  BY <1>4 DEF ParseScalar
<1>5. ASSUME n \notin EnumNames, n \notin {"DateTime", "DateTime64"}, n \notin FloatAliases, n \notin IntegerAliases,
             c = "Decimal"
      PROVE  t = IF text = <<>> THEN ParseDecimal(num) ELSE Refused
  BY <1>5 DEF ParseScalar
<1>6. ASSUME n \notin EnumNames, n \notin {"DateTime", "DateTime64"}, n \notin FloatAliases, n \notin IntegerAliases,
             c = "FixedString", literals > 0
      PROVE  t = IF literals = 1 /\ Len(num) = 1 /\ num[1] \in FixedStringLengths
                 THEN Leaf("FixedString", num, <<>>) ELSE Refused
  BY <1>6 DEF ParseScalar
<1>7. ASSUME n \notin EnumNames, n \notin {"DateTime", "DateTime64"}, n \notin FloatAliases, n \notin IntegerAliases,
             c # "Decimal", ~(c = "FixedString" /\ literals > 0)
      PROVE  t = IF c \in ZeroArgument /\ literals > 0 THEN Refused
                 ELSE Leaf(c, num, text)
  BY <1>7 DEF ParseScalar
<1> HIDE DEF t
<1> QED
  BY <1>1, <1>2, <1>3, <1>4, <1>5, <1>6, <1>7 DEF t

\* A family that is spelled in the one way and takes what it is given.
Plain(n) ==
    /\ n \notin Misspelled \cup {"Enum", "DateTime", "DateTime64", "Decimal"}
                   \cup EnumNames \cup FloatAliases \cup IntegerAliases
    /\ n \notin DOMAIN Aliases

LEMMA PlainDenotes ==
  ASSUME NEW n, Plain(n), NEW num \in Seq(Int), NEW text \in Seq(STRING),
         Len(num) + Len(text) > 0 => n \notin ZeroArgument \cup {"FixedString"}
  PROVE  ParseScalar(n, num, text) = Leaf(n, num, text)
<1>1. Canonical(n) = n
  BY DEF Plain, Canonical
<1>2. n \notin Misspelled \cup {"Enum", "DateTime", "DateTime64", "Decimal"}
               \cup EnumNames \cup FloatAliases \cup IntegerAliases
  BY DEF Plain
<1>3. ParseScalar(n, num, text) = Leaf(n, num, text)
  BY <1>1, <1>2 DEF ParseScalar
<1> QED
  BY <1>3, LeafIs

LEMMA CanonicalIsPlain ==
  ASSUME NEW n \in {"Int8", "Int16", "Int32", "Int64", "UInt16", "UInt64", "Float32", "Float64", "Bool"}
  PROVE  Plain(n)
<1>1. n \notin Misspelled \cup EnumNames \cup {"Enum", "DateTime", "DateTime64", "Decimal"}
  BY DEF Misspelled, EnumNames
<1>2. n \notin FloatAliases \cup IntegerAliases
  BY DEF FloatAliases, IntegerAliases
<1>3. n \notin DOMAIN Aliases
  BY DEF Aliases
<1> QED
  BY <1>1, <1>2, <1>3 DEF Plain

LEMMA ScalarEnum ==
  ASSUME NEW n \in EnumNames, NEW num \in Seq(Int), NEW text \in Seq(STRING),
         ~Fails(ParseScalar(n, num, text))
  PROVE  \E number \in Seq(Int) : /\ ParseScalar(n, num, text) = Leaf(n, number, text)
                                  /\ ParseScalar(n, number, text) = Leaf(n, number, text)
<1> DEFINE number == IF num = <<>> THEN [i \in DOMAIN text |-> i] ELSE num
<1>1. n \notin Misspelled \cup {"Enum"}
  BY DEF EnumNames, Misspelled
<1>2. \A m : ParseScalar(n, m, text) = ParseEnum(n, m, text)
  BY <1>1, ScalarRules
<1>3. ParseEnum(n, num, text) # Refused
  BY <1>2 DEF Fails, Refused, Type
<1>4. text # <<>> /\ ParseEnum(n, num, text) = Leaf(n, number, text)
  BY <1>3, LeafIs DEF ParseEnum
<1>5. number \in Seq(Int) /\ number # <<>>
  <2>1. CASE num = <<>>
    <3>1. DOMAIN text = 1 .. Len(text) /\ Len(text) \in Nat /\ Len(text) # 0
      BY <1>4
    <3>2. [i \in 1 .. Len(text) |-> i] \in Seq(Int)
      BY <3>1
    <3>3. 1 \in DOMAIN number
      BY <2>1, <3>1
    <3> QED
      BY <2>1, <3>1, <3>2, <3>3
  <2>2. CASE num # <<>>
    BY <2>2
  <2> QED
    BY <2>1, <2>2
<1>6. ParseEnum(n, number, text) = Leaf(n, number, text)
  BY <1>3, <1>5, LeafIs DEF ParseEnum
<1> QED
  BY <1>2, <1>4, <1>5, <1>6

LEMMA ScalarDateTime ==
  ASSUME NEW n \in {"DateTime", "DateTime64"}, NEW num \in Seq(Int), NEW text \in Seq(STRING),
         ~Fails(ParseScalar(n, num, text))
  PROVE  LET t == ParseScalar(n, num, text)
         IN t.params = <<>> /\ t.name \in {"DateTime", "DateTime64"} /\ ParseScalar(t.name, t.num, t.text) = t
<1>1. \A m \in {"DateTime", "DateTime64"} : \A a, b : ParseScalar(m, a, b) = ParseDateTime(m, a, b)
  <2>1. \A m \in {"DateTime", "DateTime64"} : m \notin EnumNames /\ m \notin Misspelled \cup {"Enum"}
    BY DEF EnumNames, Misspelled
  <2> QED
    BY <2>1, ScalarRules
<1> DEFINE t == ParseDateTime(n, num, text)
           Scaled(s, zone) == Leaf("DateTime64", <<s>>, zone)
<1>2. ParseScalar(n, num, text) = t /\ t # Refused
  BY <1>1 DEF Fails, Refused, Type
<1>3. ASSUME NEW s \in 0 .. 9, NEW zone \in Seq(STRING), Len(zone) <= 1, \A i \in DOMAIN zone : zone[i] \in Timezones
      PROVE  ParseDateTime("DateTime64", <<s>>, zone) = Scaled(s, zone)
  BY <1>3, LeafIs DEF ParseDateTime
<1>4. ASSUME NEW zone \in Seq(STRING), Len(zone) <= 1, \A i \in DOMAIN zone : zone[i] \in Timezones
      PROVE  ParseDateTime("DateTime", <<>>, zone) = Leaf("DateTime", <<>>, zone)
  <2>1. CASE zone = <<>>
    BY <2>1, LeafIs DEF ParseDateTime
  <2>2. CASE zone # <<>>
    <3>1. Len(zone) = 1
      <4>1. Len(zone) <= 1
        BY <1>4, Zenon
      <4> QED
        BY <2>2, <4>1, NotEmptyIsOne
    <3>2. zone[1] \in Timezones
      BY <1>4, <3>1
    <3>3. zone = <<zone[1]>>
      BY <3>1, SequenceOfOne
    <3> QED
      BY <2>2, <3>1, <3>2, <3>3, LeafIs DEF ParseDateTime
  <2> QED
    BY <2>1, <2>2
<1>5. \/ \E s \in 0 .. 9, zone \in Seq(STRING) :
            t = Scaled(s, zone) /\ Len(zone) <= 1 /\ \A i \in DOMAIN zone : zone[i] \in Timezones
      \/ \E zone \in Seq(STRING) :
            t = Leaf("DateTime", <<>>, zone) /\ Len(zone) <= 1 /\ \A i \in DOMAIN zone : zone[i] \in Timezones
  <2>1. CASE Len(num) = 0 /\ text = <<>>
    <3>1. t = IF n = "DateTime64" THEN Scaled(3, <<>>) ELSE Leaf("DateTime", <<>>, <<>>)
      BY <2>1, LeafIs DEF ParseDateTime
    <3>2. <<>> \in Seq(STRING) /\ Len(<<>>) <= 1 /\ 3 \in 0 .. 9 /\ \A i \in DOMAIN <<>> : <<>>[i] \in Timezones
      OBVIOUS
    <3> QED
      BY <3>1, <3>2
  <2>2. CASE Len(num) = 0 /\ text # <<>>
    <3>1. n = "DateTime" /\ text[1] \in Timezones /\ t = Leaf("DateTime", <<>>, <<text[1]>>)
      BY <1>2, <2>2, LeafIs DEF ParseDateTime
    <3>2. <<text[1]>> \in Seq(STRING) /\ Len(<<text[1]>>) <= 1
          /\ \A i \in DOMAIN <<text[1]>> : <<text[1]>>[i] \in Timezones
      BY <2>2, <3>1
    <3> QED
      BY <3>1, <3>2
  <2>3. CASE Len(num) # 0
    <3>1. /\ Len(num) + Len(text) <= 2 /\ num[1] \in 0 .. 9 /\ \A i \in DOMAIN text : text[i] \in Timezones
          /\ t = IF n = "DateTime64" \/ num[1] # 0 THEN Scaled(num[1], text) ELSE Leaf(n, <<>>, text)
      BY <1>2, <2>3, LeafIs DEF ParseDateTime
    <3>2. Len(num) \in Nat /\ Len(text) \in Nat /\ Len(text) <= 1
      BY <2>3, <3>1
    <3> QED
      BY <3>1, <3>2
  <2> QED
    BY <2>1, <2>2, <2>3
<1> HIDE DEF t
<1> QED
  BY <1>1, <1>2, <1>3, <1>4, <1>5, LeafIs

LEMMA ScalarIsStable ==
  ASSUME NEW n, NEW num \in Seq(Int), NEW text \in Seq(STRING), ~Fails(ParseScalar(n, num, text))
  PROVE  LET t == ParseScalar(n, num, text)
         IN /\ t.params = <<>> /\ ParseScalar(t.name, t.num, t.text) = t
            /\ t.name \in {"Tuple", "Nested"} => n \in {"Tuple", "Nested"}
<1> DEFINE t == ParseScalar(n, num, text)
           c == Canonical(n)
           literals == Len(num) + Len(text)
<1>1. t # Refused
  BY DEF Fails, Refused, Type
<1>2. n \notin Misspelled \cup {"Enum"}
  BY <1>1 DEF ParseScalar
<1>3. CASE n \in EnumNames
  <2>1. PICK number \in Seq(Int) : /\ t = Leaf(n, number, text)
                                  /\ ParseScalar(n, number, text) = Leaf(n, number, text)
    BY <1>3, ScalarEnum
  <2>2. n \notin {"Tuple", "Nested"}
    BY <1>3 DEF EnumNames
  <2> HIDE DEF t
  <2> QED
    BY <2>1, <2>2, LeafIs DEF t
<1>4. CASE n \notin EnumNames /\ n \in {"DateTime", "DateTime64"}
  BY <1>4, ScalarDateTime
<1>5. CASE n \notin EnumNames /\ n \notin {"DateTime", "DateTime64"} /\ n \in FloatAliases \cup IntegerAliases
  <2>1. n \in DOMAIN Aliases
    BY <1>5 DEF Aliases, FloatAliases, IntegerAliases
  <2>2. c \in {"Int8", "Int16", "Int32", "Int64", "UInt16", "UInt64", "Float32", "Float64"}
    BY <1>5, <2>1, AliasesAre
  <2>3. t = Leaf(c, <<>>, <<>>)
    BY <1>1, <1>2, <1>5, ScalarRules, LeafIs
  <2>4. ParseScalar(c, <<>>, <<>>) = Leaf(c, <<>>, <<>>)
    <3>1. <<>> \in Seq(Int) /\ <<>> \in Seq(STRING) /\ ~(Len(<<>>) + Len(<<>>) > 0)
      OBVIOUS
    <3> HIDE DEF c
    <3> QED
      BY <2>2, <3>1, CanonicalIsPlain, PlainDenotes
  <2>5. c \notin {"Tuple", "Nested"}
    BY <2>2
  <2> HIDE DEF t, c
  <2> QED
    BY <2>3, <2>4, <2>5, LeafIs DEF t
<1> DEFINE Rest == /\ n \notin EnumNames /\ n \notin {"DateTime", "DateTime64"}
                   /\ n \notin FloatAliases \cup IntegerAliases
<1>6. CASE Rest /\ c = "Decimal"
  <2>1. text = <<>> /\ t = ParseDecimal(num)
    BY <1>1, <1>2, <1>6, ScalarRules
  <2>2. PICK p \in 1 .. 76, q \in 0 .. 76 : t = Decimal(p, q) /\ q <= p
    <3> DEFINE p == IF num = <<>> THEN 10 ELSE num[1]
               q == IF Len(num) = 2 THEN num[2] ELSE 0
    <3>1. Len(num) <= 2 /\ p \in 1 .. 76 /\ q \in 0 .. p /\ t = Decimal(p, q)
      BY <1>1, <2>1 DEF ParseDecimal
    <3> HIDE DEF p, q, t
    <3>2. q \in 0 .. 76 /\ q <= p
      BY <3>1
    <3> QED
      BY <3>1, <3>2
  <2>3. Decimal(p, q) = Leaf("Decimal", <<p, q>>, <<>>)
    BY DecimalIsLeaf
  <2>4. ParseScalar("Decimal", <<p, q>>, <<>>) = ParseDecimal(<<p, q>>)
    <3>1. "Decimal" \notin Misspelled \cup {"Enum"} /\ "Decimal" \notin EnumNames
          /\ "Decimal" \notin FloatAliases \cup IntegerAliases
      BY DEF Misspelled, EnumNames, FloatAliases, IntegerAliases
    <3>2. Canonical("Decimal") = "Decimal"
      BY DEF Canonical, Aliases
    <3> QED
      BY <3>1, <3>2, ScalarRules
  <2>5. ParseDecimal(<<p, q>>) = Decimal(p, q)
    BY <2>2 DEF ParseDecimal
  <2> HIDE DEF t
  <2>6. t.name = "Decimal" /\ t.num = <<p, q>> /\ t.text = <<>> /\ t.params = <<>>
    BY <2>2, <2>3, LeafIs
  <2> QED
    BY <2>2, <2>4, <2>5, <2>6 DEF t
<1>7. CASE Rest /\ c = "FixedString" /\ literals > 0
  <2>1. literals = 1 /\ Len(num) = 1 /\ num[1] \in FixedStringLengths /\ t = Leaf("FixedString", num, <<>>)
    BY <1>1, <1>2, <1>7, ScalarRules, LeafIs
  <2>2. "FixedString" \notin Misspelled \cup {"Enum"} \cup EnumNames \cup FloatAliases \cup IntegerAliases
    BY DEF Misspelled, EnumNames, FloatAliases, IntegerAliases
  <2>3. Canonical("FixedString") = "FixedString"
    BY DEF Canonical, Aliases
  <2>4. Len(num) + Len(<<>>) = 1
    BY <2>1
  <2>5. ParseScalar("FixedString", num, <<>>) = Leaf("FixedString", num, <<>>)
    BY <2>1, <2>2, <2>3, <2>4, ScalarRules
  <2> HIDE DEF t, c
  <2>6. t.name = "FixedString" /\ t.num = num /\ t.text = <<>> /\ t.params = <<>>
    BY <2>1, LeafIs
  <2> QED
    BY <2>1, <2>5, <2>6, LeafIs DEF t
<1>8. CASE Rest /\ c # "Decimal" /\ ~(c = "FixedString" /\ literals > 0)
  <2>1. (literals > 0 => c \notin ZeroArgument \cup {"FixedString"}) /\ t = Leaf(c, num, text)
    BY <1>1, <1>2, <1>8, ScalarRules, LeafIs
  <2>2. Plain(c)
    <3>1. CASE n \in DOMAIN Aliases
      <4>1. c = "Bool"
        BY <1>8, <3>1, AliasesAre
      <4> QED
        BY <4>1, CanonicalIsPlain
    <3>2. CASE n \notin DOMAIN Aliases
      BY <1>2, <1>8, <3>2 DEF Plain, Canonical
    <3> QED
      BY <3>1, <3>2
  <2>3. c \in {"Tuple", "Nested"} => n = c
    <3>1. CASE n \in DOMAIN Aliases
      BY <1>8, <3>1, AliasesAre
    <3>2. CASE n \notin DOMAIN Aliases
      BY <3>2 DEF Canonical
    <3> QED
      BY <3>1, <3>2
  <2> HIDE DEF t, c
  <2>4. ParseScalar(c, num, text) = Leaf(c, num, text)
    BY <2>1, <2>2, PlainDenotes
  <2>5. t.name = c /\ t.num = num /\ t.text = text /\ t.params = <<>>
    BY <2>1, LeafIs
  <2> QED
    BY <2>1, <2>3, <2>4, <2>5 DEF t
<1> QED
  BY <1>3, <1>4, <1>5, <1>6, <1>7, <1>8

LEMMA TextReplaced ==
  ASSUME NEW n, NEW params, NEW num, NEW text, NEW x
  PROVE  [[name |-> n, params |-> params, num |-> num, text |-> text] EXCEPT !.text = x]
            = [name |-> n, params |-> params, num |-> num, text |-> x]
OBVIOUS

LEMMA TupleIs ==
  ASSUME NEW params, NEW text
  PROVE  [TupleWith(params) EXCEPT !.text = text]
            = [name |-> "Tuple", params |-> params, num |-> <<>>, text |-> text]
<1>1. TupleWith(params) = [name |-> "Tuple", params |-> params, num |-> <<>>, text |-> <<>>]
  BY DEF TupleWith, Wrap, Type
<1>2. [[name |-> "Tuple", params |-> params, num |-> <<>>, text |-> <<>>] EXCEPT !.text = text]
         = [name |-> "Tuple", params |-> params, num |-> <<>>, text |-> text]
  BY TextReplaced
<1> QED
  BY <1>1, <1>2, Zenon

LEMMA WrapIs ==
  ASSUME NEW n, NEW params
  PROVE  Wrap(n, params) = [name |-> n, params |-> params, num |-> <<>>, text |-> <<>>]
BY DEF Wrap, Type

\* What the parse of a node makes of a name that takes parameters.
LEMMA NodeRules ==
  ASSUME NEW d, NEW params, d.params # <<>>, ~Fails(ParseNode(d, params))
  PROVE  /\ d.name \notin Misspelled /\ \A i \in DOMAIN params : ~Fails(params[i])
         /\ IsMarked(d) => ValidMarked(params)
         /\ d.name \notin {"Tuple", "Nested"} => ParseNode(d, params) = Wrap(d.name, params)
<1>1. ParseNode(d, params) # Refused
  BY DEF Fails, Refused, Type
<1>2. d.name \notin Misspelled /\ (\A i \in DOMAIN params : ~Fails(params[i])) /\ (IsMarked(d) => ValidMarked(params))
  BY <1>1 DEF ParseNode
<1>3. d.name \notin {"Tuple", "Nested"} => ParseNode(d, params) = Wrap(d.name, params)
  BY <1>1 DEF ParseNode
<1> QED
  BY <1>2, <1>3

LEMMA WrapDenotesItself ==
  ASSUME NEW n, NEW params, params # <<>>, n \notin Misspelled \cup {"Tuple", "Nested"},
         \A i \in DOMAIN params : ~Fails(params[i]),
         n = "SimpleAggregateFunction" => ValidMarked(params)
  PROVE  ParseNode(Wrap(n, params), params) = Wrap(n, params)
<1> DEFINE w == Wrap(n, params)
<1>1. w.name = n /\ w.params = params
  BY WrapIs
<1>2. IsMarked(w) => ValidMarked(params)
  BY <1>1 DEF IsMarked, Is
<1> HIDE DEF w
<1>3. ParseNode(w, params) = Wrap(w.name, params)
  BY <1>1, <1>2 DEF ParseNode
<1> QED
  BY <1>1, <1>3 DEF w

Named(text) == \E i \in DOMAIN text : text[i] # ""
TupleOf(params, text) == [TupleWith(params) EXCEPT !.text = IF Named(text) THEN text ELSE <<>>]

LEMMA TupleDenotesItself ==
  ASSUME NEW params, NEW text, params # <<>>, \A i \in DOMAIN params : ~Fails(params[i])
  PROVE  LET t == TupleOf(params, text)
         IN t.name = "Tuple" /\ t.params = params /\ ParseNode(t, params) = t
<1> DEFINE t == TupleOf(params, text)
           names == IF Named(text) THEN text ELSE <<>>
<1>1. t = [name |-> "Tuple", params |-> params, num |-> <<>>, text |-> names]
  BY TupleIs DEF TupleOf
<1>2. Named(names) <=> Named(text)
  <2>1. ~Named(<<>>)
    BY DEF Named
  <2> QED
    BY <2>1
<1>3. t.name = "Tuple" /\ t.params = params /\ t.text = names
  BY <1>1
<1> HIDE DEF t
<1>4. "Tuple" \notin Misspelled
  BY DEF Misspelled
<1>5. ~IsMarked(t)
  BY <1>3 DEF IsMarked, Is
<1>6. ParseNode(t, params) = TupleOf(params, names)
  BY <1>3, <1>4, <1>5 DEF ParseNode, TupleOf, Named
<1>7. TupleOf(params, names) = t
  BY <1>2 DEF TupleOf, t
<1> QED
  BY <1>3, <1>6, <1>7 DEF t

LEMMA NodeIsStable ==
  ASSUME NEW d, d.num \in Seq(Int), d.text \in Seq(STRING), NEW params,
         d.params = <<>> <=> params = <<>>, ~Fails(ParseNode(d, params))
  PROVE  LET t == ParseNode(d, params)
         IN \/ t.params = params /\ ParseNode(t, params) = t
            \/ \E row : /\ row.params = params /\ ParseNode(row, params) = row
                        /\ t.params = <<row>> /\ ParseNode(t, <<row>>) = t
<1> DEFINE t == ParseNode(d, params)
<1>1. CASE d.params = <<>>
  <2>1. d.name \notin {"Tuple", "Nested"}
    BY <1>1 DEF ParseNode, Fails, Refused, Type
  <2>2. t = ParseScalar(d.name, d.num, d.text)
    BY <1>1, <2>1 DEF ParseNode
  <2>3. t.params = <<>> /\ ParseScalar(t.name, t.num, t.text) = t /\ t.name \notin {"Tuple", "Nested"}
    BY <2>1, <2>2, ScalarIsStable
  <2> HIDE DEF t
  <2>4. ParseNode(t, <<>>) = t
    BY <2>3 DEF ParseNode
  <2> QED
    BY <1>1, <2>3, <2>4 DEF t
<1>2. CASE d.params # <<>> /\ d.name \in {"Tuple", "Nested"}
  <2> DEFINE row == TupleOf(params, d.text)
  <2>1. \A i \in DOMAIN params : ~Fails(params[i])
    BY <1>2, NodeRules
  <2>2. row.name = "Tuple" /\ row.params = params /\ ParseNode(row, params) = row
    BY <1>2, <2>1, TupleDenotesItself
  <2>3. t # Refused
    BY DEF Fails, Refused, Type
  <2>4. CASE d.name = "Tuple"
    <3>1. d.name \notin Misspelled /\ ~IsMarked(d)
      BY <2>4 DEF Misspelled, IsMarked, Is
    <3>2. t = TupleOf(params, d.text)
      BY <1>2, <2>1, <2>4, <3>1 DEF ParseNode, TupleOf, Named
    <3> QED
      BY <2>2, <3>2
  <2>5. CASE d.name = "Nested"
    <3>1. t = Wrap("Array", <<row>>)
      BY <1>2, <2>3, <2>5 DEF ParseNode, TupleOf, Named, ArrayOf
    <3>2. "Array" \notin Misspelled \cup {"Tuple", "Nested"}
      BY DEF Misspelled
    <3> HIDE DEF row
    <3>3. <<row>> # <<>> /\ \A i \in DOMAIN <<row>> : ~Fails(<<row>>[i])
      BY <2>2 DEF Fails
    <3> DEFINE rows == <<row>>
    <3> HIDE DEF rows
    <3>4. ParseNode(Wrap("Array", rows), rows) = Wrap("Array", rows)
      BY <3>2, <3>3, WrapDenotesItself DEF rows
    <3>5. Wrap("Array", rows).params = rows
      BY WrapIs
    <3> QED
      BY <2>2, <3>1, <3>4, <3>5 DEF rows
  <2> QED
    BY <1>2, <2>4, <2>5
<1>3. CASE d.params # <<>> /\ d.name \notin {"Tuple", "Nested"}
  <2>1. /\ d.name \notin Misspelled /\ \A i \in DOMAIN params : ~Fails(params[i])
        /\ IsMarked(d) => ValidMarked(params)
        /\ t = Wrap(d.name, params)
    BY <1>3, NodeRules
  <2>2. t.params = params
    BY <2>1, WrapIs
  <2> HIDE DEF t
  <2>3. ParseNode(t, params) = t
    BY <1>3, <2>1, WrapDenotesItself DEF IsMarked, Is
  <2> QED
    BY <2>2, <2>3 DEF t
<1> QED
  BY <1>1, <1>2, <1>3

\* parse is the parse of the declarations D, of any depth: what ParseType unfolds to.
Parses(D, parse) ==
    /\ parse \in [D -> D]
    /\ \A d \in D : /\ d.num \in Seq(Int) /\ d.text \in Seq(STRING) /\ d.params \in Seq(D)
                    /\ parse[d] = ParseNode(d, [i \in DOMAIN d.params |-> parse[d.params[i]]])

LEMMA EmptyHasNoPlace ==
  ASSUME NEW S, NEW s \in Seq(S)
  PROVE  s = <<>> <=> DOMAIN s = {}
<1>1. Len(s) \in Nat /\ DOMAIN s = 1 .. Len(s)
  OBVIOUS
<1>2. Len(s) = 0 <=> s = <<>>
  OBVIOUS
<1>3. 1 .. Len(s) = {} <=> Len(s) = 0
  <2>1. CASE Len(s) = 0
    BY <2>1
  <2>2. CASE Len(s) # 0
    <3>1. 1 \in 1 .. Len(s)
      BY <1>1, <2>2
    <3> QED
      BY <2>2, <3>1
  <2> QED
    BY <2>1, <2>2
<1> QED
  BY <1>1, <1>2, <1>3

LEMMA ImageIsList ==
  ASSUME NEW S, NEW s \in Seq(S), NEW f \in [S -> S]
  PROVE  [i \in DOMAIN s |-> f[s[i]]] \in Seq(S)
<1>1. Len(s) \in Nat /\ DOMAIN s = 1 .. Len(s) /\ \A i \in 1 .. Len(s) : s[i] \in S
  OBVIOUS
<1>2. [i \in 1 .. Len(s) |-> f[s[i]]] \in Seq(S)
  BY <1>1
<1> QED
  BY <1>1, <1>2

LEMMA ParsedNode ==
  ASSUME NEW D, NEW parse, Parses(D, parse), NEW x \in D, NEW params, x.params = params,
         \A i \in DOMAIN params : parse[params[i]] = params[i]
  PROVE  parse[x] = ParseNode(x, params)
<1>1. params \in Seq(D)
  BY DEF Parses
<1>2. [i \in DOMAIN params |-> parse[params[i]]] = params
  <2>1. params = [i \in DOMAIN params |-> params[i]]
    BY <1>1
  <2> QED
    BY <2>1
<1> QED
  BY <1>2 DEF Parses

\* A type that a declaration denotes is written so that it denotes itself: the
\* canonical form that parseCHType stores in the catalog, and that an inferred
\* type must have to be compared with it, is read back unchanged whatever the
\* depth, the aliases, the labels without numbers or the missing literals of the
\* declaration were (schema.go:449-560, 700-760).
THEOREM ADenotedTypeDenotesItself ==
  ASSUME NEW D, NEW parse, Parses(D, parse), NEW depth \in [D -> Nat],
         \A d \in D : \A i \in DOMAIN d.params : depth[d.params[i]] < depth[d]
  PROVE  \A d \in D : ~Fails(parse[d]) => parse[parse[d]] = parse[d]
<1> DEFINE bad == {d \in D : ~Fails(parse[d]) /\ parse[parse[d]] # parse[d]}
           T == {depth[d] : d \in bad}
<1>1. SUFFICES ASSUME bad # {} PROVE FALSE
  OBVIOUS
<1>2. T \in SUBSET Nat /\ T # {}
  BY <1>1
<1>3. PICK n \in T : \A m \in T : n <= m
  <2> HIDE DEF T
  <2> QED
    BY <1>2, LeastNumber
<1>4. PICK d \in bad : depth[d] = n
  BY <1>3
<1>0. \A x \in bad : depth[d] <= depth[x]
  BY <1>3, <1>4
<1> DEFINE params == [i \in DOMAIN d.params |-> parse[d.params[i]]]
           t == parse[d]
<1>5. /\ d \in D /\ d.num \in Seq(Int) /\ d.text \in Seq(STRING) /\ d.params \in Seq(D)
      /\ t = ParseNode(d, params) /\ t \in D /\ ~Fails(t)
  BY <1>4 DEF Parses
<1>6. DOMAIN params = DOMAIN d.params /\ (d.params = <<>> <=> params = <<>>)
  <2>1. d.params = <<>> <=> DOMAIN d.params = {}
    BY <1>5, EmptyHasNoPlace
  <2>2. params \in Seq(D)
    BY <1>5, ImageIsList DEF Parses
  <2>3. params = <<>> <=> DOMAIN params = {}
    BY <2>2, EmptyHasNoPlace
  <2> QED
    BY <2>1, <2>3
<1>7. \A i \in DOMAIN params : parse[params[i]] = params[i]
  <2> SUFFICES ASSUME NEW i \in DOMAIN params PROVE parse[params[i]] = params[i]
    OBVIOUS
  <2>1. d.params[i] \in D /\ depth[d.params[i]] \in Nat /\ depth[d.params[i]] < depth[d]
    BY <1>5
  <2>2. d.params[i] \notin bad
    <3>1. depth[d] \in Nat
      BY <1>5
    <3> HIDE DEF bad
    <3> QED
      BY <1>0, <2>1, <3>1
  <2>3. d.params # <<>>
    BY <1>5
  <2>4. ~Fails(params[i])
    <3> HIDE DEF params, t
    <3> QED
      BY <1>5, <2>3, NodeRules
  <2> QED
    BY <2>1, <2>2, <2>4
<1>8. \A x \in D : x.params = params => parse[x] = ParseNode(x, params)
  <2> HIDE DEF params
  <2> QED
    BY <1>7, ParsedNode
<1>9. \/ t.params = params /\ ParseNode(t, params) = t
      \/ \E row : /\ row.params = params /\ ParseNode(row, params) = row
                  /\ t.params = <<row>> /\ ParseNode(t, <<row>>) = t
  <2> DEFINE u == ParseNode(d, params)
  <2>1. u = t /\ ~Fails(u)
    BY <1>5
  <2> HIDE DEF params, t
  <2>2. \/ u.params = params /\ ParseNode(u, params) = u
        \/ \E row : /\ row.params = params /\ ParseNode(row, params) = row
                    /\ u.params = <<row>> /\ ParseNode(u, <<row>>) = u
    BY <1>5, <1>6, <2>1, NodeIsStable
  <2> HIDE DEF u
  <2> QED
    BY <2>1, <2>2
<1>10. parse[t] # t
  BY <1>4
<1> HIDE DEF t, params, bad, T
<1>11. CASE t.params = params /\ ParseNode(t, params) = t
  BY <1>5, <1>8, <1>10, <1>11
<1>12. ASSUME NEW row, row.params = params, ParseNode(row, params) = row,
              t.params = <<row>>, ParseNode(t, <<row>>) = t
       PROVE  FALSE
  <2>1. row \in D
    <3>1. t.params \in Seq(D)
      BY <1>5 DEF Parses
    <3>2. <<row>>[1] \in D
      BY <1>12, <3>1
    <3> QED
      BY <3>2
  <2>2. parse[row] = row
    BY <1>8, <1>12, <2>1
  <2> DEFINE rows == <<row>>
  <2>3. \A i \in DOMAIN rows : parse[rows[i]] = rows[i]
    BY <2>2
  <2>4. t.params = rows /\ ParseNode(t, rows) = t
    BY <1>12
  <2> HIDE DEF rows
  <2>5. parse[t] = ParseNode(t, rows)
    BY <1>5, <2>3, <2>4, ParsedNode
  <2> QED
    BY <1>10, <2>4, <2>5
<1> QED
  BY <1>9, <1>11, <1>12

(***************************************************************************)
(* Stacks of wrappers: what splitWrapperStack takes off a type and         *)
(* applyWrapperStack puts back.                                            *)
(***************************************************************************)
Marker(f, x) == Wrap("SimpleAggregateFunction", <<f, x>>)
\* LowCardinality(Nullable(b)), each wrapper where its flag says so.
Layer(b, nullable, lowCardinality) ==
    LET u == IF nullable THEN Wrap("Nullable", <<b>>) ELSE b
    IN IF lowCardinality THEN Wrap("LowCardinality", <<u>>) ELSE u
Layered(t) == t.name \in {"Nullable", "LowCardinality"}

LEMMA WrapOne ==
  ASSUME NEW n, NEW x
  PROVE  Wrap(n, <<x>>).name = n /\ Inner(Wrap(n, <<x>>)) = x
<1>1. Wrap(n, <<x>>).name = n /\ Wrap(n, <<x>>).params = <<x>>
  BY WrapIs
<1>2. Len(<<x>>) = 1 /\ <<x>>[1] = x
  OBVIOUS
<1> QED
  BY <1>1, <1>2 DEF Inner

LEMMA MarkerIs ==
  ASSUME NEW f, NEW x
  PROVE  /\ Marker(f, x).name = "SimpleAggregateFunction" /\ Marker(f, x).params = <<f, x>>
         /\ Inner(Marker(f, x)) = x /\ IsMarked(Marker(f, x)) /\ Marker(f, x) # NoMarker
<1>1. Marker(f, x).name = "SimpleAggregateFunction" /\ Marker(f, x).params = <<f, x>>
  BY WrapIs DEF Marker
<1>2. Len(<<f, x>>) = 2 /\ <<f, x>>[2] = x
  OBVIOUS
<1>3. NoMarker.name = "none"
  BY DEF NoMarker, Type
<1> QED
  BY <1>1, <1>2, <1>3 DEF Inner, IsMarked, Is

LEMMA MarkerRefilled ==
  ASSUME NEW f, NEW x, NEW z
  PROVE  [Marker(f, x) EXCEPT !.params[2] = z] = Marker(f, z)
<1>1. [<<f, x>> EXCEPT ![2] = z] = <<f, z>>
  OBVIOUS
<1>2. Marker(f, x) = [name |-> "SimpleAggregateFunction", params |-> <<f, x>>, num |-> <<>>, text |-> <<>>]
  BY WrapIs DEF Marker
<1>3. Marker(f, z) = [name |-> "SimpleAggregateFunction", params |-> <<f, z>>, num |-> <<>>, text |-> <<>>]
  BY WrapIs DEF Marker
<1>4. [[name |-> "SimpleAggregateFunction", params |-> <<f, x>>, num |-> <<>>, text |-> <<>>] EXCEPT !.params[2] = z]
       = [name |-> "SimpleAggregateFunction", params |-> <<f, z>>, num |-> <<>>, text |-> <<>>]
  BY <1>1
<1> QED
  BY <1>2, <1>3, <1>4, Zenon

LEMMA LayerSplits ==
  ASSUME NEW b, ~Layered(b), NEW n \in BOOLEAN, NEW l \in BOOLEAN
  PROVE  /\ SplitWrappers(Layer(b, n, l)).base = b
         /\ SplitWrappers(Layer(b, n, l)).nullable <=> n
         /\ SplitWrappers(Layer(b, n, l)).lowCardinality <=> l
         /\ Layered(Layer(b, n, l)) <=> n \/ l
         /\ ~n /\ ~l => Layer(b, n, l) = b
<1> DEFINE u == IF n THEN Wrap("Nullable", <<b>>) ELSE b
           t == Layer(b, n, l)
<1>1. b.name # "Nullable" /\ b.name # "LowCardinality"
  BY DEF Layered
<1>2. (Is(u, "Nullable") <=> n) /\ Unwrap(u, "Nullable") = b /\ ~Is(u, "LowCardinality") /\ (Layered(u) <=> n)
  BY <1>1, WrapOne DEF Is, Unwrap, Layered
<1>3. t = IF l THEN Wrap("LowCardinality", <<u>>) ELSE u
  BY DEF Layer
<1>4. (Is(t, "LowCardinality") <=> l) /\ Unwrap(t, "LowCardinality") = u
  <2> HIDE DEF u, t
  <2> QED
    BY <1>2, <1>3, WrapOne DEF Is, Unwrap
<1>5. Layered(t) <=> n \/ l
  <2> HIDE DEF u, t
  <2> QED
    BY <1>2, <1>3, WrapOne DEF Layered
<1> HIDE DEF u
<1>6. /\ SplitWrappers(t).base = b /\ (SplitWrappers(t).nullable <=> n)
      /\ (SplitWrappers(t).lowCardinality <=> l)
  <2> HIDE DEF t
  <2> QED
    BY <1>2, <1>4 DEF SplitWrappers
<1>7. ~n /\ ~l => t = b
  BY <1>3 DEF u
<1> QED
  BY <1>5, <1>6, <1>7

LEMMA WrappersLayer ==
  ASSUME NEW b, ~Layered(b), NEW n \in BOOLEAN, NEW l \in BOOLEAN
  PROVE  ApplyWrappers(b, n, l) = Layer(b, n /\ CanBeInsideNullable(b), l /\ ~ResultRejectsLowCardinality(b))
<1> DEFINE can == CanBeInsideNullable(b)
           u == IF n THEN WrapNullable(b) ELSE b
           v == IF n /\ can THEN Wrap("Nullable", <<b>>) ELSE b
<1>1. b.name # "Nullable" /\ b.name # "LowCardinality"
  BY DEF Layered
<1>2. u = v
  BY <1>1 DEF WrapNullable, Is
<1>3. v.name # "LowCardinality" /\ Unwrap(v, "Nullable") = b /\ Unwrap(b, "Nullable") = b
  BY <1>1, WrapOne DEF Unwrap, Is
<1>4. ResultRejectsLowCardinality(v) <=> ResultRejectsLowCardinality(b)
  BY <1>3 DEF ResultRejectsLowCardinality
<1> HIDE DEF v, can
<1>5. WrapLowCardinality(v) = IF ResultRejectsLowCardinality(b) THEN v ELSE Wrap("LowCardinality", <<v>>)
  BY <1>3, <1>4 DEF WrapLowCardinality, Is
<1>6. ApplyWrappers(b, n, l) = IF l THEN WrapLowCardinality(v) ELSE v
  BY <1>2 DEF ApplyWrappers
<1> QED
  BY <1>5, <1>6 DEF Layer, v, can

Flags(s) == /\ s.nullable \in BOOLEAN /\ s.outerNullable \in BOOLEAN /\ s.lowCardinality \in BOOLEAN
            /\ s.innerNullable \in BOOLEAN /\ s.innerLowCardinality \in BOOLEAN

LEMMA UnmarkedApplied ==
  ASSUME NEW b, NEW s, Flags(s), s.marker = NoMarker
  PROVE  ApplyStack(b, s) = ApplyWrappers(b, s.nullable, s.lowCardinality)
BY DEF ApplyStack, Flags

LEMMA MarkedApplied ==
  ASSUME NEW b, NEW s, Flags(s), NEW f, NEW x, s.marker = Marker(f, x),
         NEW n \in BOOLEAN, n <=> s.nullable /\ s.innerNullable,
         NEW l \in BOOLEAN, l <=> s.lowCardinality /\ s.innerLowCardinality
  PROVE  ApplyStack(b, s) = ApplyWrappers(Marker(f, ApplyWrappers(b, n, l)),
                                          IF n THEN s.outerNullable ELSE s.nullable, s.lowCardinality /\ ~l)
<1> DEFINE inner == ApplyWrappers(b, n, l)
           marked == s.marker # NoMarker
<1>1. marked
  BY MarkerIs
<1>2. [s.marker EXCEPT !.params[2] = inner] = Marker(f, inner)
  BY MarkerRefilled
<1>3. (marked /\ s.nullable /\ s.innerNullable) = n /\ (marked /\ s.lowCardinality /\ s.innerLowCardinality) = l
  BY <1>1 DEF Flags
<1>4. ApplyStack(b, s) = ApplyWrappers(IF marked THEN [s.marker EXCEPT !.params[2] = inner] ELSE b,
                                       IF n THEN s.outerNullable ELSE s.nullable, s.lowCardinality /\ ~l)
  BY <1>3 DEF ApplyStack
<1> HIDE DEF inner, marked
<1> QED
  BY <1>1, <1>2, <1>4 DEF inner

Plainly(b) == ~Layered(b) /\ ~IsMarked(b)
\* The wrappers of a type that the server accepts: no LowCardinality around a marker.
WellWrapped(t) ==
    \E b : \E n, l, outer \in BOOLEAN :
        /\ Plainly(b)
        /\ n => CanBeInsideNullable(b)
        /\ l => ~ResultRejectsLowCardinality(b)
        /\ \/ t = Layer(b, n, l)
           \/ \E f : t = Layer(Marker(f, Layer(b, n, l)), outer, FALSE)

LEMMA MarkerLayers ==
  ASSUME NEW f, NEW x, NEW n \in BOOLEAN
  PROVE  ~Layered(Marker(f, x)) /\ ApplyWrappers(Marker(f, x), n, FALSE) = Layer(Marker(f, x), n, FALSE)
<1> DEFINE m == Marker(f, x)
<1>1. m.name = "SimpleAggregateFunction"
  BY MarkerIs
<1> HIDE DEF m
<1>2. ~Layered(m)
  BY <1>1 DEF Layered
<1>3. CanBeInsideNullable(m)
  BY <1>1 DEF CanBeInsideNullable, Containers, GeometryNames
<1>4. ApplyWrappers(m, n, FALSE) = Layer(m, n /\ CanBeInsideNullable(m), FALSE /\ ~ResultRejectsLowCardinality(m))
  BY <1>2, WrappersLayer
<1> QED
  BY <1>2, <1>3, <1>4 DEF m

Stacks(marker) ==
    [nullable : BOOLEAN, outerNullable : BOOLEAN, lowCardinality : BOOLEAN,
     marker : {marker}, innerNullable : BOOLEAN, innerLowCardinality : BOOLEAN]

LEMMA StackOf ==
  ASSUME NEW t
  PROVE  LET s == SplitStack(t).stack
             w == SplitWrappers(t)
             inner == SplitWrappers(Inner(w.base))
         IN /\ s.nullable <=> w.nullable \/ (IsMarked(w.base) /\ inner.nullable)
            /\ s.outerNullable <=> w.nullable
            /\ s.lowCardinality <=> w.lowCardinality \/ (IsMarked(w.base) /\ inner.lowCardinality)
            /\ s.innerNullable <=> IsMarked(w.base) /\ inner.nullable
            /\ s.innerLowCardinality <=> IsMarked(w.base) /\ inner.lowCardinality
            /\ s.marker = IF IsMarked(w.base) THEN w.base ELSE NoMarker
            /\ SplitStack(t).base = IF IsMarked(w.base) THEN inner.base ELSE w.base
            /\ s \in Stacks(s.marker) /\ Flags(s)
<1> DEFINE s == SplitStack(t).stack
<1>1. Flags(s)
  BY DEF SplitStack, SplitWrappers, Flags, IsMarked, Is
<1>2. s \in Stacks(s.marker)
  BY DEF SplitStack, SplitWrappers, Stacks, IsMarked, Is
<1> QED
  BY <1>1, <1>2 DEF SplitStack, SplitWrappers

LEMMA LayersSplit ==
  ASSUME NEW b, Plainly(b), NEW n \in BOOLEAN, NEW l \in BOOLEAN, NEW t, t = Layer(b, n, l)
  PROVE  LET s == SplitStack(t).stack
         IN /\ SplitStack(t).base = b /\ s.marker = NoMarker
            /\ s.nullable <=> n
            /\ s.lowCardinality <=> l
<1> DEFINE w == SplitWrappers(t)
<1>1. ~Layered(b) /\ ~IsMarked(b)
  BY DEF Plainly
<1>2. w.base = b /\ (w.nullable <=> n) /\ (w.lowCardinality <=> l)
  BY <1>1, LayerSplits
<1> QED
  BY <1>1, <1>2, StackOf

\* The split of a type with a marker: the wrappers outside it, and n and l inside.
SplitsMarked(t, b, f, n, l, outer) ==
    LET s == SplitStack(t).stack
    IN /\ SplitStack(t).base = b /\ s.marker = Marker(f, Layer(b, n, l))
       /\ s.nullable <=> outer \/ n
       /\ s.outerNullable <=> outer
       /\ s.lowCardinality <=> l
       /\ s.innerNullable <=> n
       /\ s.innerLowCardinality <=> l

LEMMA MarkedSplits ==
  ASSUME NEW b, Plainly(b), NEW n \in BOOLEAN, NEW l \in BOOLEAN, NEW outer \in BOOLEAN, NEW f,
         NEW t, t = Layer(Marker(f, Layer(b, n, l)), outer, FALSE)
  PROVE  SplitsMarked(t, b, f, n, l, outer)
<1> DEFINE x == Layer(b, n, l)
           m == Marker(f, x)
           w == SplitWrappers(t)
           inner == SplitWrappers(Inner(w.base))
<1>1. w.base = m /\ (w.nullable <=> outer) /\ ~w.lowCardinality
  BY LayerSplits, MarkerLayers
<1>2. IsMarked(m) /\ Inner(m) = x
  BY MarkerIs
<1>3. inner.base = b /\ (inner.nullable <=> n) /\ (inner.lowCardinality <=> l)
  <2>1. Inner(w.base) = x
    BY <1>1, <1>2
  <2>2. ~Layered(b)
    BY DEF Plainly
  <2> HIDE DEF w
  <2> QED
    BY <2>1, <2>2, LayerSplits
<1> HIDE DEF m
<1>4. SplitStack(t).stack.marker = m /\ SplitStack(t).base = b
  BY <1>1, <1>2, <1>3, StackOf
<1> QED
  BY <1>1, <1>2, <1>3, <1>4, StackOf DEF m, SplitsMarked

\* applyWrapperStack is the inverse of splitWrapperStack: every type that the
\* server accepts comes back from its base and its stack, a Nullable and a
\* LowCardinality inside a marker on the side of it where they were
\* (wrapper_transport.go:133-188, 204-243).
THEOREM ApplyingUndoesSplitting ==
  ASSUME NEW t, WellWrapped(t)
  PROVE  ApplyStack(SplitStack(t).base, SplitStack(t).stack) = t
<1> DEFINE s == SplitStack(t).stack
<1>1. PICK b : \E n, l, outer \in BOOLEAN :
        /\ Plainly(b)
        /\ n => CanBeInsideNullable(b)
        /\ l => ~ResultRejectsLowCardinality(b)
        /\ \/ t = Layer(b, n, l)
           \/ \E f : t = Layer(Marker(f, Layer(b, n, l)), outer, FALSE)
  BY DEF WellWrapped
<1>2. PICK n \in BOOLEAN, l \in BOOLEAN, outer \in BOOLEAN :
        /\ Plainly(b)
        /\ n => CanBeInsideNullable(b)
        /\ l => ~ResultRejectsLowCardinality(b)
        /\ \/ t = Layer(b, n, l)
           \/ \E f : t = Layer(Marker(f, Layer(b, n, l)), outer, FALSE)
  BY <1>1
<1>3. ApplyWrappers(b, n, l) = Layer(b, n, l)
  <2>1. n /\ CanBeInsideNullable(b) <=> n
    BY <1>2
  <2>2. l /\ ~ResultRejectsLowCardinality(b) <=> l
    BY <1>2
  <2> QED
    BY <1>2, <2>1, <2>2, WrappersLayer DEF Plainly
<1>4. Flags(s)
  BY StackOf
<1>5. CASE t = Layer(b, n, l)
  <2>1. s.marker = NoMarker /\ SplitStack(t).base = b /\ (s.nullable <=> n) /\ (s.lowCardinality <=> l)
    BY <1>2, <1>5, LayersSplit
  <2> HIDE DEF s
  <2>2. ApplyStack(b, s) = ApplyWrappers(b, n, l)
    BY <1>4, <2>1, UnmarkedApplied DEF Flags
  <2> QED
    BY <1>3, <1>5, <2>1, <2>2 DEF s
<1>6. ASSUME NEW f, t = Layer(Marker(f, Layer(b, n, l)), outer, FALSE)
      PROVE  ApplyStack(SplitStack(t).base, SplitStack(t).stack) = t
  <2> DEFINE x == Layer(b, n, l)
  <2>1. /\ s.marker = Marker(f, x) /\ SplitStack(t).base = b
        /\ s.nullable <=> outer \/ n
        /\ s.outerNullable <=> outer
        /\ s.lowCardinality <=> l
        /\ s.innerNullable <=> n
        /\ s.innerLowCardinality <=> l
    <3>1. Plainly(b)
      BY <1>2
    <3>2. SplitsMarked(t, b, f, n, l, outer)
      BY <1>6, <3>1, MarkedSplits
    <3> QED
      BY <3>2 DEF SplitsMarked
  <2> HIDE DEF s, x
  <2>2. (IF n THEN s.outerNullable ELSE s.nullable) = outer /\ (s.lowCardinality /\ ~l) = FALSE
    BY <1>4, <2>1 DEF Flags
  <2>3. ApplyStack(b, s) = ApplyWrappers(Marker(f, ApplyWrappers(b, n, l)),
                                         IF n THEN s.outerNullable ELSE s.nullable, s.lowCardinality /\ ~l)
    BY <1>4, <2>1, MarkedApplied
  <2>4. ApplyStack(b, s) = ApplyWrappers(Marker(f, x), outer, FALSE)
    BY <1>3, <2>2, <2>3 DEF x
  <2> QED
    BY <1>6, <2>1, <2>4, MarkerLayers DEF s, x
<1> QED
  BY <1>2, <1>5, <1>6

LEMMA NullOfLayers ==
  ASSUME NEW b, Plainly(b), NEW n \in BOOLEAN, NEW l \in BOOLEAN, NEW o \in BOOLEAN, NEW f
  PROVE  /\ ArgumentNullable(Layer(b, n, l)) <=> n
         /\ ArgumentNullable(Layer(Marker(f, Layer(b, n, l)), o, FALSE)) <=> o \/ n
<1> DEFINE x == Layer(b, n, l)
           m == Marker(f, x)
           r == Layer(m, o, FALSE)
<1>1. ~Layered(b) /\ b.name # "SimpleAggregateFunction"
  BY DEF Plainly, IsMarked, Is
<1>2. /\ SplitWrappers(x).nullable <=> n
      /\ Layered(x) <=> n \/ l
      /\ ~n /\ ~l => x = b
  BY <1>1, LayerSplits
<1>3. m.name = "SimpleAggregateFunction" /\ Inner(m) = x /\ ~Layered(m)
  BY MarkerIs, MarkerLayers
<1> HIDE DEF x, m
<1>4. /\ SplitWrappers(r).nullable <=> o
      /\ Layered(r) <=> o
      /\ ~o => r = m
  BY <1>3, LayerSplits
<1> HIDE DEF r
<1>5. x.name # "SimpleAggregateFunction"
  BY <1>1, <1>2 DEF Layered
<1>6. ArgumentNullable(x) <=> n
  BY <1>2, <1>5 DEF ArgumentNullable, Unwrap, Is
<1>7. CASE o
  <2>1. r.name # "SimpleAggregateFunction"
    BY <1>4, <1>7 DEF Layered
  <2> QED
    BY <1>4, <1>6, <1>7, <2>1 DEF ArgumentNullable, Unwrap, Is, x, m, r
<1>8. CASE ~o
  <2>1. Unwrap(r, "SimpleAggregateFunction") = x
    BY <1>3, <1>4, <1>8 DEF Unwrap, Is
  <2> QED
    BY <1>2, <1>6, <1>8, <2>1 DEF ArgumentNullable, x, m, r
<1> QED
  BY <1>7, <1>8

\* A call of a disposition says whether its result can be NULL: when the
\* disposition keeps Nullable and an argument can be NULL, inside a marker or
\* outside, the result can be NULL, and else only when the disposition adds one.
THEOREM TransportCarriesNull ==
  ASSUME NEW tr, NEW call, NEW y, Plainly(y), CanBeInsideNullable(y),
         NEW marker, call.stack \in Stacks(marker),
         KeepsMarker(tr.marker, call) =>
            /\ \E f, x : call.stack.marker = Marker(f, x)
            /\ KeepsLowCardinality(tr.lowCardinality, call) => call.stack.innerLowCardinality
  PROVE  LET r == ApplyStack(y, ResultStack(tr, call))
         IN /\ WellWrapped(r)
            /\ ArgumentNullable(r) <=> \/ tr.nullable = "keep" /\ call.stack.nullable
                                       \/ tr.nullable = "add"
<1> DEFINE s == call.stack
           q == ResultStack(tr, call)
           km == KeepsMarker(tr.marker, call)
           kl == KeepsLowCardinality(tr.lowCardinality, call)
           null == (s.nullable /\ tr.nullable = "keep") \/ tr.nullable = "add"
           r == ApplyStack(y, q)
           lc == kl /\ ~ResultRejectsLowCardinality(y)
<1>1. km \in BOOLEAN /\ kl \in BOOLEAN
  BY DEF KeepsMarker, KeepsLowCardinality
<1>2. ~Layered(y) /\ ~IsMarked(y)
  BY DEF Plainly
<1>3. /\ q.lowCardinality = kl
      /\ q.nullable = null
      /\ q.outerNullable = (null /\ (s.outerNullable \/ (tr.nullable = "add" /\ ~s.innerNullable)))
      /\ q.marker = IF km THEN s.marker ELSE NoMarker
      /\ q.innerNullable = (km /\ s.innerNullable)
      /\ q.innerLowCardinality = (km /\ s.innerLowCardinality)
  <2> HIDE DEF km, kl
  <2> QED
    BY DEF ResultStack, Stacks, km, kl
<1>4. s.innerNullable \in BOOLEAN /\ s.innerLowCardinality \in BOOLEAN /\ null \in BOOLEAN
  BY DEF Stacks
<1>5. Flags(q)
  <2> HIDE DEF km, kl, null, q
  <2> QED
    BY <1>1, <1>3, <1>4 DEF Flags
<1>6. CASE ~km
  <2>1. r = ApplyWrappers(y, null, kl)
    <3> HIDE DEF km, kl, null, q
    <3> QED
      BY <1>3, <1>5, <1>6, UnmarkedApplied
  <2>2. r = Layer(y, null, lc)
    <3>1. ApplyWrappers(y, null, kl) = Layer(y, null /\ CanBeInsideNullable(y), kl /\ ~ResultRejectsLowCardinality(y))
      <4> HIDE DEF km, kl, null, q
      <4> QED
        BY <1>1, <1>2, <1>4, WrappersLayer
    <3>2. (null /\ CanBeInsideNullable(y)) = null
      BY <1>4
    <3> HIDE DEF km, kl, null, q, r
    <3> QED
      BY <2>1, <3>1, <3>2 DEF lc
  <2>3. lc \in BOOLEAN /\ (lc => ~ResultRejectsLowCardinality(y))
    OBVIOUS
  <2> HIDE DEF km, kl, null, q, r, lc
  <2>4. ArgumentNullable(r) <=> null
    BY <1>4, <2>2, <2>3, NullOfLayers
  <2>5. WellWrapped(r)
    BY <1>4, <2>2, <2>3 DEF WellWrapped
  <2> QED
    BY <2>4, <2>5 DEF r, q, null
<1>7. CASE km
  <2> DEFINE rn == null /\ s.innerNullable
             rl == kl /\ s.innerLowCardinality
             o == IF rn THEN q.outerNullable ELSE null
  <2>1. PICK f, x : s.marker = Marker(f, x)
    BY <1>7
  <2>2. kl => s.innerLowCardinality
    BY <1>7
  <2>3. rn \in BOOLEAN /\ rl \in BOOLEAN /\ o \in BOOLEAN /\ lc \in BOOLEAN
    BY <1>5 DEF Flags
  <2>4. rl = kl /\ (kl /\ ~rl) = FALSE
    BY <1>1, <2>2
  <2>5. (o \/ rn) <=> null
    BY <1>3, <2>3
  <2> HIDE DEF km, kl, null, q, r, lc, rn, rl, o
  <2>6. ApplyStack(y, q) = ApplyWrappers(Marker(f, ApplyWrappers(y, rn, rl)),
                                         IF rn THEN q.outerNullable ELSE q.nullable, q.lowCardinality /\ ~rl)
    <3>1. q.marker = Marker(f, x)
      BY <1>3, <1>7, <2>1
    <3>2. (rn <=> q.nullable /\ q.innerNullable) /\ (rl <=> q.lowCardinality /\ q.innerLowCardinality)
      BY <1>1, <1>3, <1>7 DEF rn, rl
    <3> QED
      BY <1>5, <2>3, <3>1, <3>2, MarkedApplied
  <2>7. ApplyWrappers(y, rn, rl) = Layer(y, rn, lc)
    <3>1. ApplyWrappers(y, rn, rl) = Layer(y, rn /\ CanBeInsideNullable(y), rl /\ ~ResultRejectsLowCardinality(y))
      BY <1>2, <2>3, WrappersLayer
    <3>2. (rn /\ CanBeInsideNullable(y)) = rn /\ (rl /\ ~ResultRejectsLowCardinality(y)) = lc
      BY <2>3, <2>4 DEF lc
    <3> QED
      BY <3>1, <3>2
  <2>8. r = Layer(Marker(f, Layer(y, rn, lc)), o, FALSE)
    <3>1. r = ApplyWrappers(Marker(f, Layer(y, rn, lc)), o, FALSE)
      BY <1>3, <2>4, <2>6, <2>7 DEF r, o
    <3> QED
      BY <2>3, <3>1, MarkerLayers
  <2>9. ArgumentNullable(r) <=> null
    BY <2>3, <2>5, <2>8, NullOfLayers
  <2>10. WellWrapped(r)
    <3>1. lc => ~ResultRejectsLowCardinality(y)
      BY DEF lc
    <3> QED
      BY <2>3, <2>8, <3>1 DEF WellWrapped
  <2> QED
    BY <2>9, <2>10 DEF r, q, null
<1> QED
  BY <1>1, <1>6, <1>7

\* The same of a call that is decided by its first argument: the result can be
\* NULL exactly when the argument could and the disposition keeps it, or when
\* the disposition adds one, and it is well wrapped again.
THEOREM ACallCarriesNull ==
  ASSUME NEW tr, NEW call, NEW t, WellWrapped(t), call.stack = SplitStack(t).stack,
         NEW y, Plainly(y), CanBeInsideNullable(y)
  PROVE  LET r == ApplyStack(y, ResultStack(tr, call))
         IN /\ WellWrapped(r)
            /\ ArgumentNullable(r) <=> \/ tr.nullable = "keep" /\ ArgumentNullable(t)
                                       \/ tr.nullable = "add"
<1> DEFINE s == call.stack
<1>1. PICK b : \E n, l, outer \in BOOLEAN :
        /\ Plainly(b)
        /\ n => CanBeInsideNullable(b)
        /\ l => ~ResultRejectsLowCardinality(b)
        /\ \/ t = Layer(b, n, l)
           \/ \E f : t = Layer(Marker(f, Layer(b, n, l)), outer, FALSE)
  BY DEF WellWrapped
<1>2. PICK n \in BOOLEAN, l \in BOOLEAN, outer \in BOOLEAN :
        /\ Plainly(b)
        /\ \/ t = Layer(b, n, l)
           \/ \E f : t = Layer(Marker(f, Layer(b, n, l)), outer, FALSE)
  BY <1>1
<1>3. s \in Stacks(s.marker)
  BY StackOf
<1>4. CASE t = Layer(b, n, l)
  <2>1. s.marker = NoMarker /\ (s.nullable <=> ArgumentNullable(t))
    <3>1. Plainly(b)
      BY <1>2
    <3>2. s.marker = NoMarker /\ (s.nullable <=> n)
      BY <1>4, <3>1, LayersSplit
    <3>3. ArgumentNullable(t) <=> n
      BY <1>4, <3>1, NullOfLayers
    <3> QED
      BY <3>2, <3>3
  <2>2. ~KeepsMarker(tr.marker, call)
    BY <2>1 DEF KeepsMarker
  <2> QED
    BY <1>3, <2>1, <2>2, TransportCarriesNull
<1>5. ASSUME NEW f, t = Layer(Marker(f, Layer(b, n, l)), outer, FALSE)
      PROVE  /\ s.marker = Marker(f, Layer(b, n, l))
             /\ s.nullable <=> ArgumentNullable(t)
             /\ s.lowCardinality => s.innerLowCardinality
  <2>1. /\ s.marker = Marker(f, Layer(b, n, l))
        /\ s.nullable <=> outer \/ n
        /\ s.lowCardinality <=> l
        /\ s.innerLowCardinality <=> l
    <3>1. Plainly(b)
      BY <1>2
    <3>2. SplitsMarked(t, b, f, n, l, outer)
      BY <1>5, <3>1, MarkedSplits
    <3> QED
      BY <3>2 DEF SplitsMarked
  <2>2. ArgumentNullable(t) <=> outer \/ n
    BY <1>2, <1>5, NullOfLayers
  <2> QED
    BY <2>1, <2>2
<1>6. ASSUME NEW f, t = Layer(Marker(f, Layer(b, n, l)), outer, FALSE)
      PROVE  LET r == ApplyStack(y, ResultStack(tr, call))
             IN /\ WellWrapped(r)
                /\ ArgumentNullable(r) <=> \/ tr.nullable = "keep" /\ ArgumentNullable(t)
                                           \/ tr.nullable = "add"
  <2>1. \E g, x : call.stack.marker = Marker(g, x)
    BY <1>5, <1>6
  <2>2. KeepsLowCardinality(tr.lowCardinality, call) => call.stack.innerLowCardinality
    BY <1>5, <1>6 DEF KeepsLowCardinality
  <2>3. s.nullable <=> ArgumentNullable(t)
    BY <1>5, <1>6
  <2> QED
    BY <1>3, <2>1, <2>2, <2>3, TransportCarriesNull
<1> QED
  BY <1>2, <1>4, <1>6

(***************************************************************************)
(* The Go type of a column, at every depth.                                *)
(***************************************************************************)
\* go gives the Go type of each type of D, of any depth: what GoType unfolds to.
GoesTo(D, go, wide) ==
    \A t \in D : /\ t.params \in Seq(D)
                 /\ go[t] = GoNode(t, [i \in DOMAIN t.params |-> go[t.params[i]]], wide[t])
\* The types a declaration can denote: what parseCHType lets through.
Shaped(t) ==
    /\ t.name \in {"LowCardinality", "Nullable", "Array"} => Len(t.params) = 1
    /\ t.name \in {"SimpleAggregateFunction", "Map"} => Len(t.params) = 2

LEMMA PlaceOfOne ==
  ASSUME NEW D, NEW s \in Seq(D), Len(s) = 1
  PROVE  1 \in DOMAIN s /\ DOMAIN s = {1} /\ s[1] \in D
OBVIOUS

LEMMA PlacesOfTwo ==
  ASSUME NEW D, NEW s \in Seq(D), Len(s) = 2
  PROVE  1 \in DOMAIN s /\ 2 \in DOMAIN s /\ DOMAIN s = {1, 2} /\ s[1] \in D /\ s[2] \in D
OBVIOUS

LEMMA LeafNames ==
  ASSUME NEW n \in DOMAIN GoLeaf
  PROVE  /\ GoLeaf[n] \notin {"*", "[]", "map", "refused"}
         /\ GoLeaf[n] = "time.Time" <=> n \in DateNames
         /\ n \notin {"LowCardinality", "Nullable", "Array", "Map", "SimpleAggregateFunction", "AggregateFunction"}
BY DEF GoLeaf, DateNames

LEMMA DatesHaveLeaves == DateNames \subseteq DOMAIN GoLeaf
BY DEF GoLeaf, DateNames

\* The Go type of one node: what it is made of.
LEMMA GoRules ==
  ASSUME NEW t, NEW gos, NEW wide
  PROVE  LET go == GoNode(t, gos, wide)
             inner == gos[Len(t.params)]
         IN /\ t.name \in {"LowCardinality", "SimpleAggregateFunction"} => go = inner
            /\ t.name = "Nullable" => \/ go = inner /\ (Fails(inner) \/ inner.name = "*")
                                      \/ go = Wrap("*", <<inner>>) /\ inner.name # "*" /\ ~Fails(inner)
            /\ t.name = "Array" => Fails(go) \/ (go = Wrap("[]", <<inner>>) /\ ~Fails(inner))
            /\ t.name = "Map" => Fails(go) \/ (go = Wrap("map", <<gos[1], inner>>) /\ ~Fails(inner) /\ ~Fails(gos[1]))
            /\ t.name \in DOMAIN GoLeaf => go = Type(GoLeaf[t.name])
            /\ t.name \notin {"LowCardinality", "SimpleAggregateFunction", "Nullable", "Array", "Map"} \cup DOMAIN GoLeaf
               => Fails(go)
<1> DEFINE go == GoNode(t, gos, wide)
           inner == gos[Len(t.params)]
<1>0. Fails(Refused)
  BY DEF Fails, Refused, Type
<1>1. t.name \in {"LowCardinality", "SimpleAggregateFunction"} => go = inner
  BY LeafNames DEF GoNode, Is
<1>2. t.name = "Nullable" => go = IF Fails(inner) \/ Is(inner, "*") THEN inner ELSE Wrap("*", <<inner>>)
  BY LeafNames DEF GoNode, Is
<1>3. t.name = "Array" => go = IF Fails(inner) THEN Refused ELSE Wrap("[]", <<inner>>)
  BY LeafNames DEF GoNode, Is
<1>4. t.name = "Map" => go = IF wide \/ Fails(gos[1]) \/ Fails(inner) \/ gos[1].name \in {"*", "net.IP"}
                             THEN Refused ELSE Wrap("map", <<gos[1], inner>>)
  BY LeafNames DEF GoNode, Is
<1>5. t.name \in DOMAIN GoLeaf => go = Type(GoLeaf[t.name])
  BY LeafNames DEF GoNode, Is
<1>6. t.name \notin {"LowCardinality", "SimpleAggregateFunction", "Nullable", "Array", "Map"} \cup DOMAIN GoLeaf
      => go = Refused
  BY DEF GoNode, Is
<1> HIDE DEF go, inner
<1>7. t.name = "Nullable" => \/ go = inner /\ (Fails(inner) \/ inner.name = "*")
                             \/ go = Wrap("*", <<inner>>) /\ inner.name # "*" /\ ~Fails(inner)
  BY <1>2 DEF Is
<1>8. t.name = "Array" => Fails(go) \/ (go = Wrap("[]", <<inner>>) /\ ~Fails(inner))
  BY <1>0, <1>3
<1>9. t.name = "Map" => Fails(go) \/ (go = Wrap("map", <<gos[1], inner>>) /\ ~Fails(inner) /\ ~Fails(gos[1]))
  BY <1>0, <1>4
<1> QED
  BY <1>0, <1>1, <1>5, <1>6, <1>7, <1>8, <1>9 DEF go, inner

\* What go gives a type of one or two parameters, and any other.
GoRule(D, go, t) ==
    /\ t.name \in {"LowCardinality", "SimpleAggregateFunction"} =>
          Inner(t) \in D /\ go[t] = go[Inner(t)]
    /\ t.name = "Nullable" =>
          /\ Inner(t) \in D
          /\ \/ go[t] = go[Inner(t)] /\ (Fails(go[t]) \/ go[t].name = "*")
             \/ /\ go[t] = Wrap("*", <<go[Inner(t)]>>)
                /\ go[Inner(t)].name # "*" /\ ~Fails(go[Inner(t)])
    /\ t.name = "Array" =>
          /\ Inner(t) \in D
          /\ Fails(go[t]) \/ (go[t] = Wrap("[]", <<go[Inner(t)]>>) /\ ~Fails(go[Inner(t)]))
    /\ t.name = "Map" =>
          /\ t.params[1] \in D /\ t.params[2] \in D
          /\ \/ Fails(go[t])
             \/ /\ go[t] = Wrap("map", <<go[t.params[1]], go[t.params[2]]>>)
                /\ ~Fails(go[t.params[1]]) /\ ~Fails(go[t.params[2]])
    /\ t.name \in DOMAIN GoLeaf => go[t] = Type(GoLeaf[t.name])
    /\ \/ t.name \in {"LowCardinality", "SimpleAggregateFunction", "Nullable", "Array", "Map"}
       \/ t.name \in DOMAIN GoLeaf
       \/ Fails(go[t])

LEMMA GoOfNode ==
  ASSUME NEW D, NEW go, NEW wide, GoesTo(D, go, wide), NEW t \in D, Shaped(t)
  PROVE  GoRule(D, go, t)
<1> DEFINE gos == [i \in DOMAIN t.params |-> go[t.params[i]]]
           last == gos[Len(t.params)]
<1>1. t.params \in Seq(D) /\ go[t] = GoNode(t, gos, wide[t])
  BY DEF GoesTo
<1>2. t.name \in {"LowCardinality", "Nullable", "Array", "SimpleAggregateFunction", "Map"} =>
        Inner(t) \in D /\ last = go[Inner(t)]
  <2>1. Len(t.params) \in {1, 2} => Inner(t) \in D /\ last = go[Inner(t)]
    BY <1>1, PlaceOfOne, PlacesOfTwo DEF Inner
  <2> QED
    BY <2>1 DEF Shaped
<1>3. t.name = "Map" => /\ t.params[1] \in D /\ t.params[2] \in D
                        /\ gos[1] = go[t.params[1]] /\ last = go[t.params[2]]
  <2>1. t.name = "Map" => Len(t.params) = 2
    BY DEF Shaped
  <2> QED
    BY <1>1, <2>1, PlacesOfTwo
<1> DEFINE node == GoNode(t, gos, wide[t])
<1>4. /\ t.name \in {"LowCardinality", "SimpleAggregateFunction"} => node = last
      /\ t.name = "Nullable" => \/ node = last /\ (Fails(last) \/ last.name = "*")
                                \/ node = Wrap("*", <<last>>) /\ last.name # "*" /\ ~Fails(last)
      /\ t.name = "Array" => Fails(node) \/ (node = Wrap("[]", <<last>>) /\ ~Fails(last))
      /\ t.name = "Map" => Fails(node) \/ (node = Wrap("map", <<gos[1], last>>) /\ ~Fails(last) /\ ~Fails(gos[1]))
      /\ t.name \in DOMAIN GoLeaf => node = Type(GoLeaf[t.name])
      /\ t.name \notin {"LowCardinality", "SimpleAggregateFunction", "Nullable", "Array", "Map"} \cup DOMAIN GoLeaf
         => Fails(node)
  <2> HIDE DEF gos
  <2> QED
    BY GoRules
<1>5. go[t] = node
  BY <1>1
<1> HIDE DEF gos, last, node
<1> QED
  BY <1>2, <1>3, <1>4, <1>5 DEF GoRule

LEMMA PlainHasNoPointer ==
  ASSUME NEW D, NEW go, NEW wide, GoesTo(D, go, wide), NEW b \in D, Shaped(b), Plainly(b), ~Fails(go[b])
  PROVE  go[b].name # "*"
<1>1. b.name \notin {"LowCardinality", "SimpleAggregateFunction", "Nullable"}
  BY DEF Plainly, Layered, IsMarked, Is
<1>2. GoRule(D, go, b)
  BY GoOfNode
<1>3. \/ \E x : go[b] = Wrap("[]", x)
      \/ \E x : go[b] = Wrap("map", x)
      \/ b.name \in DOMAIN GoLeaf /\ go[b] = Type(GoLeaf[b.name])
  BY <1>1, <1>2 DEF GoRule
<1> QED
  BY <1>3, LeafNames, WrapIs DEF Type

LEMMA WrappedGo ==
  ASSUME NEW D, NEW go, NEW wide, GoesTo(D, go, wide), \A d \in D : Shaped(d), NEW x, NEW n, Wrap(n, <<x>>) \in D
  PROVE  /\ n = "LowCardinality" => x \in D /\ go[Wrap(n, <<x>>)] = go[x]
         /\ n = "Nullable" /\ ~Fails(go[Wrap(n, <<x>>)]) =>
              x \in D /\ go[Wrap(n, <<x>>)].name = "*" /\ ~Fails(go[x])
<1> DEFINE t == Wrap(n, <<x>>)
<1>1. t.name = n /\ Inner(t) = x
  BY WrapOne
<1>2. t \in D /\ Shaped(t)
  OBVIOUS
<1> HIDE DEF t
<1>3. GoRule(D, go, t)
  BY <1>2, GoOfNode
<1>4. n = "Nullable" =>
        /\ x \in D
        /\ \/ go[t] = go[x] /\ (Fails(go[t]) \/ go[t].name = "*")
           \/ go[t] = Wrap("*", <<go[x]>>) /\ go[x].name # "*" /\ ~Fails(go[x])
  BY <1>1, <1>3 DEF GoRule
<1>6. n = "LowCardinality" => x \in D /\ go[t] = go[x]
  BY <1>1, <1>3 DEF GoRule
<1>5. n = "Nullable" /\ ~Fails(go[t]) => x \in D /\ go[t].name = "*" /\ ~Fails(go[x])
  BY <1>4, WrapOne
<1> QED
  BY <1>5, <1>6 DEF t

PointerOf(D, go, x, n, t) == x \in D /\ ~Fails(go[x]) /\ (go[t].name = "*" <=> n \/ go[x].name = "*")
LEMMA LayerGo ==
  ASSUME NEW D, NEW go, NEW wide, GoesTo(D, go, wide), \A d \in D : Shaped(d), NEW x, NEW t \in D,
         NEW n \in BOOLEAN, NEW l \in BOOLEAN, t = Layer(x, n, l), ~Fails(go[t])
  PROVE  PointerOf(D, go, x, n, t)
<1> DEFINE u == IF n THEN Wrap("Nullable", <<x>>) ELSE x
<1>1. t = IF l THEN Wrap("LowCardinality", <<u>>) ELSE u
  BY DEF Layer
<1>2. t \in D /\ ~Fails(go[t])
  OBVIOUS
<1>3. u \in D /\ go[t] = go[u]
  <2> HIDE DEF u
  <2>1. CASE l
    <3>1. t = Wrap("LowCardinality", <<u>>)
      BY <1>1, <2>1
    <3> QED
      BY <1>2, <3>1, WrappedGo
  <2> QED
    BY <1>1, <1>2, <2>1
<1>4. x \in D /\ ~Fails(go[x]) /\ (go[u].name = "*" <=> n \/ go[x].name = "*")
  <2>1. CASE n
    <3>1. u = Wrap("Nullable", <<x>>)
      BY <2>1
    <3> HIDE DEF u
    <3> QED
      BY <1>2, <1>3, <2>1, <3>1, WrappedGo
  <2>2. CASE ~n
    BY <1>2, <1>3, <2>2
  <2> QED
    BY <2>1, <2>2
<1> HIDE DEF u
<1> QED
  BY <1>3, <1>4 DEF PointerOf

\* The Go type of a column is a pointer exactly when a row of the column can hold
\* NULL, inside a marker or outside: the driver scans NULL into nothing else, and
\* a pointer for a value that is never NULL would be a check no caller needs
\* (goType, gotype.go:60-185).
THEOREM APointerIsANull ==
  ASSUME NEW D, NEW go, NEW wide, GoesTo(D, go, wide), \A d \in D : Shaped(d),
         NEW t \in D, WellWrapped(t), ~Fails(go[t])
  PROVE  go[t].name = "*" <=> ArgumentNullable(t)
<1>1. PICK b : \E n, l, outer \in BOOLEAN :
        /\ Plainly(b)
        /\ n => CanBeInsideNullable(b)
        /\ l => ~ResultRejectsLowCardinality(b)
        /\ \/ t = Layer(b, n, l)
           \/ \E f : t = Layer(Marker(f, Layer(b, n, l)), outer, FALSE)
  BY DEF WellWrapped
<1>2. PICK n \in BOOLEAN, l \in BOOLEAN, outer \in BOOLEAN :
        /\ Plainly(b)
        /\ \/ t = Layer(b, n, l)
           \/ \E f : t = Layer(Marker(f, Layer(b, n, l)), outer, FALSE)
  BY <1>1
<1>3. CASE t = Layer(b, n, l)
  <2>1. PointerOf(D, go, b, n, t)
    BY <1>3, LayerGo
  <2>2. go[b].name # "*"
    BY <1>2, <2>1, PlainHasNoPointer DEF PointerOf
  <2>3. ArgumentNullable(t) <=> n
    BY <1>2, <1>3, NullOfLayers
  <2> QED
    BY <2>1, <2>2, <2>3 DEF PointerOf
<1>4. ASSUME NEW f, t = Layer(Marker(f, Layer(b, n, l)), outer, FALSE)
      PROVE  go[t].name = "*" <=> ArgumentNullable(t)
  <2> DEFINE x == Layer(b, n, l)
             m == Marker(f, x)
  <2>1. PointerOf(D, go, m, outer, t)
    <3>1. t = Layer(m, outer, FALSE)
      BY <1>4
    <3> HIDE DEF m
    <3> QED
      BY <3>1, LayerGo
  <2>2. m.name = "SimpleAggregateFunction" /\ Inner(m) = x
    BY MarkerIs
  <2>3. x \in D /\ go[m] = go[x] /\ ~Fails(go[x])
    <3> HIDE DEF m, x
    <3>1. m \in D /\ Shaped(m) /\ ~Fails(go[m])
      BY <2>1 DEF PointerOf
    <3>2. GoRule(D, go, m)
      BY <3>1, GoOfNode
    <3> QED
      BY <2>2, <3>1, <3>2 DEF GoRule
  <2>4. PointerOf(D, go, b, n, x)
    <3>1. x = Layer(b, n, l)
      OBVIOUS
    <3> HIDE DEF x
    <3> QED
      BY <2>3, <3>1, LayerGo
  <2>5. go[b].name # "*"
    BY <1>2, <2>4, PlainHasNoPointer DEF PointerOf
  <2>6. ArgumentNullable(t) <=> outer \/ n
    BY <1>2, <1>4, NullOfLayers
  <2> HIDE DEF m, x
  <2> QED
    BY <2>1, <2>3, <2>4, <2>5, <2>6 DEF PointerOf
<1> QED
  BY <1>2, <1>3, <1>4

(***************************************************************************)
(* The range guard of a column walks the Go type of the column.            *)
(***************************************************************************)
\* What GuardedPaths and TimePaths unfold to.
GuardedIn(D, guarded) ==
    \A t \in D : guarded[t] = GuardedNode(t, [i \in DOMAIN t.params |-> guarded[t.params[i]]])
TimesIn(G, times) ==
    \A g \in G : /\ g.params \in Seq(G)
                 /\ times[g] = TimeNode(g, [i \in DOMAIN g.params |-> times[g.params[i]]])
\* A path ends in the family that is checked; without it, it is a path of the Go value.
Steps == {"element", "key", "value"} \cup DateNames
Paths == {p \in Seq(Steps) : p # <<>>}
Reach(p) == SubSeq(p, 1, Len(p) - 1)
Reached(ps) == {Reach(p) : p \in ps}

LEMMA CutAfterOne ==
  ASSUME NEW S, NEW p \in Seq(S), p # <<>>, NEW step \in S
  PROVE  /\ <<step>> \o p \in Seq(S) /\ <<step>> \o p # <<>>
         /\ Reach(<<step>> \o p) = <<step>> \o Reach(p)
<1> DEFINE n == Len(p)
           q == <<step>> \o p
           r == <<step>> \o Reach(p)
<1>1. n \in Nat /\ n >= 1 /\ \A i \in 1 .. n : p[i] \in S
  BY EmptySeq, LenProperties
<1>2. /\ q \in Seq(S) /\ Len(q) = n + 1
      /\ \A i \in 1 .. n + 1 : q[i] = IF i = 1 THEN step ELSE p[i - 1]
  <2>1. <<step>> \in Seq(S) /\ Len(<<step>>) = 1 /\ <<step>>[1] = step
    OBVIOUS
  <2> QED
    BY <1>1, <2>1, ConcatProperties
<1>3. q # <<>>
  BY <1>1, <1>2
<1>4. /\ Reach(p) \in Seq(S) /\ Len(Reach(p)) = n - 1
      /\ \A i \in 1 .. n - 1 : Reach(p)[i] = p[i]
  <2>1. Reach(p) = SubSeq(p, 1, n - 1) /\ n - 1 \in Int /\ \A i \in 1 .. n - 1 : p[i] \in S
    BY <1>1 DEF Reach
  <2> HIDE DEF n
  <2>2. /\ SubSeq(p, 1, n - 1) \in Seq(S) /\ Len(SubSeq(p, 1, n - 1)) = IF 1 <= n - 1 THEN n - 1 - 1 + 1 ELSE 0
        /\ \A i \in 1 .. n - 1 - 1 + 1 : SubSeq(p, 1, n - 1)[i] = p[1 + i - 1]
    BY <2>1, SubSeqProperties
  <2> QED
    BY <1>1, <2>1, <2>2
<1>5. /\ r \in Seq(S) /\ Len(r) = n
      /\ \A i \in 1 .. n : r[i] = IF i = 1 THEN step ELSE Reach(p)[i - 1]
  <2>1. <<step>> \in Seq(S) /\ Len(<<step>>) = 1 /\ <<step>>[1] = step
    OBVIOUS
  <2> QED
    BY <1>1, <1>4, <2>1, ConcatProperties
<1> HIDE DEF n, q, r
<1>6. /\ Reach(q) \in Seq(S) /\ Len(Reach(q)) = n
      /\ \A i \in 1 .. n : Reach(q)[i] = q[i]
  BY <1>1, <1>2, SubSeqProperties DEF Reach
<1>7. \A i \in 1 .. n : Reach(q)[i] = r[i]
  <2> SUFFICES ASSUME NEW i \in 1 .. n PROVE Reach(q)[i] = r[i]
    OBVIOUS
  <2>1. i \in 1 .. n + 1 /\ (i # 1 => i - 1 \in 1 .. n - 1)
    BY <1>1
  <2> QED
    BY <1>2, <1>4, <1>5, <1>6, <2>1
<1>8. Reach(q) = r
  BY <1>5, <1>6, <1>7, SeqEqual
<1> QED
  BY <1>2, <1>3, <1>8 DEF q, r

LEMMA ReachThrough ==
  ASSUME NEW p \in Paths, NEW step \in Steps
  PROVE  <<step>> \o p \in Paths /\ Reach(<<step>> \o p) = <<step>> \o Reach(p)
<1>1. p \in Seq(Steps) /\ p # <<>>
  BY DEF Paths
<1> QED
  BY <1>1, CutAfterOne DEF Paths

LEMMA ReachedThrough ==
  ASSUME NEW ps \in SUBSET Paths, NEW step \in Steps
  PROVE  Through(step, ps) \subseteq Paths /\ Reached(Through(step, ps)) = Through(step, Reached(ps))
<1>1. \A p \in ps : <<step>> \o p \in Paths /\ Reach(<<step>> \o p) = <<step>> \o Reach(p)
  BY ReachThrough
<1>2. Through(step, ps) \subseteq Paths
  BY <1>1 DEF Through
<1>3. \A x : x \in Reached(Through(step, ps)) <=> \E p \in ps : x = Reach(<<step>> \o p)
  BY DEF Reached, Through
<1>4. \A x : x \in Through(step, Reached(ps)) <=> \E p \in ps : x = <<step>> \o Reach(p)
  BY DEF Reached, Through
<1>5. ASSUME NEW x PROVE x \in Reached(Through(step, ps)) <=> x \in Through(step, Reached(ps))
  <2>1. ASSUME x \in Reached(Through(step, ps)) PROVE x \in Through(step, Reached(ps))
    <3>1. PICK p \in ps : x = Reach(<<step>> \o p)
      BY <1>3, <2>1
    <3> QED
      BY <1>1, <1>4, <3>1
  <2>2. ASSUME x \in Through(step, Reached(ps)) PROVE x \in Reached(Through(step, ps))
    <3>1. PICK p \in ps : x = <<step>> \o Reach(p)
      BY <1>4, <2>2
    <3> QED
      BY <1>1, <1>3, <3>1
  <2> QED
    BY <2>1, <2>2
<1>6. Reached(Through(step, ps)) = Through(step, Reached(ps))
  BY <1>5, Zenon
<1> QED
  BY <1>2, <1>6

LEMMA ReachedUnion ==
  ASSUME NEW ps, NEW qs
  PROVE  Reached(ps \cup qs) = Reached(ps) \cup Reached(qs)
BY DEF Reached

LEMMA ReachedMoment ==
  ASSUME NEW n \in Steps
  PROVE  {<<n>>} \subseteq Paths /\ Reached({<<n>>}) = {<<>>}
<1>1. <<n>> \in Seq(Steps) /\ <<n>> # <<>>
  OBVIOUS
<1>2. Reach(<<n>>) = <<>>
  BY DEF Reach
<1> QED
  BY <1>1, <1>2 DEF Reached, Paths

\* The guard of t reaches what the Go type g of t holds.
Matches(guarded, times, t, g) == guarded[t] \subseteq Paths /\ times[g] = Reached(guarded[t])

LEMMA SteppedThrough ==
  ASSUME NEW guarded, NEW times, NEW t, NEW g, Matches(guarded, times, t, g), NEW step \in Steps
  PROVE  /\ Through(step, guarded[t]) \subseteq Paths
         /\ Through(step, times[g]) = Reached(Through(step, guarded[t]))
BY ReachedThrough DEF Matches

LEMMA GuardOfLeaf ==
  ASSUME NEW D, NEW guarded, GuardedIn(D, guarded), NEW t \in D, t.name \in DOMAIN GoLeaf
  PROVE  guarded[t] = IF t.name \in DateNames THEN {<<t.name>>} ELSE {}
BY LeafNames DEF GuardedIn, GuardedNode, Is, IsDate

LEMMA TimesOfLeaf ==
  ASSUME NEW G, NEW times, TimesIn(G, times), NEW g \in G, g.name \notin {"*", "[]", "map"}
  PROVE  times[g] = IF g.name = "time.Time" THEN {<<>>} ELSE {}
BY DEF TimesIn, TimeNode, Is

LEMMA GuardOfWrapper ==
  ASSUME NEW D, NEW go, NEW wide, GoesTo(D, go, wide), NEW guarded, GuardedIn(D, guarded),
         NEW t \in D, Shaped(t)
  PROVE  /\ t.name \in {"LowCardinality", "Nullable"} => guarded[t] = guarded[Inner(t)]
         /\ t.name = "Array" => guarded[t] = Through("element", guarded[Inner(t)])
         /\ t.name = "Map" =>
              guarded[t] = Through("key", guarded[t.params[1]]) \cup Through("value", guarded[t.params[2]])
<1> DEFINE below == [i \in DOMAIN t.params |-> guarded[t.params[i]]]
<1>1. guarded[t] = GuardedNode(t, below) /\ t.params \in Seq(D)
  BY DEF GuardedIn, GoesTo
<1>2. Len(t.params) = 1 => below[1] = guarded[Inner(t)]
  BY <1>1, PlaceOfOne DEF Inner
<1>3. Len(t.params) = 2 => below[1] = guarded[t.params[1]] /\ below[2] = guarded[t.params[2]]
  BY <1>1, PlacesOfTwo
<1> HIDE DEF below
<1>4. t.name \in {"LowCardinality", "Nullable"} => GuardedNode(t, below) = below[1]
  BY DatesHaveLeaves, LeafNames DEF GuardedNode, Is, IsDate
<1>5. t.name = "Array" => GuardedNode(t, below) = Through("element", below[1])
  BY DatesHaveLeaves, LeafNames DEF GuardedNode, Is, IsDate
<1>6. t.name = "Map" => GuardedNode(t, below) = Through("key", below[1]) \cup Through("value", below[2])
  BY DatesHaveLeaves, LeafNames DEF GuardedNode, Is, IsDate
<1> QED
  BY <1>1, <1>2, <1>3, <1>4, <1>5, <1>6 DEF Shaped

LEMMA TimesBelow ==
  ASSUME NEW G, NEW times, TimesIn(G, times), NEW g \in G, NEW n, NEW x, g = Wrap(n, <<x>>)
  PROVE  g.name = n /\ x \in G /\ \E below : times[g] = TimeNode(g, below) /\ below[1] = times[x]
<1> DEFINE below == [i \in DOMAIN g.params |-> times[g.params[i]]]
<1>1. g.name = n /\ g.params = <<x>>
  BY WrapIs
<1>2. g.params \in Seq(G) /\ times[g] = TimeNode(g, below)
  BY DEF TimesIn
<1>3. Len(g.params) = 1 /\ g.params[1] = x
  BY <1>1
<1>4. x \in G /\ below[1] = times[x]
  BY <1>2, <1>3, PlaceOfOne
<1> QED
  BY <1>1, <1>2, <1>4

LEMMA TimesOfPointer ==
  ASSUME NEW G, NEW times, TimesIn(G, times), NEW g \in G, NEW x, g = Wrap("*", <<x>>)
  PROVE  times[g] = times[x]
<1>1. PICK below : times[g] = TimeNode(g, below) /\ below[1] = times[x]
  BY TimesBelow
<1>2. g.name = "*"
  BY TimesBelow
<1> QED
  BY <1>1, <1>2 DEF TimeNode, Is

LEMMA TimesOfSlice ==
  ASSUME NEW G, NEW times, TimesIn(G, times), NEW g \in G, NEW x, g = Wrap("[]", <<x>>)
  PROVE  times[g] = Through("element", times[x])
<1>1. PICK below : times[g] = TimeNode(g, below) /\ below[1] = times[x]
  BY TimesBelow
<1>2. g.name = "[]"
  BY TimesBelow
<1> QED
  BY <1>1, <1>2 DEF TimeNode, Is

LEMMA TimesOfMap ==
  ASSUME NEW G, NEW times, TimesIn(G, times), NEW g \in G, NEW x, NEW y, g = Wrap("map", <<x, y>>)
  PROVE  times[g] = Through("key", times[x]) \cup Through("value", times[y])
<1> DEFINE below == [i \in DOMAIN g.params |-> times[g.params[i]]]
<1>1. g.name = "map" /\ g.params = <<x, y>>
  BY WrapIs
<1>2. g.params \in Seq(G) /\ times[g] = TimeNode(g, below)
  BY DEF TimesIn
<1>3. Len(g.params) = 2 /\ g.params[1] = x /\ g.params[2] = y
  BY <1>1
<1>4. below[1] = times[x] /\ below[2] = times[y]
  BY <1>2, <1>3, PlacesOfTwo
<1> HIDE DEF below
<1> QED
  BY <1>1, <1>2, <1>4 DEF TimeNode, Is

\* One node: if the guard matches the Go type of every parameter, it matches the
\* Go type of the node.
LEMMA GuardMatchesNode ==
  ASSUME NEW D, NEW go, NEW wide, GoesTo(D, go, wide), NEW guarded, GuardedIn(D, guarded),
         NEW G, NEW times, TimesIn(G, times), NEW t \in D, Shaped(t), ~IsMarked(t), go[t] \in G, ~Fails(go[t]),
         \A i \in DOMAIN t.params : ~Fails(go[t.params[i]]) =>
            Matches(guarded, times, t.params[i], go[t.params[i]])
  PROVE  Matches(guarded, times, t, go[t])
<1>1. GoRule(D, go, t)
  BY GoOfNode
<1>2. t.params \in Seq(D)
  BY DEF GoesTo
<1>3. t.name # "SimpleAggregateFunction"
  BY DEF IsMarked, Is
<1>4. ASSUME Len(t.params) \in {1, 2}, ~Fails(go[Inner(t)])
      PROVE  Matches(guarded, times, Inner(t), go[Inner(t)])
  <2>1. \E i \in DOMAIN t.params : Inner(t) = t.params[i]
    BY <1>2, <1>4, PlaceOfOne, PlacesOfTwo DEF Inner
  <2> QED
    BY <1>4, <2>1
<1>5. CASE t.name = "LowCardinality"
  <2>1. Len(t.params) = 1 /\ go[t] = go[Inner(t)] /\ guarded[t] = guarded[Inner(t)]
    BY <1>1, <1>5, GuardOfWrapper DEF GoRule, Shaped
  <2> QED
    BY <1>4, <2>1 DEF Matches
<1>6. CASE t.name = "Nullable"
  <2>1. Len(t.params) = 1 /\ guarded[t] = guarded[Inner(t)]
    BY <1>6, GuardOfWrapper DEF Shaped
  <2>2. /\ ~Fails(go[Inner(t)])
        /\ go[t] = go[Inner(t)] \/ go[t] = Wrap("*", <<go[Inner(t)]>>)
    BY <1>1, <1>6 DEF GoRule
  <2>3. times[go[t]] = times[go[Inner(t)]]
    <3> DEFINE x == go[Inner(t)]
    <3>1. go[t] = x \/ go[t] = Wrap("*", <<x>>)
      BY <2>2
    <3> HIDE DEF x
    <3>2. times[go[t]] = times[x]
      BY <3>1, TimesOfPointer
    <3> QED
      BY <3>2 DEF x
  <2>4. Matches(guarded, times, Inner(t), go[Inner(t)])
    BY <1>4, <2>1, <2>2
  <2> QED
    BY <2>1, <2>3, <2>4 DEF Matches
<1>7. CASE t.name = "Array"
  <2>1. Len(t.params) = 1 /\ guarded[t] = Through("element", guarded[Inner(t)])
    BY <1>7, GuardOfWrapper DEF Shaped
  <2>2. ~Fails(go[Inner(t)]) /\ go[t] = Wrap("[]", <<go[Inner(t)]>>)
    BY <1>1, <1>7 DEF GoRule
  <2>3. times[go[t]] = Through("element", times[go[Inner(t)]])
    <3> DEFINE x == go[Inner(t)]
    <3>1. go[t] = Wrap("[]", <<x>>)
      BY <2>2
    <3> HIDE DEF x
    <3>2. times[go[t]] = Through("element", times[x])
      BY <3>1, TimesOfSlice
    <3> QED
      BY <3>2 DEF x
  <2>4. Matches(guarded, times, Inner(t), go[Inner(t)])
    BY <1>4, <2>1, <2>2
  <2>5. /\ Through("element", guarded[Inner(t)]) \subseteq Paths
        /\ Through("element", times[go[Inner(t)]]) = Reached(Through("element", guarded[Inner(t)]))
    BY <2>4, SteppedThrough DEF Steps
  <2> QED
    BY <2>1, <2>3, <2>5 DEF Matches
<1>8. CASE t.name = "Map"
  <2> DEFINE k == t.params[1]
             v == t.params[2]
  <2>1. /\ Len(t.params) = 2
        /\ guarded[t] = Through("key", guarded[k]) \cup Through("value", guarded[v])
    BY <1>8, GuardOfWrapper DEF Shaped
  <2>2. ~Fails(go[k]) /\ ~Fails(go[v]) /\ go[t] = Wrap("map", <<go[k], go[v]>>)
    BY <1>1, <1>8 DEF GoRule
  <2>3. times[go[t]] = Through("key", times[go[k]]) \cup Through("value", times[go[v]])
    <3> DEFINE x == go[k]
               y == go[v]
    <3>1. go[t] = Wrap("map", <<x, y>>)
      BY <2>2
    <3> HIDE DEF x, y
    <3>2. times[go[t]] = Through("key", times[x]) \cup Through("value", times[y])
      BY <3>1, TimesOfMap
    <3> QED
      BY <3>2 DEF x, y
  <2>4. Matches(guarded, times, k, go[k]) /\ Matches(guarded, times, v, go[v])
    BY <1>2, <2>1, <2>2, PlacesOfTwo
  <2> HIDE DEF k, v
  <2>5. /\ Through("key", guarded[k]) \subseteq Paths /\ Through("value", guarded[v]) \subseteq Paths
        /\ Through("key", times[go[k]]) = Reached(Through("key", guarded[k]))
        /\ Through("value", times[go[v]]) = Reached(Through("value", guarded[v]))
    BY <2>4, SteppedThrough DEF Steps
  <2> QED
    BY <2>1, <2>3, <2>5, ReachedUnion DEF Matches
<1>9. CASE t.name \in DOMAIN GoLeaf
  <2>1. go[t].name = GoLeaf[t.name]
    BY <1>1, <1>9 DEF GoRule, Type
  <2>2. /\ guarded[t] = IF t.name \in DateNames THEN {<<t.name>>} ELSE {}
        /\ times[go[t]] = IF t.name \in DateNames THEN {<<>>} ELSE {}
    BY <1>9, <2>1, GuardOfLeaf, TimesOfLeaf, LeafNames
  <2>3. t.name \in DateNames => t.name \in Steps
    BY DEF Steps
  <2>4. Reached({}) = {}
    BY DEF Reached
  <2> QED
    BY <2>2, <2>3, <2>4, ReachedMoment DEF Matches
<1> QED
  BY <1>1, <1>3, <1>5, <1>6, <1>7, <1>8, <1>9 DEF GoRule

\* The generated range guard of a column walks the Go value of the column whole,
\* at every depth: it checks exactly the places where the Go type has a time.Time,
\* in slices, as keys and values of maps and behind pointers (temporalShapeOf,
\* temporal.go:186-242, against goType, gotype.go:60-185).  Inside a marker the
\* walk stops, so the theorem is about types without one.
THEOREM TheGuardReachesEveryTime ==
  ASSUME NEW D, NEW go, NEW wide, GoesTo(D, go, wide), NEW guarded, GuardedIn(D, guarded),
         NEW G, NEW times, TimesIn(G, times), \A t \in D : Shaped(t) /\ ~IsMarked(t) /\ go[t] \in G,
         NEW depth \in [D -> Nat],
         \A t \in D : \A i \in DOMAIN t.params : depth[t.params[i]] < depth[t]
  PROVE  \A t \in D : ~Fails(go[t]) => times[go[t]] = {SubSeq(p, 1, Len(p) - 1) : p \in guarded[t]}
<1> DEFINE bad == {t \in D : ~Fails(go[t]) /\ ~Matches(guarded, times, t, go[t])}
           T == {depth[t] : t \in bad}
<1>1. bad = {}
  <2>1. SUFFICES ASSUME bad # {} PROVE FALSE
    OBVIOUS
  <2>2. T \in SUBSET Nat /\ T # {}
    BY <2>1
  <2>3. PICK n \in T : \A m \in T : n <= m
    <3> HIDE DEF T
    <3> QED
      BY <2>2, LeastNumber
  <2>4. PICK t \in bad : depth[t] = n
    BY <2>3
  <2>5. \A x \in bad : depth[t] <= depth[x]
    BY <2>3, <2>4
  <2>6. t \in D /\ ~Fails(go[t]) /\ ~Matches(guarded, times, t, go[t]) /\ t.params \in Seq(D)
    BY <2>4 DEF GoesTo
  <2>7. ASSUME NEW i \in DOMAIN t.params, ~Fails(go[t.params[i]])
        PROVE  Matches(guarded, times, t.params[i], go[t.params[i]])
    <3>1. t.params[i] \in D
      BY <2>6
    <3>2. depth[t.params[i]] \in Nat /\ depth[t] \in Nat /\ depth[t.params[i]] < depth[t]
      BY <2>6, <3>1
    <3>3. t.params[i] \notin bad
      <4> HIDE DEF bad
      <4> QED
        BY <2>5, <3>2
    <3> QED
      BY <2>7, <3>1, <3>3
  <2> HIDE DEF bad, T
  <2> QED
    BY <2>6, <2>7, GuardMatchesNode
<1>2. \A t \in D : ~Fails(go[t]) => Matches(guarded, times, t, go[t])
  BY <1>1
<1> QED
  BY <1>2 DEF Matches, Reached, Reach
=============================================================================
