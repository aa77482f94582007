--------------------------- MODULE RecursionTheorems ---------------------------
(***************************************************************************)
(* Induction without an operator as a parameter: an inductive property is  *)
(* given as the set of the numbers that have it, and a loop as the         *)
(* function that each of its passes applies to a value.  With it, numbers  *)
(* are determined by their digits.                                         *)
(***************************************************************************)
EXTENDS Integers, TLAPS, WellFoundedInduction

\* A nonempty set of natural numbers has a least element (the minimal
\* counterexample of a loop's proof).
LEMMA LeastNumber ==
  ASSUME NEW T \in SUBSET Nat, T # {}
  PROVE  \E n \in T : \A m \in T : n <= m
<1> DEFINE R == {ss \in Nat \X Nat : ss[1] < ss[2]}
<1>0. OpToRel(<, Nat) = R
  BY DEF OpToRel
<1>1. IsWellFoundedOn(R, Nat)
  BY NatLessThanWellFounded, <1>0
<1>2. PICK n \in T : \A m \in T : ~(<<m, n>> \in R)
  <2> HIDE DEF R
  <2> QED
    BY <1>1, WFMin, Zenon
<1>3. \A m \in T : n <= m
  <2> SUFFICES ASSUME NEW m \in T, ~(n <= m) PROVE FALSE
    OBVIOUS
  <2>1. <<m, n>> \in Nat \X Nat /\ m < n
    OBVIOUS
  <2> QED
    BY <1>2, <2>1
<1> QED
  BY <1>3

\* A set that holds 0, and each number up to n if it holds the one before, holds
\* all of them (the passes of a loop).
LEMMA UpTo ==
  ASSUME NEW n \in Nat, NEW P, 0 \in P, \A i \in 1 .. n : i - 1 \in P => i \in P
  PROVE  \A i \in 0 .. n : i \in P
<1> DEFINE T == {i \in 0 .. n : i \notin P}
<1>1. SUFFICES ASSUME T # {} PROVE FALSE
  OBVIOUS
<1>2. T \in SUBSET Nat
  OBVIOUS
<1>3. PICK i \in T : \A m \in T : i <= m
  <2> HIDE DEF T
  <2> QED
    BY <1>1, <1>2, LeastNumber
<1>4. i # 0 /\ i \in 1 .. n /\ i - 1 \in 0 .. n
  OBVIOUS
<1>5. i - 1 \in P
  BY <1>3, <1>4
<1> QED
  BY <1>4, <1>5

\* f runs through a loop that starts from first and whose pass i applies Pass[i].
Runs(f, first, n, Pass) == f[0] = first /\ \A i \in 1 .. n : f[i] = Pass[i][f[i - 1]]

\* Every loop has a run.
LEMMA LoopRuns ==
  ASSUME NEW V, NEW first \in V, NEW n \in Nat, NEW Pass \in [1 .. n -> [V -> V]]
  PROVE  \E f \in [0 .. n -> V] : Runs(f, first, n, Pass)
<1> USE DEF Runs
<1> DEFINE P == {m \in 0 .. n : \E f \in [0 .. m -> V] : Runs(f, first, m, Pass)}
<1>1. 0 \in P
  <2>1. [i \in 0 .. 0 |-> first] \in [0 .. 0 -> V] /\ Runs([i \in 0 .. 0 |-> first], first, 0, Pass)
    OBVIOUS
  <2>2. \E f \in [0 .. 0 -> V] : Runs(f, first, 0, Pass)
    BY <2>1, Zenon
  <2> QED
    BY <2>2
<1>2. ASSUME NEW m \in 1 .. n, m - 1 \in P PROVE m \in P
  <2>1. PICK f \in [0 .. (m - 1) -> V] : Runs(f, first, m - 1, Pass)
    BY <1>2
  <2> DEFINE g == [i \in 0 .. m |-> IF i = m THEN Pass[m][f[m - 1]] ELSE f[i]]
  <2>2. m - 1 \in 0 .. (m - 1) /\ f[m - 1] \in V /\ Pass[m][f[m - 1]] \in V
    OBVIOUS
  <2>3. g \in [0 .. m -> V]
    BY <2>2
  <2>4. g[0] = first
    BY <2>1
  <2>5. ASSUME NEW i \in 1 .. m PROVE g[i] = Pass[i][g[i - 1]]
    <3>1. i - 1 \in 0 .. (m - 1) /\ g[i - 1] = f[i - 1]
      OBVIOUS
    <3>2. CASE i = m
      BY <3>1, <3>2
    <3>3. CASE i # m
      <4>1. i \in 1 .. (m - 1) /\ g[i] = f[i]
        BY <3>3
      <4> QED
        BY <4>1, <3>1, <2>1
    <3> QED
      BY <3>2, <3>3
  <2> HIDE DEF g
  <2>6. \E h \in [0 .. m -> V] : Runs(h, first, m, Pass)
    BY <2>3, <2>4, <2>5, Zenon
  <2> HIDE DEF Runs
  <2> QED
    BY <2>6
<1>3. n \in 0 .. n
  OBVIOUS
<1> HIDE DEF P
<1>4. n \in P
  BY <1>1, <1>2, <1>3, UpTo
<1> QED
  BY <1>4 DEF P
-----------------------------------------------------------------------------
(***************************************************************************)
(* Numbers as digits: radix[j] is the number of values of the j-th digit,  *)
(* weight[j] the number of combinations of the first j.                    *)
(***************************************************************************)
Weighs(k, radix, weight) ==
  /\ k \in Nat /\ radix \in [1 .. k -> Nat \ {0}] /\ weight \in [0 .. k -> Nat \ {0}]
  /\ weight[0] = 1
  /\ \A j \in 1 .. k : weight[j] = weight[j - 1] * radix[j]

Digit(m, radix, weight, j) == (m \div weight[j - 1]) % radix[j]
Numerals(k, radix) == {d \in [1 .. k -> Nat] : \A j \in 1 .. k : d[j] < radix[j]}

LEMMA Products ==
  /\ \A a, b \in Nat : a * b \in Nat /\ a * b = b * a
  /\ \A a, b, c \in Nat : a * (b * c) = (a * b) * c
  /\ \A a, b, c \in Nat : a * (b + c) = a * b + a * c
OBVIOUS

LEMMA Division ==
  ASSUME NEW a \in Nat, NEW b \in Nat, b > 0
  PROVE  /\ a \div b \in Nat /\ a % b \in 0 .. (b - 1)
         /\ a = b * (a \div b) + (a % b)
OBVIOUS

LEMMA DivisionUnique ==
  ASSUME NEW a \in Nat, NEW b \in Nat, b > 0, NEW q \in Nat, NEW r \in Nat, r < b, a = b * q + r
  PROVE  a \div b = q /\ a % b = r
OBVIOUS

LEMMA StepsApart ==
  ASSUME NEW b \in Nat, NEW q \in Nat, NEW p \in Nat, q < p
  PROVE  b * q + b <= b * p
<1>1. b * (q + 1) = b * q + b
  OBVIOUS
<1>2. PICK d \in Nat : p = q + 1 + d
  <2>1. p - (q + 1) \in Nat /\ p = q + 1 + (p - (q + 1))
    OBVIOUS
  <2> QED
    BY <2>1
<1>3. b * p = b * (q + 1) + b * d /\ b * d \in Nat
  BY <1>2, Products
<1> QED
  BY <1>1, <1>3

\* A weight divides the later ones.
LEMMA WeightDivides ==
  ASSUME NEW k, NEW radix, NEW weight, Weighs(k, radix, weight), NEW i \in 0 .. k, NEW j \in i .. k
  PROVE  \E p \in Nat \ {0} : weight[j] = weight[i] * p
<1> DEFINE P == {d \in 0 .. (k - i) : \E p \in Nat \ {0} : weight[i + d] = weight[i] * p}
<1>0. k \in Nat /\ k - i \in Nat /\ \A n \in 0 .. k : weight[n] \in Nat \ {0}
  BY DEF Weighs
<1>1. 0 \in P
  <2>1. weight[i + 0] = weight[i] * 1
    BY <1>0
  <2> QED
    BY <1>0, <2>1
<1>2. ASSUME NEW d \in 1 .. (k - i), d - 1 \in P PROVE d \in P
  <2>1. PICK p \in Nat \ {0} : weight[i + (d - 1)] = weight[i] * p
    BY <1>2
  <2>2. /\ i + d \in 1 .. k /\ (i + d) - 1 = i + (d - 1)
    BY <1>0
  <2>3. weight[i + d] = weight[(i + d) - 1] * radix[i + d] /\ radix[i + d] \in Nat \ {0}
    BY <2>2 DEF Weighs
  <2>4. weight[i + d] = weight[i] * (p * radix[i + d])
    BY <2>1, <2>2, <2>3, <1>0, Products
  <2>5. p * radix[i + d] \in Nat \ {0}
    BY <2>3
  <2> QED
    BY <2>4, <2>5
<1> HIDE DEF P
<1>3. j - i \in 0 .. (k - i)
  BY <1>0
<1>4. j - i \in P
  BY <1>0, <1>1, <1>2, <1>3, UpTo
<1>5. i + (j - i) = j
  BY <1>0
<1> QED
  BY <1>4, <1>5 DEF P

\* What is added to a number at the place of a later digit leaves the earlier ones.
LEMMA LowDigits ==
  ASSUME NEW k, NEW radix, NEW weight, Weighs(k, radix, weight),
         NEW j \in 0 .. k, NEW i \in 1 .. j, NEW a \in Nat, NEW q \in Nat
  PROVE  Digit(weight[j] * q + a, radix, weight, i) = Digit(a, radix, weight, i)
<1> DEFINE w == weight[i - 1]
           r == radix[i]
           x == a \div w
           u == x \div r
           y == a % w
           z == x % r
<1>1. k \in Nat /\ i \in 1 .. k /\ i - 1 \in 0 .. k /\ i \in 0 .. k /\ j \in i .. k
  BY DEF Weighs
<1>2. w \in Nat \ {0} /\ r \in Nat \ {0} /\ weight[i] = w * r
  BY <1>1 DEF Weighs
<1>3. PICK p \in Nat \ {0} : weight[j] = weight[i] * p
  BY <1>1, WeightDivides
<1> HIDE DEF w, r
<1>4. x \in Nat /\ y \in 0 .. (w - 1) /\ a = w * x + y
  BY <1>2, Division
<1>5. u \in Nat /\ z \in 0 .. (r - 1) /\ x = r * u + z
  <2> HIDE DEF x
  <2> QED
    BY <1>2, <1>4, Division
<1> HIDE DEF x, y, u, z
<1>6. p * q \in Nat /\ r * (p * q) \in Nat
  BY <1>2, Products
<1> DEFINE s == p * q
           t == r * s
<1>7. weight[j] * q = w * t
  <2>1. weight[j] * q = ((w * r) * p) * q
    BY <1>2, <1>3
  <2>2. ((w * r) * p) * q = (w * r) * (p * q)
    BY <1>2
  <2>3. (w * r) * (p * q) = w * (r * (p * q))
    BY <1>2
  <2> QED
    BY <2>1, <2>2, <2>3
<1>8. t \in Nat /\ s \in Nat
  BY <1>6
<1>9. weight[j] * q + a = w * (t + x) + y /\ t + x = r * (s + u) + z
  <2>1. w * (t + x) = w * t + w * x
    <3> HIDE DEF t
    <3> QED
      BY <1>2, <1>4, <1>8
  <2>2. r * (s + u) = t + r * u
    <3> HIDE DEF s
    <3> QED
      BY <1>2, <1>5, <1>8
  <2>3. w * t \in Nat /\ w * x \in Nat /\ r * u \in Nat /\ w * (t + x) \in Nat /\ r * (s + u) \in Nat
    <3> HIDE DEF t, s
    <3> QED
      BY <1>2, <1>4, <1>5, <1>8, Products
  <2> HIDE DEF t, s
  <2> QED
    BY <2>1, <2>2, <2>3, <1>4, <1>5, <1>7, <1>8
<1> HIDE DEF t, s
<1>10. (weight[j] * q + a) \div w = t + x
  <2>1. weight[j] * q + a \in Nat
    <3>1. w * t \in Nat
      BY <1>2, <1>8, Products
    <3> QED
      BY <3>1, <1>7
  <2> QED
    BY <2>1, <1>2, <1>4, <1>8, <1>9, DivisionUnique
<1>11. (t + x) % r = z
  <2>1. t + x \in Nat /\ s + u \in Nat /\ z \in Nat /\ z < r /\ r \in Nat /\ r > 0
    BY <1>2, <1>4, <1>5, <1>8
  <2> QED
    BY <2>1, <1>9, DivisionUnique
<1>12. Digit(weight[j] * q + a, radix, weight, i) = ((weight[j] * q + a) \div w) % r
  BY Zenon DEF Digit, w, r
<1>13. Digit(a, radix, weight, i) = (a \div w) % r
  BY Zenon DEF Digit, w, r
<1>14. (a \div w) % r = z
  BY Zenon DEF x, z
<1> QED
  BY <1>10, <1>11, <1>12, <1>13, <1>14

\* Any digits are those of a number below the weight.
LEMMA NumberExists ==
  ASSUME NEW k, NEW radix, NEW weight, Weighs(k, radix, weight),
         NEW digit \in Numerals(k, radix)
  PROVE  \E m \in 0 .. (weight[k] - 1) : \A i \in 1 .. k : Digit(m, radix, weight, i) = digit[i]
<1> DEFINE P == {j \in 0 .. k : \E m \in 0 .. (weight[j] - 1) :
                                  \A i \in 1 .. j : Digit(m, radix, weight, i) = digit[i]}
<1>0. k \in Nat /\ \A n \in 0 .. k : weight[n] \in Nat \ {0}
  BY DEF Weighs
<1>1. 0 \in P
  <2>1. 0 \in 0 .. (weight[0] - 1) /\ \A i \in 1 .. 0 : Digit(0, radix, weight, i) = digit[i]
    BY DEF Weighs
  <2> QED
    BY <1>0, <2>1
<1>2. ASSUME NEW j \in 1 .. k, j - 1 \in P PROVE j \in P
  <2> DEFINE w == weight[j - 1]
             r == radix[j]
             d == digit[j]
  <2>1. PICK a \in 0 .. (w - 1) : \A i \in 1 .. (j - 1) : Digit(a, radix, weight, i) = digit[i]
    BY <1>2
  <2>2. /\ j - 1 \in 0 .. k /\ w \in Nat \ {0} /\ r \in Nat \ {0} /\ weight[j] = w * r
        /\ d \in Nat /\ d < r
    BY <1>0 DEF Weighs, Numerals
  <2> DEFINE m == w * d + a
  <2> HIDE DEF w, r, d
  <2>3. m \in 0 .. (weight[j] - 1)
    <3>1. w * d + w <= w * r /\ w * d \in Nat /\ w * r \in Nat
      BY <2>2, StepsApart, Products
    <3> QED
      BY <3>1, <2>2
  <2>4. ASSUME NEW i \in 1 .. j PROVE Digit(m, radix, weight, i) = digit[i]
    <3>1. CASE i = j
      <4>1. m \div w = d
        <5>1. w * d \in Nat /\ a \in Nat /\ a < w
          BY <2>2, Products
        <5> QED
          BY <5>1, <2>2, DivisionUnique
      <4>2. d % r = d
        BY <2>2
      <4> QED
        BY <3>1, <4>1, <4>2 DEF Digit, w, r, d
    <3>2. CASE i # j
      <4>1. i \in 1 .. (j - 1) /\ a \in Nat
        BY <3>2, <1>0, <2>2
      <4>2. Digit(w * d + a, radix, weight, i) = Digit(a, radix, weight, i)
        BY <4>1, <2>2, LowDigits DEF w
      <4> QED
        BY <4>1, <4>2, <2>1
    <3> QED
      BY <3>1, <3>2
  <2> HIDE DEF m
  <2>5. j \in 0 .. k
    BY <1>0
  <2> QED
    BY <2>3, <2>4, <2>5
<1>3. k \in 0 .. k
  BY <1>0
<1> HIDE DEF P
<1>4. k \in P
  BY <1>0, <1>1, <1>2, <1>3, UpTo
<1> QED
  BY <1>4 DEF P

\* A number below the weight is determined by its digits.
LEMMA NumberUnique ==
  ASSUME NEW k, NEW radix, NEW weight, Weighs(k, radix, weight),
         NEW m \in 0 .. (weight[k] - 1), NEW n \in 0 .. (weight[k] - 1),
         \A i \in 1 .. k : Digit(m, radix, weight, i) = Digit(n, radix, weight, i)
  PROVE  m = n
<1> DEFINE Same(a, b, j) == \A i \in 1 .. j : Digit(a, radix, weight, i) = Digit(b, radix, weight, i)
           P == {j \in 0 .. k : \A a, b \in 0 .. (weight[j] - 1) : Same(a, b, j) => a = b}
<1>0. k \in Nat /\ \A j \in 0 .. k : weight[j] \in Nat \ {0}
  BY DEF Weighs
<1>1. 0 \in P
  BY <1>0 DEF Weighs
<1>2. ASSUME NEW j \in 1 .. k, j - 1 \in P PROVE j \in P
  <2> DEFINE w == weight[j - 1]
             r == radix[j]
  <2>1. /\ j - 1 \in 0 .. k /\ w \in Nat \ {0} /\ r \in Nat \ {0} /\ weight[j] = w * r
    BY <1>0 DEF Weighs
  <2>2. \A a, b \in 0 .. (w - 1) : Same(a, b, j - 1) => a = b
    BY <1>2
  <2>3. ASSUME NEW a \in 0 .. (weight[j] - 1)
        PROVE  /\ a \in Nat /\ a \div w \in Nat /\ a % w \in 0 .. (w - 1) /\ a = w * (a \div w) + (a % w)
               /\ Digit(a, radix, weight, j) = a \div w
               /\ \A i \in 1 .. (j - 1) : Digit(a % w, radix, weight, i) = Digit(a, radix, weight, i)
    <3> HIDE DEF w, r
    <3>1. a \in Nat /\ w * r \in Nat /\ a < w * r
      BY <2>1, Products
    <3>2. a \div w \in Nat /\ a % w \in 0 .. (w - 1) /\ a = w * (a \div w) + (a % w)
      BY <3>1, <2>1, Division
    <3> DEFINE x == a \div w
               y == a % w
    <3> HIDE DEF x, y
    <3>3. x < r
      <4>1. ASSUME r <= x PROVE FALSE
        <5>1. w * r <= w * x
          <6>1. CASE r = x
            BY <6>1, <2>1, <3>2, Products DEF x
          <6>2. CASE r < x
            <7>1. w * r + w <= w * x
              BY <6>2, <2>1, <3>2, StepsApart DEF x
            <7>2. w * x \in Nat
              BY <2>1, <3>2, Products DEF x
            <7> QED
              BY <7>1, <7>2, <2>1, <3>1
          <6> QED
            BY <6>1, <6>2, <4>1, <2>1, <3>2 DEF x
        <5>2. w * x \in Nat /\ a = w * x + y /\ y \in Nat
          BY <2>1, <3>2, Products DEF x, y
        <5> QED
          BY <5>1, <5>2, <3>1
      <4> QED
        BY <4>1, <2>1, <3>2 DEF x
    <3>4. x % r = x
      BY <3>3, <2>1, <3>2 DEF x
    <3>5. ASSUME NEW i \in 1 .. (j - 1)
          PROVE  Digit(y, radix, weight, i) = Digit(a, radix, weight, i)
      <4>1. Digit(w * x + y, radix, weight, i) = Digit(y, radix, weight, i)
        <5>1. x \in Nat /\ y \in Nat
          BY <3>2, <2>1 DEF x, y
        <5> QED
          BY <5>1, <2>1, LowDigits DEF w
      <4> QED
        BY <4>1, <3>2 DEF x, y
    <3> QED
      BY <3>1, <3>2, <3>4, <3>5 DEF x, y, Digit, w, r
  <2>4. ASSUME NEW a \in 0 .. (weight[j] - 1), NEW b \in 0 .. (weight[j] - 1), Same(a, b, j)
        PROVE  a = b
    <3>1. a \div w = b \div w
      <4>1. j \in 1 .. j
        BY <1>0
      <4> QED
        BY <4>1, <2>3, <2>4
    <3>2. Same(a % w, b % w, j - 1)
      <4>1. \A i \in 1 .. (j - 1) : i \in 1 .. j
        BY <1>0
      <4> HIDE DEF w
      <4> QED
        BY <4>1, <2>3, <2>4
    <3>3. a % w = b % w
      <4> HIDE DEF Same
      <4> QED
        BY <3>2, <2>2, <2>3
    <3> HIDE DEF w
    <3> QED
      BY <3>1, <3>3, <2>3
  <2>5. j \in 0 .. k
    BY <1>0
  <2>6. \A a, b \in 0 .. (weight[j] - 1) : Same(a, b, j) => a = b
    <3> HIDE DEF Same
    <3> QED
      BY <2>4
  <2> HIDE DEF Same
  <2> QED
    BY <2>5, <2>6
<1>3. k \in 0 .. k
  BY <1>0
<1> HIDE DEF P
<1>4. k \in P
  BY <1>0, <1>1, <1>2, <1>3, UpTo
<1> QED
  BY <1>4 DEF P

\* A radix has weights.
LEMMA WeightsExist ==
  ASSUME NEW k \in Nat, NEW radix \in [1 .. k -> Nat \ {0}]
  PROVE  \E weight : Weighs(k, radix, weight)
<1> DEFINE V == Nat \ {0}
           Pass == [j \in 1 .. k |-> [w \in V |-> w * radix[j]]]
<1>1. Pass \in [1 .. k -> [V -> V]]
  <2>1. \A j \in 1 .. k, w \in V : w * radix[j] \in V
    OBVIOUS
  <2> QED
    BY <2>1
<1>2. PICK f \in [0 .. k -> V] : Runs(f, 1, k, Pass)
  <2>1. 1 \in V
    OBVIOUS
  <2> HIDE DEF Pass, V
  <2> QED
    BY <1>1, <2>1, LoopRuns
<1>3. \A j \in 1 .. k : j - 1 \in 0 .. k
  OBVIOUS
<1>4. Weighs(k, radix, f)
  BY <1>2, <1>3 DEF Weighs, Runs
<1> QED
  BY <1>4
=============================================================================
