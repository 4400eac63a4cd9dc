--------------------------- MODULE Verdicts_proofs ---------------------------
(***************************************************************************)
(* Proofs about what a step concludes from what it read: Complexity, for   *)
(* any sizes, any number of runs and any timeout, the report a valgrind    *)
(* test reads (ValgrindXml), of any length, and the checks of sources      *)
(* (SourceChecks), of any number of files.                                 *)
(***************************************************************************)
EXTENDS Complexity, Documents, WellFoundedInduction, FiniteSetTheorems, TLAPS

------------------------------------------------------------------------------
(* Least elements, induction for sets instead of predicates, and what a    *)
(* recursive function over a list computes.                                *)

\* A non-empty set of natural numbers has a least element.
LEMMA Least ==
  ASSUME NEW T, T \subseteq Nat, T # {}
  PROVE  \E x \in T : \A y \in T : x <= y
<1> DEFINE R == {ss \in Nat \X Nat : ss[1] < ss[2]}
<1>1. IsWellFoundedOn(R, Nat)
  BY NatLessThanWellFounded DEF OpToRel
<1> HIDE DEF R
<1>2. \E x \in T : \A y \in T : ~(<<y, x>> \in R)
  BY <1>1, WFMin
<1>3. PICK x \in T : \A y \in T : ~(<<y, x>> \in R)
  BY <1>2
<1>4. \A y \in T : x <= y
  <2> TAKE y \in T
  <2>1. x \in Nat /\ y \in Nat
    OBVIOUS
  <2>2. y < x => <<y, x>> \in R
    BY <2>1 DEF R
  <2>3. QED
    BY <1>3, <2>1, <2>2
<1>5. QED
  BY <1>4

\* So has a set of integers that is bounded below, and one that is bounded
\* above has a greatest.
LEMMA LeastFrom ==
  ASSUME NEW T, T \subseteq Int, T # {}, NEW m \in Int, \A y \in T : m <= y
  PROVE  \E x \in T : \A y \in T : x <= y
<1> DEFINE U == {y - m : y \in T}
<1>0. \A y \in T : y \in Int /\ m <= y /\ y - m \in Nat
  <2> TAKE y \in T
  <2>1. y \in Int /\ m <= y
    OBVIOUS
  <2>2. QED
    BY <2>1
<1>1. U \subseteq Nat /\ U # {}
  BY <1>0
<1>2. PICK u \in U : \A w \in U : u <= w
  BY <1>1, Least
<1>3. PICK x \in T : u = x - m
  OBVIOUS
<1>4. \A y \in T : x <= y
  <2> TAKE y \in T
  <2>1. x \in Int /\ y \in Int
    BY <1>0
  <2>2. u <= y - m
    BY <1>2
  <2>3. QED
    BY <1>3, <2>1, <2>2
<1>5. QED
  BY <1>4

LEMMA GreatestTo ==
  ASSUME NEW T, T \subseteq Int, T # {}, NEW m \in Int, \A y \in T : y <= m
  PROVE  \E x \in T : \A y \in T : y <= x
<1> DEFINE U == {m - y : y \in T}
<1>0. \A y \in T : y \in Int /\ y <= m /\ m - y \in Nat
  <2> TAKE y \in T
  <2>1. y \in Int /\ y <= m
    OBVIOUS
  <2>2. QED
    BY <2>1
<1>1. U \subseteq Nat /\ U # {}
  BY <1>0
<1>2. PICK u \in U : \A w \in U : u <= w
  BY <1>1, Least
<1>3. PICK x \in T : u = m - x
  OBVIOUS
<1>4. \A y \in T : y <= x
  <2> TAKE y \in T
  <2>1. x \in Int /\ y \in Int
    BY <1>0
  <2>2. u <= m - y
    BY <1>2
  <2>3. QED
    BY <1>3, <2>1, <2>2
<1>5. QED
  BY <1>4

\* A set that holds 0 and with each number below n the next holds all up to n.
LEMMA InductUpTo ==
  ASSUME NEW S, NEW n \in Nat, 0 \in S, \A k \in 0..n : k \in S /\ k < n => k + 1 \in S
  PROVE  0..n \subseteq S
<1> DEFINE T == (0..n) \ S
<1> SUFFICES ASSUME T # {} PROVE FALSE
  OBVIOUS
<1>1. T \subseteq Nat
  OBVIOUS
<1>2. PICK x \in T : \A y \in T : x <= y
  BY <1>1, Least
<1>3. x \in 0..n /\ x \notin S /\ x # 0
  OBVIOUS
<1>4. x - 1 \in 0..n /\ x - 1 < n /\ ~(x <= x - 1) /\ (x - 1) + 1 = x
  BY <1>3
<1>5. x - 1 \in S
  BY <1>2, <1>4
<1>6. (x - 1) + 1 \in S
  BY <1>4, <1>5
<1>7. QED
  BY <1>3, <1>4, <1>6

\* A loop of n rounds over values of S has an outcome: round i turns what the
\* round before left into step[i] of it.
LEMMA LoopExists ==
  ASSUME NEW S, NEW first \in S, NEW n \in Nat, NEW step \in [1..n -> [S -> S]]
  PROVE  \E g \in [0..n -> S] :
           g[0] = first /\ \A i \in 1..n : g[i] = step[i][g[i - 1]]
<1> DEFINE Good(g, k) == /\ g \in [0..k -> S]
                         /\ g[0] = first
                         /\ \A i \in 1..k : g[i] = step[i][g[i - 1]]
           T == {k \in 0..n : \E g : Good(g, k)}
<1>1. 0 \in T
  <2> DEFINE h == [i \in 0..0 |-> first]
  <2>1. Good(h, 0)
    OBVIOUS
  <2>2. 0 \in 0..n
    OBVIOUS
  <2> HIDE DEF h
  <2>3. QED
    BY <2>1, <2>2
<1>2. ASSUME NEW k \in 0..n, k \in T, k < n
      PROVE  k + 1 \in T
  <2>1. PICK g : Good(g, k)
    BY <1>2
  <2> DEFINE h == [i \in 0..(k + 1) |-> IF i <= k THEN g[i] ELSE step[k + 1][g[k]]]
  <2>2. k + 1 \in 1..n /\ k \in 0..k /\ g[k] \in S
    BY <1>2, <2>1
  <2>3. step[k + 1][g[k]] \in S
    BY <2>2
  <2>4. h \in [0..(k + 1) -> S]
    BY <2>1, <2>3
  <2>5. h[0] = first
    BY <2>1
  <2>6. \A i \in 1..(k + 1) : h[i] = step[i][h[i - 1]]
    <3> TAKE i \in 1..(k + 1)
    <3>1. CASE i <= k
      <4>1. i \in 1..k /\ i - 1 \in 0..(k + 1) /\ i - 1 <= k /\ i \in 0..(k + 1)
        BY <3>1
      <4>2. QED
        BY <2>1, <4>1
    <3>2. CASE i = k + 1
      <4>1. i - 1 = k /\ k \in 0..(k + 1) /\ k <= k /\ ~(i <= k) /\ i \in 0..(k + 1)
        BY <3>2
      <4>2. h[i] = step[k + 1][g[k]] /\ h[i - 1] = g[k]
        BY <4>1
      <4>3. QED
        BY <3>2, <4>2
    <3>3. QED
      BY <3>1, <3>2
  <2> HIDE DEF h
  <2>7. Good(h, k + 1)
    BY <2>4, <2>5, <2>6
  <2>8. QED
    BY <2>2, <2>7
<1> HIDE DEF T
<1>3. n \in T
  <2>1. 0..n \subseteq T
    BY <1>1, <1>2, InductUpTo
  <2>2. QED
    BY <2>1
<1>4. PICK g : Good(g, n)
  BY <1>3 DEF T
<1>5. QED
  BY <1>4

\* The same as a fact about S alone, for one S to be cited at a time.
Loops(S) ==
  \A first \in S : \A n \in Nat : \A step \in [1..n -> [S -> S]] :
    \E g \in [0..n -> S] :
      g[0] = first /\ \A i \in 1..n : g[i] = step[i][g[i - 1]]

LEMMA LoopsOf == \A S : Loops(S)
BY LoopExists, SMT DEF Loops

------------------------------------------------------------------------------
(* Sums. *)

\* Total adds the elements up one by one.
LEMMA TotalIs ==
  ASSUME NEW s \in Seq(Int)
  PROVE  \E g \in [0..Len(s) -> Int] :
           /\ g[0] = 0
           /\ \A i \in 1..Len(s) : g[i] = g[i - 1] + s[i]
           /\ Total(s) = g[Len(s)]
<1> DEFINE n == Len(s)
           step == [i \in 1..n |-> [x \in Int |-> x + s[i]]]
           Sum(f) == f = [i \in 0..n |-> IF i = 0 THEN 0 ELSE f[i - 1] + s[i]]
<1>1. n \in Nat /\ 0 \in Int /\ \A i \in 1..n : s[i] \in Int
  OBVIOUS
<1>2. step \in [1..n -> [Int -> Int]]
  BY <1>1
<1>3. \A i \in 1..n : \A x \in Int : step[i][x] = x + s[i]
  BY <1>1
<1> HIDE DEF n, step
<1>4. PICK h \in [0..n -> Int] :
        h[0] = 0 /\ \A i \in 1..n : h[i] = step[i][h[i - 1]]
  <2>1. Loops(Int)
    BY LoopsOf
  <2>2. QED
    BY <1>1, <1>2, <2>1, Zenon DEF Loops
<1>5. \A i \in 1..n : i - 1 \in 0..n /\ h[i - 1] \in Int /\ i \in 0..n /\ i # 0
  <2>1. \A i \in 1..n : i - 1 \in 0..n /\ i \in 0..n /\ i # 0
    BY <1>1
  <2>2. QED
    BY <1>4, <2>1
<1>6. \A i \in 0..n : i # 0 => i \in 1..n
  BY <1>1
<1>7. h = [i \in 0..n |-> IF i = 0 THEN 0 ELSE h[i - 1] + s[i]]
  <2>1. \A i \in 0..n : h[i] = IF i = 0 THEN 0 ELSE h[i - 1] + s[i]
    BY <1>3, <1>4, <1>5, <1>6
  <2>2. QED
    BY <1>4, <2>1
<1> DEFINE g == CHOOSE f : Sum(f)
<1>8. Sum(g)
  BY <1>7
<1>9. Total(s) = g[Len(s)]
  BY DEF Total, n
<1> HIDE DEF g
<1>10. 0 \in 0..n /\ g[0] = 0
  BY <1>1, <1>8
<1>11. \A i \in 1..n : g[i] = g[i - 1] + s[i]
  BY <1>5, <1>8
<1>12. g \in [0..n -> Int]
  <2> DEFINE T == {i \in 0..n : g[i] \in Int}
  <2>1. 0 \in T
    BY <1>10
  <2>2. ASSUME NEW k \in 0..n, k \in T, k < n PROVE k + 1 \in T
    <3>1. k + 1 \in 1..n /\ k + 1 \in 0..n /\ (k + 1) - 1 = k
      BY <1>1, <2>2
    <3>2. g[k + 1] = g[k] + s[k + 1]
      BY <1>11, <3>1
    <3>3. g[k + 1] \in Int
      BY <1>1, <2>2, <3>1, <3>2
    <3>4. QED
      BY <3>1, <3>3
  <2> HIDE DEF T
  <2>3. 0..n \subseteq T
    BY <1>1, <2>1, <2>2, InductUpTo
  <2>4. \A i \in 0..n : g[i] \in Int
    BY <2>3 DEF T
  <2>5. QED
    BY <1>8, <2>4
<1>13. QED
  BY <1>9, <1>10, <1>11, <1>12 DEF n

LEMMA TotalType ==
  ASSUME NEW s \in Seq(Int)
  PROVE  Total(s) \in Int
<1>1. PICK g \in [0..Len(s) -> Int] : Total(s) = g[Len(s)]
  BY TotalIs
<1>2. Len(s) \in 0..Len(s)
  OBVIOUS
<1>3. QED
  BY <1>1, <1>2

\* A sum of numbers that are not negative is none below any of them.
LEMMA TotalAtLeast ==
  ASSUME NEW s \in Seq(Int), \A i \in 1..Len(s) : s[i] >= 0
  PROVE  Total(s) >= 0 /\ \A i \in 1..Len(s) : Total(s) >= s[i]
<1> DEFINE n == Len(s)
<1>1. PICK g \in [0..n -> Int] :
           /\ g[0] = 0
           /\ \A i \in 1..n : g[i] = g[i - 1] + s[i]
           /\ Total(s) = g[n]
  BY TotalIs
<1>2. n \in Nat /\ \A i \in 1..n : s[i] \in Int /\ s[i] >= 0
  OBVIOUS
<1> HIDE DEF n
<1> DEFINE T == {k \in 0..n : g[k] >= 0 /\ \A i \in 1..k : g[k] >= s[i]}
<1>3. 0 \in T
  BY <1>1, <1>2
<1>4. ASSUME NEW k \in 0..n, k \in T, k < n PROVE k + 1 \in T
  <2>1. k + 1 \in 1..n /\ k + 1 \in 0..n /\ (k + 1) - 1 = k
    BY <1>2, <1>4
  <2>2. g[k + 1] = g[k] + s[k + 1]
    BY <1>1, <2>1
  <2>3. s[k + 1] \in Int /\ s[k + 1] >= 0 /\ g[k] \in Int /\ g[k] >= 0
    BY <1>2, <1>4, <2>1
  <2>4. g[k + 1] >= 0 /\ g[k + 1] >= s[k + 1] /\ g[k + 1] >= g[k]
    BY <2>2, <2>3
  <2>5. \A i \in 1..(k + 1) : g[k + 1] >= s[i]
    <3> TAKE i \in 1..(k + 1)
    <3>1. CASE i = k + 1
      BY <2>4, <3>1
    <3>2. CASE i # k + 1
      <4>1. i \in 1..k /\ i \in 1..n /\ s[i] \in Int
        BY <1>2, <1>4, <3>2
      <4>2. g[k] >= s[i]
        BY <1>4, <4>1
      <4>3. QED
        BY <2>2, <2>3, <2>4, <4>1, <4>2
    <3>3. QED
      BY <3>1, <3>2
  <2>6. QED
    BY <2>1, <2>4, <2>5
<1> HIDE DEF T
<1>5. 0..n \subseteq T
  BY <1>2, <1>3, <1>4, InductUpTo
<1>6. n \in T
  BY <1>2, <1>5
<1>7. QED
  BY <1>1, <1>2, <1>6 DEF T, n

\* Sums are linear.
LEMMA TotalLinear ==
  ASSUME NEW s \in Seq(Int), NEW t \in Seq(Int), Len(t) = Len(s),
         NEW a \in Int, NEW b \in Int,
         \A i \in 1..Len(s) : t[i] = a * s[i] + b
  PROVE  Total(t) = a * Total(s) + Len(s) * b
<1> DEFINE n == Len(s)
<1>1. PICK g \in [0..n -> Int] :
           /\ g[0] = 0
           /\ \A i \in 1..n : g[i] = g[i - 1] + s[i]
           /\ Total(s) = g[n]
  BY TotalIs
<1>2. PICK h \in [0..n -> Int] :
           /\ h[0] = 0
           /\ \A i \in 1..n : h[i] = h[i - 1] + t[i]
           /\ Total(t) = h[n]
  BY TotalIs
<1>3. n \in Nat /\ \A i \in 1..n : s[i] \in Int /\ t[i] = a * s[i] + b
  OBVIOUS
<1> HIDE DEF n
<1> DEFINE T == {i \in 0..n : h[i] = a * g[i] + i * b}
<1>4. 0 \in T
  <2>1. a * 0 + 0 * b = 0
    OBVIOUS
  <2>2. QED
    BY <1>1, <1>2, <1>3, <2>1
<1>5. ASSUME NEW k \in 0..n, k \in T, k < n PROVE k + 1 \in T
  <2>1. k + 1 \in 1..n /\ k + 1 \in 0..n /\ (k + 1) - 1 = k
    BY <1>3, <1>5
  <2>2. PICK x \in Int : x = g[k]
    BY <1>5
  <2>3. PICK y \in Int : y = s[k + 1]
    BY <1>3, <2>1
  <2>4. g[k + 1] = x + y /\ h[k + 1] = h[k] + (a * y + b)
    BY <1>1, <1>2, <1>3, <2>1, <2>2, <2>3
  <2>5. h[k] = a * x + k * b
    BY <1>5, <2>2
  <2>6. (a * x + k * b) + (a * y + b) = a * (x + y) + (k + 1) * b
    OBVIOUS
  <2>7. h[k + 1] = a * g[k + 1] + (k + 1) * b
    BY <2>4, <2>5, <2>6
  <2>8. QED
    BY <2>1, <2>7
<1> HIDE DEF T
<1>6. 0..n \subseteq T
  BY <1>3, <1>4, <1>5, InductUpTo
<1>7. n \in T
  BY <1>3, <1>6
<1>8. QED
  BY <1>1, <1>2, <1>7 DEF T, n

------------------------------------------------------------------------------
(* The fit. *)

Offset(s, i) == Len(Sizes) * s[i] - Total(s)
Products(s) == [i \in DOMAIN Sizes |-> Offset(Sizes, i) * Offset(s, i)]
FlooredAll(times) == [i \in DOMAIN Sizes |-> floored(times[i])]

LEMMA FitIs ==
  ASSUME NEW times
  PROVE  fit(Sizes, times) =
           IF Len(Sizes) < 2 \/ Total(Products(Sizes)) = 0
           THEN [num |-> 0, den |-> 1]
           ELSE [num |-> Total(Products(FlooredAll(times))),
                 den |-> Total(Products(Sizes))]
BY DEF fit, Products, Offset, FlooredAll

LEMMA SizesType ==
  /\ Sizes \in Seq(Int)
  /\ Len(Sizes) \in Nat
  /\ DOMAIN Sizes = 1..Len(Sizes)
  /\ \A i \in 1..Len(Sizes) : Sizes[i] \in Int
BY ComplexityAssumption

LEMMA ProductsType ==
  ASSUME NEW s \in Seq(Int), Len(s) = Len(Sizes)
  PROVE  /\ Products(s) \in Seq(Int)
         /\ Len(Products(s)) = Len(Sizes)
         /\ \A i \in 1..Len(Sizes) :
              /\ Offset(s, i) \in Int
              /\ Products(s)[i] = Offset(Sizes, i) * Offset(s, i)
<1> DEFINE n == Len(Sizes)
<1>1. n \in Nat /\ DOMAIN Sizes = 1..n
  BY SizesType
<1>2. \A i \in 1..n : Offset(s, i) \in Int
  <2>1. Total(s) \in Int /\ \A i \in 1..n : s[i] \in Int
    BY TotalType
  <2>2. QED
    BY <1>1, <2>1 DEF Offset
<1>3. \A i \in 1..n : Offset(Sizes, i) \in Int
  <2>1. Total(Sizes) \in Int
    BY SizesType, TotalType
  <2>2. QED
    BY <1>1, <2>1, SizesType DEF Offset
<1>4. \A i \in 1..n : Offset(Sizes, i) * Offset(s, i) \in Int
  <2>1. \A x, y \in Int : x * y \in Int
    OBVIOUS
  <2>2. QED
    BY <1>2, <1>3, <2>1
<1> HIDE DEF n
<1>5. Products(s) \in [1..n -> Int]
  BY <1>1, <1>4 DEF Products
<1>6. Products(s) \in Seq(Int) /\ Len(Products(s)) = n
  BY <1>1, <1>5
<1>7. \A i \in 1..n : Products(s)[i] = Offset(Sizes, i) * Offset(s, i)
  BY <1>1 DEF Products
<1>8. QED
  BY <1>2, <1>6, <1>7 DEF n

LEMMA FlooredType ==
  ASSUME NEW times \in Seq(Int), Len(times) = Len(Sizes)
  PROVE  /\ FlooredAll(times) \in Seq(Int)
         /\ Len(FlooredAll(times)) = Len(Sizes)
         /\ \A i \in 1..Len(Sizes) : FlooredAll(times)[i] = floored(times[i])
<1>1. \A i \in 1..Len(Sizes) : floored(times[i]) \in Int
  BY DEF floored
<1>2. FlooredAll(times) \in [1..Len(Sizes) -> Int]
  BY <1>1, SizesType DEF FlooredAll
<1>3. QED
  BY <1>2, SizesType DEF FlooredAll

\* The sum of squares is never negative.
LEMMA SquaresType ==
  /\ Products(Sizes) \in Seq(Int)
  /\ \A i \in 1..Len(Products(Sizes)) : Products(Sizes)[i] >= 0
  /\ Total(Products(Sizes)) \in Int
  /\ Total(Products(Sizes)) >= 0
<1>1. /\ Products(Sizes) \in Seq(Int)
      /\ Len(Products(Sizes)) = Len(Sizes)
      /\ \A i \in 1..Len(Sizes) :
           /\ Offset(Sizes, i) \in Int
           /\ Products(Sizes)[i] = Offset(Sizes, i) * Offset(Sizes, i)
  BY SizesType, ProductsType
<1>2. \A x \in Int : x * x >= 0
  OBVIOUS
<1>3. \A i \in 1..Len(Products(Sizes)) : Products(Sizes)[i] >= 0
  BY <1>1, <1>2
<1>4. QED
  BY <1>1, <1>3, TotalType, TotalAtLeast

\* A slope is a fraction with a positive denominator.
LEMMA FitType ==
  ASSUME NEW times \in Seq(Int), Len(times) = Len(Sizes)
  PROVE  /\ fit(Sizes, times).num \in Int
         /\ fit(Sizes, times).den \in Int
         /\ fit(Sizes, times).den > 0
<1>1. Total(Products(FlooredAll(times))) \in Int
  BY FlooredType, ProductsType, TotalType
<1>2. Total(Products(Sizes)) # 0 => Total(Products(Sizes)) > 0
  BY SquaresType
<1>3. QED
  BY <1>1, <1>2, SquaresType, FitIs

\* The regression line through points of a line is that line: the fit of
\* log T = a log n + b has the slope a (complexity.py, _fit_exponent).
LEMMA FitFindsLine ==
  ASSUME NEW times \in Seq(Int), Len(times) = Len(Sizes), Varied,
         NEW a \in Int, NEW b \in Int,
         \A i \in DOMAIN Sizes : floored(times[i]) = a * Sizes[i] + b
  PROVE  fit(Sizes, times).num = a * fit(Sizes, times).den
<1> DEFINE n == Len(Sizes)
           T == FlooredAll(times)
           x == Total(Sizes)
<1>1. /\ T \in Seq(Int) /\ Len(T) = n
      /\ \A i \in 1..n : T[i] = a * Sizes[i] + b
  BY FlooredType, SizesType
<1>2. n \in Nat /\ x \in Int /\ \A i \in 1..n : Sizes[i] \in Int
  BY SizesType, TotalType
<1>3. Total(T) = a * x + n * b
  BY <1>1, SizesType, TotalLinear
<1>4. \A i \in 1..n : Offset(T, i) = a * Offset(Sizes, i)
  <2> SUFFICES ASSUME NEW i \in 1..n PROVE Offset(T, i) = a * Offset(Sizes, i)
    OBVIOUS
  <2>1. PICK y \in Int : y = Sizes[i]
    BY <1>2
  <2>2. T[i] = a * y + b
    BY <1>1, <2>1
  <2>3. Offset(T, i) = n * (a * y + b) - (a * x + n * b)
    BY <1>3, <2>2 DEF Offset
  <2>4. Offset(Sizes, i) = n * y - x
    BY <2>1 DEF Offset
  <2> HIDE DEF n, T, x
  <2>5. n * (a * y + b) - (a * x + n * b) = a * (n * y - x)
    BY <1>2
  <2>6. QED
    BY <2>3, <2>4, <2>5
<1>5. \A i \in 1..n : Products(T)[i] = a * Products(Sizes)[i] + 0
  <2> SUFFICES ASSUME NEW i \in 1..n
               PROVE  Products(T)[i] = a * Products(Sizes)[i] + 0
    OBVIOUS
  <2>1. PICK o \in Int : o = Offset(Sizes, i)
    BY SizesType, ProductsType
  <2>2. Products(T)[i] = o * (a * o) /\ Products(Sizes)[i] = o * o
    BY <1>1, <1>4, <2>1, SizesType, ProductsType
  <2>3. o * (a * o) = a * (o * o) + 0
    OBVIOUS
  <2>4. QED
    BY <2>2, <2>3
<1>6. Total(Products(T)) = a * Total(Products(Sizes))
  <2>1. /\ Products(T) \in Seq(Int)
        /\ Products(Sizes) \in Seq(Int)
        /\ Len(Products(T)) = Len(Products(Sizes))
        /\ Len(Products(Sizes)) = n
    BY <1>1, SizesType, ProductsType
  <2>2. Total(Products(T)) = a * Total(Products(Sizes)) + Len(Products(Sizes)) * 0
    <3>1. /\ 0 \in Int /\ a \in Int
          /\ \A i \in 1..Len(Products(Sizes)) :
               Products(T)[i] = a * Products(Sizes)[i] + 0
      BY <1>5, <2>1
    <3> HIDE DEF T
    <3>2. QED
      BY ONLY <2>1, <3>1, TotalLinear
  <2>3. Total(Products(Sizes)) \in Int
    BY SquaresType
  <2>4. QED
    BY <1>2, <2>1, <2>2, <2>3
<1>7. n >= 2 /\ Total(Products(Sizes)) # 0
  <2>1. PICK i \in 1..n, j \in 1..n : Sizes[i] # Sizes[j]
    BY SizesType DEF Varied
  <2>2. n >= 2
    BY <1>2, <2>1
  <2>3. Offset(Sizes, i) # 0 \/ Offset(Sizes, j) # 0
    <3>1. PICK p \in Int, q \in Int : p = Sizes[i] /\ q = Sizes[j]
      BY <1>2
    <3>2. Offset(Sizes, i) = n * p - x /\ Offset(Sizes, j) = n * q - x
      BY <3>1 DEF Offset
    <3> HIDE DEF n, x
    <3>3. p # q
      BY <2>1, <3>1
    <3>4. n * p - n * q = n * (p - q) /\ n * p \in Int /\ n * q \in Int
      BY <1>2
    <3>5. n * (p - q) = 0 => p = q
      BY <1>2, <2>2
    <3>6. n * p # n * q
      BY <3>3, <3>4, <3>5
    <3>7. \A u, v \in Int : u - x = 0 /\ v - x = 0 => u = v
      BY <1>2
    <3>8. ~(n * p - x = 0 /\ n * q - x = 0)
      BY <3>4, <3>6, <3>7
    <3>9. QED
      BY <3>2, <3>8
  <2>4. PICK k \in 1..n : Offset(Sizes, k) # 0
    BY <2>3
  <2>5. PICK o \in Int : o = Offset(Sizes, k)
    BY SizesType, ProductsType
  <2>6. Products(Sizes)[k] = o * o /\ Len(Products(Sizes)) = n
    BY <2>5, SizesType, ProductsType
  <2>7. o * o > 0
    BY <2>4, <2>5
  <2>8. Total(Products(Sizes)) >= Products(Sizes)[k]
    BY <2>6, SquaresType, TotalAtLeast
  <2>9. QED
    BY <2>2, <2>6, <2>7, <2>8, SquaresType
<1>8. fit(Sizes, times) = [num |-> Total(Products(T)), den |-> Total(Products(Sizes))]
  BY <1>2, <1>7, FitIs
<1>9. QED
  BY <1>6, <1>8

------------------------------------------------------------------------------
(* The runs and the verdict. *)

\* The median of the runs at one size is a time that can be measured.
LEMMA MedianType ==
  ASSUME NEW values \in Seq(-1..Timeout), Len(values) = RunsPerSize
  PROVE  median(values) \in -1..Timeout
<1> DEFINE n == Len(values)
           below(v) == {i \in DOMAIN values : values[i] <= v}
           V == {v \in Range(values) : Cardinality(below(v)) > n \div 2}
<1>1. n \in Nat /\ n >= 1 /\ DOMAIN values = 1..n /\ Timeout \in Int
  BY ComplexityAssumption
<1>2. \A i \in 1..n : values[i] \in -1..Timeout
  <2> DEFINE D == -1..Timeout
  <2>1. values \in Seq(D)
    OBVIOUS
  <2> HIDE DEF D
  <2>2. \A i \in 1..n : values[i] \in D
    BY <2>1
  <2>3. QED
    BY <2>2 DEF D
<1>3. Range(values) \subseteq -1..Timeout /\ values[1] \in Range(values)
  BY <1>1, <1>2 DEF Range
<1>4. PICK top \in Range(values) : \A v \in Range(values) : v <= top
  <2>1. Range(values) \subseteq Int /\ \A v \in Range(values) : v <= Timeout
    BY <1>1, <1>3
  <2>2. QED
    BY <1>1, <1>3, <2>1, GreatestTo
<1>5. below(top) = 1..n
  <2>1. \A i \in 1..n : values[i] \in Range(values)
    BY <1>1 DEF Range
  <2>2. QED
    BY <1>1, <1>4, <2>1
<1>6. Cardinality(1..n) = n
  BY <1>1, FS_Interval
<1>7. n > n \div 2
  BY <1>1
<1>8. top \in V
  BY <1>4, <1>5, <1>6, <1>7
<1>9. V \subseteq Int /\ V # {} /\ \A v \in V : -1 <= v
  <2>1. V \subseteq -1..Timeout /\ V # {}
    BY <1>3, <1>8
  <2> HIDE DEF V
  <2>2. \A v \in -1..Timeout : v \in Int /\ -1 <= v
    BY <1>1
  <2>3. QED
    BY <2>1, <2>2
<1>10. \E v \in V : \A w \in V : v <= w
  <2> HIDE DEF V
  <2>1. -1 \in Int
    OBVIOUS
  <2>2. QED
    BY <1>9, <2>1, LeastFrom
<1>11. Min(V) \in V
  BY <1>10 DEF Min
<1>12. median(values) = Min(V)
  BY DEF median
<1>13. V \subseteq -1..Timeout
  BY <1>3
<1>14. QED
  BY <1>11, <1>12, <1>13

LEMMA BoundsAre ==
  /\ Classes = 1..6
  /\ \A c \in 1..6 : Bounds[c].lo \in Int /\ Bounds[c].hi \in Int
  /\ \A c, d \in 1..6 : Bounds[c].class = Bounds[d].class => c = d
  /\ \A c \in 1..6 : Bounds[c].class \notin {"O(1) or less", "super-cubic"}
  /\ \A c \in 1..6 : Bounds[c].lo >= 0
  /\ Bounds[1].lo = 0 /\ Bounds[1].hi = 15
<1>1. Classes = 1..6
  BY DEF Classes, Bounds
<1>2. \A c \in 1..6 : c = 1 \/ c = 2 \/ c = 3 \/ c = 4 \/ c = 5 \/ c = 6
  OBVIOUS
<1>3. /\ \A c \in 1..6 : Bounds[c].lo \in Int /\ Bounds[c].hi \in Int
      /\ \A c \in 1..6 : Bounds[c].lo >= 0
      /\ Bounds[1].lo = 0 /\ Bounds[1].hi = 15
  <2>1. /\ Bounds[1].lo = 0 /\ Bounds[2].lo = 5 /\ Bounds[3].lo = 75
        /\ Bounds[4].lo = 90 /\ Bounds[5].lo = 175 /\ Bounds[6].lo = 270
    BY DEF Bounds
  <2>2. /\ Bounds[1].hi = 15 /\ Bounds[2].hi = 35 /\ Bounds[3].hi = 135
        /\ Bounds[4].hi = 155 /\ Bounds[5].hi = 235 /\ Bounds[6].hi = 330
    BY DEF Bounds
  <2>3. QED
    BY <1>2, <2>1, <2>2
<1> DEFINE name(c) == Bounds[c].class
<1>4. /\ name(1) = "O(1)" /\ name(2) = "O(log n)" /\ name(3) = "O(n)"
      /\ name(4) = "O(n log n)" /\ name(5) = "O(n^2)" /\ name(6) = "O(n^3)"
  BY DEF Bounds
<1> HIDE DEF name
<1>5. \A c, d \in 1..6 : name(c) = name(d) => c = d
  BY <1>2, <1>4
<1>6. \A c \in 1..6 : name(c) \notin {"O(1) or less", "super-cubic"}
  BY <1>2, <1>4
<1>7. QED
  BY <1>1, <1>3, <1>5, <1>6 DEF name

\* The class shown for a slope is the first whose bounds hold it, or none of
\* the six.
LEMMA ClassifyIs ==
  ASSUME NEW slope
  PROVE  \/ /\ classify(slope) = IF slope.num < 0 THEN "O(1) or less" ELSE "super-cubic"
            /\ \A c \in Classes : ~within(slope, c)
         \/ \E c \in Classes :
              /\ classify(slope) = Bounds[c].class
              /\ within(slope, c)
              /\ \A d \in Classes : within(slope, d) => c <= d
<1> DEFINE fits == {c \in Classes : within(slope, c)}
<1>1. CASE fits = {}
  BY <1>1 DEF classify
<1>2. CASE fits # {}
  <2>1. fits \subseteq Nat
    <3>1. Classes = 1..6
      BY BoundsAre, Zenon
    <3>2. QED
      BY <3>1
  <2>2. \E c \in fits : \A d \in fits : c <= d
    BY <1>2, <2>1, Least
  <2>3. PICK c \in fits : /\ classify(slope) = Bounds[c].class
                          /\ \A d \in fits : c <= d
    BY <1>2, <2>2 DEF classify
  <2>4. QED
    BY <2>3
<1>3. QED
  BY <1>1, <1>2

\* Once there is a verdict, it is the one on the medians, which stay as they
\* are.
VerdictInv ==
  Decided =>
    /\ Len(medians) = Len(Sizes)
    /\ verdict.is = IF accepts(alpha, expected) THEN "passed" ELSE "failed"
    /\ verdict.class = classify(alpha)

ComplexityInv == TypeOK /\ VerdictInv

LEMMA StepKeepsVerdict == ASSUME ComplexityInv, [Next]_vars PROVE ComplexityInv'
<1> USE DEF ComplexityInv
<1>0. /\ RunsPerSize \in Nat /\ Len(Sizes) \in Nat
      /\ Len(runs) \in Nat /\ Len(medians) \in Nat
  BY ComplexityAssumption, SizesType DEF TypeOK
<1>1. CASE Run
  <2>1. PICK t \in -1..Timeout : runs' = Append(runs, t)
    BY <1>1 DEF Run
  <2>2. runs' \in Seq(-1..Timeout) /\ Len(runs') = Len(runs) + 1
    BY <2>1 DEF TypeOK
  <2>3. UNCHANGED <<expected, medians, verdict>> /\ Len(runs) < RunsPerSize
    BY <1>1 DEF Run
  <2>4. TypeOK'
    BY <1>0, <2>2, <2>3 DEF TypeOK
  <2>5. VerdictInv'
    BY <2>3 DEF VerdictInv, Decided, alpha
  <2>6. QED
    BY <2>4, <2>5
<1>2. CASE EndSize
  <2>1. median(runs) \in -1..Timeout
    BY <1>2, MedianType DEF EndSize, TypeOK
  <2>2. /\ medians' \in Seq(-1..Timeout)
        /\ Len(medians') = Len(medians) + 1
        /\ Len(medians) < Len(Sizes)
    BY <1>2, <2>1 DEF EndSize, Measuring, TypeOK
  <2>3. UNCHANGED <<expected, verdict>> /\ runs' = <<>>
    BY <1>2 DEF EndSize
  <2>4. TypeOK'
    BY <1>0, <2>2, <2>3 DEF TypeOK
  <2>5. ~Decided
    BY <1>0, <2>2 DEF VerdictInv
  <2>6. VerdictInv'
    BY <2>3, <2>5 DEF VerdictInv, Decided
  <2>7. QED
    BY <2>4, <2>6
<1>3. CASE Decide
  <2> DEFINE is == IF accepts(alpha, expected) THEN "passed" ELSE "failed"
             class == classify(alpha)
  <2>1. UNCHANGED <<expected, runs, medians>> /\ verdict' = [is |-> is, class |-> class]
    BY <1>3 DEF Decide
  <2>2. class \in Measurable /\ is \in {"passed", "failed"}
    BY ClassifyIs DEF Measurable
  <2>3. TypeOK'
    <3> HIDE DEF is, class
    <3>1. verdict' \in [is : {"passed", "failed"}, class : Measurable]
      BY <2>1, <2>2
    <3>2. QED
      BY <2>1, <3>1 DEF TypeOK
  <2>4. Len(medians) = Len(Sizes)
    BY <1>0, <1>3 DEF Decide, Measuring, TypeOK
  <2>5. alpha' = alpha
    BY <2>1 DEF alpha
  <2>6. verdict'.is = is /\ verdict'.class = class
    BY <2>1
  <2>7. VerdictInv'
    BY <2>1, <2>4, <2>5, <2>6 DEF VerdictInv
  <2>8. QED
    BY <2>3, <2>7
<1>4. CASE UNCHANGED vars
  BY <1>4 DEF vars, TypeOK, VerdictInv, Decided, alpha
<1>5. QED
  BY <1>1, <1>2, <1>3, <1>4 DEF Next

LEMMA ComplexityInvariant == Spec => []ComplexityInv
<1>1. Init => ComplexityInv
  <2>1. 0 <= Len(Sizes) /\ 0 <= RunsPerSize
    BY SizesType, ComplexityAssumption
  <2>2. QED
    BY <2>1 DEF Init, ComplexityInv, TypeOK, VerdictInv, Decided
<1>2. ComplexityInv /\ [Next]_vars => ComplexityInv'
  BY StepKeepsVerdict
<1>3. QED
  BY <1>1, <1>2, PTL DEF Spec

LEMMA MediansType ==
  ASSUME ComplexityInv, Decided
  PROVE  medians \in Seq(Int) /\ Len(medians) = Len(Sizes)
<1>1. medians \in Seq(-1..Timeout) /\ -1..Timeout \subseteq Int
  BY ComplexityAssumption DEF ComplexityInv, TypeOK
<1>2. medians \in Seq(Int)
  <2> DEFINE D == -1..Timeout
  <2>1. medians \in Seq(D) /\ D \subseteq Int
    BY <1>1
  <2> HIDE DEF D
  <2>2. /\ medians \in [1..Len(medians) -> D]
        /\ Len(medians) \in Nat
    BY <2>1
  <2>3. medians \in [1..Len(medians) -> Int]
    BY <2>1, <2>2
  <2>4. QED
    BY <2>2, <2>3
<1>3. QED
  BY <1>2 DEF ComplexityInv, VerdictInv

\* Times that follow a power of the size exactly are measured with that power,
\* for any sizes of which two differ, and at any speed of the machine.
THEOREM ComplexityFindsPowerLaw == Spec => []PowerLawFound
<1>1. ASSUME ComplexityInv PROVE PowerLawFound
  <2> SUFFICES ASSUME Decided, Varied,
                      NEW a \in 0..Timeout, NEW b \in 0..Timeout,
                      \A i \in DOMAIN Sizes : floored(medians[i]) = a * Sizes[i] + b
               PROVE  alpha.num = a * alpha.den
    BY DEF PowerLawFound
  <2>1. a \in Int /\ b \in Int
    OBVIOUS
  <2>2. medians \in Seq(Int) /\ Len(medians) = Len(Sizes)
    BY <1>1, MediansType
  <2>3. fit(Sizes, medians).num = a * fit(Sizes, medians).den
    BY <2>1, <2>2, FitFindsLine
  <2>4. QED
    BY <2>3 DEF alpha
<1>2. QED
  BY ComplexityInvariant, <1>1, PTL

\* What a slope below every bound is shown as.
LEMMA NegativeSlopeIs ==
  ASSUME NEW slope, slope.num \in Int, slope.den \in Int, slope.den > 0
  PROVE  /\ within(slope, 1) <=> slope.num >= 0 /\ 100 * slope.num <= 15 * slope.den
         /\ WithinDocumented(slope, 1) <=> 100 * slope.num < 15 * slope.den
         /\ classify(slope) = "O(1) or less" <=> slope.num < 0
<1>1. Bounds[1].lo = 0 /\ Bounds[1].hi = 15 /\ Classes = 1..6
  BY BoundsAre
<1>2. within(slope, 1) <=> slope.num >= 0 /\ 100 * slope.num <= 15 * slope.den
  BY <1>1 DEF within
<1>3. WithinDocumented(slope, 1) <=> 100 * slope.num < 15 * slope.den
  BY <1>1 DEF WithinDocumented
<1>4. ASSUME slope.num < 0, NEW c \in 1..6 PROVE ~within(slope, c)
  <2>1. Bounds[c].lo \in Int /\ Bounds[c].lo >= 0
    BY BoundsAre
  <2>2. \A lo, den \in Nat : lo * den >= 0
    OBVIOUS
  <2>3. Bounds[c].lo * slope.den >= 0
    BY <2>1, <2>2
  <2>4. QED
    BY <1>4, <2>1, <2>3 DEF within
<1>5. slope.num < 0 => classify(slope) = "O(1) or less"
  BY <1>1, <1>4, ClassifyIs
<1>6. ASSUME classify(slope) = "O(1) or less" PROVE slope.num < 0
  <2>1. ASSUME NEW c \in Classes PROVE Bounds[c].class # "O(1) or less"
    BY BoundsAre
  <2>2. classify(slope) = IF slope.num < 0 THEN "O(1) or less" ELSE "super-cubic"
    BY <1>6, <2>1, ClassifyIs
  <2>3. QED
    BY <1>6, <2>2
<1>7. QED
  BY <1>2, <1>3, <1>5, <1>6

\* The verdict agrees with the class shown beside it, although the bounds of
\* the classes overlap; a program expected to be O(1) that gets faster fails, and
\* no other whose slope is within the documented bounds.
THEOREM ComplexityClassAgrees == Spec => []ClassAgrees
<1>1. ASSUME ComplexityInv PROVE ClassAgrees
  <2> SUFFICES ASSUME Decided
               PROVE  /\ verdict.class = Bounds[expected].class => verdict.is = "passed"
                      /\ verdict.is = "passed" =>
                           \E c \in 1..expected : /\ verdict.class = Bounds[c].class
                                                  /\ Bounds[c].hi >= Bounds[expected].lo
                      /\ verdict.is = "failed" /\ WithinDocumented(alpha, expected)
                           <=> expected = 1 /\ verdict.class = "O(1) or less"
    BY DEF ClassAgrees
  <2>1. expected \in 1..6
    BY <1>1, BoundsAre DEF ComplexityInv, TypeOK
  <2>2. /\ verdict.is = IF within(alpha, expected) THEN "passed" ELSE "failed"
        /\ verdict.class = classify(alpha)
    BY <1>1 DEF ComplexityInv, VerdictInv, accepts
  <2>3. ASSUME verdict.class = Bounds[expected].class PROVE verdict.is = "passed"
    <3>1. PICK c \in Classes : classify(alpha) = Bounds[c].class /\ within(alpha, c)
      BY <2>1, <2>2, <2>3, BoundsAre, ClassifyIs
    <3>2. c = expected
      BY <2>1, <2>2, <2>3, <3>1, BoundsAre
    <3>3. QED
      BY <2>2, <3>1, <3>2
  <2>4. ASSUME verdict.is = "passed"
        PROVE  \E c \in 1..expected : /\ verdict.class = Bounds[c].class
                                      /\ Bounds[c].hi >= Bounds[expected].lo
    <3>1. within(alpha, expected)
      BY <2>2, <2>4
    <3>2. PICK c \in Classes : /\ classify(alpha) = Bounds[c].class
                               /\ within(alpha, c)
                               /\ \A d \in Classes : within(alpha, d) => c <= d
      BY <2>1, <3>1, BoundsAre, ClassifyIs
    <3>3. c \in 1..6 /\ c <= expected
      BY <2>1, <3>1, <3>2, BoundsAre
    <3>4. /\ Bounds[expected].lo * alpha.den <= 100 * alpha.num
          /\ 100 * alpha.num <= Bounds[c].hi * alpha.den
      BY <3>1, <3>2 DEF within
    <3>5. alpha.num \in Int /\ alpha.den \in Int /\ alpha.den > 0
      BY <1>1, MediansType, FitType DEF alpha
    <3>6. Bounds[c].hi \in Int /\ Bounds[expected].lo \in Int
      BY <2>1, <3>3, BoundsAre
    <3>7. \A lo, hi, num, den \in Int :
            den > 0 /\ lo * den <= 100 * num /\ 100 * num <= hi * den => hi >= lo
      <4> TAKE lo, hi, num, den \in Int
      <4> HAVE den > 0 /\ lo * den <= 100 * num /\ 100 * num <= hi * den
      <4>1. (hi - lo) * den = hi * den - lo * den
        OBVIOUS
      <4>2. hi - lo < 0 => (hi - lo) * den < 0
        OBVIOUS
      <4>3. lo * den \in Int /\ hi * den \in Int /\ hi * den - lo * den >= 0
        OBVIOUS
      <4>4. QED
        BY <4>1, <4>2, <4>3
    <3>8. Bounds[c].hi >= Bounds[expected].lo
      BY <3>4, <3>5, <3>6, <3>7
    <3>9. c \in 1..expected
      BY <2>1, <3>3
    <3>10. QED
      BY <2>2, <3>2, <3>8, <3>9
  <2>5. verdict.is = "failed" /\ WithinDocumented(alpha, expected)
          <=> expected = 1 /\ verdict.class = "O(1) or less"
    <3>1. alpha.num \in Int /\ alpha.den \in Int /\ alpha.den > 0
      BY <1>1, MediansType, FitType DEF alpha
    <3>2. verdict.is = "failed" <=> ~within(alpha, expected)
      BY <2>2
    <3>3. CASE expected = 1
      <4>1. /\ within(alpha, 1) <=> alpha.num >= 0 /\ 100 * alpha.num <= 15 * alpha.den
            /\ WithinDocumented(alpha, 1) <=> 100 * alpha.num < 15 * alpha.den
            /\ classify(alpha) = "O(1) or less" <=> alpha.num < 0
        BY <3>1, NegativeSlopeIs
      <4> DEFINE num == alpha.num
                 den == alpha.den
      <4>2. num \in Int /\ den \in Int /\ den > 0
        BY <3>1
      <4> HIDE DEF num, den
      <4>3. ~(num >= 0 /\ 100 * num <= 15 * den) /\ 100 * num < 15 * den <=> num < 0
        BY <4>2
      <4>4. QED
        BY <2>2, <3>2, <3>3, <4>1, <4>3 DEF num, den
    <3>4. CASE expected # 1
      BY <3>2, <3>4 DEF WithinDocumented
    <3>5. QED
      BY <3>3, <3>4
  <2>6. QED
    BY <2>3, <2>4, <2>5
<1>2. QED
  BY ComplexityInvariant, <1>1, PTL
------------------------------------------------------------------------------
(* What ValgrindXml reads in a report of any length, whatever its elements. *)

Reads(Elements) ==
  [raised : BOOLEAN, pid : BOOLEAN, ppid : BOOLEAN, tool : BOOLEAN,
   start_status : BOOLEAN, finish_status : BOOLEAN,
   runtime_events : Seq(Elements), postrun_events : Seq(Elements)]

\* A status that is accepted starts the run or ends it.
LEMMA StatusIsWhole ==
  ASSUME NEW e, accepts_child(e), e.tag = "status"
  PROVE  has(e, "state") /\ e.kids["state"] \in StatusStates
<1>1. _parse_status(e)
  BY SMT DEF accepts_child, Errors, ClientMessages, Announcements, Signals
<1>2. _find_first_child(e, <<"state">>) # {}
  BY <1>1 DEF _parse_status, model_validate, Status, Model
<1>3. \E i \in DOMAIN <<"state">> : has(e, <<"state">>[i])
  BY <1>2 DEF _find_first_child
<1>4. QED
  BY <1>1, <1>3 DEF _parse_status

\* What an element adds to what was read before it.
Adds(Elements, read, e, next) ==
  /\ next \in Reads(Elements)
  /\ ~next.raised
  /\ next.pid <=> read.pid \/ e.tag = "pid"
  /\ next.ppid <=> read.ppid \/ e.tag = "ppid"
  /\ next.tool <=> read.tool \/ e.tag = "tool"
  /\ next.start_status <=> read.start_status \/ IsStatus(e, "RUNNING")
  /\ next.finish_status <=> read.finish_status \/ IsStatus(e, "FINISHED")
  /\ next.runtime_events = IF e.tag \in Events /\ ~read.finish_status
                             THEN Append(read.runtime_events, e) ELSE read.runtime_events
  /\ next.postrun_events = IF e.tag \in Events /\ read.finish_status
                             THEN Append(read.postrun_events, e) ELSE read.postrun_events

LEMMA ReadChildAdds ==
  ASSUME NEW Elements, NEW read \in Reads(Elements), NEW e \in Elements,
         ~read.raised, accepts_child(e)
  PROVE  Adds(Elements, read, e, ReadChild(read, e))
<1> DEFINE next == ReadChild(read, e)
<1>0. /\ {"pid", "ppid", "tool", "status"} \intersect Events = {}
      /\ read.runtime_events \in Seq(Elements) /\ read.postrun_events \in Seq(Elements)
  BY DEF Events, Errors, ClientMessages, Announcements, Signals, Reads
<1>1. CASE e.tag = "pid"
  <2>1. next = [read EXCEPT !.pid = TRUE] /\ e.tag \notin Events
    BY <1>0, <1>1 DEF ReadChild
  <2>2. QED
    BY <1>1, <2>1 DEF Adds, Reads, IsStatus
<1>2. CASE e.tag = "ppid"
  <2>1. next = [read EXCEPT !.ppid = TRUE] /\ e.tag \notin Events
    BY <1>0, <1>2 DEF ReadChild
  <2>2. QED
    BY <1>2, <2>1 DEF Adds, Reads, IsStatus
<1>3. CASE e.tag = "tool"
  <2>1. next = [read EXCEPT !.tool = TRUE] /\ e.tag \notin Events
    BY <1>0, <1>3 DEF ReadChild
  <2>2. QED
    BY <1>3, <2>1 DEF Adds, Reads, IsStatus
<1>4. CASE e.tag = "status"
  <2>1. has(e, "state") /\ e.kids["state"] \in {"RUNNING", "FINISHED"} /\ e.tag \notin Events
    BY <1>0, <1>4, StatusIsWhole DEF StatusStates
  <2>2. CASE e.kids["state"] = "RUNNING"
    <3>1. next = [read EXCEPT !.start_status = TRUE]
      BY <1>0, <1>4, <2>2 DEF ReadChild
    <3>2. QED
      BY <1>4, <2>1, <2>2, <3>1 DEF Adds, Reads, IsStatus
  <2>3. CASE e.kids["state"] = "FINISHED"
    <3>1. next = [read EXCEPT !.finish_status = TRUE]
      BY <1>0, <1>4, <2>3 DEF ReadChild
    <3>2. QED
      BY <1>4, <2>1, <2>3, <3>1 DEF Adds, Reads, IsStatus
  <2>4. QED
    BY <2>1, <2>2, <2>3
<1>5. CASE e.tag \in Events
  <2>1. next = RecordEvent(read, e) /\ e.tag \notin {"pid", "ppid", "tool", "status"}
    BY <1>0, <1>5 DEF ReadChild
  <2>2. CASE read.finish_status
    <3>1. next = [read EXCEPT !.postrun_events = Append(read.postrun_events, e)]
      BY <2>1, <2>2 DEF RecordEvent
    <3>2. QED
      BY <1>0, <1>5, <2>1, <2>2, <3>1 DEF Adds, Reads, IsStatus
  <2>3. CASE ~read.finish_status
    <3>1. next = [read EXCEPT !.runtime_events = Append(read.runtime_events, e)]
      BY <2>1, <2>3 DEF RecordEvent
    <3>2. Append(read.runtime_events, e) \in Seq(Elements)
      BY <1>0
    <3>3. QED
      BY SMTT(30), <1>0, <1>5, <2>1, <2>3, <3>1, <3>2 DEF Adds, Reads, IsStatus
  <2>4. QED
    BY <2>2, <2>3
<1>6. CASE e.tag \notin Events \union {"pid", "ppid", "tool", "status"}
  <2>1. next = read
    BY <1>6 DEF ReadChild
  <2>2. QED
    BY <1>6, <2>1 DEF Adds, IsStatus
<1>7. QED
  BY <1>1, <1>2, <1>3, <1>4, <1>5, <1>6

\* An element that is not accepted ends the reading.
LEMMA ReadChildRaises ==
  ASSUME NEW Elements, NEW read \in Reads(Elements), NEW e,
         read.raised \/ ~accepts_child(e)
  PROVE  ReadChild(read, e) \in Reads(Elements) /\ ReadChild(read, e).raised
<1>1. ReadChild(read, e) = [read EXCEPT !.raised = TRUE]
  BY DEF ReadChild
<1>2. QED
  BY <1>1 DEF Reads

\* A name of the tool would have added nothing.
LEMMA SkippedIsSilent ==
  ASSUME NEW Elements, NEW children \in Seq(Elements), TextOrElements(children),
         SkipsTool(children)
  PROVE  2 \in DOMAIN children /\ ReadChild(Unread, children[2]) = Unread
<1> DEFINE e == children[2]
<1>1. 2 \in DOMAIN children /\ e \in Range(children)
  BY DEF SkipsTool, Range
<1>2. e.tag \notin NotTheTool /\ e.tag \notin Events /\ e.parts = <<>>
  BY <1>1 DEF SkipsTool, TextOrElements
<1>3. accepts_child(e)
  <2>1. Range(e.parts) = {}
    BY <1>2 DEF Range
  <2>2. e.tag \notin {"pid", "ppid", "tool", "logfilequalifier", "status"}
           \union Errors \union ClientMessages \union Announcements \union Signals
    BY <1>2 DEF NotTheTool, Events
  <2>3. QED
    BY <2>1, <2>2 DEF accepts_child
<1>4. e.tag \notin Events \union {"pid", "ppid", "tool", "status"} /\ ~Unread.raised
  BY <1>2 DEF NotTheTool, Unread
<1>5. ReadChild(Unread, e) = Unread
  BY <1>3, <1>4 DEF ReadChild
<1>6. QED
  BY <1>1, <1>5

------------------------------------------------------------------------------
\* Reading a list one element after another.

ReadInOrder(Elements, children, g) ==
  /\ g \in [0..Len(children) -> Reads(Elements)]
  /\ \A i \in 0..Len(children) : i < 2 => g[i] = Unread
  /\ \A i \in 2..Len(children) : g[i] = ReadChild(g[i - 1], children[i])

LEMMA ReadingExists ==
  ASSUME NEW Elements, NEW children \in Seq(Elements), TextOrElements(children),
         children # <<>>, children[1].tag = "protocolversion"
  PROVE  \E g : /\ ReadInOrder(Elements, children, g)
                /\ from_xml_element(children) =
                     IF \/ ~(children[1].text = "int" /\ children[1].version \in ProtocolVersions)
                        \/ ~Complete(g[Len(children)])
                       THEN [g[Len(children)] EXCEPT !.raised = TRUE]
                       ELSE g[Len(children)]
<1> DEFINE n == Len(children)
           first == IF SkipsTool(children) THEN 3 ELSE 2
           S == Reads(Elements)
           read(i, x) == IF i < first THEN Unread ELSE ReadChild(x, children[i])
           step == [i \in 1..n |-> [x \in S |-> read(i, x)]]
           UpTo(f) == f = [i \in 0..n |-> IF i < first THEN Unread ELSE ReadChild(f[i - 1], children[i])]
<1>1. n \in Nat /\ n >= 1 /\ first \in {2, 3} /\ \A i \in 1..n : children[i] \in Elements
  OBVIOUS
<1>2. Unread \in S
  BY DEF Unread, Reads
<1>3. \A e \in Elements : \A x \in S : ReadChild(x, e) \in S
  BY ReadChildAdds, ReadChildRaises DEF Adds
<1>4. \A i \in 1..n : \A x \in S : read(i, x) \in S
  BY <1>1, <1>2, <1>3
<1>5. step \in [1..n -> [S -> S]]
  BY <1>4
<1>6. \A i \in 1..n : \A x \in S : step[i][x] = read(i, x)
  OBVIOUS
<1> HIDE DEF n, first, S, step
<1>7. PICK h \in [0..n -> S] :
        h[0] = Unread /\ \A i \in 1..n : h[i] = step[i][h[i - 1]]
  <2>1. Loops(S)
    BY LoopsOf
  <2>2. QED
    BY <1>1, <1>2, <1>5, <2>1, Zenon DEF Loops
<1>8. \A i \in 1..n : i - 1 \in 0..n /\ i \in 0..n
  BY <1>1
<1>9. \A i \in 0..n : h[i] = IF i < first THEN Unread ELSE ReadChild(h[i - 1], children[i])
  <2> TAKE i \in 0..n
  <2>1. CASE i = 0
    BY <1>1, <1>7, <2>1
  <2>2. CASE i # 0
    <3>1. i \in 1..n /\ i - 1 \in 0..n
      BY <1>1, <2>2
    <3>2. h[i - 1] \in S /\ h[i] = step[i][h[i - 1]]
      BY <1>7, <3>1
    <3>3. QED
      BY <1>6, <3>1, <3>2
  <2>3. QED
    BY <2>1, <2>2
<1>10. UpTo(h)
  BY <1>7, <1>9
<1> DEFINE g == CHOOSE f : UpTo(f)
<1>11. UpTo(g)
  BY <1>10
<1>12. from_xml_element(children) =
         IF \/ ~(children[1].text = "int" /\ children[1].version \in ProtocolVersions)
            \/ ~Complete(g[Len(children)])
           THEN [g[Len(children)] EXCEPT !.raised = TRUE]
           ELSE g[Len(children)]
  BY DEF from_xml_element, n, first
<1> HIDE DEF g
<1>13. \A i \in 0..n : g[i] = IF i < first THEN Unread ELSE ReadChild(g[i - 1], children[i])
  BY <1>11
<1>14. \A i \in 0..n : i < 2 => g[i] = Unread
  BY <1>1, <1>13
<1>15. \A i \in 2..n : g[i] = ReadChild(g[i - 1], children[i])
  <2> TAKE i \in 2..n
  <2>1. i \in 0..n /\ i - 1 \in 0..n
    BY <1>1
  <2>2. CASE i < first
    <3>1. i = 2 /\ SkipsTool(children)
      BY <1>1, <2>2 DEF first
    <3>2. g[1] = Unread /\ g[2] = Unread
      BY <1>13, <2>1, <2>2, <3>1, <1>14
    <3>3. QED
      BY <3>1, <3>2, SkippedIsSilent
  <2>3. CASE ~(i < first)
    BY <1>13, <2>1, <2>3
  <2>4. QED
    BY <2>2, <2>3
<1>16. g \in [0..n -> S]
  <2> DEFINE U == {i \in 0..n : g[i] \in S}
  <2>1. 0 \in U
    BY <1>1, <1>2, <1>14
  <2>2. ASSUME NEW k \in 0..n, k \in U, k < n PROVE k + 1 \in U
    <3>1. k + 1 \in 0..n /\ k + 1 \in 1..n /\ (k + 1) - 1 = k
      BY <1>1, <2>2
    <3>2. g[k + 1] = read(k + 1, g[k])
      BY <1>13, <3>1
    <3>3. QED
      BY <1>4, <2>2, <3>1, <3>2
  <2> HIDE DEF U
  <2>3. 0..n \subseteq U
    BY <1>1, <2>1, <2>2, InductUpTo
  <2>4. \A i \in 0..n : g[i] \in S
    BY <2>3 DEF U
  <2>5. QED
    BY <1>11, <2>4
<1>17. ReadInOrder(Elements, children, g)
  BY <1>14, <1>15, <1>16 DEF ReadInOrder, n, S
<1>18. QED
  BY <1>12, <1>17

------------------------------------------------------------------------------
\* The events of a report, in the order of its elements.

\* A list goes on with an element that comes after all it holds.
LEMMA ListsOneMore ==
  ASSUME NEW Elements, NEW listed \in Seq(Elements), NEW children \in Seq(Elements),
         NEW i \in 1..Len(children), NEW places \in SUBSET (1..(i - 1)),
         Lists(listed, children, places)
  PROVE  Lists(Append(listed, children[i]), children, places \union {i})
<1> DEFINE more == Append(listed, children[i])
           upTo(j) == {k \in places : k <= j}
<1>1. /\ i \in Nat /\ Len(children) \in Nat /\ children[i] \in Elements
      /\ IsFiniteSet(places) /\ i \notin places
      /\ \A j \in places : j \in Nat /\ j < i
  <2>1. i \in Nat /\ Len(children) \in Nat /\ children[i] \in Elements /\ 1 \in Int /\ i - 1 \in Int
    OBVIOUS
  <2>2. IsFiniteSet(places)
    BY <2>1, FS_Interval, FS_Subset
  <2>3. \A j \in 1..(i - 1) : j \in Nat /\ j < i /\ j # i
    BY <2>1
  <2>4. QED
    BY <2>1, <2>2, <2>3
<1>2. Len(listed) = Cardinality(places) /\ Cardinality(places) \in Nat
  BY <1>1, FS_CardinalityType DEF Lists
<1>3. Cardinality(places \union {i}) = Cardinality(places) + 1
  BY <1>1, FS_AddElement
<1>4. /\ Len(more) = Len(listed) + 1
      /\ more[Len(listed) + 1] = children[i]
      /\ \A k \in 1..Len(listed) : more[k] = listed[k]
  BY <1>1
<1>5. \A j \in places : Cardinality(upTo(j)) \in 1..Len(listed)
  <2> TAKE j \in places
  <2>1. j \in upTo(j) /\ upTo(j) \subseteq places
    BY <1>1
  <2>2. IsFiniteSet(upTo(j)) /\ Cardinality(upTo(j)) <= Cardinality(places)
    BY <1>1, <2>1, FS_Subset
  <2>3. Cardinality(upTo(j)) \in Nat /\ Cardinality(upTo(j)) # 0
    BY <2>1, <2>2, FS_CardinalityType, FS_EmptySet
  <2>4. QED
    BY <1>2, <2>2, <2>3
<1>6. ASSUME NEW j \in places \union {i}
      PROVE  more[Cardinality({k \in places \union {i} : k <= j})] = children[j]
  <2>1. CASE j \in places
    <3>1. {k \in places \union {i} : k <= j} = upTo(j)
      BY <1>1, <2>1
    <3>2. listed[Cardinality(upTo(j))] = children[j]
      BY <2>1 DEF Lists
    <3>3. QED
      BY <1>4, <1>5, <2>1, <3>1, <3>2
  <2>2. CASE j = i
    <3>1. {k \in places \union {i} : k <= j} = places \union {i}
      <4>1. \A k \in places \union {i} : k <= j
        BY <1>1, <2>2
      <4>2. QED
        BY <4>1, Zenon
    <3>2. QED
      BY <1>2, <1>3, <1>4, <2>2, <3>1
  <2>3. QED
    BY <1>6, <2>1, <2>2
<1>7. Len(more) = Cardinality(places \union {i})
  BY <1>2, <1>3, <1>4
<1> HIDE DEF more
<1>8. Lists(more, children, places \union {i})
  BY <1>6, <1>7 DEF Lists
<1>9. QED
  BY <1>8 DEF more

Ended(children, i) == \E j \in 2..i : IsStatus(children[j], "FINISHED")
EventsTo(children, i) == {j \in 2..i : children[j].tag \in Events}
Runtime(children, i) == {j \in EventsTo(children, i) : ~Ended(children, j)}
Postrun(children, i) == {j \in EventsTo(children, i) : Ended(children, j)}

\* What has been read after the first i elements.
ReadTo(children, i, read) ==
  /\ read.raised <=> \E j \in 2..i : ~accepts_child(children[j])
  /\ ~read.raised =>
       /\ read.pid <=> \E j \in 2..i : children[j].tag = "pid"
       /\ read.ppid <=> \E j \in 2..i : children[j].tag = "ppid"
       /\ read.tool <=> \E j \in 2..i : children[j].tag = "tool"
       /\ read.start_status <=> \E j \in 2..i : IsStatus(children[j], "RUNNING")
       /\ read.finish_status <=> Ended(children, i)
       /\ Lists(read.runtime_events, children, Runtime(children, i))
       /\ Lists(read.postrun_events, children, Postrun(children, i))

LEMMA ReadToOneMore ==
  ASSUME NEW Elements, NEW children \in Seq(Elements), NEW read \in Reads(Elements),
         NEW i \in 2..Len(children), ReadTo(children, i - 1, read)
  PROVE  ReadTo(children, i, ReadChild(read, children[i]))
<1> DEFINE e == children[i]
           next == ReadChild(read, e)
<1>1. /\ i \in Nat /\ i >= 2 /\ Len(children) \in Nat /\ e \in Elements
      /\ 2..i = (2..(i - 1)) \union {i} /\ i \notin 2..(i - 1)
      /\ \A j \in 2..(i - 1) : 2..j \subseteq 2..(i - 1)
  OBVIOUS
<1>2. CASE read.raised \/ ~accepts_child(e)
  <2>1. next.raised
    BY <1>2, ReadChildRaises
  <2>2. \E j \in 2..i : ~accepts_child(children[j])
    BY <1>1, <1>2 DEF ReadTo
  <2>3. QED
    BY <2>1, <2>2 DEF ReadTo
<1>3. CASE ~read.raised /\ accepts_child(e)
  <2>1. Adds(Elements, read, e, next)
    BY <1>1, <1>3, ReadChildAdds
  <2> HIDE DEF next
  <2>2. ~next.raised /\ ~\E j \in 2..i : ~accepts_child(children[j])
    BY <1>1, <1>3, <2>1 DEF ReadTo, Adds
  <2>3. /\ next.pid <=> \E j \in 2..i : children[j].tag = "pid"
        /\ next.ppid <=> \E j \in 2..i : children[j].tag = "ppid"
        /\ next.tool <=> \E j \in 2..i : children[j].tag = "tool"
        /\ next.start_status <=> \E j \in 2..i : IsStatus(children[j], "RUNNING")
    BY <1>1, <1>3, <2>1, Zenon DEF ReadTo, Adds
  <2>4. read.finish_status <=> Ended(children, i - 1)
    BY <1>3, Zenon DEF ReadTo
  <2>5. next.finish_status <=> Ended(children, i)
    BY <1>1, <2>1, <2>4, Zenon DEF Adds, Ended
  <2>6. EventsTo(children, i) =
          EventsTo(children, i - 1) \union (IF e.tag \in Events THEN {i} ELSE {})
    BY <1>1 DEF EventsTo
  <2>7. e.tag \in Events => (Ended(children, i) <=> Ended(children, i - 1))
    <3>1. e.tag \in Events => ~IsStatus(e, "FINISHED")
      BY DEF IsStatus, Events, Errors, ClientMessages, Announcements, Signals
    <3>2. QED
      BY <1>1, <3>1, Zenon DEF Ended
  <2>8. /\ Runtime(children, i) = Runtime(children, i - 1) \union
             (IF e.tag \in Events /\ ~read.finish_status THEN {i} ELSE {})
        /\ Postrun(children, i) = Postrun(children, i - 1) \union
             (IF e.tag \in Events /\ read.finish_status THEN {i} ELSE {})
    BY <2>4, <2>6, <2>7 DEF Runtime, Postrun
  <2>9. /\ Runtime(children, i - 1) \subseteq 1..(i - 1)
        /\ Postrun(children, i - 1) \subseteq 1..(i - 1)
        /\ read.runtime_events \in Seq(Elements) /\ read.postrun_events \in Seq(Elements)
        /\ i \in 1..Len(children)
    BY <1>1 DEF Runtime, Postrun, EventsTo, Reads
  <2>10. /\ Lists(read.runtime_events, children, Runtime(children, i - 1))
         /\ Lists(read.postrun_events, children, Postrun(children, i - 1))
    BY <1>3, Zenon DEF ReadTo
  <2>11. Lists(next.runtime_events, children, Runtime(children, i))
    <3>1. CASE e.tag \in Events /\ ~read.finish_status
      <4>1. /\ next.runtime_events = Append(read.runtime_events, e)
            /\ Runtime(children, i) = Runtime(children, i - 1) \union {i}
        BY <2>1, <2>8, <3>1 DEF Adds
      <4>2. Runtime(children, i - 1) \in SUBSET (1..(i - 1))
        BY <2>9
      <4>3. Lists(Append(read.runtime_events, children[i]), children, Runtime(children, i - 1) \union {i})
        BY <2>9, <2>10, <4>2, ListsOneMore
      <4>4. QED
        BY <4>1, <4>3
    <3>2. CASE ~(e.tag \in Events /\ ~read.finish_status)
      <4>1. /\ next.runtime_events = read.runtime_events
            /\ Runtime(children, i) = Runtime(children, i - 1)
        BY <2>1, <2>8, <3>2 DEF Adds
      <4>2. QED
        BY <2>10, <4>1
    <3>3. QED
      BY <3>1, <3>2
  <2>12. Lists(next.postrun_events, children, Postrun(children, i))
    <3>1. CASE e.tag \in Events /\ read.finish_status
      <4>1. /\ next.postrun_events = Append(read.postrun_events, e)
            /\ Postrun(children, i) = Postrun(children, i - 1) \union {i}
        BY <2>1, <2>8, <3>1 DEF Adds
      <4>2. Postrun(children, i - 1) \in SUBSET (1..(i - 1))
        BY <2>9
      <4>3. Lists(Append(read.postrun_events, children[i]), children, Postrun(children, i - 1) \union {i})
        BY <2>9, <2>10, <4>2, ListsOneMore
      <4>4. QED
        BY <4>1, <4>3
    <3>2. CASE ~(e.tag \in Events /\ read.finish_status)
      <4>1. /\ next.postrun_events = read.postrun_events
            /\ Postrun(children, i) = Postrun(children, i - 1)
        BY <2>1, <2>8, <3>2 DEF Adds
      <4>2. QED
        BY <2>10, <4>1
    <3>3. QED
      BY <3>1, <3>2
  <2>13. ReadTo(children, i, next)
    BY <2>2, <2>3, <2>5, <2>11, <2>12, Zenon DEF ReadTo
  <2>14. QED
    BY <2>13 DEF next
<1>4. QED
  BY <1>2, <1>3

LEMMA ReadToTheEnd ==
  ASSUME NEW Elements, NEW children \in Seq(Elements), children # <<>>,
         NEW g, ReadInOrder(Elements, children, g)
  PROVE  ReadTo(children, Len(children), g[Len(children)])
<1> DEFINE n == Len(children)
           T == {k \in 0..(n - 1) : ReadTo(children, k + 1, g[k + 1])}
<1>1. /\ n \in Nat /\ n >= 1 /\ n - 1 \in Nat
      /\ \A i \in 0..n : g[i] \in Reads(Elements)
  BY DEF ReadInOrder
<1>2. 0 \in T
  <2>1. g[1] = Unread
    BY <1>1 DEF ReadInOrder
  <2>2. 2..1 = {}
    OBVIOUS
  <2>3. Runtime(children, 1) = {} /\ Postrun(children, 1) = {} /\ ~Ended(children, 1)
    BY <2>2 DEF Runtime, Postrun, EventsTo, Ended
  <2>4. Lists(<<>>, children, {})
    BY FS_EmptySet DEF Lists
  <2>5. ReadTo(children, 1, Unread)
    BY <2>2, <2>3, <2>4 DEF ReadTo, Unread
  <2>6. QED
    BY <1>1, <2>1, <2>5
<1>3. ASSUME NEW k \in 0..(n - 1), k \in T, k < n - 1
      PROVE  k + 1 \in T
  <2>1. /\ (k + 1) + 1 \in 2..n /\ ((k + 1) + 1) - 1 = k + 1
        /\ k + 1 \in 0..(n - 1) /\ k + 1 \in 0..n
    BY <1>1, <1>3
  <2>2. g[(k + 1) + 1] = ReadChild(g[k + 1], children[(k + 1) + 1])
    BY <2>1 DEF ReadInOrder
  <2>3. ReadTo(children, (k + 1) + 1, g[(k + 1) + 1])
    BY <1>1, <1>3, <2>1, <2>2, ReadToOneMore
  <2>4. QED
    BY <2>1, <2>3
<1> HIDE DEF T
<1>4. 0..(n - 1) \subseteq T
  BY <1>1, <1>2, <1>3, InductUpTo
<1>5. n - 1 \in T /\ (n - 1) + 1 = n
  BY <1>1, <1>4
<1>6. QED
  BY <1>5 DEF T

\* A report of any length is read exactly when it is whole, and no order of its
\* elements hides one or loses an event (ValgrindOutput.from_xml_element,
\* valgrind.py:663-821).
THEOREM ReportsAreTheirElements ==
  ASSUME NEW Elements, NEW children \in Seq(Elements)
  PROVE  ReportIsItsElements(children)
<1> SUFFICES ASSUME children # <<>>, children[1].tag = "protocolversion", TextOrElements(children)
             PROVE  ReportIsItsElements(children)
  BY Zenon DEF ReportIsItsElements
<1> DEFINE n == Len(children)
           output == from_xml_element(children)
           body == 2..Len(children)
           events == {i \in body : children[i].tag \in Events}
           finished == {i \in body : IsStatus(children[i], "FINISHED")}
           end == CHOOSE i \in finished : \A j \in finished : i <= j
           versioned == children[1].text = "int" /\ children[1].version \in ProtocolVersions
<1>1. PICK g : /\ ReadInOrder(Elements, children, g)
               /\ output = IF ~versioned \/ ~Complete(g[n])
                             THEN [g[n] EXCEPT !.raised = TRUE] ELSE g[n]
  BY ReadingExists
<1> DEFINE read == g[n]
<1>2. ReadTo(children, n, read)
  BY <1>1, ReadToTheEnd
<1>3. n \in Nat /\ read \in Reads(Elements)
  BY <1>1 DEF ReadInOrder
<1> HIDE DEF read, output
<1>4. ~output.raised <=> ~read.raised /\ versioned /\ Complete(read)
  BY <1>1, <1>3 DEF read, Reads
<1>5. ~output.raised => output = read
  BY <1>1, <1>3 DEF read, Reads
<1>6. /\ ~read.raised <=> \A i \in body : accepts_child(children[i])
      /\ ~read.raised =>
           (Complete(read) <=>
              /\ \A tag \in {"pid", "ppid", "tool"} : \E i \in body : children[i].tag = tag
              /\ \A state \in StatusStates : \E i \in body : IsStatus(children[i], state))
  BY <1>2 DEF ReadTo, Complete, Ended, StatusStates
<1>7. ~output.raised => /\ {i \in events : i < end} = Runtime(children, n)
                        /\ {i \in events : i > end} = Postrun(children, n)
  <2> SUFFICES ASSUME ~output.raised
               PROVE  /\ {i \in events : i < end} = Runtime(children, n)
                      /\ {i \in events : i > end} = Postrun(children, n)
    OBVIOUS
  <2>1. finished # {} /\ finished \subseteq Nat
    BY <1>4, <1>6 DEF StatusStates
  <2>2. \E i \in finished : \A j \in finished : i <= j
    BY <2>1, Least
  <2>3. end \in finished /\ \A j \in finished : end <= j
    BY <2>2
  <2>4. events = EventsTo(children, n)
    BY DEF EventsTo
  <2>5. \A i \in events : i \notin finished
    BY DEF IsStatus, Events, Errors, ClientMessages, Announcements, Signals
  <2> HIDE DEF end
  <2>6. \A i \in events : i > end <=> Ended(children, i)
    <3> TAKE i \in events
    <3>1. i \in 2..n /\ end \in 2..n /\ i # end
      BY <2>3, <2>5
    <3>2. i > end => end \in 2..i
      BY <1>3, <3>1
    <3>3. ASSUME NEW j \in 2..i, IsStatus(children[j], "FINISHED")
          PROVE  i > end
      <4>1. j \in finished /\ j <= i
        BY <1>3, <3>1, <3>3
      <4>2. end <= j
        BY <2>3, <4>1
      <4>3. QED
        BY <1>3, <3>1, <4>1, <4>2
    <3>4. IsStatus(children[end], "FINISHED")
      BY <2>3
    <3>5. QED
      BY <3>2, <3>3, <3>4 DEF Ended
  <2>7. \A i \in events : i < end <=> ~(i > end)
    <3> TAKE i \in events
    <3>1. i \in 2..n /\ end \in 2..n /\ i # end
      BY <2>3, <2>5
    <3>2. QED
      BY <3>1
  <2> HIDE DEF events
  <2>8. QED
    BY <2>4, <2>6, <2>7, Zenon DEF Runtime, Postrun
<1>8. ~output.raised => /\ Lists(output.runtime_events, children, {i \in events : i < end})
                        /\ Lists(output.postrun_events, children, {i \in events : i > end})
  <2> SUFFICES ASSUME ~output.raised
               PROVE  /\ Lists(output.runtime_events, children, {i \in events : i < end})
                      /\ Lists(output.postrun_events, children, {i \in events : i > end})
    OBVIOUS
  <2>1. /\ Lists(read.runtime_events, children, Runtime(children, n))
        /\ Lists(read.postrun_events, children, Postrun(children, n))
    BY <1>2, <1>4, Zenon DEF ReadTo
  <2> HIDE DEF end, events
  <2>2. QED
    BY <1>5, <1>7, <2>1
<1>9. ~output.raised <=>
        /\ children[1].text = "int" /\ children[1].version \in ProtocolVersions
        /\ \A tag \in {"pid", "ppid", "tool"} : \E i \in body : children[i].tag = tag
        /\ \A state \in StatusStates : \E i \in body : IsStatus(children[i], state)
        /\ \A i \in body : accepts_child(children[i])
  BY <1>4, <1>6, Zenon
<1>10. QED
  BY <1>8, <1>9, Zenon DEF ReportIsItsElements, output

------------------------------------------------------------------------------
(* What a CleanRunScorer makes of the packets of a check. *)

Reported == {Violation, Data}

\* A check is paid when it returns Ok and reports no violation.
LEMMA PaysWhenClean ==
  ASSUME NEW packets \in Seq(Reported), NEW ok \in BOOLEAN
  PROVE  Pays([packets |-> packets, ok |-> ok]) <=>
           ok /\ \A i \in DOMAIN packets : packets[i] # Violation
<1> DEFINE n == Len(packets)
           cfg == CleanRunScorer(1, 0, TRUE, 0)
           S == [passes : {{}}, raw : {0}, fails : {0}, extra : {0}, errs : Nat, ok : {FALSE}]
           Seen(f) == f = [i \in 0..n |-> IF i = 0 THEN Fresh ELSE on_packet(cfg, f[i - 1], packets[i])]
           step == [i \in 1..n |-> [x \in S |-> on_packet(cfg, x, packets[i])]]
<1>1. n \in Nat /\ DOMAIN packets = 1..n /\ \A i \in 1..n : packets[i] \in Reported
  OBVIOUS
<1>2. Fresh \in S /\ Fresh.errs = 0
  BY DEF Fresh
<1>3. \A x \in S : \A p \in Reported :
        /\ on_packet(cfg, x, p) \in S
        /\ on_packet(cfg, x, p).errs = IF p = Violation THEN x.errs + 1 ELSE x.errs
  <2> TAKE x \in S
  <2> TAKE p \in Reported
  <2>1. cfg.class = "CleanRunScorer"
    BY DEF CleanRunScorer
  <2>2. CASE p = Violation
    <3>1. on_packet(cfg, x, p) = [x EXCEPT !.errs = x.errs + 1]
      BY <2>1, <2>2 DEF on_packet, is_err, Violation
    <3>2. x.errs \in Nat /\ x.errs + 1 \in Nat
      OBVIOUS
    <3>3. [x EXCEPT !.errs = x.errs + 1] \in S /\ [x EXCEPT !.errs = x.errs + 1].errs = x.errs + 1
      BY <3>2
    <3>4. QED
      BY <2>2, <3>1, <3>3
  <2>3. CASE p = Data
    <3>1. on_packet(cfg, x, p) = x /\ p # Violation
      BY <2>1, <2>3 DEF on_packet, is_err, Data, Violation
    <3>2. QED
      BY <3>1
  <2>4. QED
    BY <2>2, <2>3 DEF Reported
<1>4. \A i \in 1..n : \A x \in S : step[i][x] = on_packet(cfg, x, packets[i])
  OBVIOUS
<1>4a. step \in [1..n -> [S -> S]]
  <2>1. \A i \in 1..n : \A x \in S : on_packet(cfg, x, packets[i]) \in S
    BY <1>1, <1>3
  <2>2. QED
    BY <2>1
<1> HIDE DEF n, cfg, S, step
<1>5. PICK h \in [0..n -> S] :
        h[0] = Fresh /\ \A i \in 1..n : h[i] = step[i][h[i - 1]]
  <2>1. Loops(S)
    BY LoopsOf
  <2>2. n \in Nat /\ Fresh \in S
    BY <1>1, <1>2
  <2>3. QED
    BY <1>4a, <2>1, <2>2, Zenon DEF Loops
<1>6. \A i \in 0..n : i = 0 \/ (i \in 1..n /\ i - 1 \in 0..n)
  BY <1>1
<1>7. Seen(h)
  <2>1. \A i \in 0..n : h[i] = IF i = 0 THEN Fresh ELSE on_packet(cfg, h[i - 1], packets[i])
    BY <1>4, <1>5, <1>6
  <2>2. QED
    BY <1>5, <2>1
<1> DEFINE g == CHOOSE f : Seen(f)
<1>8. Seen(g)
  BY <1>7
<1>9. Pays([packets |-> packets, ok |-> ok]) <=>
        contribution(cfg, on_complete(cfg, g[n], ok)).earned = 1
  BY DEF Pays, n, cfg
<1> HIDE DEF g
<1>10. \A i \in 0..n : g[i] = IF i = 0 THEN Fresh ELSE on_packet(cfg, g[i - 1], packets[i])
  BY <1>8
<1>11. g[n] \in S /\ (g[n].errs = 0 <=> \A j \in 1..n : packets[j] # Violation)
  <2> DEFINE U == {i \in 0..n : g[i] \in S /\ (g[i].errs = 0 <=> \A j \in 1..i : packets[j] # Violation)}
  <2>1. 0 \in U
    BY <1>1, <1>2, <1>10
  <2>2. ASSUME NEW k \in 0..n, k \in U, k < n
        PROVE  k + 1 \in U
    <3>1. k + 1 \in 0..n /\ k + 1 \in 1..n /\ k + 1 # 0 /\ (k + 1) - 1 = k /\ 1..(k + 1) = (1..k) \union {k + 1}
      BY <1>1, <2>2
    <3>2. g[k + 1] = on_packet(cfg, g[k], packets[k + 1]) /\ packets[k + 1] \in Reported
      BY <1>1, <1>10, <3>1
    <3>3. /\ g[k + 1] \in S /\ g[k].errs \in Nat
          /\ g[k + 1].errs = IF packets[k + 1] = Violation THEN g[k].errs + 1 ELSE g[k].errs
      <4>1. g[k] \in S
        BY <2>2
      <4>2. g[k].errs \in Nat
        BY <4>1 DEF S
      <4>3. QED
        BY <1>3, <3>2, <4>1, <4>2
    <3>4. g[k + 1].errs = 0 <=> g[k].errs = 0 /\ packets[k + 1] # Violation
      BY <3>3
    <3>5. g[k + 1].errs = 0 <=> \A j \in 1..(k + 1) : packets[j] # Violation
      BY <2>2, <3>1, <3>4
    <3>6. QED
      BY <3>1, <3>3, <3>5
  <2> HIDE DEF U
  <2>3. 0..n \subseteq U
    BY <1>1, <2>1, <2>2, InductUpTo
  <2>4. n \in U
    BY <1>1, <2>3
  <2>5. QED
    BY <2>4 DEF U
<1>12. contribution(cfg, on_complete(cfg, g[n], ok)).earned = 1 <=> ok /\ g[n].errs = 0
  <2>1. g[n].errs \in Nat
    BY <1>11 DEF S
  <2>2. on_complete(cfg, g[n], ok).ok = ok /\ on_complete(cfg, g[n], ok).errs = g[n].errs
    BY <1>11 DEF on_complete, cfg, CleanRunScorer, S
  <2>3. contribution(cfg, on_complete(cfg, g[n], ok)).earned = IF ok /\ g[n].errs <= 0 THEN 1 ELSE 0
    BY <2>2 DEF contribution, CleanRunContribution, Pay, cfg, CleanRunScorer
  <2>4. QED
    BY <2>1, <2>3
<1>13. QED
  BY <1>1, <1>9, <1>11, <1>12

\* A file has a violation exactly when it exceeds a limit.
LEMMA FileIsReported ==
  ASSUME NEW exceeded \in Seq(BOOLEAN)
  PROVE  /\ FilePackets(exceeded) \in Seq(Reported)
         /\ (\A i \in DOMAIN FilePackets(exceeded) : FilePackets(exceeded)[i] # Violation) <=>
              \A k \in DOMAIN exceeded : ~exceeded[k]
<1> DEFINE over == {k \in DOMAIN exceeded : exceeded[k]}
<1>1. IsFiniteSet(over) /\ Cardinality(over) \in Nat
  <2>1. Len(exceeded) \in Nat /\ DOMAIN exceeded = 1..Len(exceeded) /\ 1 \in Int /\ Len(exceeded) \in Int
    OBVIOUS
  <2>2. IsFiniteSet(over)
    BY <2>1, FS_Interval, FS_Subset
  <2>3. QED
    BY <2>2, FS_CardinalityType
<1>2. Cardinality(over) = 0 <=> \A k \in DOMAIN exceeded : ~exceeded[k]
  BY <1>1, FS_EmptySet
<1>3. Data # Violation
  BY DEF Data, Violation
<1> DEFINE c == Cardinality(over)
<1>4. FilePackets(exceeded) = IF c > 0 THEN [k \in 1..c |-> Violation] ELSE <<Data>>
  BY DEF FilePackets
<1>5. c \in Nat
  BY <1>1
<1>6. CASE c > 0
  <2> HIDE DEF c
  <2>1. FilePackets(exceeded) = [k \in 1..c |-> Violation]
    BY <1>4, <1>6
  <2>2. [k \in 1..c |-> Violation] \in Seq(Reported)
    BY <1>5 DEF Reported
  <2>3. 1 \in 1..c
    BY <1>5, <1>6
  <2>4. c # 0
    BY <1>5, <1>6
  <2>5. QED
    BY <1>2, <2>1, <2>2, <2>3, <2>4 DEF c
<1>7. CASE c = 0
  <2>1. FilePackets(exceeded) = <<Data>>
    <3>1. ~(c > 0)
      BY <1>7
    <3> HIDE DEF c
    <3>2. QED
      BY <1>4, <3>1
  <2>2. QED
    BY <1>2, <1>3, <1>7, <2>1 DEF Reported
<1>8. QED
  BY <1>5, <1>6, <1>7

\* The type checks find every error, wherever it is in the output and however
\* long that is (MypyCheck, TyCheck).
THEOREM TypeChecksFindErrors ==
  ASSUME NEW Severities, NEW output \in Seq(Severities)
  PROVE  TypeErrorsAreFound(output)
<1> SUFFICES ASSUME NEW there \in BOOLEAN, NEW ran \in BOOLEAN
             PROVE  Pays(TypeCheck(there, ran, output)) <=> there /\ ran /\ "error" \notin Range(output)
  BY DEF TypeErrorsAreFound
<1>1. CASE ~there \/ ~ran
  <2>1. TypeCheck(there, ran, output) = [packets |-> <<>>, ok |-> FALSE]
    BY <1>1 DEF TypeCheck
  <2>2. <<>> \in Seq(Reported)
    OBVIOUS
  <2>3. QED
    BY <1>1, <2>1, <2>2, PaysWhenClean
<1>2. CASE there /\ ran
  <2> DEFINE errors == [i \in DOMAIN output |-> output[i] = "error"]
  <2>1. TypeCheck(there, ran, output) = [packets |-> FilePackets(errors), ok |-> TRUE]
    BY <1>2 DEF TypeCheck
  <2>2. errors \in Seq(BOOLEAN)
    <3>1. Len(output) \in Nat /\ DOMAIN output = 1..Len(output)
      OBVIOUS
    <3>2. errors \in [1..Len(output) -> BOOLEAN]
      BY <3>1
    <3> HIDE DEF errors
    <3>3. QED
      BY <3>1, <3>2
  <2>3. "error" \notin Range(output) <=> \A k \in DOMAIN errors : ~errors[k]
    BY DEF Range
  <2> HIDE DEF errors
  <2>4. QED
    BY <1>2, <2>1, <2>2, <2>3, FileIsReported, PaysWhenClean
<1>3. QED
  BY <1>1, <1>2

------------------------------------------------------------------------------
\* The files of a SourceCheck, and by which text each is judged.

textOf(file, language) == CASE language = "python" -> "source"
                            [] language = "cpp" /\ file.cpp -> "cpp"
                            [] language = "cpp" /\ file.clang /\ ~file.cpp -> "clang++"
                            [] OTHER -> "naive-expand"
isRead(file) == file.found /\ file.readable
exceeds(file, language) ==
  \E k \in DOMAIN file.exceeded[textOf(file, language)] : file.exceeded[textOf(file, language)][k]

LEMMA OneTextIsJudged ==
  ASSUME NEW file \in SourceFiles, NEW language \in Languages
  PROVE  /\ textOf(file, language) \in Texts
         /\ file.exceeded[textOf(file, language)] \in Seq(BOOLEAN)
         /\ analyze(file, language) = IF file.readable THEN {textOf(file, language)} ELSE {}
<1>1. textOf(file, language) \in Texts
  BY DEF textOf, Texts, SourceFiles, Languages
<1>2. file.exceeded \in [Texts -> Seq(BOOLEAN)]
  BY DEF SourceFiles
<1>3. analyze(file, language) = IF file.readable THEN {textOf(file, language)} ELSE {}
  BY DEF analyze, analyze_python, analyze_cpp, _preprocess, textOf, SourceFiles, Languages
<1>4. QED
  BY <1>1, <1>2, <1>3

Calls == [packets : Seq(Reported), ok : BOOLEAN]

\* What a SourceCheck yields and returns after its first i files.
CheckedTo(files, language, i, call) ==
  /\ call \in Calls
  /\ call.ok <=> \A j \in 1..i : isRead(files[j])
  /\ call.ok => ((\A k \in DOMAIN call.packets : call.packets[k] # Violation) <=>
                   \A j \in 1..i : ~exceeds(files[j], language))

CheckFile(call, file, language) ==
  IF ~call.ok \/ ~file.found \/ ~(analyze(file, language) # {})
    THEN [call EXCEPT !.ok = FALSE]
    ELSE [call EXCEPT !.packets =
            @ \o FilePackets(file.exceeded[CHOOSE text \in analyze(file, language) : TRUE])]

LEMMA CheckFileAdds ==
  ASSUME NEW call \in Calls, NEW file \in SourceFiles, NEW language \in Languages
  PROVE  /\ CheckFile(call, file, language) \in Calls
         /\ CheckFile(call, file, language).ok <=> call.ok /\ isRead(file)
         /\ CheckFile(call, file, language).ok =>
              ((\A k \in DOMAIN CheckFile(call, file, language).packets :
                  CheckFile(call, file, language).packets[k] # Violation) <=>
                 /\ \A k \in DOMAIN call.packets : call.packets[k] # Violation
                 /\ ~exceeds(file, language))
<1>1. call.packets \in Seq(Reported) /\ call.ok \in BOOLEAN
  BY DEF Calls
<1>2. CASE ~call.ok \/ ~isRead(file)
  <2>1. CheckFile(call, file, language) = [call EXCEPT !.ok = FALSE]
    BY <1>2, OneTextIsJudged DEF CheckFile, isRead
  <2>2. QED
    BY <1>1, <1>2, <2>1 DEF Calls
<1>3. CASE call.ok /\ isRead(file)
  <2> DEFINE limits == file.exceeded[textOf(file, language)]
             more == FilePackets(limits)
  <2>1. analyze(file, language) = {textOf(file, language)}
    BY <1>3, OneTextIsJudged DEF isRead
  <2>2. CheckFile(call, file, language) = [call EXCEPT !.packets = call.packets \o more]
    BY <1>3, <2>1 DEF CheckFile, isRead
  <2>3. limits \in Seq(BOOLEAN)
    BY OneTextIsJudged
  <2>4. /\ more \in Seq(Reported)
        /\ (\A k \in DOMAIN more : more[k] # Violation) <=> ~exceeds(file, language)
    BY <2>3, FileIsReported DEF exceeds
  <2> HIDE DEF more
  <2>5. call.packets \o more \in Seq(Reported)
    BY <1>1, <2>4
  <2>6. (\A k \in DOMAIN (call.packets \o more) : (call.packets \o more)[k] # Violation) <=>
          /\ \A k \in DOMAIN call.packets : call.packets[k] # Violation
          /\ \A k \in DOMAIN more : more[k] # Violation
    <3> DEFINE a == call.packets
               b == more
    <3>1. /\ Len(a) \in Nat /\ Len(b) \in Nat /\ Len(a \o b) = Len(a) + Len(b)
          /\ DOMAIN a = 1..Len(a) /\ DOMAIN b = 1..Len(b) /\ DOMAIN (a \o b) = 1..(Len(a) + Len(b))
          /\ \A k \in 1..(Len(a) + Len(b)) : (a \o b)[k] = IF k <= Len(a) THEN a[k] ELSE b[k - Len(a)]
      BY <1>1, <2>4
    <3> HIDE DEF a, b
    <3>2. ASSUME NEW k \in 1..Len(a) PROVE k \in 1..(Len(a) + Len(b)) /\ (a \o b)[k] = a[k]
      BY <3>1
    <3>3. ASSUME NEW k \in 1..Len(b)
          PROVE  Len(a) + k \in 1..(Len(a) + Len(b)) /\ (a \o b)[Len(a) + k] = b[k]
      <4>1. Len(a) + k \in 1..(Len(a) + Len(b)) /\ ~(Len(a) + k <= Len(a)) /\ (Len(a) + k) - Len(a) = k
        BY <3>1
      <4>2. QED
        BY <3>1, <4>1
    <3>4. ASSUME NEW k \in 1..(Len(a) + Len(b))
          PROVE  \/ k \in 1..Len(a) /\ (a \o b)[k] = a[k]
                 \/ k - Len(a) \in 1..Len(b) /\ (a \o b)[k] = b[k - Len(a)]
      BY <3>1
    <3>5. QED
      BY <3>1, <3>2, <3>3, <3>4, Zenon DEF a, b
  <2>7. CheckFile(call, file, language).packets = call.packets \o more /\ CheckFile(call, file, language).ok
    BY <1>1, <1>3, <2>2 DEF Calls
  <2>8. CheckFile(call, file, language) \in Calls
    BY <1>1, <2>2, <2>5 DEF Calls
  <2>9. QED
    BY <1>3, <2>4, <2>6, <2>7, <2>8
<1>4. QED
  BY <1>1, <1>2, <1>3 DEF isRead, SourceFiles

LEMMA SourceCheckIs ==
  ASSUME NEW files \in Seq(SourceFiles), NEW language \in Languages
  PROVE  CheckedTo(files, language, Len(files), SourceCheck(files, language))
<1> DEFINE n == Len(files)
           none == [packets |-> <<>>, ok |-> TRUE]
           step == [i \in 1..n |-> [x \in Calls |-> CheckFile(x, files[i], language)]]
           UpTo(f) == f = [i \in 0..n |->
             IF i = 0 THEN [packets |-> <<>>, ok |-> TRUE]
             ELSE IF ~f[i - 1].ok \/ ~files[i].found \/ ~(analyze(files[i], language) # {})
               THEN [f[i - 1] EXCEPT !.ok = FALSE]
             ELSE [f[i - 1] EXCEPT !.packets = @ \o
                     FilePackets(files[i].exceeded[CHOOSE text \in analyze(files[i], language) : TRUE])]]
<1>1. n \in Nat /\ \A i \in 1..n : files[i] \in SourceFiles
  OBVIOUS
<1>2. none \in Calls
  BY DEF Calls
<1>3. \A i \in 1..n : \A x \in Calls : step[i][x] = CheckFile(x, files[i], language)
  OBVIOUS
<1>4. step \in [1..n -> [Calls -> Calls]]
  <2>1. \A i \in 1..n : \A x \in Calls : CheckFile(x, files[i], language) \in Calls
    BY <1>1, CheckFileAdds
  <2>2. QED
    BY <2>1
<1>5. \A f : UpTo(f) <=> f = [i \in 0..n |-> IF i = 0 THEN none ELSE CheckFile(f[i - 1], files[i], language)]
  BY Zenon DEF CheckFile
<1> HIDE DEF n, none, step
<1>6. PICK h \in [0..n -> Calls] :
        h[0] = none /\ \A i \in 1..n : h[i] = step[i][h[i - 1]]
  <2>1. Loops(Calls)
    BY LoopsOf
  <2>2. n \in Nat
    BY <1>1
  <2>3. QED
    BY <1>2, <1>4, <2>1, <2>2, Zenon DEF Loops
<1>7. \A i \in 0..n : i = 0 \/ (i \in 1..n /\ i - 1 \in 0..n)
  BY <1>1
<1>8. UpTo(h)
  <2>1. \A i \in 0..n : h[i] = IF i = 0 THEN none ELSE CheckFile(h[i - 1], files[i], language)
    BY <1>3, <1>6, <1>7
  <2> HIDE DEF UpTo
  <2>2. h = [i \in 0..n |-> IF i = 0 THEN none ELSE CheckFile(h[i - 1], files[i], language)]
    BY <1>6, <2>1
  <2>3. QED
    BY <1>5, <2>2
<1> HIDE DEF UpTo
<1> DEFINE g == CHOOSE f : UpTo(f)
<1>9. UpTo(g)
  BY <1>8, Zenon
<1>10. SourceCheck(files, language) = g[n]
  BY DEF SourceCheck, CheckEach, n, UpTo
<1> HIDE DEF g
<1>11. \A i \in 0..n : g[i] = IF i = 0 THEN none ELSE CheckFile(g[i - 1], files[i], language)
  <2>1. g = [i \in 0..n |-> IF i = 0 THEN none ELSE CheckFile(g[i - 1], files[i], language)]
    BY <1>5, <1>9
  <2>2. QED
    BY <2>1, Zenon
<1> DEFINE U == {i \in 0..n : CheckedTo(files, language, i, g[i])}
<1>12. 0 \in U
  <2>1. g[0] = none /\ 1..0 = {} /\ 0 \in 0..n
    BY <1>1, <1>11
  <2>2. none.packets = <<>> /\ none.ok /\ DOMAIN <<>> = {}
    BY DEF none
  <2>3. QED
    BY <1>2, <2>1, <2>2 DEF CheckedTo, Calls
<1>13. ASSUME NEW k \in 0..n, k \in U, k < n
       PROVE  k + 1 \in U
  <2>1. k + 1 \in 0..n /\ k + 1 \in 1..n /\ k + 1 # 0 /\ (k + 1) - 1 = k /\ 1..(k + 1) = (1..k) \union {k + 1}
    BY <1>1, <1>13
  <2>2. g[k + 1] = CheckFile(g[k], files[k + 1], language) /\ files[k + 1] \in SourceFiles
    BY <1>1, <1>11, <2>1
  <2>3. CheckedTo(files, language, k, g[k]) /\ g[k] \in Calls
    BY <1>13 DEF CheckedTo, Calls
  <2>4. /\ g[k + 1] \in Calls
        /\ g[k + 1].ok <=> g[k].ok /\ isRead(files[k + 1])
        /\ g[k + 1].ok =>
             ((\A j \in DOMAIN g[k + 1].packets : g[k + 1].packets[j] # Violation) <=>
                /\ \A j \in DOMAIN g[k].packets : g[k].packets[j] # Violation
                /\ ~exceeds(files[k + 1], language))
    <3> DEFINE call == g[k]
               file == files[k + 1]
    <3>1. call \in Calls /\ file \in SourceFiles /\ g[k + 1] = CheckFile(call, file, language)
      BY <2>2, <2>3
    <3> HIDE DEF call, file
    <3>2. /\ CheckFile(call, file, language) \in Calls
          /\ CheckFile(call, file, language).ok <=> call.ok /\ isRead(file)
          /\ CheckFile(call, file, language).ok =>
               ((\A j \in DOMAIN CheckFile(call, file, language).packets :
                   CheckFile(call, file, language).packets[j] # Violation) <=>
                  /\ \A j \in DOMAIN call.packets : call.packets[j] # Violation
                  /\ ~exceeds(file, language))
      BY <3>1, CheckFileAdds
    <3>3. QED
      BY <3>1, <3>2, Zenon DEF call, file
  <2>5. CheckedTo(files, language, k + 1, g[k + 1])
    BY <2>1, <2>3, <2>4, Zenon DEF CheckedTo, Calls
  <2>6. QED
    BY <2>1, <2>5
<1> HIDE DEF U
<1>14. 0..n \subseteq U
  BY <1>1, <1>12, <1>13, InductUpTo
<1>15. n \in U
  BY <1>1, <1>14
<1>16. QED
  BY <1>10, <1>15 DEF U, n

\* A SourceCheck of any number of files, of C++ or of Python, is paid exactly
\* when each is there, can be read and exceeds no limit (SourceCheck.__call__ and
\* CleanRunScorer).
THEOREM CleanRunsAreClean ==
  ASSUME NEW files \in Seq(SourceFiles)
  PROVE  CleanRunIsClean(files)
<1>1. DOMAIN files = 1..Len(files) /\ \A i \in DOMAIN files : files[i] \in SourceFiles
  OBVIOUS
<1>2. ASSUME NEW language \in Languages
      PROVE  Pays(SourceCheck(files, language)) <=>
               \A i \in DOMAIN files : isRead(files[i]) /\ ~exceeds(files[i], language)
  <2> DEFINE call == SourceCheck(files, language)
  <2>1. CheckedTo(files, language, Len(files), call)
    BY SourceCheckIs
  <2> HIDE DEF call
  <2>2. Pays(call) <=> call.ok /\ \A k \in DOMAIN call.packets : call.packets[k] # Violation
    <3>1. /\ call.packets \in Seq(Reported) /\ call.ok \in BOOLEAN
          /\ call = [packets |-> call.packets, ok |-> call.ok]
      BY <2>1 DEF CheckedTo, Calls
    <3>2. Pays([packets |-> call.packets, ok |-> call.ok]) <=>
            call.ok /\ \A k \in DOMAIN call.packets : call.packets[k] # Violation
      BY <3>1, PaysWhenClean
    <3>3. QED
      BY <3>1, <3>2
  <2>3. Pays(call) <=> \A i \in DOMAIN files : isRead(files[i]) /\ ~exceeds(files[i], language)
    BY <1>1, <2>1, <2>2, Zenon DEF CheckedTo
  <2>4. QED
    BY <2>3 DEF call
<1>3. QED
  BY <1>2 DEF CleanRunIsClean, isRead, exceeds, textOf

------------------------------------------------------------------------------
(* The definitions of a Python module: whatever its functions and classes  *)
(* are called, how many they are and in which order they come.             *)

Modules(Words) == Seq(FunctionDefs(Words) \union ClassDefs(Words))
Dicts(Words) == UNION {[K -> FunctionDefs(Words)] : K \in SUBSET Keys(Words)}

Has(defs, key, fn) == key \in DOMAIN defs /\ defs[key] = fn

LEMMA NodeFacts ==
  ASSUME NEW Words
  PROVE  /\ \A node \in FunctionDefs(Words) : isDef(node) /\ node.def \in Words
         /\ \A node \in ClassDefs(Words) : /\ ~isDef(node) /\ node.class \in Words
                                           /\ node.members \in Seq(FunctionDefs(Words))
BY DEF FunctionDefs, ClassDefs, isDef

LEMMA KeyFacts ==
  /\ \A v, w : Function(v) = Function(w) => v = w
  /\ \A c, v, w : Function(v) # Method(c, w)
  /\ \A c, d, v, w : Method(c, v) = Method(d, w) => c = d /\ v = w
BY DEF Function, Method

\* An assignment changes what one key has.
LEMMA PutFacts ==
  ASSUME NEW Words, NEW defs \in Dicts(Words), NEW key \in Keys(Words),
         NEW fn \in FunctionDefs(Words)
  PROVE  /\ put(defs, key, fn) \in Dicts(Words)
         /\ Has(put(defs, key, fn), key, fn)
         /\ \A k, f : k # key /\ Has(defs, k, f) => Has(put(defs, key, fn), k, f)
<1>1. PICK K \in SUBSET Keys(Words) : defs \in [K -> FunctionDefs(Words)]
  BY DEF Dicts
<1>2. put(defs, key, fn) \in [K \union {key} -> FunctionDefs(Words)]
  BY <1>1 DEF put
<1>3. K \union {key} \in SUBSET Keys(Words)
  BY <1>1
<1>4. put(defs, key, fn) \in Dicts(Words)
  BY <1>2, <1>3 DEF Dicts
<1>5. DOMAIN put(defs, key, fn) = DOMAIN defs \union {key}
  BY DEF put
<1>6. \A k \in DOMAIN defs \union {key} : put(defs, key, fn)[k] = IF k = key THEN fn ELSE defs[k]
  BY DEF put
<1>7. QED
  BY <1>4, <1>5, <1>6 DEF Has

\* A method takes its own key and no other that is taken.
LEMMA EnterMethodFacts ==
  ASSUME NEW Words, NEW defs \in Dicts(Words), NEW class \in Words,
         NEW member \in FunctionDefs(Words)
  PROVE  LET next == EnterMethod(defs, class, member)
             own == Method(class, member.def)
         IN /\ next \in Dicts(Words)
            /\ Has(next, own, member)
            /\ \A k, f : k # own /\ Has(defs, k, f) => Has(next, k, f)
<1> DEFINE own == Method(class, member.def)
           bare == Function(member.def)
           first == put(defs, own, member)
<1>1. own \in Keys(Words) /\ bare \in Keys(Words) /\ own # bare
  BY NodeFacts, KeyFacts DEF Keys
<1>2. /\ first \in Dicts(Words)
      /\ Has(first, own, member)
      /\ \A k, f : k # own /\ Has(defs, k, f) => Has(first, k, f)
  BY <1>1, PutFacts
<1>3. CASE bare \in DOMAIN first
  BY <1>2, <1>3 DEF EnterMethod, setdefault
<1>4. CASE bare \notin DOMAIN first
  <2>1. EnterMethod(defs, class, member) = put(first, bare, member)
    BY <1>4 DEF EnterMethod, setdefault
  <2> HIDE DEF first
  <2>2. /\ put(first, bare, member) \in Dicts(Words)
        /\ \A k, f : k # bare /\ Has(first, k, f) => Has(put(first, bare, member), k, f)
    BY <1>1, <1>2, PutFacts
  <2>3. \A k, f : Has(first, k, f) => k # bare
    BY <1>4 DEF Has
  <2>4. QED
    BY <1>1, <1>2, <2>1, <2>2, <2>3
<1>5. QED
  BY <1>3, <1>4

IsLast(nodes, i, n) == \A j \in (i + 1)..n : nodes[j].def # nodes[i].def

\* The first k methods of a class have taken their keys, each name for the last.
EnteredTo(Words, defs, next, class, members, k) ==
  /\ next \in Dicts(Words)
  /\ \A key, f : /\ Has(defs, key, f)
                 /\ \A j \in 1..k : key # Method(class, members[j].def)
                 => Has(next, key, f)
  /\ \A i \in 1..k : IsLast(members, i, k) => Has(next, Method(class, members[i].def), members[i])

LEMMA EnteredOneMore ==
  ASSUME NEW Words, NEW defs, NEW next, NEW class \in Words,
         NEW members \in Seq(FunctionDefs(Words)), NEW k \in Nat, k < Len(members),
         EnteredTo(Words, defs, next, class, members, k)
  PROVE  EnteredTo(Words, defs, EnterMethod(next, class, members[k + 1]), class, members, k + 1)
<1> DEFINE member == members[k + 1]
           own == Method(class, member.def)
           more == EnterMethod(next, class, member)
<1>1. /\ k + 1 \in 1..Len(members) /\ member \in FunctionDefs(Words)
      /\ 1..(k + 1) = (1..k) \union {k + 1}
  OBVIOUS
<1>2. next \in Dicts(Words)
  BY DEF EnteredTo
<1>3. /\ more \in Dicts(Words)
      /\ Has(more, own, member)
      /\ \A key, f : key # own /\ Has(next, key, f) => Has(more, key, f)
  BY <1>1, <1>2, EnterMethodFacts
<1> HIDE DEF more
<1>4. ASSUME NEW key, NEW f, Has(defs, key, f),
             \A j \in 1..(k + 1) : key # Method(class, members[j].def)
      PROVE  Has(more, key, f)
  <2>1. key # own /\ \A j \in 1..k : key # Method(class, members[j].def)
    BY <1>1, <1>4
  <2>2. Has(next, key, f)
    BY <1>4, <2>1 DEF EnteredTo
  <2>3. QED
    BY <1>3, <2>1, <2>2
<1>5. ASSUME NEW i \in 1..(k + 1), IsLast(members, i, k + 1)
      PROVE  Has(more, Method(class, members[i].def), members[i])
  <2>1. CASE i = k + 1
    BY <1>3, <2>1
  <2>2. CASE i # k + 1
    <3>1. i \in 1..k /\ k + 1 \in (i + 1)..(k + 1) /\ (i + 1)..k \subseteq (i + 1)..(k + 1)
      BY <2>2
    <3>2. IsLast(members, i, k) /\ members[k + 1].def # members[i].def
      BY <1>5, <3>1 DEF IsLast
    <3>3. Has(next, Method(class, members[i].def), members[i])
      BY <3>1, <3>2 DEF EnteredTo
    <3>4. own # Method(class, members[i].def)
      BY <3>2, KeyFacts
    <3>5. QED
      BY <1>3, <3>3, <3>4
  <2>3. QED
    BY <2>1, <2>2
<1>6. EnteredTo(Words, defs, more, class, members, k + 1)
  BY <1>3, <1>4, <1>5 DEF EnteredTo
<1>7. QED
  BY <1>6 DEF more

LEMMA EnterMethodsIs ==
  ASSUME NEW Words, NEW defs \in Dicts(Words), NEW class \in Words,
         NEW members \in Seq(FunctionDefs(Words))
  PROVE  EnteredTo(Words, defs, EnterMethods(defs, class, members), class, members, Len(members))
<1> DEFINE n == Len(members)
           S == Dicts(Words)
           step == [k \in 1..n |-> [x \in S |-> EnterMethod(x, class, members[k])]]
           UpTo(f) == f = [k \in 0..n |-> IF k = 0 THEN defs ELSE EnterMethod(f[k - 1], class, members[k])]
<1>1. n \in Nat /\ \A k \in 1..n : members[k] \in FunctionDefs(Words)
  OBVIOUS
<1>2. \A k \in 1..n : \A x \in S : step[k][x] = EnterMethod(x, class, members[k])
  OBVIOUS
<1>3. step \in [1..n -> [S -> S]]
  <2>1. \A k \in 1..n : \A x \in S : EnterMethod(x, class, members[k]) \in S
    BY <1>1, EnterMethodFacts
  <2>2. QED
    BY <2>1
<1>4. defs \in S
  OBVIOUS
<1> HIDE DEF n, S, step
<1>5. PICK h \in [0..n -> S] :
        h[0] = defs /\ \A k \in 1..n : h[k] = step[k][h[k - 1]]
  <2>1. Loops(S)
    BY LoopsOf
  <2>2. n \in Nat
    BY <1>1
  <2>3. QED
    BY <1>3, <1>4, <2>1, <2>2, Zenon DEF Loops
<1>6. \A k \in 0..n : k = 0 \/ (k \in 1..n /\ k - 1 \in 0..n)
  BY <1>1
<1>7. UpTo(h)
  <2>1. \A k \in 0..n : h[k] = IF k = 0 THEN defs ELSE EnterMethod(h[k - 1], class, members[k])
    BY <1>2, <1>5, <1>6
  <2>2. QED
    BY <1>5, <2>1
<1> HIDE DEF UpTo
<1> DEFINE g == CHOOSE f : UpTo(f)
<1>8. UpTo(g)
  BY <1>7, Zenon
<1>9. EnterMethods(defs, class, members) = g[n]
  BY DEF EnterMethods, n, UpTo
<1> HIDE DEF g
<1>10. \A k \in 0..n : g[k] = IF k = 0 THEN defs ELSE EnterMethod(g[k - 1], class, members[k])
  BY <1>8, Zenon DEF UpTo
<1> DEFINE U == {k \in 0..n : EnteredTo(Words, defs, g[k], class, members, k)}
<1>11. 0 \in U
  <2>1. g[0] = defs /\ 1..0 = {} /\ 0 \in 0..n
    BY <1>1, <1>10
  <2>2. QED
    BY <2>1 DEF EnteredTo
<1>12. ASSUME NEW k \in 0..n, k \in U, k < n
       PROVE  k + 1 \in U
  <2>1. k + 1 \in 0..n /\ k + 1 # 0 /\ (k + 1) - 1 = k /\ k \in Nat /\ k < Len(members)
    BY <1>1, <1>12 DEF n
  <2>2. g[k + 1] = EnterMethod(g[k], class, members[k + 1])
    BY <1>10, <2>1
  <2>3. EnteredTo(Words, defs, g[k], class, members, k)
    BY <1>12
  <2>4. EnteredTo(Words, defs, g[k + 1], class, members, k + 1)
    BY <2>1, <2>2, <2>3, EnteredOneMore
  <2>5. QED
    BY <2>1, <2>4
<1> HIDE DEF U
<1>13. 0..n \subseteq U
  BY <1>1, <1>11, <1>12, InductUpTo
<1>14. n \in U
  BY <1>1, <1>13
<1>15. QED
  BY <1>9, <1>14 DEF U, n

LastOfAll(tree, k, i) == \A j \in (k + 1)..i : isDef(tree[j]) => tree[j].def # tree[k].def
LastMethod(node, l) == l \in 1..Len(node.members) /\ IsLast(node.members, l, Len(node.members))

\* What the first i nodes of a module have put into the dict.
DefinedTo(Words, defs, tree, i) ==
  /\ defs \in Dicts(Words)
  /\ \A k \in 1..i : isDef(tree[k]) /\ LastOfAll(tree, k, i) => Has(defs, Function(tree[k].def), tree[k])
  /\ \A k \in 1..i : ~isDef(tree[k]) => \A l : LastMethod(tree[k], l) =>
       Has(defs, Method(tree[k].class, tree[k].members[l].def), tree[k].members[l])

DefineNode(defs, node) ==
  IF isDef(node) THEN put(defs, Function(node.def), node)
  ELSE EnterMethods(defs, node.class, node.members)

LEMMA NodeKinds ==
  ASSUME NEW Words, NEW tree \in Modules(Words), NEW i \in 1..Len(tree)
  PROVE  /\ isDef(tree[i]) => tree[i] \in FunctionDefs(Words)
         /\ ~isDef(tree[i]) => tree[i] \in ClassDefs(Words)
<1>1. tree[i] \in FunctionDefs(Words) \union ClassDefs(Words)
  BY DEF Modules
<1>2. QED
  BY <1>1, NodeFacts

LEMMA DefineNodeType ==
  ASSUME NEW Words, NEW tree \in Modules(Words), NEW i \in 1..Len(tree), NEW defs \in Dicts(Words)
  PROVE  DefineNode(defs, tree[i]) \in Dicts(Words)
<1>1. CASE isDef(tree[i])
  <2>1. tree[i] \in FunctionDefs(Words) /\ Function(tree[i].def) \in Keys(Words)
    BY <1>1, NodeKinds, NodeFacts DEF Keys
  <2>2. QED
    BY <1>1, <2>1, PutFacts DEF DefineNode
<1>2. CASE ~isDef(tree[i])
  <2>1. tree[i].class \in Words /\ tree[i].members \in Seq(FunctionDefs(Words))
    BY <1>2, NodeKinds, NodeFacts
  <2>2. QED
    BY <1>2, <2>1, EnterMethodsIs DEF DefineNode, EnteredTo
<1>3. QED
  BY <1>1, <1>2

LEMMA DefinedOneMore ==
  ASSUME NEW Words, NEW tree \in Modules(Words), NamesAreApart(tree),
         NEW i \in Nat, i < Len(tree), NEW defs, DefinedTo(Words, defs, tree, i)
  PROVE  DefinedTo(Words, DefineNode(defs, tree[i + 1]), tree, i + 1)
<1> DEFINE node == tree[i + 1]
           next == DefineNode(defs, node)
<1>1. /\ Len(tree) \in Nat /\ DOMAIN tree = 1..Len(tree) /\ i + 1 \in 1..Len(tree)
      /\ 1..(i + 1) = (1..i) \union {i + 1} /\ 1..i \subseteq 1..Len(tree) /\ i + 1 \notin 1..i
  BY DEF Modules
<1>2. defs \in Dicts(Words) /\ next \in Dicts(Words)
  BY <1>1, DefineNodeType DEF DefinedTo
<1>3. \A k \in 1..i : LastOfAll(tree, k, i + 1) =>
        LastOfAll(tree, k, i) /\ (isDef(node) => node.def # tree[k].def)
  <2> TAKE k \in 1..i
  <2>1. (k + 1)..i \subseteq (k + 1)..(i + 1) /\ i + 1 \in (k + 1)..(i + 1)
    OBVIOUS
  <2>2. QED
    BY <2>1 DEF LastOfAll
<1>4. CASE isDef(node)
  <2>1. node \in FunctionDefs(Words) /\ Function(node.def) \in Keys(Words)
    BY <1>1, <1>4, NodeKinds, NodeFacts DEF Keys
  <2>2. /\ Has(next, Function(node.def), node)
        /\ \A key, f : key # Function(node.def) /\ Has(defs, key, f) => Has(next, key, f)
    BY <1>2, <1>4, <2>1, PutFacts DEF DefineNode
  <2> HIDE DEF next
  <2>3. ASSUME NEW k \in 1..(i + 1), isDef(tree[k]), LastOfAll(tree, k, i + 1)
        PROVE  Has(next, Function(tree[k].def), tree[k])
    <3>1. CASE k = i + 1
      BY <2>2, <3>1
    <3>2. CASE k \in 1..i
      <4>1. Has(defs, Function(tree[k].def), tree[k]) /\ node.def # tree[k].def
        BY <1>3, <1>4, <2>3, <3>2 DEF DefinedTo
      <4>2. Function(tree[k].def) # Function(node.def)
        BY <4>1, KeyFacts
      <4>3. QED
        BY <2>2, <4>1, <4>2
    <3>3. QED
      BY <1>1, <3>1, <3>2
  <2>4. ASSUME NEW k \in 1..(i + 1), ~isDef(tree[k]), NEW l, LastMethod(tree[k], l)
        PROVE  Has(next, Method(tree[k].class, tree[k].members[l].def), tree[k].members[l])
    <3>1. k \in 1..i
      BY <1>1, <1>4, <2>4
    <3>2. Has(defs, Method(tree[k].class, tree[k].members[l].def), tree[k].members[l])
      BY <2>4, <3>1 DEF DefinedTo
    <3>3. QED
      BY <2>2, <3>2, KeyFacts
  <2>5. DefinedTo(Words, next, tree, i + 1)
    BY <1>2, <2>3, <2>4 DEF DefinedTo
  <2>6. QED
    BY <2>5 DEF next
<1>5. CASE ~isDef(node)
  <2> DEFINE class == node.class
             members == node.members
             n == Len(node.members)
  <2>1. class \in Words /\ members \in Seq(FunctionDefs(Words))
    BY <1>1, <1>5, NodeKinds, NodeFacts
  <2>2. EnteredTo(Words, defs, next, class, members, n)
    BY <1>2, <1>5, <2>1, EnterMethodsIs DEF DefineNode
  <2> HIDE DEF next
  <2>3. ASSUME NEW k \in 1..(i + 1), isDef(tree[k]), LastOfAll(tree, k, i + 1)
        PROVE  Has(next, Function(tree[k].def), tree[k])
    <3>1. k \in 1..i
      BY <1>1, <1>5, <2>3
    <3>2. Has(defs, Function(tree[k].def), tree[k])
      BY <1>3, <2>3, <3>1 DEF DefinedTo
    <3>3. QED
      BY <2>2, <3>2, KeyFacts DEF EnteredTo
  <2>4. ASSUME NEW k \in 1..(i + 1), ~isDef(tree[k]), NEW l, LastMethod(tree[k], l)
        PROVE  Has(next, Method(tree[k].class, tree[k].members[l].def), tree[k].members[l])
    <3>1. CASE k = i + 1
      <4>1. l \in 1..n /\ IsLast(members, l, n)
        BY <2>4, <3>1 DEF LastMethod
      <4>2. Has(next, Method(class, members[l].def), members[l])
        BY <2>2, <4>1 DEF EnteredTo
      <4>3. QED
        BY <3>1, <4>2
    <3>2. CASE k \in 1..i
      <4>1. Has(defs, Method(tree[k].class, tree[k].members[l].def), tree[k].members[l])
        BY <2>4, <3>2 DEF DefinedTo
      <4>2. tree[k].class # class
        BY <1>1, <1>5, <2>4, <3>2 DEF NamesAreApart, NameOf
      <4>3. QED
        BY <2>2, <4>1, <4>2, KeyFacts DEF EnteredTo
    <3>3. QED
      BY <1>1, <3>1, <3>2
  <2>5. DefinedTo(Words, next, tree, i + 1)
    BY <1>2, <2>3, <2>4 DEF DefinedTo
  <2>6. QED
    BY <2>5 DEF next
<1>6. QED
  BY <1>4, <1>5

LEMMA FunctionDefsAre ==
  ASSUME NEW Words, NEW tree \in Modules(Words), NamesAreApart(tree)
  PROVE  DefinedTo(Words, _function_defs(tree), tree, Len(tree))
<1> DEFINE n == Len(tree)
           S == Dicts(Words)
           none == [key \in {} |-> {}]
           step == [i \in 1..n |-> [x \in S |-> DefineNode(x, tree[i])]]
           UpTo(f) == f = [i \in 0..n |->
             IF i = 0 THEN [key \in {} |-> {}]
             ELSE IF isDef(tree[i]) THEN put(f[i - 1], Function(tree[i].def), tree[i])
             ELSE EnterMethods(f[i - 1], tree[i].class, tree[i].members)]
<1>1. n \in Nat
  BY DEF Modules
<1>2. \A i \in 1..n : \A x \in S : step[i][x] = DefineNode(x, tree[i])
  OBVIOUS
<1>3. step \in [1..n -> [S -> S]]
  <2>1. \A i \in 1..n : \A x \in S : DefineNode(x, tree[i]) \in S
    BY DefineNodeType
  <2>2. QED
    BY <2>1
<1>4. none \in S
  <2>1. none \in [{} -> FunctionDefs(Words)] /\ {} \in SUBSET Keys(Words)
    OBVIOUS
  <2>2. QED
    BY <2>1 DEF Dicts
<1>5. \A f : UpTo(f) <=> f = [i \in 0..n |-> IF i = 0 THEN none ELSE DefineNode(f[i - 1], tree[i])]
  BY Zenon DEF DefineNode
<1> HIDE DEF n, S, step, none, UpTo
<1>6. PICK h \in [0..n -> S] :
        h[0] = none /\ \A i \in 1..n : h[i] = step[i][h[i - 1]]
  <2>1. Loops(S)
    BY LoopsOf
  <2>2. QED
    BY <1>1, <1>3, <1>4, <2>1, Zenon DEF Loops
<1>7. \A i \in 0..n : i = 0 \/ (i \in 1..n /\ i - 1 \in 0..n)
  BY <1>1
<1>8. UpTo(h)
  <2>1. \A i \in 0..n : h[i] = IF i = 0 THEN none ELSE DefineNode(h[i - 1], tree[i])
    BY <1>2, <1>6, <1>7
  <2>2. h = [i \in 0..n |-> IF i = 0 THEN none ELSE DefineNode(h[i - 1], tree[i])]
    BY <1>6, <2>1
  <2>3. QED
    BY <1>5, <2>2
<1> DEFINE g == CHOOSE f : UpTo(f)
<1>9. UpTo(g)
  BY <1>8, Zenon
<1>10. _function_defs(tree) = g[n]
  BY DEF _function_defs, n, UpTo
<1> HIDE DEF g
<1>11. \A i \in 0..n : g[i] = IF i = 0 THEN none ELSE DefineNode(g[i - 1], tree[i])
  <2>1. g = [i \in 0..n |-> IF i = 0 THEN none ELSE DefineNode(g[i - 1], tree[i])]
    BY <1>5, <1>9
  <2>2. QED
    BY <2>1, Zenon
<1> DEFINE U == {i \in 0..n : DefinedTo(Words, g[i], tree, i)}
<1>12. 0 \in U
  <2>1. g[0] = none /\ 1..0 = {} /\ 0 \in 0..n
    BY <1>1, <1>11
  <2>2. QED
    BY <1>4, <2>1 DEF DefinedTo, S
<1>13. ASSUME NEW i \in 0..n, i \in U, i < n
       PROVE  i + 1 \in U
  <2>1. i + 1 \in 0..n /\ i + 1 # 0 /\ (i + 1) - 1 = i /\ i \in Nat /\ i < Len(tree)
    BY <1>1, <1>13 DEF n
  <2>2. g[i + 1] = DefineNode(g[i], tree[i + 1])
    BY <1>11, <2>1
  <2>3. DefinedTo(Words, g[i], tree, i)
    BY <1>13
  <2>4. DefinedTo(Words, g[i + 1], tree, i + 1)
    BY <2>1, <2>2, <2>3, DefinedOneMore
  <2>5. QED
    BY <2>1, <2>4
<1> HIDE DEF U
<1>14. 0..n \subseteq U
  BY <1>1, <1>12, <1>13, InductUpTo
<1>15. n \in U
  BY <1>1, <1>14
<1>16. QED
  BY <1>10, <1>15 DEF U, n

------------------------------------------------------------------------------
\* What Python calls is what the dict has.

LEMMA MaxIs ==
  ASSUME NEW n \in Nat, NEW I \in SUBSET (1..n), I # {}
  PROVE  Max(I) \in I /\ Max(I) \in 1..n /\ \A j \in I : j <= Max(I)
<1>1. I \subseteq Int /\ n \in Int /\ \A y \in I : y <= n
  OBVIOUS
<1>2. \E x \in I : \A y \in I : y <= x
  BY <1>1, GreatestTo
<1>3. \E x \in I : \A y \in I : x >= y
  BY <1>1, <1>2
<1>4. Max(I) \in I /\ \A y \in I : Max(I) >= y
  BY <1>3 DEF Max
<1>5. QED
  BY <1>1, <1>4

Called(tree, w) == {i \in 1..Len(tree) : isDef(tree[i]) /\ tree[i].def = w}
ClassesOf(tree, c) == {i \in 1..Len(tree) : ~isDef(tree[i]) /\ tree[i].class = c}
Methods(node, w) == {l \in 1..Len(node.members) : node.members[l].def = w}

\* What holds under a name is the last function so called, or the one class.
Named(tree, w) == {i \in 1..Len(tree) : NameOf(tree[i]) = w}

LEMMA NamedAre ==
  ASSUME NEW Words, NEW tree \in Modules(Words), NamesAreApart(tree), NEW w
  PROVE  /\ ClassesOf(tree, w) = {} => Named(tree, w) = Called(tree, w)
         /\ ClassesOf(tree, w) # {} => Named(tree, w) = ClassesOf(tree, w) /\ Called(tree, w) = {}
         /\ Named(tree, w) # {} => Max(Named(tree, w)) \in Named(tree, w) /\ Max(Named(tree, w)) # 0
<1>1. DOMAIN tree = 1..Len(tree) /\ Len(tree) \in Nat
  BY DEF Modules
<1>2. Named(tree, w) = Called(tree, w) \union ClassesOf(tree, w)
  BY DEF Named, Called, ClassesOf, NameOf
<1>3. ASSUME NEW i \in ClassesOf(tree, w) PROVE Named(tree, w) = {i} /\ i \notin Called(tree, w)
  <2>1. i \in DOMAIN tree /\ ~isDef(tree[i]) /\ tree[i].class = w
    BY <1>1 DEF ClassesOf
  <2>2. \A j \in Named(tree, w) : j \in DOMAIN tree /\ NameOf(tree[j]) = w
    BY <1>1 DEF Named
  <2>3. \A j \in Named(tree, w) : j = i
    BY <2>1, <2>2 DEF NamesAreApart
  <2>4. QED
    BY <1>2, <2>1, <2>3 DEF Called
<1>4. Named(tree, w) # {} => Max(Named(tree, w)) \in Named(tree, w) /\ Max(Named(tree, w)) # 0
  <2>1. Named(tree, w) \in SUBSET (1..Len(tree))
    BY DEF Named
  <2>2. QED
    BY <1>1, <2>1, MaxIs
<1>5. QED
  BY <1>2, <1>3, <1>4

LEMMA BoundFunction ==
  ASSUME NEW Words, NEW tree \in Modules(Words), NamesAreApart(tree), NEW w
  PROVE  Bound(tree, Function(w)) =
           IF Called(tree, w) = {} THEN {} ELSE {tree[Max(Called(tree, w))]}
<1> DEFINE last == IF Named(tree, w) # {} THEN Max(Named(tree, w)) ELSE 0
<1>1. Len(Function(w)) = 1 /\ Function(w)[1] = w
  BY DEF Function
<1>2. Bound(tree, Function(w)) =
        IF last = 0 \/ ~isDef(tree[last]) THEN {} ELSE {tree[last]}
  BY <1>1 DEF Bound, SelectLastInSeq, Named
<1>3. CASE ClassesOf(tree, w) # {}
  BY <1>2, <1>3, NamedAre DEF ClassesOf
<1>4. CASE ClassesOf(tree, w) = {}
  BY <1>2, <1>4, NamedAre DEF Called
<1>5. QED
  BY <1>3, <1>4

LastClass(tree, c) == tree[Max(ClassesOf(tree, c))]

LEMMA BoundMethod ==
  ASSUME NEW Words, NEW tree \in Modules(Words), NamesAreApart(tree), NEW c, NEW w
  PROVE  Bound(tree, Method(c, w)) =
           IF ClassesOf(tree, c) = {} \/ Methods(LastClass(tree, c), w) = {} THEN {}
           ELSE {LastClass(tree, c).members[Max(Methods(LastClass(tree, c), w))]}
<1> DEFINE key == Method(c, w)
           node == LastClass(tree, c)
           last == IF Named(tree, c) # {} THEN Max(Named(tree, c)) ELSE 0
           lastNamed(m) ==
             LET I == {l \in 1..Len(m) : m[l].def = w} IN IF I # {} THEN Max(I) ELSE 0
<1>1. Len(key) # 1 /\ key[1] = c /\ key[2] = w
  BY DEF Method
<1>2. Bound(tree, key) =
        IF last = 0 \/ isDef(tree[last]) THEN {}
        ELSE IF lastNamed(tree[last].members) = 0 THEN {}
        ELSE {tree[last].members[lastNamed(tree[last].members)]}
  <2> DEFINE holding == {i \in 1..Len(tree) : NameOf(tree[i]) = key[1]}
             place == IF holding # {} THEN Max(holding) ELSE 0
             method(m) ==
               LET I == {l \in 1..Len(m) : m[l].def = key[2]} IN IF I # {} THEN Max(I) ELSE 0
  <2>1. Bound(tree, key) =
          IF place = 0 \/ isDef(tree[place]) # (Len(key) = 1) THEN {}
          ELSE IF isDef(tree[place]) THEN {tree[place]}
          ELSE IF method(tree[place].members) = 0 THEN {}
          ELSE {tree[place].members[method(tree[place].members)]}
    BY Zenon DEF Bound, SelectLastInSeq
  <2>2. place = last
    BY <1>1 DEF Named
  <2>3. ASSUME NEW m PROVE method(m) = lastNamed(m)
    BY <1>1
  <2>4. isDef(tree[last]) \in BOOLEAN
    BY DEF isDef
  <2> HIDE DEF key, place, last, method, lastNamed
  <2>5. QED
    BY <1>1, <2>1, <2>2, <2>3, <2>4
<1>3. CASE ClassesOf(tree, c) = {}
  <2>1. last = 0 \/ isDef(tree[last])
    BY <1>3, NamedAre DEF Called
  <2>2. QED
    BY <1>2, <1>3, <2>1
<1>4. CASE ClassesOf(tree, c) # {}
  <2>1. /\ last = Max(ClassesOf(tree, c)) /\ last # 0 /\ last \in 1..Len(tree)
        /\ ~isDef(tree[last]) /\ tree[last] = node
    BY <1>4, NamedAre DEF ClassesOf, LastClass
  <2>2. node.members \in Seq(FunctionDefs(Words))
    BY <2>1, NodeKinds, NodeFacts
  <2>3. lastNamed(node.members) = IF Methods(node, w) # {} THEN Max(Methods(node, w)) ELSE 0
    BY DEF Methods
  <2>4. Bound(tree, key) =
          IF lastNamed(node.members) = 0 THEN {} ELSE {node.members[lastNamed(node.members)]}
    BY <1>2, <2>1
  <2> HIDE DEF node, lastNamed, last
  <2>5. Methods(node, w) # {} => Max(Methods(node, w)) # 0
    <3>1. Len(node.members) \in Nat /\ Methods(node, w) \in SUBSET (1..Len(node.members))
      BY <2>2 DEF Methods
    <3>2. QED
      BY <3>1, MaxIs
  <2>6. QED
    BY <1>4, <2>3, <2>4, <2>5 DEF node
<1>5. QED
  BY <1>3, <1>4

LEMMA BoundIsDefined ==
  ASSUME NEW Words, NEW tree \in Modules(Words), NamesAreApart(tree), NEW key \in Keys(Words)
  PROVE  \/ Bound(tree, key) = {}
         \/ \E fn \in FunctionDefs(Words) :
              Has(_function_defs(tree), key, fn) /\ Bound(tree, key) = {fn}
<1> DEFINE n == Len(tree)
<1>1. n \in Nat /\ DefinedTo(Words, _function_defs(tree), tree, n)
  BY FunctionDefsAre DEF Modules
<1>2. ASSUME NEW w, key = Function(w), Called(tree, w) # {}
      PROVE  \E fn \in FunctionDefs(Words) :
               Has(_function_defs(tree), key, fn) /\ Bound(tree, key) = {fn}
  <2> DEFINE i == Max(Called(tree, w))
  <2>1. Called(tree, w) \in SUBSET (1..n)
    BY DEF Called
  <2>2. i \in Called(tree, w) /\ i \in 1..n /\ \A j \in Called(tree, w) : j <= i
    BY <1>1, <1>2, <2>1, MaxIs
  <2> HIDE DEF i
  <2>3. isDef(tree[i]) /\ tree[i].def = w /\ tree[i] \in FunctionDefs(Words)
    BY <2>2, NodeKinds DEF Called
  <2>4. LastOfAll(tree, i, n)
    <3>1. \A j \in (i + 1)..n : j \in 1..n /\ ~(j <= i)
      BY <1>1, <2>2
    <3>2. \A j \in (i + 1)..n : j \notin Called(tree, w)
      BY <2>2, <3>1
    <3>3. QED
      BY <2>3, <3>1, <3>2 DEF LastOfAll, Called
  <2>5. Has(_function_defs(tree), Function(w), tree[i])
    BY <1>1, <2>2, <2>3, <2>4 DEF DefinedTo
  <2>6. Bound(tree, key) = {tree[i]}
    BY <1>2, BoundFunction DEF i
  <2>7. QED
    BY <1>2, <2>3, <2>5, <2>6
<1>3. ASSUME NEW c, NEW w, key = Method(c, w), Bound(tree, key) # {}
      PROVE  \E fn \in FunctionDefs(Words) :
               Has(_function_defs(tree), key, fn) /\ Bound(tree, key) = {fn}
  <2> DEFINE i == Max(ClassesOf(tree, c))
             node == LastClass(tree, c)
             l == Max(Methods(node, w))
  <2>1. /\ ClassesOf(tree, c) # {} /\ Methods(node, w) # {}
        /\ Bound(tree, key) = {node.members[l]}
    BY <1>3, BoundMethod
  <2>2. i \in 1..n /\ ~isDef(node) /\ node.class = c
    <3>1. ClassesOf(tree, c) \in SUBSET (1..n)
      BY DEF ClassesOf
    <3>2. i \in ClassesOf(tree, c) /\ i \in 1..n
      BY <1>1, <2>1, <3>1, MaxIs
    <3>3. QED
      BY <3>2 DEF ClassesOf, LastClass
  <2>3. node.members \in Seq(FunctionDefs(Words))
    BY <2>2, NodeKinds, NodeFacts DEF LastClass
  <2>3a. node = tree[i]
    BY DEF LastClass
  <2> HIDE DEF node, i
  <2>4. Len(node.members) \in Nat /\ Methods(node, w) \in SUBSET (1..Len(node.members))
    BY <2>3 DEF Methods
  <2>5. l \in Methods(node, w) /\ l \in 1..Len(node.members) /\ \A j \in Methods(node, w) : j <= l
    BY <2>1, <2>4, MaxIs
  <2> HIDE DEF l
  <2>6. node.members[l].def = w /\ node.members[l] \in FunctionDefs(Words)
    BY <2>3, <2>5 DEF Methods
  <2>7. LastMethod(node, l)
    <3>1. \A j \in (l + 1)..Len(node.members) : j \in 1..Len(node.members) /\ ~(j <= l)
      BY <2>4, <2>5
    <3>2. \A j \in (l + 1)..Len(node.members) : j \notin Methods(node, w)
      BY <2>5, <3>1
    <3>3. QED
      BY <2>5, <2>6, <3>1, <3>2 DEF LastMethod, IsLast, Methods
  <2>8. Has(_function_defs(tree), Method(c, w), node.members[l])
    BY <1>1, <2>2, <2>3a, <2>6, <2>7 DEF DefinedTo
  <2>9. QED
    BY <1>3, <2>1, <2>6, <2>8
<1>4. CASE \E w \in Words : key = Function(w)
  <2>1. PICK w \in Words : key = Function(w)
    BY <1>4
  <2>2. Called(tree, w) = {} => Bound(tree, key) = {}
    BY <2>1, BoundFunction
  <2>3. QED
    BY <1>2, <2>1, <2>2
<1>5. CASE \E c, w \in Words : key = Method(c, w)
  BY <1>3, <1>5
<1>6. QED
  BY <1>4, <1>5 DEF Keys

------------------------------------------------------------------------------
\* The functions that are graded when none are named.

MethodKeys(node) == {Method(node.class, node.members[k].def) : k \in 1..Len(node.members)}

AddMethod(keys, node, k) ==
  IF node.members[k].def \in Private THEN keys
  ELSE Append(keys, Method(node.class, node.members[k].def))

LEMMA PublicMethodsAre ==
  ASSUME NEW node, Len(node.members) \in Nat
  PROVE  publicMethods(node) \in Seq(MethodKeys(node))
<1> DEFINE n == Len(node.members)
           S == Seq(MethodKeys(node))
           step == [k \in 1..n |-> [x \in S |-> AddMethod(x, node, k)]]
           UpTo(f) == f = [k \in 0..n |->
             IF k = 0 THEN <<>>
             ELSE IF node.members[k].def \in Private THEN f[k - 1]
             ELSE Append(f[k - 1], Method(node.class, node.members[k].def))]
<1>1. n \in Nat /\ <<>> \in S
  OBVIOUS
<1>2. \A k \in 1..n : \A x \in S : AddMethod(x, node, k) \in S
  <2> TAKE k \in 1..n
  <2> TAKE x \in S
  <2>1. Method(node.class, node.members[k].def) \in MethodKeys(node)
    BY DEF MethodKeys
  <2>2. QED
    BY <2>1 DEF AddMethod
<1>3. \A k \in 1..n : \A x \in S : step[k][x] = AddMethod(x, node, k)
  OBVIOUS
<1>4. step \in [1..n -> [S -> S]]
  BY <1>2
<1>5. \A f : UpTo(f) <=> f = [k \in 0..n |-> IF k = 0 THEN <<>> ELSE AddMethod(f[k - 1], node, k)]
  BY Zenon DEF AddMethod
<1> HIDE DEF n, S, step, UpTo
<1>6. PICK h \in [0..n -> S] :
        h[0] = <<>> /\ \A k \in 1..n : h[k] = step[k][h[k - 1]]
  <2>1. Loops(S)
    BY LoopsOf
  <2>2. n \in Nat /\ <<>> \in S
    BY <1>1
  <2>3. QED
    BY <1>4, <2>1, <2>2, Zenon DEF Loops
<1>7. \A k \in 0..n : k = 0 \/ (k \in 1..n /\ k - 1 \in 0..n)
  BY <1>1
<1>8. UpTo(h)
  <2>1. \A k \in 0..n : h[k] = IF k = 0 THEN <<>> ELSE AddMethod(h[k - 1], node, k)
    BY <1>3, <1>6, <1>7
  <2>2. h = [k \in 0..n |-> IF k = 0 THEN <<>> ELSE AddMethod(h[k - 1], node, k)]
    BY <1>6, <2>1
  <2>3. QED
    BY <1>5, <2>2
<1> DEFINE g == CHOOSE f : UpTo(f)
<1>9. UpTo(g)
  BY <1>8, Zenon
<1>10. publicMethods(node) = IF node.class \in Private THEN <<>> ELSE g[n]
  BY DEF publicMethods, n, UpTo
<1> HIDE DEF g
<1>11. \A k \in 0..n : g[k] = IF k = 0 THEN <<>> ELSE AddMethod(g[k - 1], node, k)
  <2>1. g = [k \in 0..n |-> IF k = 0 THEN <<>> ELSE AddMethod(g[k - 1], node, k)]
    BY <1>5, <1>9
  <2>2. QED
    BY <2>1, Zenon
<1> DEFINE U == {k \in 0..n : g[k] \in S}
<1>12. 0 \in U
  BY <1>1, <1>11
<1>13. ASSUME NEW k \in 0..n, k \in U, k < n
       PROVE  k + 1 \in U
  <2>1. k + 1 \in 0..n /\ k + 1 \in 1..n /\ k + 1 # 0 /\ (k + 1) - 1 = k
    BY <1>1, <1>13
  <2>2. g[k + 1] = AddMethod(g[k], node, k + 1)
    BY <1>11, <2>1
  <2>3. QED
    BY <1>2, <1>13, <2>1, <2>2
<1> HIDE DEF U
<1>14. 0..n \subseteq U
  BY <1>1, <1>12, <1>13, InductUpTo
<1>15. n \in U
  BY <1>1, <1>14
<1>16. g[n] \in S
  BY <1>15 DEF U
<1>17. QED
  BY <1>1, <1>10, <1>16 DEF S

\* Each of them is one that Python calls.
BoundKeys(Words, tree) == {key \in Keys(Words) : Bound(tree, key) # {}}

AddNode(keys, node) ==
  keys \o (IF ~isDef(node) THEN publicMethods(node)
           ELSE IF node.def \in Private THEN <<>>
           ELSE <<Function(node.def)>>)

LEMMA AddNodeType ==
  ASSUME NEW Words, NEW tree \in Modules(Words), NamesAreApart(tree), NEW i \in 1..Len(tree),
         NEW keys \in Seq(BoundKeys(Words, tree))
  PROVE  AddNode(keys, tree[i]) \in Seq(BoundKeys(Words, tree))
<1> DEFINE node == tree[i]
<1>1. DOMAIN tree = 1..Len(tree) /\ Len(tree) \in Nat
  BY DEF Modules
<1>2. CASE isDef(node)
  <2>1. i \in Called(tree, node.def) /\ node.def \in Words
    BY <1>2, NodeKinds, NodeFacts DEF Called
  <2>2. Bound(tree, Function(node.def)) # {}
    BY <2>1, BoundFunction
  <2>3. Function(node.def) \in BoundKeys(Words, tree)
    BY <2>1, <2>2 DEF BoundKeys, Keys
  <2>4. QED
    BY <1>2, <2>3 DEF AddNode
<1>3. CASE ~isDef(node)
  <2>1. node.class \in Words /\ node.members \in Seq(FunctionDefs(Words))
    BY <1>3, NodeKinds, NodeFacts
  <2>2. LastClass(tree, node.class) = node /\ ClassesOf(tree, node.class) # {}
    <3>1. ClassesOf(tree, node.class) = {i}
      BY <1>1, <1>3 DEF ClassesOf, NamesAreApart, NameOf
    <3>2. {i} \in SUBSET (1..Len(tree)) /\ {i} # {}
      OBVIOUS
    <3>3. Max({i}) = i
      BY <1>1, <3>2, MaxIs
    <3>4. QED
      BY <3>1, <3>3 DEF LastClass
  <2> HIDE DEF node
  <2>3. ASSUME NEW k \in 1..Len(node.members)
        PROVE  Method(node.class, node.members[k].def) \in BoundKeys(Words, tree)
    <3>1. node.members[k].def \in Words /\ k \in Methods(node, node.members[k].def)
      BY <2>1, NodeFacts DEF Methods
    <3>2. Bound(tree, Method(node.class, node.members[k].def)) # {}
      <4> DEFINE class == node.class
                 w == node.members[k].def
      <4>1. LastClass(tree, class) = node /\ ClassesOf(tree, class) # {} /\ Methods(node, w) # {}
        BY <2>2, <3>1
      <4> HIDE DEF class, w
      <4>2. Bound(tree, Method(class, w)) =
              IF ClassesOf(tree, class) = {} \/ Methods(LastClass(tree, class), w) = {} THEN {}
              ELSE {LastClass(tree, class).members[Max(Methods(LastClass(tree, class), w))]}
        BY BoundMethod
      <4>3. Bound(tree, Method(class, w)) # {}
        BY <4>1, <4>2
      <4>4. QED
        BY <4>3 DEF class, w
    <3>3. QED
      BY <2>1, <3>1, <3>2 DEF BoundKeys, Keys
  <2>4. MethodKeys(node) \subseteq BoundKeys(Words, tree)
    BY <2>3 DEF MethodKeys
  <2>5. publicMethods(node) \in Seq(MethodKeys(node))
    <3>1. Len(node.members) \in Nat
      BY <2>1
    <3>2. QED
      BY <3>1, PublicMethodsAre
  <2>6. publicMethods(node) \in Seq(BoundKeys(Words, tree))
    BY <2>4, <2>5
  <2>7. AddNode(keys, node) = keys \o publicMethods(node)
    BY <1>3 DEF AddNode
  <2>8. QED
    BY <2>6, <2>7 DEF node
<1>4. QED
  BY <1>2, <1>3

LEMMA DefaultTargetsAre ==
  ASSUME NEW Words, NEW tree \in Modules(Words), NamesAreApart(tree)
  PROVE  _default_targets(tree) \in Seq(BoundKeys(Words, tree))
<1> DEFINE n == Len(tree)
           S == Seq(BoundKeys(Words, tree))
           step == [i \in 1..n |-> [x \in S |-> AddNode(x, tree[i])]]
           UpTo(f) == f = [i \in 0..n |->
             IF i = 0 THEN <<>>
             ELSE f[i - 1] \o (IF ~isDef(tree[i]) THEN publicMethods(tree[i])
                               ELSE IF tree[i].def \in Private THEN <<>>
                               ELSE <<Function(tree[i].def)>>)]
<1>1. n \in Nat /\ <<>> \in S
  BY DEF Modules
<1>2. \A i \in 1..n : \A x \in S : AddNode(x, tree[i]) \in S
  BY AddNodeType
<1>3. \A i \in 1..n : \A x \in S : step[i][x] = AddNode(x, tree[i])
  OBVIOUS
<1>4. step \in [1..n -> [S -> S]]
  BY <1>2
<1>5. \A f : UpTo(f) <=> f = [i \in 0..n |-> IF i = 0 THEN <<>> ELSE AddNode(f[i - 1], tree[i])]
  BY Zenon DEF AddNode
<1> HIDE DEF n, S, step, UpTo
<1>6. PICK h \in [0..n -> S] :
        h[0] = <<>> /\ \A i \in 1..n : h[i] = step[i][h[i - 1]]
  <2>1. Loops(S)
    BY LoopsOf
  <2>2. n \in Nat /\ <<>> \in S
    BY <1>1
  <2>3. QED
    BY <1>4, <2>1, <2>2, Zenon DEF Loops
<1>7. \A i \in 0..n : i = 0 \/ (i \in 1..n /\ i - 1 \in 0..n)
  BY <1>1
<1>8. UpTo(h)
  <2>1. \A i \in 0..n : h[i] = IF i = 0 THEN <<>> ELSE AddNode(h[i - 1], tree[i])
    BY <1>3, <1>6, <1>7
  <2>2. h = [i \in 0..n |-> IF i = 0 THEN <<>> ELSE AddNode(h[i - 1], tree[i])]
    BY <1>6, <2>1
  <2>3. QED
    BY <1>5, <2>2
<1> DEFINE g == CHOOSE f : UpTo(f)
<1>9. UpTo(g)
  BY <1>8, Zenon
<1>10. _default_targets(tree) = g[n]
  BY DEF _default_targets, n, UpTo
<1> HIDE DEF g
<1>11. \A i \in 0..n : g[i] = IF i = 0 THEN <<>> ELSE AddNode(g[i - 1], tree[i])
  <2>1. g = [i \in 0..n |-> IF i = 0 THEN <<>> ELSE AddNode(g[i - 1], tree[i])]
    BY <1>5, <1>9
  <2>2. QED
    BY <2>1, Zenon
<1> DEFINE U == {i \in 0..n : g[i] \in S}
<1>12. 0 \in U
  BY <1>1, <1>11
<1>13. ASSUME NEW i \in 0..n, i \in U, i < n
       PROVE  i + 1 \in U
  <2>1. i + 1 \in 0..n /\ i + 1 \in 1..n /\ i + 1 # 0 /\ (i + 1) - 1 = i
    BY <1>1, <1>13
  <2>2. g[i + 1] = AddNode(g[i], tree[i + 1])
    BY <1>11, <2>1
  <2>3. QED
    BY <1>2, <1>13, <2>1, <2>2
<1> HIDE DEF U
<1>14. 0..n \subseteq U
  BY <1>1, <1>12, <1>13, InductUpTo
<1>15. n \in U
  BY <1>1, <1>14
<1>16. QED
  BY <1>10, <1>15 DEF U, S

\* One file, of which it is said which limits it exceeds.
LEMMA OneIs ==
  ASSUME NEW exceeded \in Seq(BOOLEAN)
  PROVE  One(exceeded) = [packets |-> FilePackets(exceeded), ok |-> TRUE]
<1> DEFINE none == [packets |-> <<>>, ok |-> TRUE]
           files == <<[found |-> TRUE]>>
           P == FilePackets(exceeded)
           all == [packets |-> P, ok |-> TRUE]
           UpTo(f) == f = [i \in 0..Len(files) |->
             IF i = 0 THEN [packets |-> <<>>, ok |-> TRUE]
             ELSE IF ~f[i - 1].ok \/ ~files[i].found \/ ~TRUE
               THEN [f[i - 1] EXCEPT !.ok = FALSE]
             ELSE [f[i - 1] EXCEPT !.packets = @ \o FilePackets(exceeded)]]
           h == [i \in 0..1 |-> IF i = 0 THEN none ELSE all]
<1>1. Len(files) = 1 /\ files[1].found
  OBVIOUS
<1>2. P \in Seq(Reported) /\ <<>> \o P = P
  <2>1. P \in Seq(Reported)
    BY FileIsReported
  <2> HIDE DEF P
  <2>2. QED
    BY <2>1
<1>3. none.ok /\ [none EXCEPT !.packets = @ \o P] = all
  <2>1. none.ok /\ none.packets = <<>>
    OBVIOUS
  <2> HIDE DEF P
  <2>2. none \in Calls /\ all \in Calls /\ all.ok /\ all.packets = P
    BY <1>2 DEF Calls
  <2> HIDE DEF none, all
  <2> DEFINE l == [none EXCEPT !.packets = @ \o P]
  <2>3. l \in Calls /\ l.ok /\ l.packets = P
    BY <1>2, <2>1, <2>2 DEF Calls
  <2> HIDE DEF l
  <2>4. l = all
    BY <2>2, <2>3 DEF Calls
  <2>5. QED
    BY <2>1, <2>4 DEF l
<1> HIDE DEF files
<1>4. \A f : UpTo(f) <=> f = [i \in 0..1 |->
        IF i = 0 THEN none
        ELSE IF ~f[i - 1].ok \/ ~files[i].found THEN [f[i - 1] EXCEPT !.ok = FALSE]
        ELSE [f[i - 1] EXCEPT !.packets = @ \o P]]
  BY <1>1
<1> HIDE DEF none, all, P
<1>5. UpTo(h)
  <2> DEFINE r == [i \in 0..1 |->
        IF i = 0 THEN none
        ELSE IF ~h[i - 1].ok \/ ~files[i].found THEN [h[i - 1] EXCEPT !.ok = FALSE]
        ELSE [h[i - 1] EXCEPT !.packets = @ \o P]]
  <2>1. h[0] = none /\ h[1] = all /\ 1 - 1 = 0
    OBVIOUS
  <2>2. r[0] = none /\ r[1] = all
    BY <1>1, <1>3, <2>1
  <2>3. \A i \in 0..1 : i = 0 \/ i = 1
    OBVIOUS
  <2>4. \A i \in 0..1 : h[i] = r[i]
    BY <2>1, <2>2, <2>3
  <2>5. h = r
    <3>1. h = [i \in 0..1 |-> h[i]] /\ r = [i \in 0..1 |-> r[i]]
      OBVIOUS
    <3> HIDE DEF h, r
    <3>2. QED
      BY <2>4, <3>1
  <2>6. QED
    BY <1>4, <2>5
<1> HIDE DEF UpTo
<1> DEFINE g == CHOOSE f : UpTo(f)
<1>6. UpTo(g)
  BY <1>5, Zenon
<1>7. One(exceeded) = g[1]
  BY <1>1 DEF One, CheckEach, UpTo, files
<1> HIDE DEF g
<1>8. g = [i \in 0..1 |->
        IF i = 0 THEN none
        ELSE IF ~g[i - 1].ok \/ ~files[i].found THEN [g[i - 1] EXCEPT !.ok = FALSE]
        ELSE [g[i - 1] EXCEPT !.packets = @ \o P]]
  BY <1>4, <1>6
<1>9. g[0] = none
  BY <1>8
<1>10. g[1] = all
  <2>1. 1 \in 0..1 /\ 1 # 0 /\ 1 - 1 = 0
    OBVIOUS
  <2>2. g[1] = IF ~g[1 - 1].ok \/ ~files[1].found THEN [g[1 - 1] EXCEPT !.ok = FALSE]
               ELSE [g[1 - 1] EXCEPT !.packets = @ \o P]
    BY <1>8, <2>1
  <2>3. QED
    BY <1>1, <1>3, <1>9, <2>1, <2>2
<1>11. QED
  BY <1>7, <1>10 DEF all, P

\* A function misses no annotation exactly when it is fully annotated.
LEMMA NoneIsMissing ==
  ASSUME NEW Words, NEW fn \in FunctionDefs(Words)
  PROVE  /\ _missing_annotations(fn) \in Nat
         /\ ~(_missing_annotations(fn) > 0) <=> FullyAnnotated(fn)
<1> DEFINE missing == {i \in DOMAIN fn.params :
                         ~fn.params[i].annotated /\ ~(i = 1 /\ fn.params[i].receiver)}
<1>1. fn.params \in Seq([receiver : BOOLEAN, annotated : BOOLEAN]) /\ fn.returns \in BOOLEAN
  BY DEF FunctionDefs
<1>2. IsFiniteSet(missing) /\ Cardinality(missing) \in Nat
  <2>1. Len(fn.params) \in Nat /\ DOMAIN fn.params = 1..Len(fn.params) /\ 1 \in Int /\ Len(fn.params) \in Int
    BY <1>1
  <2>2. IsFiniteSet(missing)
    BY <2>1, FS_Interval, FS_Subset
  <2>3. QED
    BY <2>2, FS_CardinalityType
<1>3. Cardinality(missing) = 0 <=> missing = {}
  BY <1>2, FS_EmptySet
<1>4. missing = {} <=> \A i \in DOMAIN fn.params : fn.params[i].annotated \/ (i = 1 /\ fn.params[i].receiver)
  OBVIOUS
<1>5. _missing_annotations(fn) = Cardinality(missing) + (IF fn.returns THEN 0 ELSE 1)
  BY DEF _missing_annotations
<1> HIDE DEF missing
<1>6. /\ _missing_annotations(fn) \in Nat
      /\ ~(_missing_annotations(fn) > 0) <=> Cardinality(missing) = 0 /\ fn.returns
  BY <1>1, <1>2, <1>5
<1>7. QED
  BY <1>3, <1>4, <1>6 DEF FullyAnnotated

\* The check is paid when every function it asks for is there and annotated.
LEMMA AnnotationsArePaid ==
  ASSUME NEW Words, NEW tree \in Modules(Words), NamesAreApart(tree),
         NEW required \in Seq(Keys(Words))
  PROVE  Pays(PythonAnnotationCheck(tree, required)) <=>
           \A i \in DOMAIN required :
             \E fn \in FunctionDefs(Words) :
               Has(_function_defs(tree), required[i], fn) /\ FullyAnnotated(fn)
<1> DEFINE defs == _function_defs(tree)
           bad(name) == IF name \in DOMAIN defs THEN _missing_annotations(defs[name]) > 0 ELSE TRUE
           exceeded == [i \in DOMAIN required |-> bad(required[i])]
<1>1. Len(required) \in Nat /\ DOMAIN required = 1..Len(required)
  OBVIOUS
<1>2. defs \in Dicts(Words)
  BY FunctionDefsAre DEF DefinedTo
<1>3. \A name \in DOMAIN defs : defs[name] \in FunctionDefs(Words)
  BY <1>2 DEF Dicts
<1> HIDE DEF defs
<1>4. \A name : bad(name) \in BOOLEAN
  <2> TAKE name
  <2>1. CASE name \in DOMAIN defs
    <3>1. _missing_annotations(defs[name]) \in Nat
      BY <1>3, <2>1, NoneIsMissing
    <3>2. (_missing_annotations(defs[name]) > 0) \in BOOLEAN
      BY <3>1
    <3>3. bad(name) = (_missing_annotations(defs[name]) > 0)
      BY <2>1
    <3> HIDE DEF bad
    <3>4. QED
      BY <3>2, <3>3
  <2>2. CASE name \notin DOMAIN defs
    BY <2>2
  <2>3. QED
    BY <2>1, <2>2
<1>5. exceeded \in Seq(BOOLEAN)
  <2>1. exceeded \in [1..Len(required) -> BOOLEAN]
    BY <1>1, <1>4
  <2> HIDE DEF exceeded
  <2>2. QED
    BY <1>1, <2>1
<1>6. PythonAnnotationCheck(tree, required) = One(exceeded)
  BY DEF PythonAnnotationCheck, defs
<1>7. \A i \in DOMAIN required :
        ~exceeded[i] <=> \E fn \in FunctionDefs(Words) : Has(defs, required[i], fn) /\ FullyAnnotated(fn)
  <2> TAKE i \in DOMAIN required
  <2>1. exceeded[i] = bad(required[i])
    OBVIOUS
  <2>2. CASE required[i] \in DOMAIN defs
    <3> DEFINE fn == defs[required[i]]
    <3>1. fn \in FunctionDefs(Words)
      BY <1>3, <2>2
    <3>2. ~exceeded[i] <=> ~(_missing_annotations(fn) > 0)
      BY <2>1, <2>2
    <3>3. ~(_missing_annotations(fn) > 0) <=> FullyAnnotated(fn)
      BY <3>1, NoneIsMissing
    <3>4. QED
      BY <2>2, <3>1, <3>2, <3>3 DEF Has
  <2>3. CASE required[i] \notin DOMAIN defs
    BY <2>1, <2>3 DEF Has
  <2>4. QED
    BY <2>2, <2>3
<1>8. DOMAIN exceeded = DOMAIN required
  OBVIOUS
<1> HIDE DEF exceeded
<1>9. Pays(One(exceeded)) <=> \A i \in DOMAIN exceeded : ~exceeded[i]
  BY <1>5, OneIs, FileIsReported, PaysWhenClean
<1>10. QED
  BY <1>6, <1>7, <1>8, <1>9 DEF defs

\* In any module whose classes share their names with no other definition
\* PythonAnnotationCheck judges the function that Python calls, whichever
\* functions and methods are defined again (python_annotation_check.py:49-84).
THEOREM GradedFunctionsRun ==
  ASSUME NEW Words, NEW tree \in Modules(Words), NEW names \in SUBSET Keys(Words)
  PROVE  GradedIsTheOneThatRuns(tree, names)
<1> DEFINE good(name) == \A fn \in Bound(tree, name) : FullyAnnotated(fn)
           graded(name) == \E fn \in FunctionDefs(Words) :
                             Has(_function_defs(tree), name, fn) /\ FullyAnnotated(fn)
           targets == _default_targets(tree)
<1> SUFFICES ASSUME NamesAreApart(tree)
             PROVE  /\ \A name \in names : Bound(tree, name) # {} =>
                         (Pays(PythonAnnotationCheck(tree, <<name>>)) <=> good(name))
                    /\ Pays(PythonAnnotationCheck(tree, targets)) <=>
                         \A name \in Range(targets) : good(name)
  BY DEF GradedIsTheOneThatRuns
<1>1. ASSUME NEW name \in Keys(Words), Bound(tree, name) # {}
      PROVE  graded(name) <=> good(name)
  BY <1>1, BoundIsDefined DEF Has
<1>2. ASSUME NEW name \in names, Bound(tree, name) # {}
      PROVE  Pays(PythonAnnotationCheck(tree, <<name>>)) <=> good(name)
  <2>1. /\ name \in Keys(Words) /\ <<name>> \in Seq(Keys(Words))
        /\ DOMAIN <<name>> = {1} /\ <<name>>[1] = name
    OBVIOUS
  <2>2. Pays(PythonAnnotationCheck(tree, <<name>>)) <=> graded(name)
    BY <2>1, AnnotationsArePaid
  <2>3. QED
    BY <1>1, <1>2, <2>1, <2>2
<1>3. Pays(PythonAnnotationCheck(tree, targets)) <=> \A name \in Range(targets) : good(name)
  <2>1. targets \in Seq(BoundKeys(Words, tree))
    BY DefaultTargetsAre
  <2> HIDE DEF targets
  <2>2. /\ targets \in Seq(Keys(Words))
        /\ \A i \in DOMAIN targets : targets[i] \in Keys(Words) /\ Bound(tree, targets[i]) # {}
    BY <2>1 DEF BoundKeys
  <2>3. Pays(PythonAnnotationCheck(tree, targets)) <=> \A i \in DOMAIN targets : graded(targets[i])
    BY <2>2, AnnotationsArePaid
  <2>4. \A i \in DOMAIN targets : graded(targets[i]) <=> good(targets[i])
    BY <1>1, <2>2
  <2>5. QED
    BY <2>3, <2>4 DEF Range
<1>4. QED
  BY <1>2, <1>3

------------------------------------------------------------------------------
(* Documents: whatever they are made of, and however long they grow.       *)

LEMMA EditsAreReports ==
  ASSUME NEW S, NEW report \in Seq(S), NEW e \in S
  PROVE  /\ \A i \in 1..(Len(report) + 1) : InsertAt(report, i, e) \in Seq(S)
         /\ \A i \in 1..Len(report) : RemoveAt(report, i) \in Seq(S)
         /\ \A i \in 1..(Len(report) - 1) :
              [report EXCEPT ![i] = report[i + 1], ![i + 1] = report[i]] \in Seq(S)
<1>1. ASSUME NEW i \in 1..(Len(report) + 1) PROVE InsertAt(report, i, e) \in Seq(S)
  <2>1. SubSeq(report, 1, i - 1) \in Seq(S) /\ SubSeq(report, i, Len(report)) \in Seq(S)
    OBVIOUS
  <2>2. <<e>> \in Seq(S)
    OBVIOUS
  <2>3. QED
    BY <2>1, <2>2 DEF InsertAt
<1>2. ASSUME NEW i \in 1..Len(report) PROVE RemoveAt(report, i) \in Seq(S)
  <2>1. SubSeq(report, 1, i - 1) \in Seq(S) /\ SubSeq(report, i + 1, Len(report)) \in Seq(S)
    OBVIOUS
  <2>2. QED
    BY <2>1 DEF RemoveAt
<1>3. ASSUME NEW i \in 1..(Len(report) - 1)
      PROVE  [report EXCEPT ![i] = report[i + 1], ![i + 1] = report[i]] \in Seq(S)
  OBVIOUS
<1>4. QED
  BY <1>1, <1>2, <1>3

LEMMA DocumentsAreMadeOfItems == Reading => []DocumentInv
<1>1. Open => DocumentInv
  <2> SUFFICES ASSUME Open PROVE DocumentInv
    OBVIOUS
  <2>1. CASE reader = "report"
    <3>1. document \in Reports
      BY <2>1 DEF Open
    <3>2. document \in Seq(XmlElements)
      BY <3>1, DocumentsAssumption
    <3>3. QED
      BY <2>1, <3>2 DEF DocumentInv
  <2>2. CASE reader # "report"
    <3>1. document = <<>>
      BY <2>2 DEF Open
    <3>2. <<>> \in Seq(Alphabet[reader])
      OBVIOUS
    <3>3. QED
      BY <2>2, <3>1, <3>2 DEF Open, DocumentInv
  <2>3. QED
    BY <2>1, <2>2
<1>2. DocumentInv /\ [Turn]_pages => DocumentInv'
  <2> SUFFICES ASSUME DocumentInv, [Turn]_pages PROVE DocumentInv'
    OBVIOUS
  <2>1. CASE Grow
    BY <2>1 DEF Grow, DocumentInv
  <2>2. CASE Edit
    <3>1. reader = "report" /\ reader' = reader /\ document \in Seq(XmlElements)
      BY <2>2 DEF Edit, DocumentInv
    <3>2. ReportElements \subseteq XmlElements
      BY DEF XmlElements
    <3>3. CASE \E i \in 1..(Len(document) + 1), e \in ReportElements : document' = InsertAt(document, i, e)
      BY <3>1, <3>2, <3>3, EditsAreReports DEF DocumentInv
    <3>4. CASE \E i \in 1..Len(document) : document' = RemoveAt(document, i)
      <4>1. PICK i \in 1..Len(document) : document' = RemoveAt(document, i)
        BY <3>4
      <4>2. document[i] \in XmlElements
        BY <3>1
      <4>3. QED
        BY <3>1, <4>1, <4>2, EditsAreReports DEF DocumentInv
    <3>5. CASE \E i \in 1..(Len(document) - 1) :
                 document' = [document EXCEPT ![i] = document[i + 1], ![i + 1] = document[i]]
      <4>1. PICK i \in 1..(Len(document) - 1) :
                   document' = [document EXCEPT ![i] = document[i + 1], ![i + 1] = document[i]]
        BY <3>5
      <4>2. document[i] \in XmlElements
        BY <3>1
      <4>3. QED
        BY <3>1, <4>1, <4>2, EditsAreReports DEF DocumentInv
    <3>6. QED
      BY <2>2, <3>3, <3>4, <3>5 DEF Edit
  <2>3. CASE UNCHANGED pages
    BY <2>3 DEF pages, DocumentInv
  <2>4. QED
    BY <2>1, <2>2, <2>3 DEF Turn
<1>3. QED
  BY <1>1, <1>2, PTL DEF Reading

\* No edit of a valgrind report, however often it is edited, lets the parser
\* lose, hide or repeat an event (valgrind.py:663-821).
THEOREM DocumentsReportsAreWhole == Reading => []ReportsAreWhole
<1>1. DocumentInv => ReportsAreWhole
  <2> SUFFICES ASSUME document \in Seq(XmlElements) PROVE ReportIsItsElements(document)
    BY DEF DocumentInv, ReportsAreWhole
  <2>1. QED
    BY ReportsAreTheirElements
<1>2. QED
  BY <1>1, DocumentsAreMadeOfItems, PTL

\* However long a module grows, while no class shares its name with another
\* definition an annotation check judges what Python calls under the names it is
\* asked for (python_annotation_check.py:49-84).
THEOREM DocumentsGradedIsCalled == Reading => []GradedIsCalled
<1>1. DocumentInv => GradedIsCalled
  <2> SUFFICES ASSUME reader = "module", document \in Seq(Alphabet["module"])
               PROVE  GradedIsTheOneThatRuns(document, RequiredNames)
    BY DEF DocumentInv, GradedIsCalled
  <2>1. document \in Modules(PyNames) /\ RequiredNames \in SUBSET Keys(PyNames)
    BY DocumentsAssumption DEF Modules
  <2>2. QED
    BY <2>1, GradedFunctionsRun
<1>2. QED
  BY <1>1, DocumentsAreMadeOfItems, PTL

\* However many files are submitted, and lines written, the documented scorer
\* pays a check exactly when all is read and within its limits
\* (source_check.py:279-356, mypy_check.py:146-226).
THEOREM DocumentsPaidIsClean == Reading => []PaidIsClean
<1>1. DocumentInv => PaidIsClean
  <2> SUFFICES ASSUME DocumentInv PROVE PaidIsClean
    OBVIOUS
  <2>1. reader = "files" => CleanRunIsClean(document)
    <3> SUFFICES ASSUME reader = "files" PROVE CleanRunIsClean(document)
      OBVIOUS
    <3>1. document \in Seq(SourceFiles)
      BY DocumentsAssumption DEF DocumentInv
    <3>2. QED
      BY <3>1, CleanRunsAreClean
  <2>2. reader = "types" => TypeErrorsAreFound(document)
    BY TypeChecksFindErrors DEF DocumentInv
  <2>3. QED
    BY <2>1, <2>2 DEF PaidIsClean
<1>2. QED
  BY <1>1, DocumentsAreMadeOfItems, PTL

==============================================================================
