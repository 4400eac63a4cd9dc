--------------------------- MODULE CliArgs_proofs ----------------------------
(***************************************************************************)
(* Proofs about CliArgs, for argument classes with any number of fields at *)
(* any positions.                                                          *)
(***************************************************************************)
EXTENDS CliArgs, FiniteSetTheorems, TLAPS

------------------------------------------------------------------------------
(* Enumerating a set of numbers in order. *)

Below(S, x) == {j \in S : j < x}

\* InOrder lists every number of a finite set once, ascending, and before each
\* stand those below it.
LEMMA InOrderFacts ==
  ASSUME NEW S \in SUBSET Int, IsFiniteSet(S)
  PROVE  LET list == InOrder(S) IN
         /\ Cardinality(S) \in Nat
         /\ list \in [1..Cardinality(S) -> S]
         /\ \A k \in 1..Cardinality(S) : Cardinality(Below(S, list[k])) = k - 1
         /\ \A x \in S : \E k \in 1..Cardinality(S) : list[k] = x
         /\ \A j, k \in 1..Cardinality(S) : j < k => list[j] < list[k]
<1> DEFINE n == Cardinality(S)
           rank == [x \in S |-> Cardinality(Below(S, x))]
           list == InOrder(S)
<1>1. n \in Nat
  BY FS_CardinalityType
<1>2. \A x \in S : /\ IsFiniteSet(Below(S, x))
                   /\ Cardinality(Below(S, x)) \in Nat
                   /\ Cardinality(Below(S, x)) < n
  <2> TAKE x \in S
  <2>1. Below(S, x) \in SUBSET S /\ x \notin Below(S, x)
    BY DEF Below
  <2>2. /\ IsFiniteSet(Below(S, x)) /\ Cardinality(Below(S, x)) <= n
        /\ Cardinality(Below(S, x)) = n => S = Below(S, x)
    BY <2>1, FS_Subset
  <2>3. Cardinality(Below(S, x)) \in Nat
    BY <2>2, FS_CardinalityType
  <2>4. QED
    BY <1>1, <2>1, <2>2, <2>3
<1>3. ASSUME NEW x \in S, NEW y \in S, x < y
      PROVE  rank[x] < rank[y]
  <2>0. x \in Int /\ y \in Int /\ \A j \in S : j \in Int
    OBVIOUS
  <2>1. Below(S, x) \subseteq Below(S, y) /\ x \in Below(S, y) /\ x \notin Below(S, x)
    <3>1. \A j \in S : j < x => j < y
      BY <1>3, <2>0
    <3>2. ~(x < x)
      BY <2>0
    <3>3. QED
      BY <1>3, <3>1, <3>2, Zenon DEF Below
  <2>2. /\ Cardinality(Below(S, x)) <= Cardinality(Below(S, y))
        /\ Cardinality(Below(S, x)) = Cardinality(Below(S, y)) => Below(S, y) = Below(S, x)
    BY <1>2, <2>1, FS_Subset
  <2>3. QED
    BY <1>2, <2>1, <2>2
<1>4. rank \in [S -> 0..(n - 1)]
  <2>1. \A c \in Nat : c < n => c \in 0..(n - 1)
    BY <1>1
  <2>2. \A x \in S : Cardinality(Below(S, x)) \in 0..(n - 1)
    BY <1>2, <2>1
  <2>3. QED
    BY <2>2
<1>5. \A x, y \in S : rank[x] = rank[y] => x = y
  <2> SUFFICES ASSUME NEW x \in S, NEW y \in S, x # y PROVE rank[x] # rank[y]
    OBVIOUS
  <2>1. x < y \/ y < x
    OBVIOUS
  <2>2. rank[x] \in Nat /\ rank[y] \in Nat
    BY <1>2
  <2> HIDE DEF rank
  <2>3. QED
    BY <1>3, <2>1, <2>2
<1>6. \A i \in 0..(n - 1) : \E x \in S : rank[x] = i
  <2> HIDE DEF rank
  <2>1. rank \in Injection(S, 0..(n - 1))
    BY <1>4, <1>5 DEF Injection, IsInjective
  <2>2. IsFiniteSet(0..(n - 1)) /\ Cardinality(0..(n - 1)) = n
    <3>1. 0 \in Int /\ n - 1 \in Int
      BY <1>1
    <3>2. QED
      BY <1>1, <3>1, FS_Interval
  <2>3. rank \in Surjection(S, 0..(n - 1))
    BY <2>1, <2>2, FS_Injection
  <2>4. QED
    BY <2>3 DEF Surjection
<1>7. list = [k \in 1..n |-> CHOOSE x \in S : rank[x] = k - 1]
  <2>1. \A k \in 1..n : (CHOOSE x \in S : rank[x] = k - 1)
                          = CHOOSE x \in S : Cardinality({j \in S : j < x}) = k - 1
    BY DEF Below
  <2>2. QED
    BY <2>1 DEF InOrder
<1> HIDE DEF n, list, rank
<1>8. \A k \in 1..n : k - 1 \in 0..(n - 1) /\ list[k] \in S /\ rank[list[k]] = k - 1
  <2> TAKE k \in 1..n
  <2>1. k - 1 \in 0..(n - 1)
    BY <1>1
  <2>2. \E x \in S : rank[x] = k - 1
    BY <1>6, <2>1
  <2>3. QED
    BY <1>7, <2>1, <2>2
<1>9. list \in [1..n -> S]
  BY <1>7, <1>8
<1>10. \A x \in S : \E k \in 1..n : list[k] = x
  <2> TAKE x \in S
  <2>1. rank[x] \in 0..(n - 1) /\ rank[x] + 1 \in 1..n /\ (rank[x] + 1) - 1 = rank[x]
    BY <1>1, <1>4
  <2>2. list[rank[x] + 1] \in S /\ rank[list[rank[x] + 1]] = rank[x]
    BY <1>8, <2>1
  <2>3. QED
    BY <1>5, <2>1, <2>2
<1>11. ASSUME NEW j \in 1..n, NEW k \in 1..n, j < k
       PROVE  list[j] < list[k]
  <2>1. list[j] \in S /\ list[k] \in S /\ rank[list[j]] = j - 1 /\ rank[list[k]] = k - 1
    BY <1>8
  <2>2. list[j] \in Int /\ list[k] \in Int
    BY <2>1
  <2>3. CASE list[k] < list[j]
    <3>1. k - 1 < j - 1
      BY <1>3, <2>1, <2>3
    <3>2. QED
      BY <1>1, <1>11, <3>1
  <2>4. CASE list[k] = list[j]
    BY <1>1, <1>11, <2>1, <2>4
  <2>5. QED
    BY <2>2, <2>3, <2>4
<1>12. \A k \in 1..n : Cardinality(Below(S, list[k])) = k - 1
  BY <1>8 DEF rank
<1>13. QED
  BY <1>1, <1>9, <1>10, <1>11, <1>12 DEF n, list

------------------------------------------------------------------------------
(* The places of the blocks of an instance. *)

LEMMA FieldFacts ==
  ASSUME class \in Classes
  PROVE  /\ Len(Fields) \in Nat /\ Declared = 1..Len(Fields)
         /\ Numbered \subseteq Declared
         /\ \A i \in Numbered : Position(i) \in Int /\ Fields[i].at = {Position(i)}
<1>1. /\ Fields \in Seq(FieldType)
      /\ \A i \in DOMAIN Fields : \A p, q \in Fields[i].at : p = q
  BY ClassesAssumption DEF Fields
<1>2. Len(Fields) \in Nat /\ Declared = 1..Len(Fields)
  BY <1>1 DEF Declared
<1>3. ASSUME NEW i \in Numbered
      PROVE  Position(i) \in Int /\ Fields[i].at = {Position(i)}
  <2>1. i \in Declared /\ Fields[i].at # {}
    BY DEF Numbered
  <2>2. Fields[i] \in FieldType
    BY <1>1, <2>1 DEF Declared
  <2>3. Fields[i].at \subseteq Int
    BY <2>2 DEF FieldType
  <2>4. Position(i) \in Fields[i].at
    BY <2>1 DEF Position
  <2>5. \A p \in Fields[i].at : p = Position(i)
    BY <1>1, <2>1, <2>4 DEF Declared
  <2>6. QED
    BY <2>3, <2>4, <2>5
<1>4. QED
  BY <1>2, <1>3 DEF Numbered

\* The blocks and those without a position, in the order of their declaration.
LEMMA BlockFacts ==
  ASSUME class \in Classes
  PROVE  /\ IsFiniteSet(Emitting) /\ Emitting \in SUBSET Int
         /\ Cardinality(Emitting) \in Nat
         /\ Blocks \in [1..Cardinality(Emitting) -> Emitting]
         /\ Len(Blocks) = Cardinality(Emitting)
         /\ Range(Blocks) = Emitting
<1>1. Declared \in SUBSET Int /\ IsFiniteSet(Declared)
  <2>1. 1 \in Int /\ Len(Fields) \in Int
    BY FieldFacts
  <2>2. IsFiniteSet(1..Len(Fields))
    BY <2>1, FS_Interval
  <2>3. QED
    BY <2>2, FieldFacts
<1>2. IsFiniteSet(Emitting) /\ Emitting \in SUBSET Int
  <2>1. Emitting \in SUBSET Declared
    BY DEF Emitting
  <2>2. QED
    BY <1>1, <2>1, FS_Subset
<1> DEFINE n == Cardinality(Emitting)
<1>3. /\ n \in Nat
      /\ Blocks \in [1..n -> Emitting]
      /\ \A x \in Emitting : \E k \in 1..n : Blocks[k] = x
  BY <1>2, InOrderFacts DEF Blocks
<1>4. Len(Blocks) = n
  <2> HIDE DEF n
  <2>1. Blocks \in Seq(Emitting)
    BY <1>3
  <2>2. QED
    BY <1>3, <2>1
<1>5. Range(Blocks) = Emitting
  <2> HIDE DEF n
  <2>1. Range(Blocks) = {Blocks[k] : k \in 1..n}
    BY <1>3 DEF Range
  <2>2. QED
    BY <1>3, <2>1
<1>6. QED
  BY <1>2, <1>3, <1>4, <1>5

\* What the ordering of blocks without a clash rests on: numbered blocks have
\* slots of their own, and the gaps between these are as many as the others,
\* the first gap taking the first of them, and so on.
GapsFilled ==
  LET n == Len(Blocks)
      gaps == {g \in 0..(n - 1) : \A i \in Placed : Resolved(i) # g}
      m == Len(Agnostic)
  IN /\ \A i \in Placed : Resolved(i) \in 0..(n - 1)
     /\ \A i, j \in Placed : Resolved(i) = Resolved(j) => i = j
     /\ m \in Nat
     /\ Agnostic \in [1..m -> Emitting \ Numbered]
     /\ \A i \in Emitting \ Numbered : \E k \in 1..m : Agnostic[k] = i
     /\ \A j, k \in 1..m : j < k => Agnostic[j] < Agnostic[k]
     /\ \A g \in gaps : Cardinality(Gaps(g)) \in 1..m
     /\ \A k \in 1..m : \E g \in gaps : Cardinality(Gaps(g)) = k
     /\ \A g, h \in gaps : g < h => Cardinality(Gaps(g)) < Cardinality(Gaps(h))
     /\ Cardinality(Gaps(n - 1)) = m

LEMMA GapsAreFilled ==
  ASSUME class \in Classes, ~OutOfRange, ~Overlap
  PROVE  GapsFilled
<1> DEFINE n == Len(Blocks)
           free == Emitting \ Numbered
           slots == 0..(n - 1)
           taken == {Resolved(i) : i \in Placed}
           gaps == {g \in slots : \A i \in Placed : Resolved(i) # g}
           m == Cardinality(free)
           nth == InOrder(gaps)
<1>1. /\ IsFiniteSet(Emitting) /\ Emitting \in SUBSET Int
      /\ n \in Nat /\ n = Cardinality(Emitting)
  BY BlockFacts
<1>2. /\ \A i \in Placed : Resolved(i) \in slots
      /\ \A i, j \in Placed : Resolved(i) = Resolved(j) => i = j
  BY DEF OutOfRange, Overlap
<1>3. IsFiniteSet(slots) /\ Cardinality(slots) = n /\ slots \in SUBSET Int
  <2>1. 0 \in Int /\ n - 1 \in Int /\ n - 1 - 0 + 1 = n
    BY <1>1
  <2>2. /\ IsFiniteSet(slots)
        /\ Cardinality(slots) = IF 0 > n - 1 THEN 0 ELSE (n - 1) - 0 + 1
    BY <2>1, FS_Interval
  <2> HIDE DEF n
  <2>3. QED
    BY <1>1, <2>1, <2>2
<1> HIDE DEF n, slots
<1>4. IsFiniteSet(Placed) /\ Cardinality(Placed) \in Nat
  <2>1. Placed \in SUBSET Emitting
    BY DEF Placed
  <2>2. QED
    BY <1>1, <2>1, FS_Subset, FS_CardinalityType
<1>5. IsFiniteSet(taken) /\ Cardinality(taken) = Cardinality(Placed)
  <2> DEFINE slot == [i \in Placed |-> Resolved(i)]
  <2>1. slot \in Bijection(Placed, taken)
    <3>1. slot \in [Placed -> taken]
      OBVIOUS
    <3>2. \A i, j \in Placed : slot[i] = slot[j] => i = j
      BY <1>2
    <3>3. \A t \in taken : \E i \in Placed : slot[i] = t
      OBVIOUS
    <3> HIDE DEF slot, taken
    <3>4. QED
      BY <3>1, <3>2, <3>3 DEF Bijection, Injection, Surjection, IsInjective
  <2> HIDE DEF slot, taken
  <2>2. ExistsBijection(Placed, taken)
    BY <2>1 DEF ExistsBijection
  <2>3. QED
    BY <1>4, <2>2, FS_Bijection
<1>6. IsFiniteSet(free) /\ m = n - Cardinality(Placed) /\ m \in Nat /\ free \in SUBSET Int
  <2>1. /\ IsFiniteSet(Emitting \ Numbered)
        /\ Cardinality(Emitting \ Numbered)
             = Cardinality(Emitting) - Cardinality(Emitting \cap Numbered)
    BY <1>1, FS_Difference
  <2>2. Placed = Emitting \cap Numbered
    BY DEF Placed
  <2>3. m \in Nat
    BY <2>1, FS_CardinalityType
  <2>4. QED
    BY <1>1, <2>1, <2>2, <2>3
<1>7. IsFiniteSet(gaps) /\ Cardinality(gaps) = m /\ gaps \in SUBSET Int
  <2>1. gaps = slots \ taken /\ slots \cap taken = taken
    BY <1>2
  <2>2. /\ IsFiniteSet(slots \ taken)
        /\ Cardinality(slots \ taken) = Cardinality(slots) - Cardinality(slots \cap taken)
    BY <1>3, FS_Difference
  <2>3. gaps \in SUBSET Int
    BY <1>3
  <2> HIDE DEF gaps, taken, m
  <2>4. QED
    BY <1>3, <1>5, <1>6, <2>1, <2>2, <2>3
<1>8. /\ Agnostic \in [1..m -> free]
      /\ \A i \in free : \E k \in 1..m : Agnostic[k] = i
      /\ \A j, k \in 1..m : j < k => Agnostic[j] < Agnostic[k]
  <2>1. Agnostic = InOrder(free)
    BY DEF Agnostic
  <2> HIDE DEF free
  <2>2. QED
    BY <1>6, <2>1, InOrderFacts
<1>9. Len(Agnostic) = m
  <2> HIDE DEF m, free
  <2>1. Agnostic \in Seq(free)
    BY <1>6, <1>8
  <2>2. QED
    BY <1>6, <1>8, <2>1
<1>10. /\ nth \in [1..m -> gaps]
       /\ \A k \in 1..m : Cardinality(Below(gaps, nth[k])) = k - 1
       /\ \A g \in gaps : \E k \in 1..m : nth[k] = g
       /\ \A j, k \in 1..m : j < k => nth[j] < nth[k]
  <2> HIDE DEF gaps
  <2>1. QED
    BY <1>7, InOrderFacts
<1> HIDE DEF nth, m, free
<1>11. ASSUME NEW g \in gaps
       PROVE  Gaps(g) = Below(gaps, g) \union {g} /\ g \notin Below(gaps, g)
  <2>1. g \in Int /\ 0 <= g /\ g <= n - 1
    BY <1>1 DEF slots
  <2>2. \A s : s \in 0..g <=> s \in slots /\ (s < g \/ s = g)
    BY <1>1, <2>1 DEF slots
  <2>3. ~(g < g)
    BY <2>1
  <2>4. QED
    BY <2>2, <2>3, Zenon DEF Gaps, Below
<1>12. \A k \in 1..m : nth[k] \in gaps /\ Cardinality(Gaps(nth[k])) = k
  <2> TAKE k \in 1..m
  <2>1. nth[k] \in gaps
    BY <1>10
  <2>2. Cardinality(Below(gaps, nth[k])) = k - 1
    BY <1>10
  <2> HIDE DEF gaps
  <2>3. IsFiniteSet(Below(gaps, nth[k]))
    <3>1. Below(gaps, nth[k]) \in SUBSET gaps
      BY DEF Below
    <3>2. QED
      BY <1>7, <3>1, FS_Subset
  <2>4. Cardinality(Below(gaps, nth[k]) \union {nth[k]}) = (k - 1) + 1
    BY <1>11, <2>1, <2>2, <2>3, FS_AddElement
  <2>5. (k - 1) + 1 = k
    BY <1>6
  <2>6. QED
    BY <1>11, <2>1, <2>4, <2>5
<1>13. \A g \in gaps : Cardinality(Gaps(g)) \in 1..m
  <2> HIDE DEF gaps
  <2>1. QED
    BY <1>10, <1>12
<1>14. ASSUME NEW g \in gaps, NEW h \in gaps, g < h
       PROVE  Cardinality(Gaps(g)) < Cardinality(Gaps(h))
  <2>0. gaps \in SUBSET Int
    BY <1>7
  <2> HIDE DEF gaps
  <2>1. PICK j \in 1..m : nth[j] = g
    BY <1>10
  <2>2. PICK k \in 1..m : nth[k] = h
    BY <1>10
  <2>3. Cardinality(Gaps(g)) = j /\ Cardinality(Gaps(h)) = k
    BY <1>12, <2>1, <2>2
  <2>4. g \in Int /\ h \in Int
    BY <2>0
  <2>5. ~(k < j) /\ k # j
    BY <1>10, <1>14, <2>1, <2>2, <2>4
  <2>6. QED
    BY <1>6, <2>3, <2>5
<1>15. Cardinality(Gaps(n - 1)) = m
  <2>1. Gaps(n - 1) = gaps
    BY DEF Gaps, slots
  <2>2. QED
    BY <1>7, <2>1
<1>16. QED
  BY <1>2, <1>6, <1>8, <1>9, <1>12, <1>13, <1>14, <1>15 DEF GapsFilled, n, slots, free

------------------------------------------------------------------------------
(* The line that emit orders. *)

\* The placement of the k-th block: the numbered block whose slot it is, or
\* the next of the others.
LEMMA PlacedAt ==
  ASSUME class \in Classes, ~OutOfRange, ~Overlap, NEW k \in 1..Len(Blocks)
  PROVE  /\ \A i \in Placed : Resolved(i) = k - 1 => Ordered[k] = i
         /\ (\A i \in Placed : Resolved(i) # k - 1) =>
              Ordered[k] = Agnostic[Cardinality(Gaps(k - 1))]
<1>1. DOMAIN Blocks = 1..Len(Blocks)
  BY BlockFacts
<1>2. Ordered[k] = IF \E i \in Placed : Resolved(i) = k - 1
                   THEN CHOOSE i \in Placed : Resolved(i) = k - 1
                   ELSE Agnostic[Cardinality(Gaps(k - 1))]
  BY <1>1 DEF Ordered
<1>3. \A i, j \in Placed : Resolved(i) = Resolved(j) => i = j
  BY GapsAreFilled DEF GapsFilled
<1>4. ASSUME NEW i \in Placed, Resolved(i) = k - 1
      PROVE  Ordered[k] = i
  <2>1. \A j \in Placed : Resolved(j) = k - 1 => j = i
    BY <1>3, <1>4
  <2>2. QED
    BY <1>2, <1>4, <2>1
<1>5. QED
  BY <1>2, <1>4

\* Without a clash the ordered blocks are what the declaration says.
LEMMA OrderedMeetsDeclaration ==
  ASSUME class \in Classes, ~OutOfRange, ~Overlap
  PROVE  MeetsDeclaration(Ordered)
<1> DEFINE n == Len(Blocks)
           free == Emitting \ Numbered
           m == Len(Agnostic)
           ordered == Ordered
           gap(k) == \A i \in Placed : Resolved(i) # k - 1
<1>1. /\ n \in Nat /\ DOMAIN Blocks = 1..n
      /\ Range(Blocks) = Emitting /\ Emitting \in SUBSET Int
  BY BlockFacts
<1>2. Placed \subseteq Emitting /\ Placed \subseteq Numbered /\ Emitting = Placed \union free
  BY DEF Placed
<1>3. ordered = [k \in 1..n |-> Ordered[k]]
  BY <1>1 DEF Ordered
<1>4. \A k \in 1..n : k - 1 \in 0..(n - 1)
  BY <1>1
<1>5. ASSUME NEW k \in 1..n, gap(k)
      PROVE  /\ Cardinality(Gaps(k - 1)) \in 1..m
             /\ ordered[k] = Agnostic[Cardinality(Gaps(k - 1))]
             /\ ordered[k] \in free
  <2>1. Cardinality(Gaps(k - 1)) \in 1..m
    BY <1>4, <1>5, GapsAreFilled DEF GapsFilled
  <2>2. ordered[k] = Agnostic[Cardinality(Gaps(k - 1))]
    BY <1>3, <1>5, PlacedAt
  <2>3. Agnostic \in [1..m -> free]
    BY GapsAreFilled DEF GapsFilled
  <2> HIDE DEF m, free
  <2>4. QED
    BY <2>1, <2>2, <2>3
<1>6. ASSUME NEW k \in 1..n, NEW i \in Placed, Resolved(i) = k - 1
      PROVE  ordered[k] = i
  BY <1>3, <1>6, PlacedAt
<1> HIDE DEF n, m, free, ordered
<1>7. ordered \in [1..n -> Emitting]
  <2>1. \A k \in 1..n : ordered[k] \in Emitting
    <3> TAKE k \in 1..n
    <3>1. CASE gap(k)
      BY <1>2, <1>5, <3>1
    <3>2. CASE ~gap(k)
      BY <1>2, <1>6, <3>2
    <3>3. QED
      BY <3>1, <3>2
  <2>2. QED
    BY <1>3, <2>1
<1>8. Len(ordered) = n /\ DOMAIN ordered = 1..n
  <2>1. ordered \in Seq(Emitting)
    BY <1>1, <1>7
  <2>2. QED
    BY <1>1, <1>7, <2>1
<1>9. Range(ordered) = Emitting
  <2>1. \A i \in Emitting : \E k \in 1..n : ordered[k] = i
    <3> TAKE i \in Emitting
    <3>1. CASE i \in Placed
      <4>1. Resolved(i) \in 0..(n - 1)
        BY <3>1, GapsAreFilled DEF GapsFilled, n
      <4>2. Resolved(i) + 1 \in 1..n /\ (Resolved(i) + 1) - 1 = Resolved(i)
        BY <1>1, <4>1
      <4>3. ordered[Resolved(i) + 1] = i
        BY <1>6, <3>1, <4>2
      <4>4. QED
        BY <4>2, <4>3
    <3>2. CASE i \in free
      <4>1. PICK j \in 1..m : Agnostic[j] = i
        BY <3>2, GapsAreFilled DEF GapsFilled, m, free
      <4>2. PICK g \in 0..(n - 1) : (\A p \in Placed : Resolved(p) # g) /\ Cardinality(Gaps(g)) = j
        BY GapsAreFilled DEF GapsFilled, m, n
      <4>3. g + 1 \in 1..n /\ (g + 1) - 1 = g
        BY <1>1, <4>2
      <4>4. ordered[g + 1] = Agnostic[j]
        BY <1>5, <4>2, <4>3
      <4>5. QED
        BY <4>1, <4>3, <4>4
    <3>3. QED
      BY <1>2, <3>1, <3>2
  <2>2. Range(ordered) = {ordered[k] : k \in 1..n}
    BY <1>7 DEF Range
  <2>3. QED
    BY <1>7, <2>1, <2>2
<1>10. ASSUME NEW k \in 1..n, ordered[k] \in Numbered
       PROVE  Position(ordered[k]) \in {k - 1, k - 1 - n}
  <2>1. ~gap(k)
    <3>1. gap(k) => ordered[k] \notin Numbered
      BY <1>5 DEF free
    <3>2. QED
      BY <1>10, <3>1
  <2>2. PICK i \in Placed : Resolved(i) = k - 1
    BY <2>1
  <2>3. ordered[k] = i /\ Position(i) \in Int /\ k \in Int
    BY <1>2, <1>6, <2>2, FieldFacts
  <2>4. Position(i) = k - 1 \/ n + Position(i) = k - 1
    BY <2>2 DEF Resolved, n
  <2>5. QED
    BY <1>1, <2>3, <2>4
<1>11. ASSUME NEW j \in 1..n, NEW k \in 1..n, j < k,
              ordered[j] \notin Numbered, ordered[k] \notin Numbered
       PROVE  ordered[j] < ordered[k]
  <2>1. gap(j) /\ gap(k)
    BY <1>2, <1>6, <1>11
  <2>2. j - 1 \in 0..(n - 1) /\ k - 1 \in 0..(n - 1) /\ j - 1 < k - 1
    BY <1>4, <1>11
  <2>3. Cardinality(Gaps(j - 1)) < Cardinality(Gaps(k - 1))
    BY <2>1, <2>2, GapsAreFilled DEF GapsFilled, n
  <2>4. \A a, b \in 1..m : a < b => Agnostic[a] < Agnostic[b]
    BY GapsAreFilled DEF GapsFilled, m
  <2>5. QED
    BY <1>5, <2>1, <2>3, <2>4
<1>12. QED
  BY <1>1, <1>8, <1>9, <1>10, <1>11 DEF MeetsDeclaration, n, ordered

\* A class that is refused has a field without a place, or two with the same,
\* even when every field is emitted.
LEMMA RefusedForAReason ==
  ASSUME class \in Classes, ~ValidDeclaration
  PROVE  NeverOrdered
<1> DEFINE all == Len(Fields)
           at(i) == IF Position(i) >= 0 THEN Position(i) ELSE all + Position(i)
<1>1. /\ all \in Nat /\ Numbered \subseteq 1..all
      /\ \A i \in Numbered : Position(i) \in Int /\ Fields[i].at = {Position(i)}
  BY FieldFacts
<1>2. CASE Duplicate
  <2>1. PICK i, j \in Numbered : i < j /\ Fields[i].at = Fields[j].at
    BY <1>2 DEF Duplicate
  <2>2. Position(i) = Position(j)
    BY <1>1, <2>1
  <2>3. i # j
    BY <1>1, <2>1
  <2>4. QED
    BY <2>2, <2>3 DEF NeverOrdered
<1>3. CASE \E i \in Numbered : Impossible(Position(i))
  <2>1. PICK i \in Numbered : Impossible(Position(i))
    BY <1>3
  <2>2. Position(i) \in Int /\ (Position(i) >= all \/ -Position(i) > all)
    BY <1>1, <2>1 DEF Impossible
  <2>3. at(i) \notin 0..(all - 1)
    BY <1>1, <2>2
  <2>4. QED
    BY <2>3 DEF NeverOrdered
<1>4. QED
  BY <1>2, <1>3 DEF ValidDeclaration

\* Positions that blocks have, one after another, are not more than the blocks.
LEMMA PositionsAreBlocks ==
  ASSUME class \in Classes, NEW a \in Int, NEW b \in Int, a <= b,
         \A q \in a..b : \E j \in Placed : Position(j) = q
  PROVE  b - a + 1 <= Len(Blocks)
<1> DEFINE positions == {Position(j) : j \in Placed}
<1>1. IsFiniteSet(Emitting) /\ Cardinality(Emitting) \in Nat /\ Len(Blocks) = Cardinality(Emitting)
  BY BlockFacts
<1>2. IsFiniteSet(Placed) /\ Cardinality(Placed) <= Cardinality(Emitting) /\ Cardinality(Placed) \in Nat
  <2>1. Placed \in SUBSET Emitting
    BY DEF Placed
  <2>2. QED
    BY <1>1, <2>1, FS_Subset, FS_CardinalityType
<1>3. /\ IsFiniteSet(positions) /\ Cardinality(positions) <= Cardinality(Placed)
      /\ Cardinality(positions) \in Nat
  <2> DEFINE f == [j \in Placed |-> Position(j)]
  <2>1. f \in Surjection(Placed, positions)
    BY DEF Surjection
  <2> HIDE DEF f, positions
  <2>2. QED
    BY <1>2, <2>1, FS_Surjection, FS_CardinalityType
<1>4. a..b \in SUBSET positions
  OBVIOUS
<1>5. Cardinality(a..b) = b - a + 1
  BY FS_Interval
<1> HIDE DEF positions
<1>6. Cardinality(a..b) <= Cardinality(positions)
  BY <1>3, <1>4, FS_Subset
<1>7. QED
  BY <1>1, <1>2, <1>3, <1>5, <1>6

\* Where the positions nearer to its end always have a block, a block that is
\* there has a slot, and no other block has the same.
LEMMA AnchoredInstancesFit ==
  ASSUME class \in Classes, Anchored(class), ValidDeclaration, Fixed \subseteq Emitting
  PROVE  ~OutOfRange /\ ~Overlap
<1> DEFINE n == Len(Blocks)
           toEnd(i) == IF Position(i) >= 0 THEN 0..Position(i) ELSE Position(i)..-1
<1>1. /\ n \in Nat /\ Placed \subseteq Numbered /\ Placed \subseteq Declared
      /\ \A i \in Numbered : Position(i) \in Int /\ Fields[i].at = {Position(i)}
  BY FieldFacts, BlockFacts DEF Placed
<1>2. ASSUME NEW i \in Placed
      PROVE  \A q \in toEnd(i) : \E j \in Placed : Position(j) = q
  <2> SUFFICES ASSUME NEW q \in toEnd(i) PROVE \E j \in Placed : Position(j) = q
    OBVIOUS
  <2>1. i \in DOMAIN class.fields /\ Position(i) \in class.fields[i].at /\ Position(i) \in Int
    BY <1>1 DEF Declared, Fields
  <2>2. CASE q = Position(i)
    BY <2>2
  <2>3. CASE q # Position(i)
    <3>1. q \in IF Position(i) >= 0 THEN 0..(Position(i) - 1) ELSE (Position(i) + 1)..-1
      BY <2>1, <2>3
    <3>2. PICK j \in DOMAIN class.fields : class.fields[j].emits = "always" /\ q \in class.fields[j].at
      BY <2>1, <3>1 DEF Anchored
    <3>3. j \in Fixed /\ j \in Numbered /\ q \in Fields[j].at
      BY <3>2 DEF Fixed, Numbered, Declared, Fields
    <3>4. j \in Placed
      BY <3>3 DEF Placed
    <3>5. QED
      BY <1>1, <3>3, <3>4
  <2>4. QED
    BY <2>2, <2>3
<1>3. ASSUME NEW i \in Placed
      PROVE  /\ Position(i) \in Int
             /\ Position(i) >= 0 => Position(i) + 1 <= n
             /\ Position(i) < 0 => -Position(i) <= n
  <2>1. Position(i) \in Int
    BY <1>1
  <2>2. ASSUME Position(i) >= 0 PROVE Position(i) + 1 <= n
    <3>1. \A q \in 0..Position(i) : \E j \in Placed : Position(j) = q
      BY <1>2, <2>2
    <3>2. Position(i) - 0 + 1 <= n
      <4> DEFINE b == Position(i)
      <4>1. 0 \in Int /\ b \in Int /\ 0 <= b /\ \A q \in 0..b : \E j \in Placed : Position(j) = q
        BY <2>1, <2>2, <3>1
      <4> HIDE DEF b
      <4>2. b - 0 + 1 <= n
        BY <4>1, PositionsAreBlocks
      <4>3. QED
        BY <4>2 DEF b
    <3>3. QED
      BY <2>1, <3>2
  <2>3. ASSUME Position(i) < 0 PROVE -Position(i) <= n
    <3>1. \A q \in Position(i)..-1 : \E j \in Placed : Position(j) = q
      BY <1>2, <2>1, <2>3
    <3>2. -1 - Position(i) + 1 <= n
      <4> DEFINE a == Position(i)
      <4>1. a \in Int /\ -1 \in Int /\ a <= -1 /\ \A q \in a..-1 : \E j \in Placed : Position(j) = q
        BY <2>1, <2>3, <3>1
      <4> HIDE DEF a
      <4>2. -1 - a + 1 <= n
        BY <4>1, PositionsAreBlocks
      <4>3. QED
        BY <4>2 DEF a
    <3>3. QED
      BY <2>1, <3>2
  <2>4. QED
    BY <2>1, <2>2, <2>3
<1>4. ASSUME NEW i \in Placed PROVE Resolved(i) \in 0..(n - 1)
  <2>1. Resolved(i) = IF Position(i) >= 0 THEN Position(i) ELSE n + Position(i)
    BY DEF Resolved
  <2> HIDE DEF n
  <2>2. QED
    BY <1>1, <1>3, <2>1
<1>5. ASSUME NEW i \in Placed, NEW j \in Placed, Position(i) >= 0, Position(j) < 0
      PROVE  Resolved(i) # Resolved(j)
  <2>1. \A q \in Position(j)..Position(i) : \E k \in Placed : Position(k) = q
    <3> SUFFICES ASSUME NEW q \in Position(j)..Position(i) PROVE \E k \in Placed : Position(k) = q
      OBVIOUS
    <3>1. q \in toEnd(i) \/ q \in toEnd(j)
      BY <1>3, <1>5
    <3>2. QED
      BY <1>2, <3>1
  <2>2. Position(i) - Position(j) + 1 <= n
    <3> DEFINE a == Position(j)
               b == Position(i)
    <3>1. a \in Int /\ b \in Int /\ a <= b /\ \A q \in a..b : \E k \in Placed : Position(k) = q
      BY <1>3, <1>5, <2>1
    <3> HIDE DEF a, b
    <3>2. b - a + 1 <= n
      BY <3>1, PositionsAreBlocks
    <3>3. QED
      BY <3>2 DEF a, b
  <2>3. Resolved(i) = Position(i) /\ Resolved(j) = n + Position(j)
    BY <1>3, <1>5 DEF Resolved
  <2> HIDE DEF n
  <2>4. QED
    BY <1>1, <1>3, <2>2, <2>3
<1>6. ASSUME NEW i \in Placed, NEW j \in Placed, i # j
      PROVE  Resolved(i) # Resolved(j)
  <2>1. Position(i) # Position(j)
    <3>1. ~Duplicate /\ i \in Int /\ j \in Int
      BY <1>1, FieldFacts DEF ValidDeclaration
    <3>2. Fields[i].at # Fields[j].at
      BY <1>1, <1>6, <3>1 DEF Duplicate
    <3>3. QED
      BY <1>1, <3>2
  <2>2. CASE Position(i) >= 0 /\ Position(j) >= 0
    BY <2>1, <2>2 DEF Resolved
  <2>3. CASE Position(i) < 0 /\ Position(j) < 0
    <3>1. Resolved(i) = n + Position(i) /\ Resolved(j) = n + Position(j)
      BY <1>3, <2>3 DEF Resolved
    <3> HIDE DEF n
    <3>2. QED
      BY <1>1, <1>3, <2>1, <3>1
  <2>4. QED
    BY <1>3, <1>5, <2>2, <2>3
<1>7. QED
  BY <1>4, <1>6 DEF OutOfRange, Overlap, n

------------------------------------------------------------------------------
(* Every reachable state. *)

\* Instances are built of valid classes only, and have a block for every field
\* that always emits one.
InstanceInv ==
  /\ stage \notin {"new", "rejected"} => ValidDeclaration
  /\ stage \in {"built", "raised", "emitted"} => Fixed \subseteq Emitting

CliInv ==
  /\ class \in Classes /\ InstanceInv
  /\ OrderMeetsDeclaration /\ RejectionSound /\ RegisteredAlwaysEmits

\* What is said of a class and an instance stays while they do.
LEMMA SameInstance ==
  ASSUME class' = class, given' = given
  PROVE  /\ NeverOrdered' = NeverOrdered
         /\ OutOfRange' = OutOfRange /\ Overlap' = Overlap
         /\ Ordered' = Ordered
         /\ Fixed' = Fixed /\ Emitting' = Emitting
         /\ line' = line => MeetsDeclaration(line)' = MeetsDeclaration(line)
         /\ line' = Ordered /\ MeetsDeclaration(Ordered) => MeetsDeclaration(line)'
<1>1. /\ Fields' = Fields /\ Numbered' = Numbered /\ Emitting' = Emitting /\ Fixed' = Fixed
      /\ \A i : Position(i)' = Position(i)
  BY DEF Emitting, Numbered, Position, Declared, Fields, Fixed
<1>2. Blocks' = Blocks /\ Placed' = Placed /\ Agnostic' = Agnostic
  BY <1>1 DEF Blocks, Placed, Agnostic
<1>3. \A i : Resolved(i)' = Resolved(i)
  BY <1>1, <1>2 DEF Resolved
<1>4. Ordered' = Ordered
  BY <1>2, <1>3 DEF Ordered, Gaps
<1>5. NeverOrdered' = NeverOrdered
  BY <1>1 DEF NeverOrdered
<1>6. QED
  BY <1>1, <1>2, <1>3, <1>4, <1>5 DEF OutOfRange, Overlap, MeetsDeclaration

\* The verdict on a class is one on its declaration alone.
LEMMA SameClass ==
  ASSUME class' = class
  PROVE  ValidDeclaration' = ValidDeclaration
BY DEF ValidDeclaration, Duplicate, Impossible, Numbered, Position, Declared, Fields

\* A class that is being defined is refused soundly.
LEMMA DefineKeeps ==
  ASSUME CliInv, Define
  PROVE  CliInv'
<1>1. class \in Classes /\ class' = class /\ stage' \in {"declared", "rejected"}
  BY DEF CliInv, Define
<1>2. OrderMeetsDeclaration' /\ RegisteredAlwaysEmits'
  BY <1>1 DEF OrderMeetsDeclaration, RegisteredAlwaysEmits
<1>3. stage' = "rejected" <=> ~ValidDeclaration
  BY DEF Define
<1>4. RejectionSound'
  <2>1. given' = given
    BY DEF Define
  <2>2. QED
    BY <1>1, <1>3, <2>1, RefusedForAReason, SameInstance DEF RejectionSound
<1>5. InstanceInv'
  BY <1>1, <1>3, SameClass DEF InstanceInv
<1>6. QED
  BY <1>1, <1>2, <1>4, <1>5 DEF CliInv

\* An instance has at least the fields that always emit a block.
LEMMA BuildKeeps ==
  ASSUME CliInv, Build
  PROVE  CliInv'
<1>1. /\ class \in Classes /\ class' = class
      /\ stage = "declared" /\ stage' \in {"built", "refused"}
  BY DEF CliInv, Build
<1>2. ValidDeclaration'
  BY <1>1, SameClass DEF CliInv, InstanceInv
<1>3. (Fixed \subseteq Emitting)'
  <2>1. PICK chosen \in Instances : given' = Normalised(chosen)
    BY DEF Build
  <2>2. Names(Fixed) \subseteq given'
    <3>1. PICK plain \in PlainSets, some \in SUBSET Notable :
            chosen = Names(Fixed \union some \union plain)
      BY DEF Instances
    <3>2. Names(Fixed) \subseteq chosen
      BY <3>1 DEF Names
    <3>3. chosen \subseteq given'
      BY <2>1 DEF Normalised
    <3>4. QED
      BY <3>2, <3>3
  <2>3. Fixed' = Fixed /\ Fields' = Fields /\ Declared' = Declared
    BY <1>1 DEF Fixed, Declared, Fields
  <2>4. \A i \in Fixed : i \in Declared /\ Fields[i].emits # "never" /\ Fields[i].name \in given'
    BY <2>2 DEF Fixed, Names
  <2>5. QED
    BY <2>3, <2>4 DEF Emitting
<1>4. InstanceInv'
  BY <1>1, <1>2, <1>3 DEF InstanceInv
<1>5. QED
  BY <1>1, <1>4 DEF CliInv, OrderMeetsDeclaration, RejectionSound, RegisteredAlwaysEmits

\* A line that is emitted is in order, and a line is not refused without a cause.
LEMMA EmitKeeps ==
  ASSUME CliInv, emit
  PROVE  CliInv'
<1>1. /\ class \in Classes /\ stage = "built"
      /\ UNCHANGED <<class, given, bad>> /\ stage' \in {"raised", "emitted"}
  BY DEF CliInv, emit
<1>2. /\ OutOfRange' = OutOfRange /\ Overlap' = Overlap
      /\ Fixed' = Fixed /\ Emitting' = Emitting /\ ValidDeclaration' = ValidDeclaration
  BY <1>1, SameInstance, SameClass
<1>3. ASSUME stage' = "emitted"
      PROVE  MeetsDeclaration(line)'
  <2>1. ~OutOfRange /\ ~Overlap /\ line' = Ordered
    BY <1>3 DEF emit
  <2>2. MeetsDeclaration(Ordered)
    BY <1>1, <2>1, OrderedMeetsDeclaration
  <2>3. QED
    BY <1>1, <2>1, <2>2, SameInstance
<1>4. ASSUME stage' = "raised"
      PROVE  bad # {} \/ OutOfRange \/ Overlap
  <2>1. bad # {} \/ OutOfRange \/ Overlap \/ Unfilled
    BY <1>4 DEF emit
  <2>2. ~OutOfRange /\ ~Overlap => ~Unfilled
    BY <1>1, GapsAreFilled DEF GapsFilled, Unfilled
  <2>3. QED
    BY <2>1, <2>2
<1>5. ValidDeclaration /\ Fixed \subseteq Emitting
  BY <1>1 DEF CliInv, InstanceInv
<1>6. RegisteredAlwaysEmits'
  <2> SUFFICES ASSUME stage' = "raised", class' \in OfRegistry PROVE bad' # {}
    BY DEF RegisteredAlwaysEmits
  <2>1. Anchored(class)
    BY <1>1, RegisteredAssumption
  <2>2. ~OutOfRange /\ ~Overlap
    BY <1>1, <1>5, <2>1, AnchoredInstancesFit
  <2>3. QED
    BY <1>1, <1>4, <2>2
<1>7. OrderMeetsDeclaration'
  BY <1>1, <1>2, <1>3, <1>4 DEF OrderMeetsDeclaration
<1>8. QED
  BY <1>1, <1>2, <1>5, <1>6, <1>7 DEF CliInv, InstanceInv, RejectionSound

LEMMA StepKeepsCli == ASSUME CliInv, [Next]_vars PROVE CliInv'
<1>1. CASE Define
  BY <1>1, DefineKeeps
<1>2. CASE Build
  BY <1>2, BuildKeeps
<1>3. CASE emit
  BY <1>3, EmitKeeps
<1>4. CASE UNCHANGED vars
  <2>1. class' = class /\ stage' = stage /\ given' = given /\ bad' = bad /\ line' = line
    BY <1>4 DEF vars
  <2>2. QED
    BY <2>1, SameInstance, SameClass
    DEF CliInv, InstanceInv, OrderMeetsDeclaration, RejectionSound, RegisteredAlwaysEmits
<1>5. QED
  BY <1>1, <1>2, <1>3, <1>4 DEF Next

LEMMA CliInvariant == Spec => []CliInv
<1>1. Init => CliInv
  BY DEF Init, CliInv, InstanceInv, OrderMeetsDeclaration, RejectionSound, RegisteredAlwaysEmits
<1>2. QED
  BY <1>1, StepKeepsCli, PTL DEF Spec

\* Every emitted line has its blocks where the class declares them, and emit
\* never runs into one of its internal errors (_order_emitted_arguments).
THEOREM CommandLinesMeetDeclarations == Spec => []OrderMeetsDeclaration
BY CliInvariant, PTL DEF CliInv

\* No class is refused that could emit all its fields at once
\* (_validate_declared_positions).
THEOREM RefusedClassesCannotWork == Spec => []RejectionSound
BY CliInvariant, PTL DEF CliInv

\* However many options an instance sets, a class whose positions are anchored
\* at an end of the line, as those of the registry are, never fails to be
\* ordered (_order_emitted_arguments).
THEOREM RegisteredClassesEmit == Spec => []RegisteredAlwaysEmits
BY CliInvariant, PTL DEF CliInv

==============================================================================
