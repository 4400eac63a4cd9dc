-------------------------- MODULE Workspace_proofs ---------------------------
(***************************************************************************)
(* Proofs about Manifests and Workspace, for any finite set of paths, any  *)
(* submissions, expectations, filters and builds, and any number of steps. *)
(***************************************************************************)
EXTENDS Workspace, Documents, WellFoundedInduction, FiniteSetTheorems, TLAPS

------------------------------------------------------------------------------
(* Least elements, induction for sets instead of predicates, and what a    *)
(* recursive function over a list computes.                                *)

\* A non-empty set of natural numbers has a least element.
LEMMA Least ==
  ASSUME NEW T, T \subseteq Nat, T # {}
  PROVE  \E x \in T : \A y \in T : x <= y
<1> DEFINE R == {ss \in Nat \X Nat : ss[1] < ss[2]}
<1>1. IsWellFoundedOn(R, Nat)
  BY NatLessThanWellFounded DEF OpToRel
<1> HIDE DEF R
<1>2. \E x \in T : \A y \in T : ~(<<y, x>> \in R)
  BY <1>1, WFMin
<1>3. PICK x \in T : \A y \in T : ~(<<y, x>> \in R)
  BY <1>2
<1>4. \A y \in T : x <= y
  <2> TAKE y \in T
  <2>1. x \in Nat /\ y \in Nat
    OBVIOUS
  <2>2. y < x => <<y, x>> \in R
    BY <2>1 DEF R
  <2>3. QED
    BY <1>3, <2>1, <2>2
<1>5. QED
  BY <1>4

\* A non-empty set of integers bounded above has a greatest element.
LEMMA GreatestTo ==
  ASSUME NEW T, T \subseteq Int, T # {}, NEW m \in Int, \A y \in T : y <= m
  PROVE  \E x \in T : \A y \in T : y <= x
<1> DEFINE U == {m - y : y \in T}
<1>0. \A y \in T : y \in Int /\ y <= m /\ m - y \in Nat
  <2> TAKE y \in T
  <2>1. y \in Int /\ y <= m
    OBVIOUS
  <2>2. QED
    BY <2>1
<1>1. U \subseteq Nat /\ U # {}
  BY <1>0
<1>2. PICK u \in U : \A w \in U : u <= w
  BY <1>1, Least
<1>3. PICK x \in T : u = m - x
  OBVIOUS
<1>4. \A y \in T : y <= x
  <2> TAKE y \in T
  <2>1. x \in Int /\ y \in Int
    BY <1>0
  <2>2. u <= m - y
    BY <1>2
  <2>3. QED
    BY <1>3, <2>1, <2>2
<1>5. QED
  BY <1>4

\* A set that holds 0 and with each number below n the next holds all up to n.
LEMMA InductUpTo ==
  ASSUME NEW S, NEW n \in Nat, 0 \in S, \A k \in 0..n : k \in S /\ k < n => k + 1 \in S
  PROVE  0..n \subseteq S
<1> DEFINE T == (0..n) \ S
<1> SUFFICES ASSUME T # {} PROVE FALSE
  OBVIOUS
<1>1. T \subseteq Nat
  OBVIOUS
<1>2. PICK x \in T : \A y \in T : x <= y
  BY <1>1, Least
<1>3. x \in 0..n /\ x \notin S /\ x # 0
  OBVIOUS
<1>4. x - 1 \in 0..n /\ x - 1 < n /\ ~(x <= x - 1) /\ (x - 1) + 1 = x
  BY <1>3
<1>5. x - 1 \in S
  BY <1>2, <1>4
<1>6. (x - 1) + 1 \in S
  BY <1>4, <1>5
<1>7. QED
  BY <1>3, <1>4, <1>6

\* A loop of n rounds over values of S has an outcome: round i turns what the
\* round before left into step[i] of it.
LEMMA LoopExists ==
  ASSUME NEW S, NEW first \in S, NEW n \in Nat, NEW step \in [1..n -> [S -> S]]
  PROVE  \E g \in [0..n -> S] :
           g[0] = first /\ \A i \in 1..n : g[i] = step[i][g[i - 1]]
<1> DEFINE Good(g, k) == /\ g \in [0..k -> S]
                         /\ g[0] = first
                         /\ \A i \in 1..k : g[i] = step[i][g[i - 1]]
           T == {k \in 0..n : \E g : Good(g, k)}
<1>1. 0 \in T
  <2> DEFINE h == [i \in 0..0 |-> first]
  <2>1. Good(h, 0)
    OBVIOUS
  <2>2. 0 \in 0..n
    OBVIOUS
  <2> HIDE DEF h
  <2>3. QED
    BY <2>1, <2>2
<1>2. ASSUME NEW k \in 0..n, k \in T, k < n
      PROVE  k + 1 \in T
  <2>1. PICK g : Good(g, k)
    BY <1>2
  <2> DEFINE h == [i \in 0..(k + 1) |-> IF i <= k THEN g[i] ELSE step[k + 1][g[k]]]
  <2>2. k + 1 \in 1..n /\ k \in 0..k /\ g[k] \in S
    BY <1>2, <2>1
  <2>3. step[k + 1][g[k]] \in S
    BY <2>2
  <2>4. h \in [0..(k + 1) -> S]
    BY <2>1, <2>3
  <2>5. h[0] = first
    BY <2>1
  <2>6. \A i \in 1..(k + 1) : h[i] = step[i][h[i - 1]]
    <3> TAKE i \in 1..(k + 1)
    <3>1. CASE i <= k
      <4>1. i \in 1..k /\ i - 1 \in 0..(k + 1) /\ i - 1 <= k /\ i \in 0..(k + 1)
        BY <3>1
      <4>2. QED
        BY <2>1, <4>1
    <3>2. CASE i = k + 1
      <4>1. i - 1 = k /\ k \in 0..(k + 1) /\ k <= k /\ ~(i <= k) /\ i \in 0..(k + 1)
        BY <3>2
      <4>2. h[i] = step[k + 1][g[k]] /\ h[i - 1] = g[k]
        BY <4>1
      <4>3. QED
        BY <3>2, <4>2
    <3>3. QED
      BY <3>1, <3>2
  <2> HIDE DEF h
  <2>7. Good(h, k + 1)
    BY <2>4, <2>5, <2>6
  <2>8. QED
    BY <2>2, <2>7
<1> HIDE DEF T
<1>3. n \in T
  <2>1. 0..n \subseteq T
    BY <1>1, <1>2, InductUpTo
  <2>2. QED
    BY <2>1
<1>4. PICK g : Good(g, n)
  BY <1>3 DEF T
<1>5. QED
  BY <1>4

\* The same as a fact about S alone, for one S to be cited at a time.
Loops(S) ==
  \A first \in S : \A n \in Nat : \A step \in [1..n -> [S -> S]] :
    \E g \in [0..n -> S] :
      g[0] = first /\ \A i \in 1..n : g[i] = step[i][g[i - 1]]

LEMMA LoopsOf == \A S : Loops(S)
BY LoopExists, SMT DEF Loops

------------------------------------------------------------------------------
(* Paths and structures. *)

LEMMA PathFacts ==
  ASSUME NEW p \in Paths
  PROVE  /\ p \in Seq(Nat \ {0})
         /\ Len(p) \in Nat
         /\ Len(p) >= 1
         /\ DOMAIN p = 1..Len(p)
         /\ \A i \in 1..Len(p) : p[i] \in Nat
<1>1. p \in Seq(Nat \ {0}) /\ p # <<>>
  BY PathsAssumption
<1>2. Len(p) \in Nat /\ DOMAIN p = 1..Len(p) /\ \A i \in 1..Len(p) : p[i] \in Nat \ {0}
  BY <1>1
<1>3. Len(p) # 0
  BY <1>1
<1>4. QED
  BY <1>1, <1>2, <1>3

\* What lies in a directory lies one level below it.
LEMMA FrontFacts ==
  ASSUME NEW p \in Paths
  PROVE  /\ Len(p) = 1 => Front(p) = Root
         /\ Len(p) > 1 => /\ Front(p) \in Directories
                          /\ Front(p) \in Parents(p)
                          /\ Len(Front(p)) = Len(p) - 1
<1>1. p \in Seq(Nat \ {0}) /\ Len(p) \in Nat /\ Len(p) >= 1
  BY PathFacts
<1>2. ASSUME Len(p) = 1 PROVE Front(p) = Root
  <2>1. Front(p) = SubSeq(p, 1, 0)
    BY <1>2 DEF Front
  <2>2. QED
    BY <1>1, <2>1 DEF Root
<1>3. ASSUME Len(p) > 1
      PROVE  /\ Front(p) \in Directories
             /\ Front(p) \in Parents(p)
             /\ Len(Front(p)) = Len(p) - 1
  <2>1. Front(p) = SubSeq(p, 1, Len(p) - 1) /\ Len(p) - 1 \in 1..(Len(p) - 1)
    BY <1>1, <1>3 DEF Front
  <2>2. Front(p) \in Directories
    BY <1>3, PathsAssumption
  <2>3. Len(SubSeq(p, 1, Len(p) - 1)) = Len(p) - 1
    BY <1>1, <1>3
  <2>4. QED
    BY <2>1, <2>2, <2>3 DEF Parents
<1>4. QED
  BY <1>2, <1>3

\* What leads to a path is a directory, and what leads to that leads to the path.
LEMMA ParentFacts ==
  ASSUME NEW p \in Paths, NEW d \in Parents(p)
  PROVE  /\ d \in Directories /\ d \in Paths
         /\ Len(d) < Len(p) /\ Len(d) \in Nat
         /\ Parents(d) \subseteq Parents(p)
<1>1. p \in Seq(Nat \ {0}) /\ Len(p) \in Nat /\ Len(p) >= 1
  BY PathFacts
<1>2. PICK k \in 1..(Len(p) - 1) : d = SubSeq(p, 1, k)
  BY DEF Parents
<1>3. Len(d) = k /\ k \in Nat /\ k < Len(p)
  BY <1>1, <1>2
<1>4. Parents(d) \subseteq Parents(p)
  <2> SUFFICES ASSUME NEW j \in 1..(k - 1)
               PROVE  SubSeq(d, 1, j) \in Parents(p)
    BY <1>3 DEF Parents
  <2>1. j \in 1..(Len(p) - 1)
    BY <1>1, <1>3
  <2>2. SubSeq(d, 1, j) = SubSeq(p, 1, j)
    BY <1>1, <1>2, <1>3
  <2>3. QED
    BY <2>1, <2>2 DEF Parents
<1>5. d \in Directories
  <2> DEFINE T == {i \in 1..(Len(p) - 1) : SubSeq(p, 1, i) \notin Directories}
  <2> SUFFICES ASSUME T # {} PROVE FALSE
    BY <1>2
  <2>1. PICK i \in T : \A j \in T : j <= i
    <3>1. T \subseteq Int /\ Len(p) \in Int /\ \A j \in T : j <= Len(p)
      BY <1>1
    <3> HIDE DEF T
    <3>2. QED
      BY <3>1, GreatestTo
  <2>2. i \in 1..(Len(p) - 1) /\ SubSeq(p, 1, i) \notin Directories
    BY <2>1
  <2>3. CASE i = Len(p) - 1
    <3>1. Front(p) = SubSeq(p, 1, i) /\ Len(p) > 1
      BY <1>1, <2>2, <2>3 DEF Front
    <3>2. QED
      BY <2>2, <3>1, PathsAssumption
  <2>4. CASE i # Len(p) - 1
    <3> DEFINE q == SubSeq(p, 1, i + 1)
    <3>1. i + 1 \in 1..(Len(p) - 1) /\ ~(i + 1 <= i)
      BY <1>1, <2>2, <2>4
    <3>2. q \in Directories
      BY <2>1, <3>1
    <3>3. Len(q) = i + 1 /\ Len(q) > 1 /\ SubSeq(q, 1, Len(q) - 1) = SubSeq(p, 1, i)
      BY <1>1, <2>2, <3>1
    <3>4. Front(q) \in Directories
      BY <3>2, <3>3, PathsAssumption
    <3>5. QED
      BY <2>2, <3>3, <3>4 DEF Front
  <2>5. QED
    BY <2>3, <2>4
<1>6. QED
  BY <1>3, <1>4, <1>5, PathsAssumption

\* What agrees in every directory the two have in common agrees everywhere: at
\* a shortest path where they differ, the directory above it would be common.
LEMMA AgreesBelow ==
  ASSUME NEW e \in Mappings, NEW m \in [Paths -> Kinds],
         \A d \in Directories \union {Root} :
           IsDirectory(e, d) /\ IsDirectory(m, d) =>
             \A p \in Children(d) : e[p] # "absent" => m[p] = e[p]
  PROVE  \A p \in Paths : e[p] # "absent" => m[p] = e[p]
<1> DEFINE Wrong == {p \in Paths : e[p] # "absent" /\ m[p] # e[p]}
           T == {Len(p) : p \in Wrong}
<1> SUFFICES ASSUME Wrong # {} PROVE FALSE
  OBVIOUS
<1>1. T \subseteq Nat /\ T # {}
  BY PathFacts
<1> HIDE DEF T
<1>2. PICK n \in T : \A k \in T : n <= k
  BY <1>1, Least
<1>3. PICK p \in Wrong : n = Len(p)
  BY <1>2 DEF T
<1>4. p \in Paths /\ e[p] # "absent" /\ m[p] # e[p] /\ Len(p) \in Nat /\ Len(p) >= 1
  BY PathFacts
<1> DEFINE d == Front(p)
<1>5. d \in Directories \union {Root} /\ p \in Children(d)
  <2>1. Len(p) = 1 \/ Len(p) > 1
    BY <1>4
  <2>2. QED
    BY <1>4, <2>1, FrontFacts DEF Children
<1>6. IsDirectory(e, d) /\ IsDirectory(m, d)
  <2>1. CASE Len(p) = 1
    BY <1>4, <2>1, FrontFacts DEF IsDirectory
  <2>2. CASE Len(p) > 1
    <3>1. d \in Parents(p) /\ d \in Paths /\ Len(d) = Len(p) - 1
      BY <1>4, <2>2, FrontFacts, PathsAssumption
    <3>2. e[d] = "dir"
      BY <1>4, <3>1 DEF Mappings, IsMapping
    <3>3. d \notin Wrong
      <4>1. Len(d) < n /\ Len(d) \in Nat /\ n \in Nat
        BY <1>1, <1>3, <1>4, <2>2, <3>1
      <4>2. Len(d) \notin T
        BY <1>2, <4>1
      <4>3. QED
        BY <4>2 DEF T
    <3>4. m[d] = "dir"
      BY <3>1, <3>2, <3>3
    <3>5. QED
      BY <3>2, <3>4 DEF IsDirectory
  <2>3. Len(p) = 1 \/ Len(p) > 1
    BY <1>4
  <2>4. QED
    BY <2>1, <2>2, <2>3
<1>7. QED
  BY <1>4, <1>5, <1>6

\* An expected structure that compares as smaller is contained in the received
\* one (parcels.py, Manifest.__le__).
LEMMA LeContains ==
  ASSUME NEW e \in Mappings, NEW m \in [Paths -> Kinds], _mapping_le(e, m)
  PROVE  \A p \in Paths : e[p] # "absent" => m[p] = e[p]
<1>1. ASSUME NEW d \in Directories \union {Root}, IsDirectory(e, d), IsDirectory(m, d),
             NEW p \in Children(d), e[p] # "absent"
      PROVE  m[p] = e[p]
  <2>1. /\ compare(e, m, d).missing = {}
        /\ compare(e, m, d).should_be_directory = {}
        /\ compare(e, m, d).should_be_file = {}
    BY <1>1 DEF _mapping_le, _mapping_cmp
  <2>2. p \in Paths /\ e[p] \in {"file", "dir"} /\ m[p] \in Kinds
    BY <1>1 DEF Children, Mappings, Kinds
  <2>3. p \notin compare(e, m, d).missing
    BY <2>1
  <2>4. m[p] # "absent"
    BY <2>2, <2>3 DEF compare
  <2>5. ~(e[p] = "dir" /\ m[p] = "file")
    BY <1>1, <2>1 DEF compare
  <2>6. ~(e[p] = "file" /\ m[p] = "dir")
    BY <1>1, <2>1 DEF compare
  <2>7. QED
    BY <2>2, <2>4, <2>5, <2>6 DEF Kinds
<1>2. QED
  BY <1>1, AgreesBelow

LEMMA EqContains ==
  ASSUME NEW e \in Mappings, NEW m \in [Paths -> Kinds], _mapping_eq(m, e)
  PROVE  \A p \in Paths : e[p] # "absent" => m[p] = e[p]
<1>1. ASSUME NEW d \in Directories \union {Root}, IsDirectory(e, d), IsDirectory(m, d),
             NEW p \in Children(d), e[p] # "absent"
      PROVE  m[p] = e[p]
  <2>1. /\ compare(m, e, d).extra = {}
        /\ compare(m, e, d).should_be_directory = {}
        /\ compare(m, e, d).should_be_file = {}
    BY <1>1 DEF _mapping_eq, _mapping_cmp
  <2>2. p \in Paths /\ e[p] \in {"file", "dir"} /\ m[p] \in Kinds
    BY <1>1 DEF Children, Mappings, Kinds
  <2>3. p \notin compare(m, e, d).extra
    BY <2>1
  <2>4. m[p] # "absent"
    BY <1>1, <2>2, <2>3 DEF compare
  <2>5. ~(m[p] = "dir" /\ e[p] = "file")
    BY <1>1, <2>1 DEF compare
  <2>6. ~(m[p] = "file" /\ e[p] = "dir")
    BY <1>1, <2>1 DEF compare
  <2>7. QED
    BY <2>2, <2>4, <2>5, <2>6 DEF Kinds
<1>2. QED
  BY <1>1, AgreesBelow

\* Two structures are compared directory by directory, and yet == is equality
\* and <= is containment, of structures of any depth.
THEOREM StructuresCompare ==
  ASSUME NEW a \in Mappings, NEW b \in Mappings
  PROVE  ComparisonIsContainment(a, b)
<1>0. a \in [Paths -> Kinds] /\ b \in [Paths -> Kinds]
  BY DEF Mappings
<1>1. ASSUME _mapping_eq(a, b) PROVE a = b
  <2>1. \A p \in Paths : b[p] # "absent" => a[p] = b[p]
    BY <1>0, <1>1, EqContains
  <2>2. _mapping_le(a, b)
    BY <1>1 DEF _mapping_eq, _mapping_le, _mapping_cmp
  <2>3. \A p \in Paths : a[p] # "absent" => b[p] = a[p]
    BY <1>0, <2>2, LeContains
  <2>4. \A p \in Paths : a[p] = b[p]
    BY <2>1, <2>3
  <2>5. QED
    BY <1>0, <2>4
<1>2. ASSUME \A p \in Paths : a[p] # "absent" => b[p] = a[p]
      PROVE  _mapping_le(a, b)
  <2>1. ASSUME NEW d PROVE /\ compare(a, b, d).missing = {}
                           /\ compare(a, b, d).should_be_directory = {}
                           /\ compare(a, b, d).should_be_file = {}
    BY <1>2 DEF compare, Children
  <2>2. QED
    BY <2>1 DEF _mapping_le, _mapping_cmp
<1>3. ASSUME a = b PROVE _mapping_eq(a, b)
  <2>1. ASSUME NEW d PROVE /\ compare(a, b, d).missing = {}
                           /\ compare(a, b, d).extra = {}
                           /\ compare(a, b, d).should_be_directory = {}
                           /\ compare(a, b, d).should_be_file = {}
    BY <1>3 DEF compare, Children
  <2>2. QED
    BY <2>1 DEF _mapping_eq, _mapping_cmp
<1>4. QED
  BY <1>0, <1>1, <1>2, <1>3, LeContains DEF ComparisonIsContainment

------------------------------------------------------------------------------
(* Manifests of a flat list of paths. *)

\* What the first k paths of a list come to, and what leads to those.
FilesTo(flat, k) == {normpath(flat[i]) : i \in 1..k}
AboveTo(flat, k) == UNION {Parents(f) : f \in FilesTo(flat, k)}
SoundTo(flat, k) ==
  /\ Root \notin FilesTo(flat, k) /\ \A f \in FilesTo(flat, k) : Up \notin Range(f)
  /\ FilesTo(flat, k) \intersect AboveTo(flat, k) = {}
TreeTo(flat, k) ==
  [p \in Paths |-> IF p \in FilesTo(flat, k) THEN "file" ELSE
                   IF p \in AboveTo(flat, k) THEN "dir" ELSE "absent"]

\* One more path: it is refused when it is none of a file, leads below a file
\* or is a directory already.
LEMMA OneMorePath ==
  ASSUME NEW flat, NEW k \in Nat, NEW node, NEW rel, rel = normpath(flat[k + 1]),
         node \in [raised : BOOLEAN, mapping : [Paths -> Kinds]],
         node.raised <=> ~SoundTo(flat, k),
         SoundTo(flat, k) => node.mapping = TreeTo(flat, k),
         rel # Root /\ Up \notin Range(rel) => rel \in Paths,
         NEW next, next = add_path(node, rel)
  PROVE  /\ next \in [raised : BOOLEAN, mapping : [Paths -> Kinds]]
         /\ next.raised <=> ~SoundTo(flat, k + 1)
         /\ SoundTo(flat, k + 1) => next.mapping = TreeTo(flat, k + 1)
<1> DEFINE files == FilesTo(flat, k)
           above == AboveTo(flat, k)
           more == FilesTo(flat, k + 1)
           higher == AboveTo(flat, k + 1)
<1>1. more = files \union {rel}
  <2>1. \A i : i \in 1..(k + 1) <=> (i \in 1..k \/ i = k + 1)
    OBVIOUS
  <2>2. QED
    BY <2>1 DEF FilesTo
<1>2. higher = above \union Parents(rel)
  BY <1>1 DEF AboveTo
<1>3. /\ SoundTo(flat, k) <=> /\ Root \notin files /\ \A f \in files : Up \notin Range(f)
                              /\ files \intersect above = {}
      /\ SoundTo(flat, k + 1) <=> /\ Root \notin more /\ \A f \in more : Up \notin Range(f)
                                  /\ more \intersect higher = {}
  BY DEF SoundTo
<1>4. /\ TreeTo(flat, k) = [p \in Paths |-> IF p \in files THEN "file" ELSE
                                            IF p \in above THEN "dir" ELSE "absent"]
      /\ TreeTo(flat, k + 1) = [p \in Paths |-> IF p \in more THEN "file" ELSE
                                                IF p \in higher THEN "dir" ELSE "absent"]
  BY DEF TreeTo
<1> HIDE DEF files, above, more, higher
<1> DEFINE nodes == [raised : BOOLEAN, mapping : [Paths -> Kinds]]
<1>5. /\ [node EXCEPT !.raised = TRUE] \in nodes
      /\ [node EXCEPT !.raised = TRUE].raised = TRUE
  OBVIOUS
<1>6. CASE node.raised \/ rel = Root \/ Up \in Range(rel)
  <2>1. next = [node EXCEPT !.raised = TRUE]
    BY <1>6 DEF add_path
  <2>2. ~SoundTo(flat, k + 1)
    BY <1>1, <1>2, <1>3, <1>6
  <2>3. QED
    BY <1>5, <2>1, <2>2
<1>7. CASE ~(node.raised \/ rel = Root \/ Up \in Range(rel))
  <2>1. /\ SoundTo(flat, k) /\ node.mapping = TreeTo(flat, k) /\ rel \in Paths
        /\ next = insert_file(node, rel) /\ node.raised = FALSE
    BY <1>7 DEF add_path
  <2>2. rel \notin Parents(rel) /\ Parents(rel) \subseteq Paths
    BY <2>1, ParentFacts
  <2>3. /\ \A p \in Paths : node.mapping[p] = "file" <=> p \in files
        /\ \A p \in Paths : node.mapping[p] = "dir" <=> p \in above
    BY <1>3, <1>4, <2>1
  <2>4. CASE (\E d \in Parents(rel) : node.mapping[d] = "file") \/ node.mapping[rel] = "dir"
    <3>1. next = [node EXCEPT !.raised = TRUE]
      BY <2>1, <2>4 DEF insert_file
    <3>2. ~SoundTo(flat, k + 1)
      BY <1>1, <1>2, <1>3, <2>1, <2>2, <2>3, <2>4
    <3>3. QED
      BY <1>5, <3>1, <3>2
  <2>5. CASE ~((\E d \in Parents(rel) : node.mapping[d] = "file") \/ node.mapping[rel] = "dir")
    <3> DEFINE tree == [p \in Paths |-> IF p = rel THEN "file" ELSE
                                        IF p \in Parents(rel) THEN "dir" ELSE node.mapping[p]]
    <3>1. next = [node EXCEPT !.mapping = tree]
      BY <2>1, <2>5 DEF insert_file
    <3>2. tree \in [Paths -> Kinds]
      BY DEF Kinds
    <3>3. SoundTo(flat, k + 1)
      BY <1>1, <1>2, <1>3, <1>7, <2>1, <2>2, <2>3, <2>5
    <3>4. tree = TreeTo(flat, k + 1)
      <4>1. more \intersect higher = {}
        BY <1>3, <3>3
      <4>2. \A p \in Paths : tree[p] = IF p \in more THEN "file" ELSE
                                       IF p \in higher THEN "dir" ELSE "absent"
        BY <1>1, <1>2, <1>4, <2>1, <2>3, <4>1
      <4>3. QED
        BY <1>4, <4>2
    <3> HIDE DEF tree
    <3>5. next \in nodes /\ next.raised = FALSE /\ next.mapping = tree
      BY <2>1, <3>1, <3>2
    <3>6. QED
      BY <3>3, <3>4, <3>5
  <2>6. QED
    BY <2>4, <2>5
<1>8. QED
  BY <1>6, <1>7

\* A flat list is refused exactly when it describes no tree, and else gives the
\* tree of its files, in any order and with any repetitions (Manifest.from_flat).
THEOREM FlatListsDescribeTrees ==
  ASSUME NEW flat \in Seq(Seq(Nat)),
         \A i \in DOMAIN flat : LET rel == normpath(flat[i]) IN
           rel # Root /\ Up \notin Range(rel) => rel \in Paths
  PROVE  FlatMeansItsFiles(flat)
<1> DEFINE nodes == [raised : BOOLEAN, mapping : [Paths -> Kinds]]
           n == Len(flat)
           first == [raised |-> FALSE, mapping |-> Nothing]
           next(node, rel) == add_path(node, rel)
           Runs(f) == f = [i \in 0..n |-> IF i = 0 THEN first ELSE next(f[i - 1], normpath(flat[i]))]
           step == [i \in 1..n |-> [node \in nodes |-> next(node, normpath(flat[i]))]]
<1>1. n \in Nat /\ DOMAIN flat = 1..n
  OBVIOUS
<1>2. \A i \in 1..n : LET rel == normpath(flat[i]) IN
        rel # Root /\ Up \notin Range(rel) => rel \in Paths
  BY <1>1
<1>3. first \in nodes
  BY DEF Nothing, Kinds
<1>4. \A i \in 1..n : \A node \in nodes : next(node, normpath(flat[i])) \in nodes
  BY DEF add_path, insert_file, Kinds
<1> HIDE DEF next
<1>5. step \in [1..n -> [nodes -> nodes]]
  BY <1>4
<1>6. \A i \in 1..n : \A node \in nodes : step[i][node] = next(node, normpath(flat[i]))
  OBVIOUS
<1>7. from_flat(flat) = (CHOOSE f : Runs(f))[n]
  BY DEF from_flat, next
<1> HIDE DEF n, first, step, nodes
<1>8. PICK h \in [0..n -> nodes] :
        h[0] = first /\ \A i \in 1..n : h[i] = step[i][h[i - 1]]
  <2>1. Loops(nodes)
    BY LoopsOf
  <2>2. QED
    BY <1>1, <1>3, <1>5, <2>1, Zenon DEF Loops
<1>9. \A i \in 1..n : i - 1 \in 0..n /\ h[i - 1] \in nodes /\ i \in 0..n /\ i # 0
  <2>1. \A i \in 1..n : i - 1 \in 0..n /\ i \in 0..n /\ i # 0
    BY <1>1
  <2>2. QED
    BY <1>8, <2>1
<1>10. \A i \in 0..n : i # 0 => i \in 1..n
  BY <1>1
<1>11. Runs(h)
  <2>1. \A i \in 0..n : h[i] = IF i = 0 THEN first ELSE next(h[i - 1], normpath(flat[i]))
    BY <1>6, <1>8, <1>9, <1>10
  <2>2. QED
    BY <1>8, <2>1
<1> DEFINE g == CHOOSE f : Runs(f)
<1>12. Runs(g)
  BY <1>11
<1>13. from_flat(flat) = g[n]
  BY <1>7
<1> HIDE DEF g
<1>14. 0 \in 0..n /\ g[0] = first
  BY <1>1, <1>12
<1>15. \A i \in 1..n : g[i] = add_path(g[i - 1], normpath(flat[i]))
  BY <1>9, <1>12 DEF next
<1> DEFINE Good(k) == /\ g[k] \in nodes
                      /\ g[k].raised <=> ~SoundTo(flat, k)
                      /\ SoundTo(flat, k) => g[k].mapping = TreeTo(flat, k)
           T == {k \in 0..n : Good(k)}
<1>16. 0 \in T
  <2>1. FilesTo(flat, 0) = {} /\ AboveTo(flat, 0) = {}
    BY DEF FilesTo, AboveTo
  <2>2. SoundTo(flat, 0) /\ TreeTo(flat, 0) = Nothing
    BY <2>1 DEF SoundTo, TreeTo, Nothing
  <2>3. QED
    BY <1>3, <1>14, <2>2 DEF first
<1>17. ASSUME NEW k \in 0..n, k \in T, k < n PROVE k + 1 \in T
  <2>1. k + 1 \in 1..n /\ k + 1 \in 0..n /\ (k + 1) - 1 = k /\ k \in Nat
    BY <1>1, <1>17
  <2>2. g[k + 1] = add_path(g[k], normpath(flat[k + 1]))
    BY <1>15, <2>1
  <2>3. Good(k)
    BY <1>17
  <2>4. LET rel == normpath(flat[k + 1]) IN rel # Root /\ Up \notin Range(rel) => rel \in Paths
    BY <1>2, <2>1
  <2>5. Good(k + 1)
    BY <2>1, <2>2, <2>3, <2>4, OneMorePath DEF nodes
  <2>6. QED
    BY <2>1, <2>5
<1> HIDE DEF T
<1>18. 0..n \subseteq T
  BY <1>1, <1>16, <1>17, InductUpTo
<1>19. Good(n)
  <2>1. n \in 0..n
    BY <1>1
  <2>2. QED
    BY <1>18, <2>1 DEF T
<1>20. FilesTo(flat, n) = {normpath(flat[i]) : i \in DOMAIN flat}
  BY <1>1 DEF FilesTo
<1>21. QED
  BY <1>13, <1>19, <1>20 DEF FlatMeansItsFiles, SoundTo, TreeTo, AboveTo

\* And what a flat list describes is a structure, which == and <= compare
\* rightly with any other (Manifest.from_flat, Manifest.compare).
THEOREM FlatListsCompare ==
  ASSUME NEW flat \in Seq(Seq(Nat)),
         \A i \in DOMAIN flat : LET rel == normpath(flat[i]) IN
           rel # Root /\ Up \notin Range(rel) => rel \in Paths
  PROVE  ManifestsMeanTheirFiles(flat)
<1> DEFINE files == {normpath(flat[i]) : i \in DOMAIN flat}
           above == UNION {Parents(f) : f \in files}
           tree == [p \in Paths |-> IF p \in files THEN "file" ELSE
                                      IF p \in above THEN "dir" ELSE "absent"]
           sound == /\ Root \notin files /\ \A f \in files : Up \notin Range(f)
                    /\ files \intersect above = {}
<1>1. FlatMeansItsFiles(flat)
  BY FlatListsDescribeTrees
<1>2. ASSUME sound PROVE tree \in Mappings
  <2>1. files \subseteq Paths /\ files \intersect above = {}
    BY <1>2
  <2>2. \A f \in files : \A d \in Parents(f) : d \in Directories /\ d \in Paths /\ Parents(d) \subseteq Parents(f)
    BY <2>1, ParentFacts
  <2> HIDE DEF files
  <2>3. ASSUME NEW p \in Paths, tree[p] = "dir" PROVE p \in Directories
    <3>1. p \in above
      BY <2>3
    <3>2. QED
      BY <2>2, <3>1
  <2>4. ASSUME NEW p \in Paths, tree[p] # "absent", NEW d \in Parents(p) PROVE tree[d] = "dir"
    <3>1. p \in files \/ p \in above
      BY <2>4
    <3>2. d \in above /\ d \in Paths
      BY <2>2, <3>1, ParentFacts
    <3>3. QED
      BY <2>1, <3>2
  <2>5. tree \in [Paths -> Kinds]
    BY DEF Kinds
  <2> HIDE DEF tree
  <2>6. QED
    BY <2>3, <2>4, <2>5 DEF Mappings, IsMapping
<1>3. ~from_flat(flat).raised => from_flat(flat).mapping \in Mappings
  <2>1. from_flat(flat).raised <=> ~sound
    BY <1>1 DEF FlatMeansItsFiles
  <2>2. sound => from_flat(flat).mapping = tree
    BY <1>1 DEF FlatMeansItsFiles
  <2> HIDE DEF sound, tree
  <2>3. QED
    BY <1>2, <2>1, <2>2
<1>4. QED
  BY <1>1, <1>3, StructuresCompare DEF ManifestsMeanTheirFiles

------------------------------------------------------------------------------
(* The list of a manifest's files. *)

Parts(p, q, k) ==
  k \in 1..Len(p) /\ k <= Len(q) /\ p[k] # q[k] /\ \A i \in 1..(k - 1) : p[i] = q[i]

\* Two files part somewhere: a file that led to another would be a directory.
LEMMA FilesPart ==
  ASSUME NEW m \in Mappings, NEW p \in file_paths(m), NEW q \in file_paths(m), p # q
  PROVE  \E k \in 1..Len(p) : Parts(p, q, k)
<1>1. p \in Paths /\ q \in Paths /\ m[p] = "file" /\ m[q] = "file"
  BY DEF file_paths
<1>2. /\ Len(p) \in Nat /\ Len(p) >= 1 /\ p \in Seq(Nat \ {0})
      /\ Len(q) \in Nat /\ Len(q) >= 1 /\ q \in Seq(Nat \ {0})
  BY <1>1, PathFacts
<1> DEFINE T == {k \in 1..Len(p) : k <= Len(q) /\ p[k] # q[k]}
<1>3. T # {}
  <2> SUFFICES ASSUME \A k \in 1..Len(p) : k <= Len(q) => p[k] = q[k]
               PROVE  FALSE
    OBVIOUS
  <2>1. CASE Len(p) = Len(q)
    BY <1>2, <2>1
  <2>2. CASE Len(p) < Len(q)
    <3>1. SubSeq(q, 1, Len(p)) = p
      BY <1>2, <2>2
    <3>2. Len(p) \in 1..(Len(q) - 1)
      BY <1>2, <2>2
    <3>3. p \in Parents(q)
      BY <3>1, <3>2 DEF Parents
    <3>4. QED
      BY <1>1, <3>3 DEF Mappings, IsMapping
  <2>3. CASE Len(q) < Len(p)
    <3>1. SubSeq(p, 1, Len(q)) = q
      BY <1>2, <2>3
    <3>2. Len(q) \in 1..(Len(p) - 1)
      BY <1>2, <2>3
    <3>3. q \in Parents(p)
      BY <3>1, <3>2 DEF Parents
    <3>4. QED
      BY <1>1, <3>3 DEF Mappings, IsMapping
  <2>4. QED
    BY <1>2, <2>1, <2>2, <2>3
<1>4. T \subseteq Nat
  BY <1>2
<1>5. PICK k \in T : \A i \in T : k <= i
  BY <1>3, <1>4, Least
<1>6. \A i \in 1..(k - 1) : p[i] = q[i]
  <2> TAKE i \in 1..(k - 1)
  <2>1. k \in Nat /\ i \in 1..Len(p) /\ i <= Len(q) /\ ~(k <= i)
    BY <1>2, <1>5
  <2>2. i \notin T
    BY <1>5, <2>1
  <2>3. QED
    BY <2>1, <2>2
<1>7. QED
  BY <1>5, <1>6 DEF Parts

\* They part at one place only, whichever is named first.
LEMMA PartOnce ==
  ASSUME NEW p \in Paths, NEW q \in Paths, NEW k \in 1..Len(p), Parts(p, q, k)
  PROVE  parting(p, q) = k /\ Parts(q, p, k) /\ k \in 1..Len(q)
<1>1. Len(p) \in Nat /\ Len(q) \in Nat
  BY PathFacts
<1>2. \A i \in 1..Len(p) : Parts(p, q, i) => i = k
  BY <1>1 DEF Parts
<1>3. parting(p, q) = CHOOSE i \in 1..Len(p) : Parts(p, q, i)
  BY DEF parting, Parts
<1>4. QED
  BY <1>1, <1>2, <1>3 DEF Parts

\* The order of the names in one directory, which the order of two files is
\* where they part.
Sooner(m, p, q, k) ==
  IF IsDirectory(m, SubSeq(p, 1, k)) # IsDirectory(m, SubSeq(q, 1, k))
    THEN IsDirectory(m, SubSeq(p, 1, k))
    ELSE p[k] < q[k]

LEMMA BeforeIsSooner ==
  ASSUME NEW m, NEW p \in Paths, NEW q \in Paths, NEW k \in 1..Len(p), Parts(p, q, k)
  PROVE  Before(m, p, q) <=> Sooner(m, p, q, k)
BY PartOnce DEF Before, Sooner

LEMMA SamePrefix ==
  ASSUME NEW p \in Paths, NEW q \in Paths, NEW k \in 1..Len(p), k <= Len(q),
         \A i \in 1..k : p[i] = q[i]
  PROVE  SubSeq(p, 1, k) = SubSeq(q, 1, k)
<1>1. Len(p) \in Nat /\ Len(q) \in Nat /\ p \in Seq(Nat \ {0}) /\ q \in Seq(Nat \ {0})
  BY PathFacts
<1>2. QED
  BY <1>1

\* Of two files one comes first, and not both.
LEMMA BeforeIsTotal ==
  ASSUME NEW m \in Mappings, NEW p \in file_paths(m), NEW q \in file_paths(m), p # q
  PROVE  Before(m, p, q) <=> ~Before(m, q, p)
<1>1. p \in Paths /\ q \in Paths
  BY DEF file_paths
<1>2. PICK k \in 1..Len(p) : Parts(p, q, k)
  BY FilesPart
<1>3. Parts(q, p, k) /\ k \in 1..Len(q)
  BY <1>1, <1>2, PartOnce
<1>4. p[k] \in Nat /\ q[k] \in Nat /\ p[k] # q[k]
  BY <1>1, <1>2, <1>3, PathFacts DEF Parts
<1>5. /\ Before(m, p, q) <=> Sooner(m, p, q, k)
      /\ Before(m, q, p) <=> Sooner(m, q, p, k)
  BY <1>1, <1>2, <1>3, BeforeIsSooner
<1>6. Sooner(m, p, q, k) <=> ~Sooner(m, q, p, k)
  BY <1>4 DEF Sooner, IsDirectory
<1>7. QED
  BY <1>5, <1>6

LEMMA BeforeIsTransitive ==
  ASSUME NEW m \in Mappings, NEW p \in file_paths(m), NEW q \in file_paths(m),
         NEW r \in file_paths(m), p # q, q # r, p # r, Before(m, p, q), Before(m, q, r)
  PROVE  Before(m, p, r)
<1>1. p \in Paths /\ q \in Paths /\ r \in Paths
  BY DEF file_paths
<1>2. PICK k \in 1..Len(p) : Parts(p, q, k)
  BY FilesPart
<1>3. PICK l \in 1..Len(q) : Parts(q, r, l)
  BY FilesPart
<1>4. /\ Len(p) \in Nat /\ Len(q) \in Nat /\ Len(r) \in Nat
      /\ k \in Nat /\ l \in Nat /\ k <= Len(q) /\ l <= Len(r)
  BY <1>1, <1>2, <1>3, PathFacts DEF Parts
<1>5. Sooner(m, p, q, k) /\ Sooner(m, q, r, l)
  BY <1>1, <1>2, <1>3, BeforeIsSooner
<1>6. CASE k < l
  <2>1. k <= Len(r) /\ \A i \in 1..k : q[i] = r[i]
    BY <1>3, <1>4, <1>6 DEF Parts
  <2>2. Parts(p, r, k)
    BY <1>2, <1>4, <2>1 DEF Parts
  <2>3. SubSeq(q, 1, k) = SubSeq(r, 1, k)
    BY <1>1, <1>2, <1>4, <2>1, SamePrefix
  <2>4. q[k] = r[k]
    BY <1>2, <2>1
  <2>5. Sooner(m, p, r, k)
    BY <1>5, <2>3, <2>4 DEF Sooner
  <2>6. QED
    BY <1>1, <2>2, <2>5, BeforeIsSooner
<1>7. CASE l < k
  <2>1. l \in 1..Len(p) /\ \A i \in 1..l : p[i] = q[i]
    BY <1>2, <1>3, <1>4, <1>7 DEF Parts
  <2>2. Parts(p, r, l)
    BY <1>3, <1>4, <2>1 DEF Parts
  <2>3. SubSeq(p, 1, l) = SubSeq(q, 1, l)
    BY <1>1, <1>3, <1>4, <2>1, SamePrefix
  <2>4. p[l] = q[l]
    BY <1>3, <2>1
  <2>5. Sooner(m, p, r, l)
    BY <1>5, <2>3, <2>4 DEF Sooner
  <2>6. QED
    BY <1>1, <2>1, <2>2, <2>5, BeforeIsSooner
<1>8. CASE k = l
  <2>1. p[k] \in Nat /\ q[k] \in Nat /\ r[k] \in Nat
    BY <1>1, <1>2, <1>3, <1>4, <1>8, PathFacts
  <2>2. Sooner(m, p, r, k) /\ p[k] # r[k]
    <3> DEFINE dir(path) == IsDirectory(m, SubSeq(path, 1, k))
    <3>1. dir(p) \in BOOLEAN /\ dir(q) \in BOOLEAN /\ dir(r) \in BOOLEAN
      BY DEF IsDirectory
    <3>2. /\ IF dir(p) # dir(q) THEN dir(p) ELSE p[k] < q[k]
          /\ IF dir(q) # dir(r) THEN dir(q) ELSE q[k] < r[k]
      BY <1>5, <1>8 DEF Sooner
    <3>3. Sooner(m, p, r, k) <=> IF dir(p) # dir(r) THEN dir(p) ELSE p[k] < r[k]
      BY DEF Sooner
    <3>4. SubSeq(p, 1, k) = SubSeq(r, 1, k) => dir(p) = dir(r)
      OBVIOUS
    <3> HIDE DEF dir
    <3>5. Sooner(m, p, r, k)
      BY <2>1, <3>1, <3>2, <3>3
    <3>6. ASSUME p[k] = r[k] PROVE FALSE
      <4>1. k <= Len(r) /\ \A i \in 1..k : p[i] = r[i]
        BY <1>2, <1>3, <1>4, <1>8, <3>6 DEF Parts
      <4>2. dir(p) = dir(r)
        BY <1>1, <1>2, <3>4, <4>1, SamePrefix
      <4>3. QED
        BY <2>1, <3>3, <3>5, <3>6, <4>2
    <3>7. QED
      BY <3>5, <3>6
  <2>3. Parts(p, r, k)
    BY <1>2, <1>3, <1>4, <1>8, <2>2 DEF Parts
  <2>4. QED
    BY <1>1, <2>2, <2>3, BeforeIsSooner
<1>9. QED
  BY <1>4, <1>6, <1>7, <1>8

\* The list names every file of a structure, and each of them once.
LEMMA FilesListed ==
  ASSUME NEW m \in Mappings
  PROVE  LET files == _explore_directory(m) IN
         /\ Len(files) \in Nat
         /\ \A i \in 1..Len(files) : files[i] \in file_paths(m)
         /\ \A p \in file_paths(m) : \E i \in 1..Len(files) : files[i] = p
         /\ \A i, j \in 1..Len(files) : files[i] = files[j] => i = j
<1> DEFINE F == file_paths(m)
           n == Cardinality(F)
           below(p) == {q \in F \ {p} : Before(m, q, p)}
           rank == [p \in F |-> Cardinality(below(p))]
           files == _explore_directory(m)
<1>1. IsFiniteSet(F) /\ n \in Nat
  BY PathsAssumption, FS_Subset, FS_CardinalityType DEF file_paths
<1>2. \A p \in F : /\ IsFiniteSet(below(p))
                   /\ Cardinality(below(p)) \in Nat
                   /\ Cardinality(below(p)) < n
  <2> TAKE p \in F
  <2>1. /\ IsFiniteSet(below(p)) /\ Cardinality(below(p)) <= n
        /\ Cardinality(below(p)) = n => F = below(p)
    BY <1>1, FS_Subset, below(p) \in SUBSET F
  <2>2. p \notin below(p) /\ Cardinality(below(p)) \in Nat
    BY <2>1, FS_CardinalityType
  <2>3. QED
    BY <1>1, <2>1, <2>2
<1>3. ASSUME NEW p \in F, NEW q \in F, p # q, Before(m, p, q)
      PROVE  rank[p] < rank[q]
  <2>1. below(p) \subseteq below(q)
    <3> SUFFICES ASSUME NEW r \in F, r # p, Before(m, r, p)
                 PROVE  r # q /\ Before(m, r, q)
      OBVIOUS
    <3>1. r # q
      BY <1>3, BeforeIsTotal
    <3>2. QED
      BY <1>3, <3>1, BeforeIsTransitive
  <2>2. p \in below(q) /\ p \notin below(p)
    BY <1>3
  <2> HIDE DEF below
  <2>3. /\ Cardinality(below(p)) <= Cardinality(below(q))
        /\ Cardinality(below(p)) = Cardinality(below(q)) => below(q) = below(p)
    BY <1>2, <2>1, FS_Subset
  <2>4. QED
    BY <1>2, <2>2, <2>3
<1>4. rank \in [F -> 0..(n - 1)]
  <2> HIDE DEF below, n, F
  <2>1. \A c \in Nat : c < n => c \in 0..(n - 1)
    BY <1>1
  <2>2. \A p \in F : Cardinality(below(p)) \in 0..(n - 1)
    BY <1>2, <2>1
  <2>3. QED
    BY <2>2
<1>5. \A p, q \in F : rank[p] = rank[q] => p = q
  <2> SUFFICES ASSUME NEW p \in F, NEW q \in F, p # q PROVE rank[p] # rank[q]
    OBVIOUS
  <2>1. Before(m, p, q) \/ Before(m, q, p)
    BY BeforeIsTotal
  <2>2. rank[p] \in 0..(n - 1) /\ rank[q] \in 0..(n - 1)
    BY <1>4
  <2>3. rank[p] < rank[q] \/ rank[q] < rank[p]
    BY <1>3, <2>1
  <2> HIDE DEF rank
  <2>4. QED
    BY <1>1, <2>2, <2>3
<1>6. files = [i \in 1..n |-> CHOOSE p \in F : rank[p] = i - 1]
  BY DEF _explore_directory
<1> HIDE DEF rank, F, n
<1>7. \A i \in 0..(n - 1) : \E p \in F : rank[p] = i
  <2>1. rank \in Injection(F, 0..(n - 1))
    BY <1>4, <1>5 DEF Injection, IsInjective
  <2>2. IsFiniteSet(0..(n - 1)) /\ Cardinality(0..(n - 1)) = n
    <3>1. 0 \in Int /\ n - 1 \in Int
      BY <1>1
    <3>2. QED
      BY <1>1, <3>1, FS_Interval
  <2>3. Cardinality(F) = n
    BY DEF n
  <2>4. rank \in Surjection(F, 0..(n - 1))
    BY <2>1, <2>2, <2>3, FS_Injection
  <2>5. QED
    BY <2>4 DEF Surjection
<1>8. \A i \in 1..n : i - 1 \in 0..(n - 1) /\ files[i] \in F /\ rank[files[i]] = i - 1
  <2> TAKE i \in 1..n
  <2>1. i - 1 \in 0..(n - 1)
    BY <1>1
  <2>2. QED
    BY <1>6, <1>7, <2>1
<1>9. Len(files) = n
  <2>1. files \in [1..n -> F]
    BY <1>6, <1>8
  <2>2. files \in Seq(F)
    BY <1>1, <2>1
  <2>3. QED
    BY <1>1, <2>1, <2>2
<1>10. \A p \in F : \E i \in 1..n : files[i] = p
  <2> TAKE p \in F
  <2>1. rank[p] \in 0..(n - 1) /\ rank[p] + 1 \in 1..n /\ (rank[p] + 1) - 1 = rank[p]
    BY <1>1, <1>4
  <2>2. files[rank[p] + 1] \in F /\ rank[files[rank[p] + 1]] = rank[p]
    BY <1>8, <2>1
  <2>3. QED
    BY <1>5, <2>1, <2>2
<1>11. \A i, j \in 1..n : files[i] = files[j] => i = j
  BY <1>1, <1>8
<1>12. QED
  BY <1>1, <1>8, <1>9, <1>10, <1>11 DEF F

------------------------------------------------------------------------------
(* Trees, and what copying a file does to one. *)

Authors == {"staff", "student 1", "student 2", "output 1", "output 2"}
Contents == {"absent", "dir"} \union Authors
Trees == {t \in [Paths -> Contents] : IsMapping(t)}

\* Nothing of a is missing or of another kind in b.
Keeps(a, b) == \A p \in Paths : a[p] # "absent" => Shape(b)[p] = Shape(a)[p]

LEMMA ShapeFacts ==
  ASSUME NEW t \in [Paths -> Contents], NEW p \in Paths
  PROVE  /\ t[p] = "absent" => Shape(t)[p] = "absent"
         /\ t[p] = "dir" => Shape(t)[p] = "dir"
         /\ t[p] \in Authors => Shape(t)[p] = "file"
         /\ t[p] \in {"absent", "dir"} \union Authors
BY DEF Shape, Kinds, Contents, Authors

LEMMA ShapeIsMapping ==
  ASSUME NEW t \in Trees
  PROVE  Shape(t) \in Mappings
<1>1. t \in [Paths -> Contents] /\ IsMapping(t)
  BY DEF Trees
<1>2. Shape(t) \in [Paths -> Kinds]
  BY DEF Shape, Kinds
<1>3. \A p \in Paths : /\ Shape(t)[p] = "dir" <=> t[p] = "dir"
                       /\ Shape(t)[p] = "absent" <=> t[p] = "absent"
  BY <1>1, ShapeFacts DEF Authors
<1>4. IsMapping(Shape(t))
  <2> SUFFICES ASSUME NEW p \in Paths
               PROVE  /\ Shape(t)[p] = "dir" => p \in Directories
                      /\ Shape(t)[p] # "absent" => \A d \in Parents(p) : Shape(t)[d] = "dir"
    BY DEF IsMapping
  <2>1. Shape(t)[p] = "dir" => p \in Directories
    BY <1>1, <1>3 DEF IsMapping
  <2>2. ASSUME Shape(t)[p] # "absent", NEW d \in Parents(p) PROVE Shape(t)[d] = "dir"
    <3>1. t[d] = "dir"
      BY <1>1, <1>3, <2>2 DEF IsMapping
    <3>2. d \in Paths
      BY <2>2, ParentFacts
    <3>3. QED
      BY <1>3, <3>1, <3>2
  <2>3. QED
    BY <2>1, <2>2
<1>5. QED
  BY <1>2, <1>4 DEF Mappings

LEMMA FilledIsTree ==
  ASSUME NEW m \in Mappings, NEW author \in Authors
  PROVE  Filled(m, author) \in Trees /\ Shape(Filled(m, author)) = m
<1>1. m \in [Paths -> Kinds] /\ IsMapping(m)
  BY DEF Mappings
<1>2. Filled(m, author) \in [Paths -> Contents]
  BY <1>1 DEF Filled, Kinds, Contents
<1>3. \A p \in Paths : /\ Filled(m, author)[p] = "dir" <=> m[p] = "dir"
                       /\ Filled(m, author)[p] = "absent" <=> m[p] = "absent"
  BY <1>1 DEF Filled, Kinds, Authors
<1>4. IsMapping(Filled(m, author))
  <2> SUFFICES ASSUME NEW p \in Paths
               PROVE  /\ Filled(m, author)[p] = "dir" => p \in Directories
                      /\ Filled(m, author)[p] # "absent" =>
                           \A d \in Parents(p) : Filled(m, author)[d] = "dir"
    BY DEF IsMapping
  <2>1. \A d \in Parents(p) : d \in Paths
    BY ParentFacts
  <2>2. QED
    BY <1>1, <1>3, <2>1 DEF IsMapping
<1>5. Shape(Filled(m, author)) = m
  <2>1. \A p \in Paths : Shape(Filled(m, author))[p] = m[p]
    BY <1>1 DEF Shape, Filled, Kinds, Authors
  <2>2. QED
    BY <1>1, <2>1 DEF Shape
<1>6. QED
  BY <1>2, <1>4, <1>5 DEF Trees

\* Keeping is handed on.
LEMMA KeepsOn ==
  ASSUME NEW a \in [Paths -> Contents], NEW b \in [Paths -> Contents],
         NEW c \in [Paths -> Contents], Keeps(a, b), Keeps(b, c)
  PROVE  Keeps(a, c)
<1> SUFFICES ASSUME NEW p \in Paths, a[p] # "absent"
             PROVE  Shape(c)[p] = Shape(a)[p]
  BY DEF Keeps
<1>1. Shape(b)[p] = Shape(a)[p]
  BY DEF Keeps
<1>2. b[p] # "absent"
  <2>1. Shape(a)[p] # "absent"
    BY ShapeFacts DEF Authors
  <2>2. QED
    BY <1>1, <2>1, ShapeFacts
<1>3. QED
  BY <1>1, <1>2 DEF Keeps

\* The place a file is copied to: below a directory of its name, or in its own.
LEMMA LandingFacts ==
  ASSUME NEW t \in Trees, NEW rel \in Paths, Landing(t, rel) \in Paths
  PROVE  /\ Landing(t, rel) \notin Parents(rel)
         /\ Parents(Landing(t, rel)) \subseteq Parents(rel) \union {rel}
         /\ rel \in Parents(Landing(t, rel)) => t[rel] = "dir"
         /\ t[rel] # "dir" => Landing(t, rel) = rel
<1> DEFINE to == Landing(t, rel)
<1>1. rel \in Seq(Nat \ {0}) /\ Len(rel) \in Nat /\ Len(rel) >= 1
  BY PathFacts
<1>2. CASE t[rel] # "dir"
  <2>1. to = rel
    BY <1>2 DEF Landing
  <2>2. rel \notin Parents(rel)
    BY ParentFacts
  <2>3. QED
    BY <2>1, <2>2
<1>3. CASE t[rel] = "dir"
  <2>1. to = Append(rel, Last(rel)) /\ Last(rel) \in Nat \ {0}
    BY <1>1, <1>3 DEF Landing, Last
  <2>2. Len(to) = Len(rel) + 1 /\ Len(rel) = Len(to) - 1
    BY <1>1, <2>1
  <2>3. to \notin Parents(rel)
    <3> SUFFICES ASSUME to \in Parents(rel) PROVE FALSE
      OBVIOUS
    <3>1. Len(to) < Len(rel)
      BY ParentFacts
    <3>2. QED
      BY <1>1, <2>2, <3>1
  <2>4. ASSUME NEW i \in 1..Len(rel)
        PROVE  SubSeq(to, 1, i) \in Parents(rel) \union {rel}
    <3>1. SubSeq(to, 1, i) = SubSeq(rel, 1, i)
      BY <1>1, <2>1, <2>2
    <3>2. CASE i = Len(rel)
      BY <1>1, <3>1, <3>2
    <3>3. CASE i # Len(rel)
      <4>1. i \in 1..(Len(rel) - 1)
        BY <1>1, <3>3
      <4>2. QED
        BY <3>1, <4>1 DEF Parents
    <3>4. QED
      BY <3>2, <3>3
  <2>5. Parents(to) \subseteq Parents(rel) \union {rel}
    BY <1>1, <2>2, <2>4 DEF Parents
  <2>6. QED
    BY <1>3, <2>3, <2>5
<1>4. QED
  BY <1>2, <1>3

\* Files of a structure never land on one another.
LEMMA LandApart ==
  ASSUME NEW m \in Mappings, NEW p \in file_paths(m), NEW q \in file_paths(m), p # q,
         NEW t, NEW u
  PROVE  Landing(t, p) # Landing(u, q)
<1>1. p \in Paths /\ q \in Paths /\ m[p] = "file" /\ m[q] = "file"
  BY DEF file_paths
<1>2. /\ p \in Seq(Nat \ {0}) /\ Len(p) \in Nat /\ Len(p) >= 1
      /\ q \in Seq(Nat \ {0}) /\ Len(q) \in Nat /\ Len(q) >= 1
  BY <1>1, PathFacts
<1>3. Last(p) \in Nat \ {0} /\ Last(q) \in Nat \ {0}
  BY <1>2 DEF Last
<1>4. Append(p, Last(p)) # Append(q, Last(q))
  <2> SUFFICES ASSUME Append(p, Last(p)) = Append(q, Last(q)) PROVE p = q
    BY <1>1
  <2>1. Len(p) = Len(q)
    BY <1>2, <1>3
  <2>2. \A i \in 1..Len(p) : p[i] = Append(p, Last(p))[i] /\ q[i] = Append(q, Last(q))[i]
    <3>1. PICK x \in Nat, y \in Nat : x = Last(p) /\ y = Last(q)
      BY <1>3
    <3>2. \A i \in 1..Len(p) : p[i] = Append(p, x)[i]
      BY <1>2
    <3>3. \A i \in 1..Len(q) : q[i] = Append(q, y)[i]
      BY <1>2
    <3>4. QED
      BY <2>1, <3>1, <3>2, <3>3
  <2>3. \A i \in 1..Len(p) : p[i] = q[i]
    BY <2>2
  <2>4. QED
    BY <1>2, <2>1, <2>3
<1>5. ASSUME NEW a \in file_paths(m), NEW b \in file_paths(m)
      PROVE  a # Append(b, Last(b))
  <2> SUFFICES ASSUME a = Append(b, Last(b)) PROVE FALSE
    OBVIOUS
  <2>1. a \in Paths /\ b \in Paths /\ m[a] = "file" /\ m[b] = "file"
    BY DEF file_paths
  <2>2. b \in Seq(Nat \ {0}) /\ Len(b) \in Nat /\ Len(b) >= 1
    BY <2>1, PathFacts
  <2>3. Last(b) \in Nat \ {0}
    BY <2>2 DEF Last
  <2>4. Len(b) \in 1..(Len(a) - 1) /\ SubSeq(a, 1, Len(b)) = b
    BY <2>2, <2>3
  <2>5. b \in Parents(a)
    BY <2>4 DEF Parents
  <2>6. QED
    BY <2>1, <2>5 DEF Mappings, IsMapping
<1>6. QED
  BY <1>4, <1>5 DEF Landing

\* What there was is there as it was.
Same(t, u) == \A p \in Paths : t[p] # "absent" => u[p] = t[p]

\* A file that is copied goes where nothing or a file was; the directories that
\* lead to it are made, and nothing else changes.
LEMMA CopyFacts ==
  ASSUME NEW t \in Trees, NEW rel \in Paths, NEW content \in Authors,
         Landing(t, rel) \in Paths, t[Landing(t, rel)] # "dir",
         \A d \in Parents(rel) : t[d] \in {"absent", "dir"}
  PROVE  /\ copy(t, rel, content) \in Trees
         /\ Keeps(t, copy(t, rel, content))
         /\ copy(t, rel, content)[Landing(t, rel)] = content
         /\ \A p \in Paths : t[p] \in Authors =>
              copy(t, rel, content)[p] = t[p] \/ p = Landing(t, rel)
         /\ t[rel] = "absent" => Same(t, copy(t, rel, content))
<1> DEFINE to == Landing(t, rel)
           c == copy(t, rel, content)
<1>1. t \in [Paths -> Contents] /\ IsMapping(t)
  BY DEF Trees
<1>2. c = [p \in Paths |-> IF p = to THEN content ELSE
                           IF p \in Parents(rel) THEN "dir" ELSE t[p]]
  BY DEF copy
<1>3. content \in Contents /\ content # "absent" /\ content # "dir" /\ "dir" \in Contents
  BY DEF Contents, Authors
<1>4. c \in [Paths -> Contents]
  BY <1>1, <1>2, <1>3
<1>5. /\ to \in Paths /\ t[to] # "dir" /\ to \notin Parents(rel)
      /\ Parents(to) \subseteq Parents(rel) \union {rel}
      /\ rel \in Parents(to) => t[rel] = "dir"
      /\ t[rel] # "dir" => to = rel
  BY LandingFacts
<1> HIDE DEF to, c
<1>6. /\ c[to] = content
      /\ \A p \in Paths : p # to /\ p \in Parents(rel) => c[p] = "dir"
      /\ \A p \in Paths : p # to /\ p \notin Parents(rel) => c[p] = t[p]
  BY <1>2, <1>5
<1>7. \A p \in Paths : t[p] = "dir" => c[p] = "dir"
  BY <1>5, <1>6
<1>8. IsMapping(c)
  <2> SUFFICES ASSUME NEW p \in Paths
               PROVE  /\ c[p] = "dir" => p \in Directories
                      /\ c[p] # "absent" => \A d \in Parents(p) : c[d] = "dir"
    BY DEF IsMapping
  <2>1. c[p] = "dir" => p \in Directories
    <3>1. p \in Parents(rel) => p \in Directories
      BY ParentFacts
    <3>2. QED
      BY <1>1, <1>3, <1>6, <3>1 DEF IsMapping
  <2>2. ASSUME c[p] # "absent", NEW d \in Parents(p) PROVE c[d] = "dir"
    <3>1. d \in Paths
      BY ParentFacts
    <3>2. CASE p = to
      <4>1. d \in Parents(rel) \/ (d = rel /\ t[rel] = "dir")
        BY <1>5, <3>2
      <4>2. QED
        BY <1>5, <1>6, <1>7, <3>1, <4>1
    <3>3. CASE p # to /\ p \in Parents(rel)
      <4>1. d \in Parents(rel)
        BY <3>3, ParentFacts
      <4>2. QED
        BY <1>5, <1>6, <3>1, <4>1
    <3>4. CASE p # to /\ p \notin Parents(rel)
      <4>1. t[d] = "dir"
        BY <1>1, <1>6, <2>2, <3>4 DEF IsMapping
      <4>2. QED
        BY <1>7, <3>1, <4>1
    <3>5. QED
      BY <3>2, <3>3, <3>4
  <2>3. QED
    BY <2>1, <2>2
<1>9. Keeps(t, c)
  <2> SUFFICES ASSUME NEW p \in Paths, t[p] # "absent" PROVE Shape(c)[p] = Shape(t)[p]
    BY DEF Keeps
  <2>1. CASE p = to
    <3>1. t[p] \in Authors
      BY <1>1, <1>5, <2>1 DEF Contents
    <3>2. QED
      BY <1>1, <1>4, <1>6, <2>1, <3>1, ShapeFacts
  <2>2. CASE p # to /\ p \in Parents(rel)
    <3>1. t[p] = "dir" /\ c[p] = "dir"
      BY <1>6, <2>2
    <3>2. QED
      BY <1>1, <1>4, <3>1, ShapeFacts
  <2>3. CASE p # to /\ p \notin Parents(rel)
    BY <1>6, <2>3 DEF Shape
  <2>4. QED
    BY <2>1, <2>2, <2>3
<1>10. \A p \in Paths : t[p] \in Authors => c[p] = t[p] \/ p = to
  BY <1>6 DEF Authors
<1>11. t[rel] = "absent" => Same(t, c)
  <2>1. t[rel] = "absent" => t[to] = "absent"
    BY <1>5
  <2>2. QED
    BY <1>1, <1>6, <1>7, <2>1 DEF Same
<1>12. QED
  BY <1>4, <1>6, <1>8, <1>9, <1>10, <1>11 DEF Trees, c, to

\* What the loop of _copy_matching_files has in hand.
Copies == [raised : BOOLEAN, tree : Trees, copied : SUBSET Paths]

\* What InjectionArrives asks for one file.
Arrived(s, p, from, to, overwrite) ==
  \/ /\ from # to
     /\ p \in s.copied
     /\ Landing(s.tree, p) \in Paths
     /\ s.tree[Landing(s.tree, p)] = disk[from][p]
     /\ disk[from][p] \in Authors
     /\ s.tree[p] # "absent"
  \/ ~overwrite /\ s.tree[p] # "absent"

\* What one round of the loop does: only the place the file lands on changes.
OneCopied(s, r, rel, from, to, filter, overwrite) ==
  /\ r \in Copies /\ Keeps(s.tree, r.tree) /\ s.copied \subseteq r.copied
  /\ s.raised => r.raised
  /\ \A p \in Paths : s.tree[p] \in Authors =>
       r.tree[p] = s.tree[p] \/ p = Landing(s.tree, rel)
  /\ ~overwrite => Same(s.tree, r.tree)
  /\ ~r.raised /\ Matches(rel, filter) => Arrived(r, rel, from, to, overwrite)

LEMMA CopyOneFacts ==
  ASSUME NEW from \in Places, NEW to \in Places, disk \in [Places -> Trees],
         NEW filter, NEW overwrite \in BOOLEAN, NEW s \in Copies, NEW rel \in Paths,
         NEW r, r = copy_one(s, rel, from, to, filter, overwrite)
  PROVE  OneCopied(s, r, rel, from, to, filter, overwrite)
<1> DEFINE t == s.tree
           content == disk[from][rel]
<1>1. /\ s.raised \in BOOLEAN /\ t \in Trees /\ s.copied \in SUBSET Paths
      /\ t \in [Paths -> Contents]
      /\ s = [raised |-> s.raised, tree |-> s.tree, copied |-> s.copied]
  BY DEF Copies, Trees
<1>2. Keeps(t, t) /\ Same(t, t)
  BY DEF Keeps, Same
<1>3. CASE s.raised \/ ~Matches(rel, filter) \/ Skips(t, rel, overwrite)
  <2>1. r = s
    BY <1>3 DEF copy_one
  <2>2. QED
    BY <1>2, <1>3, <2>1 DEF Arrived, Skips, OneCopied
<1> DEFINE refused == \/ from = to
                      \/ content \in {"absent", "dir"}
                      \/ \E d \in Parents(rel) : t[d] \notin {"absent", "dir"}
                      \/ Landing(t, rel) \notin Paths \/ t[Landing(t, rel)] = "dir"
<1>4. CASE ~(s.raised \/ ~Matches(rel, filter) \/ Skips(t, rel, overwrite)) /\ refused
  <2>1. r = [s EXCEPT !.raised = TRUE]
    BY <1>4 DEF copy_one
  <2>2. r.raised = TRUE /\ r.tree = t /\ r.copied = s.copied /\ r \in Copies
    BY <1>1, <2>1 DEF Copies
  <2>3. QED
    BY <1>2, <2>2 DEF OneCopied
<1>5. CASE ~(s.raised \/ ~Matches(rel, filter) \/ Skips(t, rel, overwrite)) /\ ~refused
  <2>1. r = [s EXCEPT !.tree = copy(t, rel, content), !.copied = @ \union {rel}]
    BY <1>5 DEF copy_one
  <2>2. r.tree = copy(t, rel, content) /\ r.copied = s.copied \union {rel} /\ r.raised = s.raised
    BY <1>1, <2>1
  <2>3. content \in Authors
    BY <1>5 DEF Trees, Contents
  <2>4. /\ r.tree \in Trees /\ Keeps(t, r.tree)
        /\ r.tree[Landing(t, rel)] = content
        /\ \A p \in Paths : t[p] \in Authors => r.tree[p] = t[p] \/ p = Landing(t, rel)
        /\ t[rel] = "absent" => Same(t, r.tree)
    BY <1>1, <1>5, <2>2, <2>3, CopyFacts
  <2>5. r \in Copies
    BY <1>1, <2>1, <2>2, <2>4 DEF Copies
  <2>6. Landing(r.tree, rel) = Landing(t, rel) /\ r.tree[rel] # "absent"
    <3>1. CASE t[rel] = "dir"
      <4>1. r.tree[rel] = "dir"
        BY <1>1, <2>4, <3>1, ShapeFacts DEF Keeps, Trees, Authors
      <4>2. QED
        BY <3>1, <4>1 DEF Landing
    <3>2. CASE t[rel] # "dir"
      <4>1. r.tree[rel] = content /\ content # "dir" /\ content # "absent"
        BY <2>3, <2>4, <3>2 DEF Landing, Authors
      <4>2. QED
        BY <3>2, <4>1 DEF Landing
    <3>3. QED
      BY <3>1, <3>2
  <2>7. Arrived(r, rel, from, to, overwrite)
    BY <1>5, <2>2, <2>3, <2>4, <2>6 DEF Arrived
  <2>8. ~overwrite => Same(t, r.tree)
    BY <1>5, <2>4 DEF Skips
  <2>9. QED
    BY <2>2, <2>4, <2>5, <2>7, <2>8 DEF OneCopied
<1>6. QED
  BY <1>3, <1>4, <1>5

\* The loop runs over the files of the source and its outcome is what the last
\* file left.
LEMMA LoopRuns ==
  ASSUME NEW from \in Places, NEW to \in Places, disk \in [Places -> Trees],
         NEW filter, NEW overwrite \in BOOLEAN, NEW source, source.mapping \in Mappings
  PROVE  LET files == _explore_directory(source.mapping)
             n == Len(files)
         IN  \E g \in [0..n -> Copies] :
               /\ g[0] = [raised |-> FALSE, tree |-> disk[to], copied |-> {}]
               /\ \A i \in 1..n :
                    g[i] = copy_one(g[i - 1], files[i], from, to, filter, overwrite)
               /\ _copy_matching_files(source, from, to, filter, overwrite) = g[n]
<1> DEFINE files == _explore_directory(source.mapping)
           n == Len(files)
           first == [raised |-> FALSE, tree |-> disk[to], copied |-> {}]
           next(s, rel) == copy_one(s, rel, from, to, filter, overwrite)
           step == [i \in 1..n |-> [s \in Copies |-> next(s, files[i])]]
           Runs(f) == f = [i \in 0..n |-> IF i = 0 THEN first ELSE next(f[i - 1], files[i])]
<1>1. n \in Nat /\ \A i \in 1..n : files[i] \in Paths
  BY FilesListed DEF file_paths
<1>2. first \in Copies
  <2>1. disk[to] \in Trees
    OBVIOUS
  <2>2. QED
    BY <2>1 DEF Copies
<1>3. \A i \in 1..n : \A s \in Copies : next(s, files[i]) \in Copies
  BY <1>1, CopyOneFacts DEF OneCopied
<1> HIDE DEF next
<1>4. step \in [1..n -> [Copies -> Copies]]
  BY <1>3
<1>5. \A i \in 1..n : \A s \in Copies : step[i][s] = next(s, files[i])
  OBVIOUS
<1>6. _copy_matching_files(source, from, to, filter, overwrite) = (CHOOSE f : Runs(f))[n]
  BY DEF _copy_matching_files, next
<1> HIDE DEF files, n, first, step
<1>7. PICK h \in [0..n -> Copies] :
        h[0] = first /\ \A i \in 1..n : h[i] = step[i][h[i - 1]]
  <2>1. Loops(Copies)
    BY LoopsOf
  <2>2. QED
    BY <1>1, <1>2, <1>4, <2>1, Zenon DEF Loops
<1>8. \A i \in 1..n : i - 1 \in 0..n /\ h[i - 1] \in Copies /\ i \in 0..n /\ i # 0
  <2>1. \A i \in 1..n : i - 1 \in 0..n /\ i \in 0..n /\ i # 0
    BY <1>1
  <2>2. QED
    BY <1>7, <2>1
<1>9. \A i \in 0..n : i # 0 => i \in 1..n
  BY <1>1
<1>10. Runs(h)
  <2>1. \A i \in 0..n : h[i] = IF i = 0 THEN first ELSE next(h[i - 1], files[i])
    BY <1>5, <1>7, <1>8, <1>9
  <2>2. QED
    BY <1>7, <2>1
<1> DEFINE g == CHOOSE f : Runs(f)
<1>11. Runs(g)
  BY <1>10
<1>12. _copy_matching_files(source, from, to, filter, overwrite) = g[n]
  BY <1>6
<1> HIDE DEF g
<1>13. 0 \in 0..n /\ n \in 0..n /\ g[0] = first
  BY <1>1, <1>11
<1>14. \A i \in 1..n : g[i] = next(g[i - 1], files[i])
  BY <1>8, <1>11
<1>15. g \in [0..n -> Copies]
  <2> DEFINE T == {i \in 0..n : g[i] \in Copies}
  <2>1. 0 \in T
    BY <1>2, <1>13
  <2>2. ASSUME NEW k \in 0..n, k \in T, k < n PROVE k + 1 \in T
    <3>1. k + 1 \in 1..n /\ k + 1 \in 0..n /\ (k + 1) - 1 = k
      BY <1>1, <2>2
    <3>2. g[k + 1] = next(g[k], files[k + 1])
      BY <1>14, <3>1
    <3>3. g[k + 1] \in Copies
      BY <1>3, <2>2, <3>1, <3>2
    <3>4. QED
      BY <3>1, <3>3
  <2> HIDE DEF T
  <2>3. 0..n \subseteq T
    BY <1>1, <2>1, <2>2, InductUpTo
  <2>4. \A i \in 0..n : g[i] \in Copies
    BY <2>3 DEF T
  <2>5. QED
    BY <1>11, <2>4
<1>16. QED
  BY <1>12, <1>13, <1>14, <1>15 DEF files, n, first, next

\* After any number of files: nothing of the destination is lost, and, unless
\* something raised, each file so far has arrived.
LEMMA CopyResult ==
  ASSUME NEW from \in Places, NEW to \in Places, disk \in [Places -> Trees],
         NEW filter, NEW overwrite \in BOOLEAN, NEW source, source.mapping \in Mappings,
         NEW r, r = _copy_matching_files(source, from, to, filter, overwrite)
  PROVE  /\ r \in Copies /\ Keeps(disk[to], r.tree)
         /\ ~overwrite => Same(disk[to], r.tree)
         /\ ~r.raised => \A p \in file_paths(source.mapping) :
              Matches(p, filter) => Arrived(r, p, from, to, overwrite)
<1> DEFINE m == source.mapping
           files == _explore_directory(m)
           n == Len(files)
<1>1. /\ n \in Nat
      /\ \A i \in 1..n : files[i] \in file_paths(m)
      /\ \A p \in file_paths(m) : \E i \in 1..n : files[i] = p
      /\ \A i, j \in 1..n : files[i] = files[j] => i = j
  BY FilesListed
<1>2. PICK g \in [0..n -> Copies] :
        /\ g[0] = [raised |-> FALSE, tree |-> disk[to], copied |-> {}]
        /\ \A i \in 1..n : g[i] = copy_one(g[i - 1], files[i], from, to, filter, overwrite)
        /\ r = g[n]
  BY LoopRuns
<1> HIDE DEF files, n
<1>3. \A p \in file_paths(m) : p \in Paths
  BY DEF file_paths
<1> DEFINE Good(k) ==
             /\ Keeps(disk[to], g[k].tree)
             /\ ~overwrite => Same(disk[to], g[k].tree)
             /\ ~g[k].raised => \A j \in 1..k :
                  Matches(files[j], filter) => Arrived(g[k], files[j], from, to, overwrite)
           T == {k \in 0..n : Good(k)}
<1>4. 0 \in T
  <2>1. 0 \in 0..n /\ g[0].tree = disk[to]
    BY <1>1, <1>2
  <2>2. Keeps(disk[to], g[0].tree) /\ Same(disk[to], g[0].tree)
    BY <2>1 DEF Keeps, Same
  <2>3. QED
    BY <2>1, <2>2
<1>5. ASSUME NEW k \in 0..n, k \in T, k < n PROVE k + 1 \in T
  <2>1. k + 1 \in 1..n /\ k + 1 \in 0..n /\ (k + 1) - 1 = k /\ k \in 0..n
    BY <1>1, <1>5
  <2> DEFINE s == g[k]
             t == g[k + 1]
             rel == files[k + 1]
  <2>2. s \in Copies /\ t \in Copies /\ rel \in file_paths(m) /\ rel \in Paths
    BY <1>1, <1>2, <1>3, <2>1
  <2>3. t = copy_one(s, rel, from, to, filter, overwrite)
    BY <1>2, <2>1
  <2>4. Good(k)
    BY <1>5
  <2> HIDE DEF s, t, rel
  <2>5. /\ Keeps(s.tree, t.tree) /\ s.copied \subseteq t.copied
        /\ s.raised => t.raised
        /\ \A p \in Paths : s.tree[p] \in Authors =>
              t.tree[p] = s.tree[p] \/ p = Landing(s.tree, rel)
        /\ ~overwrite => Same(s.tree, t.tree)
        /\ ~t.raised /\ Matches(rel, filter) => Arrived(t, rel, from, to, overwrite)
    <3>1. OneCopied(s, t, rel, from, to, filter, overwrite)
      BY <2>2, <2>3, CopyOneFacts
    <3>2. QED
      BY <3>1 DEF OneCopied
  <2>6. /\ s.tree \in [Paths -> Contents] /\ t.tree \in [Paths -> Contents]
        /\ disk[to] \in [Paths -> Contents]
    <3>1. disk[to] \in Trees
      OBVIOUS
    <3>2. QED
      BY <2>2, <3>1 DEF Copies, Trees
  <2>7. Keeps(disk[to], t.tree)
    BY <2>4, <2>5, <2>6, KeepsOn DEF s
  <2>8. ASSUME ~t.raised, NEW j \in 1..k, Matches(files[j], filter)
        PROVE  Arrived(t, files[j], from, to, overwrite)
    <3> DEFINE p == files[j]
               spot == Landing(s.tree, p)
    <3>1. p \in file_paths(m) /\ p \in Paths /\ p # rel
      <4>1. j \in 1..n /\ j # k + 1
        BY <1>1, <2>1, <2>8
      <4>2. QED
        BY <1>1, <1>3, <2>1, <4>1 DEF rel
    <3>2. Arrived(s, p, from, to, overwrite)
      BY <2>4, <2>5, <2>8 DEF s
    <3> HIDE DEF p
    <3>3. /\ s.tree[p] # "absent" /\ t.tree[p] # "absent"
          /\ s.tree[p] = "dir" <=> t.tree[p] = "dir"
      <4>1. s.tree[p] # "absent"
        BY <3>2 DEF Arrived
      <4>2. Shape(t.tree)[p] = Shape(s.tree)[p]
        BY <2>5, <3>1, <4>1 DEF Keeps
      <4>3. Shape(s.tree)[p] \in {"dir", "file"} /\ Shape(t.tree)[p] \in {"dir", "file"}
        BY <2>6, <3>1, <4>1, <4>2, ShapeFacts
      <4>4. QED
        BY <2>6, <3>1, <4>1, <4>2, <4>3, ShapeFacts
    <3>4. CASE ~overwrite
      BY <3>3, <3>4 DEF Arrived, p
    <3>5. CASE overwrite
      <4>1. /\ from # to /\ p \in s.copied /\ spot \in Paths
            /\ s.tree[spot] = disk[from][p] /\ disk[from][p] \in Authors
        BY <3>2, <3>5 DEF Arrived
      <4>2. spot # Landing(s.tree, rel)
        BY <2>2, <3>1, LandApart
      <4>3. t.tree[spot] = s.tree[spot]
        BY <2>5, <4>1, <4>2
      <4>4. Landing(t.tree, p) = spot
        BY <3>3 DEF Landing
      <4>5. p \in t.copied
        BY <2>5, <4>1
      <4> HIDE DEF spot
      <4>6. QED
        BY <3>3, <4>1, <4>3, <4>4, <4>5 DEF Arrived, p
    <3>6. QED
      BY <3>4, <3>5
  <2>9. \A j \in 1..(k + 1) : j \in 1..k \/ j = k + 1
    BY <1>1
  <2>10. ~overwrite => Same(disk[to], t.tree)
    BY <2>4, <2>5 DEF s, Same
  <2>11. Good(k + 1)
    BY <2>5, <2>7, <2>8, <2>9, <2>10 DEF t, rel
  <2>12. QED
    BY <2>1, <2>11
<1> HIDE DEF T
<1>6. 0..n \subseteq T
  BY <1>1, <1>4, <1>5, InductUpTo
<1>7. Good(n) /\ g[n] \in Copies
  <2>1. n \in 0..n
    BY <1>1
  <2>2. QED
    BY <1>2, <1>6, <2>1 DEF T
<1>8. QED
  BY <1>1, <1>2, <1>7 DEF n, files

------------------------------------------------------------------------------
(* Every reachable state. *)

\* The places hold trees, and a manifest names one of them.
PlaceInv ==
  /\ disk \in [Places -> Trees]
  /\ reply \in [Places -> TargetLists \union {NoReply}]
  /\ run \in 1..MaxRuns /\ steps \in 0..MaxSteps
  /\ at \in {"nothing", "manifest", "artifacts", "ended"}
  /\ manifest \in [type : ProjectTypes \union {"Manifest", "none"}, root : Places,
                   mapping : Mappings]

LEMMA AuthorFacts ==
  ASSUME NEW r \in 1..MaxRuns
  PROVE  /\ r \in Nat /\ Student[r] \in Authors /\ Output[r] \in Authors
         /\ "staff" \in Authors
<1>1. MaxRuns \in 1..2
  BY WorkspaceAssumption DEF Student
<1>2. r = 1 \/ r = 2
  BY <1>1
<1>3. /\ Student[1] = "student 1" /\ Student[2] = "student 2"
      /\ Output[1] = "output 1" /\ Output[2] = "output 2"
  BY DEF Student, Output
<1>4. CASE r = 1
  BY <1>3, <1>4 DEF Authors
<1>5. CASE r = 2
  BY <1>3, <1>5 DEF Authors
<1>6. QED
  BY <1>2, <1>4, <1>5

LEMMA NothingIsMapping == Nothing \in Mappings
<1>1. Nothing \in [Paths -> Kinds]
  BY DEF Nothing, Kinds
<1>2. \A p \in Paths : Nothing[p] = "absent"
  BY DEF Nothing
<1>3. QED
  BY <1>1, <1>2 DEF Mappings, IsMapping

LEMMA PlaceInit == Init => PlaceInv
<1> SUFFICES ASSUME Init PROVE PlaceInv
  OBVIOUS
<1>1. 1 \in 1..MaxRuns /\ 0 \in 0..MaxSteps
  <2>1. MaxRuns \in 1..2 /\ MaxSteps \in Nat
    BY WorkspaceAssumption DEF Student
  <2>2. QED
    BY <2>1
<1>2. disk \in [Places -> Trees]
  <2>1. PICK shape \in Submissions :
          disk = [p \in Places |-> IF p = "staff" THEN Filled(StaffTree, "staff")
                                                  ELSE Filled(shape, Student[1])]
    BY DEF Init
  <2>2. Filled(StaffTree, "staff") \in Trees /\ Filled(shape, Student[1]) \in Trees
    BY <1>1, AuthorFacts, FilledIsTree, WorkspaceAssumption
  <2>3. QED
    BY <2>1, <2>2
<1>3. manifest \in [type : ProjectTypes \union {"Manifest", "none"}, root : Places,
                    mapping : Mappings]
  BY NothingIsMapping DEF Init, NoManifest, Places
<1>4. QED
  BY <1>1, <1>2, <1>3 DEF Init, PlaceInv

\* Whatever a tool changes, the places hold trees.
LEMMA RunToolFacts ==
  ASSUME PlaceInv, NEW before \in [Places -> Trees], NEW root \in Places, NEW output,
         RunTool(before, root, output)
  PROVE  /\ disk' \in [Places -> Trees]
         /\ reply' \in [Places -> TargetLists \union {NoReply}]
<1>1. reply \in [Places -> TargetLists \union {NoReply}] /\ run \in 1..MaxRuns
  BY DEF PlaceInv
<1>2. CASE output = "not installed"
  BY <1>1, <1>2 DEF RunTool
<1>3. CASE output # "not installed"
  <2>1. reply' \in [Places -> TargetLists \union {NoReply}]
    BY <1>1, <1>3 DEF RunTool
  <2>2. PICK change \in Changes : disk' = Changed(before, change)
    BY <1>3 DEF RunTool
  <2>3. \A place \in Places : IsMapping(disk'[place])
    BY <1>3 DEF RunTool
  <2>4. change \in [Reach -> {"kept"} \union Contents]
    <3>1. Output[run] \in Contents
      BY <1>1, AuthorFacts DEF Contents
    <3>2. QED
      BY <3>1 DEF Changes, Contents
  <2>5. ASSUME NEW place \in Places PROVE disk'[place] \in Trees
    <3>1. before[place] \in [Paths -> Contents]
      BY DEF Trees
    <3>2. disk'[place] \in [Paths -> Contents]
      BY <2>2, <2>4, <3>1 DEF Changed
    <3>3. QED
      BY <2>3, <3>2 DEF Trees
  <2>6. disk' = [place \in Places |-> disk'[place]]
    BY <2>2 DEF Changed
  <2>7. disk' \in [Places -> Trees]
    BY <2>5, <2>6
  <2>8. QED
    BY <2>1, <2>7
<1>4. QED
  BY <1>2, <1>3

\* The query CMake is asked by leaves a tree.
LEMMA QueriedFacts ==
  ASSUME NEW t \in Trees, ~Blocked(t), run \in 1..MaxRuns
  PROVE  Queried(t) \in Trees
<1>1. CASE t[Query] = "absent"
  <2>1. Query \in Paths /\ Output[run] \in Authors
    BY AuthorFacts, WorkspaceAssumption
  <2>2. Landing(t, Query) = Query
    BY <1>1 DEF Landing
  <2>3. \A d \in Parents(Query) : t[d] \in {"absent", "dir"}
    BY DEF Blocked
  <2>4. copy(t, Query, Output[run]) \in Trees
    BY <1>1, <2>1, <2>2, <2>3, CopyFacts
  <2>5. QED
    BY <1>1, <2>4 DEF Queried
<1>2. CASE t[Query] # "absent"
  BY <1>2 DEF Queried
<1>3. QED
  BY <1>1, <1>2

\* What NothingLost says of one step.
Kept ==
  \A place \in Places :
    /\ Keeps(disk[place], disk'[place])
    /\ at' = "manifest" /\ ~injected'.overwrite => Same(disk[place], disk'[place])

\* Both injections: the manifest they hand on is that of the destination, and
\* what was selected is there.
LEMMA InjectFacts ==
  ASSUME PlaceInv, at = "manifest", NEW from \in Places, NEW to \in Places, NEW filter,
         NEW overwrite \in BOOLEAN, NEW source, source.mapping \in Mappings,
         Inject(source, from, to, filter, overwrite)
  PROVE  /\ disk' \in [Places -> Trees] /\ run' = run /\ steps' = steps + 1 /\ Kept
         /\ \/ at' = "ended" /\ UNCHANGED manifest
            \/ /\ manifest' = [type |-> "Manifest", root |-> to, mapping |-> Shape(disk'[to])]
               /\ at' = "manifest" /\ UNCHANGED artifacts /\ passed' = {}
         /\ InjectionArrives'
<1> DEFINE r == _copy_matching_files(source, from, to, filter, overwrite)
<1>1. disk \in [Places -> Trees]
  BY DEF PlaceInv
<1>2. /\ r \in Copies /\ Keeps(disk[to], r.tree)
      /\ ~overwrite => Same(disk[to], r.tree)
      /\ ~r.raised => \A p \in file_paths(source.mapping) :
           Matches(p, filter) => Arrived(r, p, from, to, overwrite)
  BY <1>1, CopyResult
<1>3. /\ disk' = [disk EXCEPT ![to] = r.tree]
      /\ steps' = steps + 1
      /\ IF r.raised
           THEN at' = "ended" /\ UNCHANGED <<run, manifest, artifacts, passed, injected>>
           ELSE /\ manifest' = from_directory(r.tree, to)
                /\ injected' = [from |-> from, to |-> to, copied |-> r.copied,
                                overwrite |-> overwrite,
                                selected |-> {p \in file_paths(source.mapping) : Matches(p, filter)}]
                /\ passed' = {}
                /\ UNCHANGED <<run, at, artifacts>>
  BY DEF Inject, Reread
<1> HIDE DEF r
<1>4. r.tree \in Trees /\ disk'[to] = r.tree /\ \A p \in Places : p # to => disk'[p] = disk[p]
  BY <1>1, <1>2, <1>3 DEF Copies
<1>5. disk' \in [Places -> Trees] /\ Kept
  <2>1. \A place \in Places : Keeps(disk[place], disk'[place])
    BY <1>2, <1>4 DEF Keeps
  <2>2. ASSUME at' = "manifest", ~injected'.overwrite, NEW place \in Places
        PROVE  Same(disk[place], disk'[place])
    <3>1. ~overwrite
      BY <1>3, <2>2
    <3>2. QED
      BY <1>2, <1>4, <3>1 DEF Same
  <2>3. QED
    BY <1>1, <1>3, <1>4, <2>1, <2>2 DEF Kept
<1>6. CASE r.raised
  BY <1>3, <1>5, <1>6 DEF InjectionArrives
<1>7. CASE ~r.raised
  <2>1. InjectionArrives'
    <3> SUFFICES ASSUME NEW p \in file_paths(source.mapping), Matches(p, filter)
                 PROVE  \/ /\ p \in r.copied
                           /\ disk'[to][Landing(disk'[to], p)] = disk'[from][p]
                        \/ ~overwrite /\ disk'[to][p] # "absent"
      BY <1>3, <1>7 DEF InjectionArrives
    <3>1. Arrived(r, p, from, to, overwrite)
      BY <1>2, <1>7
    <3>2. QED
      BY <1>4, <3>1 DEF Arrived
  <2>2. QED
    BY <1>3, <1>4, <1>5, <1>7, <2>1 DEF from_directory
<1>8. QED
  BY <1>6, <1>7

\* Every step keeps PlaceInv, and a step on a manifest loses nothing.
LEMMA PlaceStep ==
  ASSUME PlaceInv, [Next]_vars
  PROVE  /\ PlaceInv'
         /\ steps' > steps => Kept
<1>1. /\ disk \in [Places -> Trees]
      /\ reply \in [Places -> TargetLists \union {NoReply}]
      /\ run \in 1..MaxRuns /\ steps \in 0..MaxSteps /\ MaxRuns \in Nat /\ MaxSteps \in Nat
      /\ at \in {"nothing", "manifest", "artifacts", "ended"}
      /\ manifest \in [type : ProjectTypes \union {"Manifest", "none"}, root : Places,
                       mapping : Mappings]
      /\ manifest.root \in Places /\ manifest.mapping \in Mappings
  <2>1. MaxRuns \in Nat /\ MaxSteps \in Nat
    BY WorkspaceAssumption DEF Student
  <2>2. QED
    BY <2>1 DEF PlaceInv
<1>2. /\ UNCHANGED disk => Kept
      /\ steps' = steps \/ steps' = 0 => ~(steps' > steps)
  <2>1. UNCHANGED disk => Kept
    BY DEF Kept, Keeps, Same
  <2>2. QED
    BY <1>1, <2>1
<1>3. CASE UNCHANGED vars
  BY <1>2, <1>3 DEF vars, PlaceInv
<1>4. CASE NextRun
  <2>1. run' \in 1..MaxRuns /\ run' # run
    BY <1>1, <1>4 DEF NextRun
  <2>2. disk' \in [Places -> Trees]
    <3>1. CASE UNCHANGED disk
      BY <1>1, <3>1
    <3>2. CASE \E shape \in Submissions :
                 disk' = [disk EXCEPT !["student"] = Filled(shape, Student[run'])]
      <4>1. PICK shape \in Submissions :
              disk' = [disk EXCEPT !["student"] = Filled(shape, Student[run'])]
        BY <3>2
      <4>2. Student[run'] \in Authors /\ shape \in Mappings
        BY <2>1, AuthorFacts, WorkspaceAssumption
      <4>3. Filled(shape, Student[run']) \in Trees
        BY <4>2, FilledIsTree
      <4>4. QED
        BY <1>1, <4>1, <4>3
    <3>3. QED
      BY <1>4, <3>1, <3>2 DEF NextRun
  <2>3. reply' \in [Places -> TargetLists \union {NoReply}]
    BY <1>1, <1>4 DEF NextRun
  <2>4. manifest' \in [type : ProjectTypes \union {"Manifest", "none"}, root : Places,
                       mapping : Mappings]
    BY <1>4, NothingIsMapping DEF NextRun, NoManifest, Places
  <2>5. at' = "nothing" /\ steps' \in 0..MaxSteps
    BY <1>1, <1>4 DEF NextRun
  <2>6. QED
    BY <1>2, <1>4, <2>1, <2>2, <2>3, <2>4, <2>5 DEF PlaceInv, NextRun
<1>5. CASE LoadDirectory
  <2>1. UNCHANGED <<disk, reply, run, steps>> /\ at' \in {"manifest", "ended"}
    BY <1>5 DEF LoadDirectory, EndRun
  <2>2. manifest' \in [type : ProjectTypes \union {"Manifest", "none"}, root : Places,
                       mapping : Mappings]
    <3>1. Shape(disk["student"]) \in Mappings
      <4>1. disk["student"] \in Trees
        BY <1>1 DEF Places
      <4>2. QED
        BY <4>1, ShapeIsMapping
    <3>2. QED
      BY <1>1, <1>5, <3>1 DEF LoadDirectory, EndRun, from_directory, Places
  <2>3. QED
    BY <1>1, <1>2, <2>1, <2>2 DEF PlaceInv
<1>6. ASSUME NEW from \in Places, NEW to \in Places, NEW filter, NEW overwrite \in BOOLEAN,
             NEW source, source.mapping \in Mappings, OnManifest,
             Inject(source, from, to, filter, overwrite), UNCHANGED reply
      PROVE  PlaceInv' /\ Kept
  <2>1. at = "manifest" /\ steps < MaxSteps
    BY <1>6 DEF OnManifest
  <2>2. /\ disk' \in [Places -> Trees] /\ run' = run /\ steps' = steps + 1 /\ Kept
        /\ \/ at' = "ended" /\ UNCHANGED manifest
           \/ /\ manifest' = [type |-> "Manifest", root |-> to, mapping |-> Shape(disk'[to])]
              /\ at' = "manifest" /\ UNCHANGED artifacts /\ passed' = {}
    BY <1>6, <2>1, InjectFacts
  <2>3. manifest' \in [type : ProjectTypes \union {"Manifest", "none"}, root : Places,
                       mapping : Mappings]
    <3>1. Shape(disk'[to]) \in Mappings
      BY <2>2, ShapeIsMapping
    <3>2. QED
      BY <1>1, <2>2, <3>1
  <2>4. steps' \in 0..MaxSteps
    BY <1>1, <2>1, <2>2
  <2>5. QED
    BY <1>1, <1>6, <2>2, <2>3, <2>4 DEF PlaceInv
<1>7. CASE InjectStudentIntoStaff
  <2>1. PICK filter \in Filters, overwrite \in BOOLEAN :
          Inject(manifest, manifest.root, "staff", filter, overwrite)
    BY <1>7 DEF InjectStudentIntoStaff
  <2>2. OnManifest /\ UNCHANGED reply /\ "staff" \in Places
    BY <1>7 DEF InjectStudentIntoStaff, Places
  <2>3. QED
    BY <1>1, <1>6, <2>1, <2>2
<1>8. CASE InjectStaffIntoStudent
  <2> DEFINE source == from_directory(disk["staff"], "staff")
  <2>1. OnManifest /\ UNCHANGED reply /\ "staff" \in Places
    BY <1>8 DEF InjectStaffIntoStudent, Places
  <2>2. source.mapping \in Mappings
    BY <1>1, <2>1, ShapeIsMapping DEF from_directory
  <2>3. CASE \E filter \in Filters, overwrite \in BOOLEAN :
               Inject(source, "staff", manifest.root, filter, overwrite)
    BY <1>1, <1>6, <2>1, <2>2, <2>3
  <2>4. CASE EndRun /\ UNCHANGED disk
    BY <1>1, <1>2, <2>1, <2>4 DEF EndRun, PlaceInv
  <2>5. QED
    BY <1>8, <2>3, <2>4 DEF InjectStaffIntoStudent
<1>9. CASE ManifestCheck
  <2>1. UNCHANGED <<disk, reply, run, manifest>> /\ steps' \in 0..MaxSteps
        /\ at' \in {"manifest", "ended"}
    BY <1>1, <1>9 DEF ManifestCheck, OnManifest, EndRun
  <2>2. QED
    BY <1>1, <1>2, <2>1 DEF PlaceInv
<1>10. CASE ProjectManifestCheck
  <2>1. UNCHANGED <<disk, reply, run>> /\ steps' \in 0..MaxSteps
        /\ at' \in {"manifest", "ended"}
    BY <1>1, <1>10 DEF ProjectManifestCheck, OnManifest, EndRun
  <2>2. manifest' \in [type : ProjectTypes \union {"Manifest", "none"}, root : Places,
                       mapping : Mappings]
    BY <1>1, <1>10 DEF ProjectManifestCheck, EndRun
  <2>3. QED
    BY <1>1, <1>2, <2>1, <2>2 DEF PlaceInv
<1>11. ASSUME disk' \in [Places -> Trees],
              reply' \in [Places -> TargetLists \union {NoReply}],
              EndRun \/ \E found : HandOn(found)
       PROVE  PlaceInv' /\ ~(steps' > steps)
  BY <1>1, <1>2, <1>11 DEF EndRun, HandOn, PlaceInv
<1>12. CASE MakefileBuild
  <2>1. PICK output \in ToolOutputs :
          /\ RunTool(disk, manifest.root, output)
          /\ EndRun \/ \E found : HandOn(found)
    BY <1>12 DEF MakefileBuild
  <2>2. QED
    BY <1>1, <1>11, <2>1, RunToolFacts
<1>13. CASE CMakeBuild
  <2> DEFINE root == manifest.root
             before == [disk EXCEPT ![root] = Queried(disk[root])]
  <2>1. CASE Blocked(disk[root])
    BY <1>1, <1>11, <1>13, <2>1 DEF CMakeBuild
  <2>2. CASE ~Blocked(disk[root])
    <3>1. PICK output \in ToolOutputs :
            RunTool(before, root, output) /\ (EndRun \/ \E found : HandOn(found))
      BY <1>13, <2>2 DEF CMakeBuild
    <3>2. Queried(disk[root]) \in Trees
      BY <1>1, <2>2, QueriedFacts
    <3>3. before \in [Places -> Trees]
      BY <1>1, <3>2
    <3> HIDE DEF before
    <3>4. QED
      BY <1>1, <1>11, <3>1, <3>3, RunToolFacts
  <2>3. QED
    BY <2>1, <2>2
<1>14. CASE GXXBuild
  <2>1. UNCHANGED <<disk, reply>> /\ (EndRun \/ \E found : HandOn(found))
    BY <1>14 DEF GXXBuild
  <2>2. QED
    BY <1>1, <1>2, <1>11, <2>1
<1>15. CASE BashScriptBuild
  <2>1. /\ EndRun \/ \E found : HandOn(found)
        /\ UNCHANGED <<disk, reply>> \/ \E output : RunTool(disk, manifest.root, output)
    BY <1>15 DEF BashScriptBuild
  <2>2. QED
    BY <1>1, <1>2, <1>11, <2>1, RunToolFacts
<1>16. CASE PrebuiltArtifacts
  <2>1. UNCHANGED <<disk, reply>> /\ (EndRun \/ \E found : HandOn(found))
    BY <1>16 DEF PrebuiltArtifacts
  <2>2. QED
    BY <1>1, <1>2, <1>11, <2>1
<1>17. CASE Test
  <2>1. UNCHANGED <<disk, reply>> /\ EndRun
    BY <1>17 DEF Test
  <2>2. QED
    BY <1>1, <1>2, <1>11, <2>1
<1>18. QED
  BY <1>3, <1>4, <1>5, <1>7, <1>8, <1>9, <1>10, <1>12, <1>13, <1>14, <1>15, <1>16, <1>17
     DEF Next, Mixin, Check, Build

\* Before the first step nothing was asked for or injected, and before a build
\* there is no artifact.
RunInv ==
  /\ at = "nothing" => passed = {} /\ injected = NoInjection
  /\ at \in {"nothing", "manifest"} => artifacts = NoArtifacts

WorkspaceInv == PlaceInv /\ RunInv /\ ManifestIsCurrent /\ InjectionArrives /\ ArtifactsAreFiles

LEMMA WorkspaceInit == Init => WorkspaceInv
BY PlaceInit DEF Init, WorkspaceInv, RunInv, ManifestIsCurrent, InjectionArrives, ArtifactsAreFiles

\* A run that ends holds nothing more.
LEMMA EndRunKeeps ==
  ASSUME EndRun
  PROVE  RunInv' /\ ManifestIsCurrent' /\ InjectionArrives' /\ ArtifactsAreFiles'
BY DEF EndRun, RunInv, ManifestIsCurrent, InjectionArrives, ArtifactsAreFiles

\* Artifacts handed on that are files now.
LEMMA HandOnKeeps ==
  ASSUME NEW found, HandOn(found), ArtifactsAreFiles'
  PROVE  RunInv' /\ ManifestIsCurrent' /\ InjectionArrives'
BY DEF HandOn, RunInv, ManifestIsCurrent, InjectionArrives

\* A check asks for a structure: what it compared is what is on disk.
LEMMA ChecksAreCurrent ==
  ASSUME PlaceInv, ManifestIsCurrent, RunInv, ManifestCheck \/ ProjectManifestCheck
  PROVE  ManifestIsCurrent'
<1> SUFFICES ASSUME at' = "manifest"
             PROVE  ManifestIsCurrent'
  BY DEF ManifestIsCurrent
<1> DEFINE m == manifest.mapping
<1>1. /\ at = "manifest" /\ UNCHANGED disk
      /\ m \in Mappings /\ m \in [Paths -> Kinds] /\ m = Shape(disk[manifest.root])
      /\ \A expected \in passed : \A p \in Paths :
           expected[p] # "absent" => m[p] = expected[p]
  BY DEF PlaceInv, ManifestIsCurrent, ManifestCheck, ProjectManifestCheck, OnManifest, Mappings
<1>2. manifest'.mapping = m /\ manifest'.root = manifest.root
  BY DEF PlaceInv, ManifestCheck, ProjectManifestCheck, EndRun
<1>3. \A expected \in passed' : \A p \in Paths :
        expected[p] # "absent" => m[p] = expected[p]
  <2>1. CASE ManifestCheck
    <3>1. PICK expected \in Expectations, strict \in BOOLEAN :
            Satisfied(expected, strict) /\ passed' = passed \union {expected}
      BY <2>1 DEF ManifestCheck, EndRun
    <3>2. expected \in Mappings
      BY WorkspaceAssumption
    <3>3. \A p \in Paths : expected[p] # "absent" => m[p] = expected[p]
      <4>1. CASE _mapping_eq(m, expected)
        BY <1>1, <3>2, <4>1, EqContains
      <4>2. CASE _mapping_le(expected, m)
        BY <1>1, <3>2, <4>2, LeContains
      <4>3. QED
        BY <3>1, <4>1, <4>2 DEF Satisfied
    <3>4. QED
      BY <1>1, <3>1, <3>3
  <2>2. CASE ProjectManifestCheck
    <3>1. PICK type \in ProjectTypes :
            passed' = passed \union {[Nothing EXCEPT ![Required[type]] = m[Required[type]]]}
      BY <2>2 DEF ProjectManifestCheck, EndRun
    <3> DEFINE wanted == [Nothing EXCEPT ![Required[type]] = m[Required[type]]]
    <3>2. \A p \in Paths : wanted[p] # "absent" => m[p] = wanted[p]
      BY DEF Nothing
    <3>3. QED
      BY <1>1, <3>1, <3>2
  <2>3. QED
    BY <2>1, <2>2
<1>4. QED
  BY <1>1, <1>2, <1>3 DEF ManifestIsCurrent

\* The builds: each hands on files that are there when it ends.
LEMMA MakefileArtifacts ==
  ASSUME PlaceInv, MakefileBuild, at' = "artifacts"
  PROVE  ArtifactsAreFiles'
<1> DEFINE root == manifest.root
<1>1. root \in Places /\ root # "none"
  BY DEF PlaceInv, Places
<1>2. PICK targets \in Builds : \E first \in Named(targets) :
        HandOn(Collected(disk'[root], root, first))
  BY DEF MakefileBuild, EndRun
<1>3. PICK first \in Named(targets) : HandOn(Collected(disk'[root], root, first))
  BY <1>2
<1>4. \A n \in DOMAIN artifacts' :
        artifacts'[n] = [place |-> root, path |-> first[n]] /\ IsFile(disk'[root], first[n])
  BY <1>3 DEF HandOn, Collected, File
<1>5. QED
  BY <1>1, <1>4 DEF ArtifactsAreFiles

LEMMA CMakeArtifacts ==
  ASSUME PlaceInv, PlaceInv', CMakeBuild, at' = "artifacts"
  PROVE  ArtifactsAreFiles'
<1> DEFINE root == manifest.root
           targets == reply'[root]
<1>1. root \in Places /\ root # "none" /\ manifest' = manifest
  BY DEF PlaceInv, Places, CMakeBuild, HandOn, EndRun
<1>2. /\ \A i \in DOMAIN targets :
           targets[i].path = Root \/ IsFile(disk'[root], targets[i].path)
      /\ artifacts' = Merged(targets, root)
  BY DEF CMakeBuild, HandOn, EndRun
<1>3. DOMAIN targets \subseteq Nat
  <2>1. targets \in TargetLists \union {NoReply}
    BY <1>1 DEF PlaceInv
  <2>2. CASE targets \in TargetLists
    <3>1. targets \in Seq([name : Nat, path : Paths \union {Root}])
      BY <2>2, WorkspaceAssumption
    <3>2. QED
      BY <3>1
  <2>3. CASE targets = NoReply
    BY <2>3 DEF NoReply
  <2>4. QED
    BY <2>1, <2>2, <2>3
<1> HIDE DEF root, targets
<1>4. ASSUME NEW n \in DOMAIN artifacts'
      PROVE  \/ /\ artifacts'[n].place = "none"
                /\ \A i \in DOMAIN targets : targets[i].name = n => targets[i].path = Root
             \/ artifacts'[n].place = root /\ IsFile(disk'[root], artifacts'[n].path)
  <2> DEFINE of == {i \in DOMAIN targets : targets[i].name = n}
             files == {i \in of : targets[i].path # Root}
             some == IF files # {} THEN files ELSE of
  <2>1. of # {} /\ artifacts'[n] = Target(targets[Min(some)], root)
    BY <1>2, <1>4 DEF Merged
  <2>2. Min(some) \in some
    <3>1. some # {} /\ some \subseteq Nat
      BY <1>3, <2>1
    <3> HIDE DEF some
    <3>2. \E x \in some : \A y \in some : x <= y
      BY <3>1, Least
    <3>3. QED
      BY <3>2 DEF Min
  <2> DEFINE t == targets[Min(some)]
  <2>3. CASE files # {}
    <3>1. Min(some) \in files
      BY <2>2, <2>3
    <3>2. t.path # Root /\ IsFile(disk'[root], t.path)
      BY <1>2, <3>1
    <3>3. QED
      BY <2>1, <3>2 DEF Target, File
  <2>4. CASE files = {}
    <3>1. \A i \in DOMAIN targets : targets[i].name = n => targets[i].path = Root
      BY <2>4
    <3>2. Min(some) \in of
      BY <2>2, <2>4
    <3>3. t.path = Root
      BY <3>1, <3>2
    <3>4. QED
      BY <2>1, <3>1, <3>3 DEF Target, File
  <2>5. QED
    BY <2>3, <2>4
<1>5. QED
  BY <1>1, <1>4 DEF ArtifactsAreFiles, root, targets

LEMMA GXXArtifacts ==
  ASSUME PlaceInv, GXXBuild, at' = "artifacts"
  PROVE  ArtifactsAreFiles'
<1>1. \A n \in DOMAIN artifacts' : artifacts'[n].place = "temporary"
  BY DEF GXXBuild, HandOn, EndRun, File
<1>2. QED
  BY <1>1 DEF ArtifactsAreFiles, Places

LEMMA BashScriptArtifacts ==
  ASSUME PlaceInv, BashScriptBuild, at' = "artifacts"
  PROVE  ArtifactsAreFiles'
<1> DEFINE root == manifest.root
<1>1. root \in Places /\ root # "none"
  BY DEF PlaceInv, Places
<1>2. PICK wanted \in Builds :
        /\ \A p \in wanted : Produced(disk'[root], p)
        /\ \E named \in Named(wanted) :
             HandOn([n \in DOMAIN named |-> File(root, named[n])])
  BY DEF BashScriptBuild, EndRun
<1>3. PICK named \in Named(wanted) : HandOn([n \in DOMAIN named |-> File(root, named[n])])
  BY <1>2
<1>4. \A n \in DOMAIN artifacts' :
        artifacts'[n] = [place |-> root, path |-> named[n]] /\ named[n] \in wanted
  BY <1>3 DEF HandOn, Named, File
<1>5. QED
  BY <1>1, <1>2, <1>4 DEF ArtifactsAreFiles, Produced

LEMMA PrebuiltKeepsFiles ==
  ASSUME PlaceInv, RunInv, ArtifactsAreFiles, PrebuiltArtifacts, at' = "artifacts"
  PROVE  ArtifactsAreFiles'
<1>1. PICK wanted \in Builds, relative \in BOOLEAN, place \in Places :
        LET root == IF relative THEN manifest.root ELSE place IN
        /\ \A p \in wanted : Produced(disk[root], p)
        /\ \E named \in Named(wanted) :
             HandOn(Joined([n \in DOMAIN named |-> File(root, named[n])], artifacts))
  BY DEF PrebuiltArtifacts, EndRun
<1> DEFINE root == IF relative THEN manifest.root ELSE place
<1>2. root \in Places /\ root # "none"
  BY DEF PlaceInv, Places
<1> HIDE DEF root
<1>3. PICK named \in Named(wanted) :
        HandOn(Joined([n \in DOMAIN named |-> File(root, named[n])], artifacts))
  BY <1>1 DEF root
<1>4. \A p \in wanted : IsFile(disk[root], p)
  BY <1>1 DEF root, Produced
<1>5. UNCHANGED <<disk, reply, manifest>> /\ at \in {"manifest", "artifacts"}
  BY <1>3 DEF PrebuiltArtifacts, HandOn
<1> DEFINE new == [n \in DOMAIN named |-> File(root, named[n])]
<1>6. \A n \in DOMAIN new : new[n] = [place |-> root, path |-> named[n]] /\ named[n] \in wanted
  BY DEF Named, File
<1> HIDE DEF new
<1>7. artifacts' = Joined(new, artifacts)
  BY <1>3 DEF HandOn, new
<1>8. \A n \in DOMAIN artifacts' :
        \/ n \in DOMAIN new /\ artifacts'[n] = new[n]
        \/ n \in DOMAIN artifacts /\ artifacts'[n] = artifacts[n]
  BY <1>7 DEF Joined
<1>9. CASE at = "manifest"
  <2>1. DOMAIN artifacts = {}
    BY <1>9 DEF RunInv, NoArtifacts
  <2>2. QED
    BY <1>2, <1>4, <1>5, <1>6, <1>8, <2>1 DEF ArtifactsAreFiles
<1>10. CASE at = "artifacts"
  <2> SUFFICES ASSUME NEW n \in DOMAIN artifacts'
               PROVE  LET a == artifacts'[n] IN
                      IF a.place = "none"
                      THEN \A i \in DOMAIN reply[manifest.root] :
                             reply[manifest.root][i].name = n =>
                               reply[manifest.root][i].path = Root
                      ELSE a.place \in Places => IsFile(disk[a.place], a.path)
    BY <1>5 DEF ArtifactsAreFiles
  <2>1. CASE n \in DOMAIN new /\ artifacts'[n] = new[n]
    BY <1>2, <1>4, <1>6, <2>1
  <2>2. CASE n \in DOMAIN artifacts /\ artifacts'[n] = artifacts[n]
    BY <1>10, <2>2 DEF ArtifactsAreFiles
  <2>3. QED
    BY <1>8, <2>1, <2>2
<1>11. QED
  BY <1>5, <1>9, <1>10

LEMMA WorkspaceStep ==
  ASSUME WorkspaceInv, [Next]_vars
  PROVE  WorkspaceInv'
<1>1. PlaceInv /\ RunInv /\ ManifestIsCurrent /\ InjectionArrives /\ ArtifactsAreFiles
  BY DEF WorkspaceInv
<1>2. PlaceInv'
  BY <1>1, PlaceStep
<1> SUFFICES RunInv' /\ ManifestIsCurrent' /\ InjectionArrives' /\ ArtifactsAreFiles'
  BY <1>2 DEF WorkspaceInv
<1>3. CASE UNCHANGED vars
  BY <1>1, <1>3 DEF vars, RunInv, ManifestIsCurrent, InjectionArrives, ArtifactsAreFiles
<1>4. CASE NextRun
  BY <1>4 DEF NextRun, RunInv, ManifestIsCurrent, InjectionArrives, ArtifactsAreFiles
<1>5. CASE LoadDirectory
  <2>1. CASE EndRun
    BY <2>1, EndRunKeeps
  <2>2. CASE ~EndRun
    <3>1. /\ at = "nothing" /\ at' = "manifest"
          /\ manifest' = [type |-> "Manifest", root |-> "student",
                          mapping |-> Shape(disk["student"])]
          /\ UNCHANGED <<disk, artifacts, passed, injected>>
      BY <1>5, <2>2 DEF LoadDirectory, from_directory
    <3>2. passed = {} /\ injected = NoInjection /\ artifacts = NoArtifacts
      BY <1>1, <3>1 DEF RunInv
    <3>3. QED
      BY <3>1, <3>2 DEF RunInv, ManifestIsCurrent, InjectionArrives, ArtifactsAreFiles,
                        NoInjection
  <2>3. QED
    BY <2>1, <2>2
<1>6. ASSUME NEW from \in Places, NEW to \in Places, NEW filter, NEW overwrite \in BOOLEAN,
             NEW source, source.mapping \in Mappings, OnManifest,
             Inject(source, from, to, filter, overwrite)
      PROVE  RunInv' /\ ManifestIsCurrent' /\ InjectionArrives' /\ ArtifactsAreFiles'
  <2>1. at = "manifest" /\ artifacts = NoArtifacts
    BY <1>1, <1>6 DEF OnManifest, RunInv
  <2>2. /\ \/ at' = "ended" /\ UNCHANGED manifest
           \/ /\ manifest' = [type |-> "Manifest", root |-> to, mapping |-> Shape(disk'[to])]
              /\ at' = "manifest" /\ UNCHANGED artifacts /\ passed' = {}
        /\ InjectionArrives'
    BY <1>1, <1>6, <2>1, InjectFacts
  <2>3. QED
    BY <2>1, <2>2 DEF RunInv, ManifestIsCurrent, ArtifactsAreFiles
<1>7. manifest.root \in Places /\ manifest.mapping \in Mappings /\ "staff" \in Places
  BY <1>1 DEF PlaceInv, Places
<1>8. CASE InjectStudentIntoStaff
  BY <1>6, <1>7, <1>8 DEF InjectStudentIntoStaff
<1>9. CASE InjectStaffIntoStudent
  <2> DEFINE source == from_directory(disk["staff"], "staff")
  <2>1. source.mapping \in Mappings
    BY <1>1, <1>7, ShapeIsMapping DEF PlaceInv, from_directory
  <2>2. CASE \E filter \in Filters, overwrite \in BOOLEAN :
               Inject(source, "staff", manifest.root, filter, overwrite)
    BY <1>6, <1>7, <1>9, <2>1, <2>2 DEF InjectStaffIntoStudent
  <2>3. CASE EndRun
    BY <2>3, EndRunKeeps
  <2>4. QED
    BY <1>9, <2>2, <2>3 DEF InjectStaffIntoStudent
<1>10. CASE Check
  <2>1. ManifestIsCurrent'
    BY <1>1, <1>10, ChecksAreCurrent DEF Check
  <2>2. RunInv' /\ InjectionArrives' /\ ArtifactsAreFiles'
    <3>1. CASE EndRun
      BY <3>1, EndRunKeeps
    <3>2. CASE ~EndRun
      <4>1. at = "manifest" /\ UNCHANGED <<at, disk, artifacts, injected>>
        BY <1>10, <3>2 DEF Check, ManifestCheck, ProjectManifestCheck, OnManifest
      <4>2. QED
        BY <1>1, <4>1 DEF RunInv, InjectionArrives, ArtifactsAreFiles
    <3>3. QED
      BY <3>1, <3>2
  <2>3. QED
    BY <2>1, <2>2
<1>11. CASE Build
  <2>1. CASE EndRun
    BY <2>1, EndRunKeeps
  <2>2. CASE ~EndRun
    <3>1. \E found : HandOn(found)
      BY <1>11, <2>2 DEF Build, MakefileBuild, CMakeBuild, GXXBuild, BashScriptBuild,
                         PrebuiltArtifacts
    <3>2. at' = "artifacts"
      BY <3>1 DEF HandOn
    <3>3. ArtifactsAreFiles'
      BY <1>1, <1>2, <1>11, <3>2, MakefileArtifacts, CMakeArtifacts, GXXArtifacts,
         BashScriptArtifacts, PrebuiltKeepsFiles DEF Build
    <3>4. QED
      BY <3>1, <3>3, HandOnKeeps
  <2>3. QED
    BY <2>1, <2>2
<1>12. CASE Test
  BY <1>12, EndRunKeeps DEF Test
<1>13. QED
  BY <1>3, <1>4, <1>5, <1>8, <1>9, <1>10, <1>11, <1>12 DEF Next, Mixin

THEOREM WorkspaceInvariant == Spec => []WorkspaceInv
<1>1. Init => WorkspaceInv
  BY WorkspaceInit
<1>2. WorkspaceInv /\ [Next]_vars => WorkspaceInv'
  BY WorkspaceStep
<1>3. QED
  BY <1>1, <1>2, PTL DEF Spec

\* What is on disk is a tree of files and directories at all times, whatever an
\* injection that raised halfway or a tool that failed left there.
THEOREM WorkspaceHoldsTrees == Spec => []TypeOK
<1>1. WorkspaceInv => TypeOK
  <2> SUFFICES ASSUME WorkspaceInv PROVE TypeOK
    OBVIOUS
  <2>1. PlaceInv
    BY DEF WorkspaceInv
  <2>2. \A place \in Places : IsMapping(Shape(disk[place]))
    BY <2>1, ShapeIsMapping DEF PlaceInv, Mappings
  <2>3. QED
    BY <2>1, <2>2 DEF TypeOK, PlaceInv
<1>2. QED
  BY <1>1, WorkspaceInvariant, PTL

\* A manifest is what is on disk while a step may rely on it, and every
\* structure a check asked for is there (Manifest.from_directory, the mixins and
\* the manifest checks).
THEOREM ManifestStaysCurrent == Spec => []ManifestIsCurrent
BY WorkspaceInvariant, PTL DEF WorkspaceInv

\* After an injection every selected file is in the destination, or was left out
\* because something was there (Mixin._copy_matching_files).
THEOREM InjectionsArrive == Spec => []InjectionArrives
BY WorkspaceInvariant, PTL DEF WorkspaceInv

\* What a build hands to the tests is a file then (pipeline/build).
THEOREM BuildsHandOnFiles == Spec => []ArtifactsAreFiles
BY WorkspaceInvariant, PTL DEF WorkspaceInv

\* No injection and no check takes a file or a directory away or turns one into
\* the other, not even an injection that raises, and one that does not overwrite
\* changes no file (Mixin._copy_matching_files).
THEOREM WorkspaceLosesNothing == Spec => NothingLost
<1> DEFINE Step == steps' > steps =>
             \A place \in Places : \A p \in Paths :
               disk[place][p] # "absent" =>
                 /\ Shape(disk'[place])[p] = Shape(disk[place])[p]
                 /\ at' = "manifest" /\ ~injected'.overwrite => disk'[place][p] = disk[place][p]
<1>1. WorkspaceInv /\ [Next]_vars => [Step]_vars
  BY PlaceStep DEF WorkspaceInv, Kept, Keeps, Same
<1>2. QED
  BY <1>1, WorkspaceInvariant, PTL DEF Spec, NothingLost

------------------------------------------------------------------------------
\* However long a flat list grows, of any paths: it means its files, and what
\* it describes compares as a structure (Manifest.from_flat, Manifest.compare).
THEOREM DocumentsFlatListsMeanFiles == Reading => []FlatListsMeanFiles
<1> DEFINE Listed == reader = "flat" => document \in Seq(Alphabet["flat"])
<1>1. Open => Listed
  BY DEF Open
<1>2. Listed /\ [Turn]_pages => Listed'
  BY DEF Turn, Grow, Edit, pages
<1>3. Listed => FlatListsMeanFiles
  <2> SUFFICES ASSUME document \in Seq(Alphabet["flat"]) PROVE ManifestsMeanTheirFiles(document)
    BY DEF FlatListsMeanFiles
  <2>1. \A i \in DOMAIN document : FlatPath(document[i])
    BY DocumentsAssumption
  <2>2. document \in Seq(Seq(Nat))
    BY <2>1 DEF FlatPath
  <2>3. \A i \in DOMAIN document : LET rel == normpath(document[i]) IN
          rel # Root /\ Up \notin Range(rel) => rel \in Paths
    BY <2>1 DEF FlatPath
  <2>4. QED
    BY <2>2, <2>3, FlatListsCompare
<1>4. QED
  BY <1>1, <1>2, <1>3, PTL DEF Reading

==============================================================================
