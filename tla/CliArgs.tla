-------------------------------- MODULE CliArgs --------------------------------
(***************************************************************************)
(* src/src/lograder/process/cli_args.py: how the fields of an argument     *)
(* class become a command line.  A class is checked when it is defined, an *)
(* instance by its validators when it is built, and the positions of the   *)
(* blocks that happen to be there only when the line is emitted: a         *)
(* negative position counts from the number of blocks of this instance.    *)
(***************************************************************************)
EXTENDS Integers, SequencesExt

CONSTANTS
  Classes,     \* the argument classes, as Registry builds them
  OfRegistry,  \* those that the repository declares
  MaxPlain     \* bound on fields set at once that no rule or position names

\* A field declares one position or none.
FieldType == [name : STRING, at : SUBSET Int, emits : {"always", "maybe", "never"}]
ASSUME ClassesAssumption ==
  \A c \in Classes :
    /\ c.fields \in Seq(FieldType)
    /\ \A i \in DOMAIN c.fields : \A p, q \in c.fields[i].at : p = q

\* Every position nearer to the same end is that of a field all instances emit.
Anchored(c) ==
  \A i \in DOMAIN c.fields : \A p \in c.fields[i].at :
    \A q \in IF p >= 0 THEN 0..(p - 1) ELSE (p + 1)..-1 :
      \E j \in DOMAIN c.fields : c.fields[j].emits = "always" /\ q \in c.fields[j].at

ASSUME RegisteredAssumption ==
  /\ OfRegistry \subseteq Classes
  /\ \A c \in OfRegistry : Anchored(c)

VARIABLES
  class,   \* the class being used
  stage,   \* declared or rejected, built or refused, emitted or raised
  given,   \* fields of the instance that have a block to emit
  bad,     \* the field given a bad value, if any
  line     \* the emitted blocks, in order

vars == <<class, stage, given, bad, line>>

Fields == class.fields
Declared == DOMAIN Fields
Numbered == {i \in Declared : Fields[i].at # {}}
Position(i) == CHOOSE p \in Fields[i].at : TRUE
Names(indices) == {Fields[i].name : i \in indices}

------------------------------------------------------------------------------
\* _validate_declared_positions

Duplicate == \E i, j \in Numbered : i < j /\ Fields[i].at = Fields[j].at

Impossible_OffByOne(p) == p >= Len(Fields) - 1 \/ -p > Len(Fields)
Impossible(p) == p >= Len(Fields) \/ -p > Len(Fields)

ValidDeclaration == ~Duplicate /\ ~\E i \in Numbered : Impossible(Position(i))

------------------------------------------------------------------------------
\* The model validators.

Exclusive_OffByOne(names) == Cardinality(names) < 1
Exclusive(names) == Cardinality(names) <= 1

Holds(rule, set) ==
  LET others == rule.others \intersect set IN
  CASE rule.kind = "at most one" -> Exclusive(others)
    [] rule.kind = "exactly one" -> Cardinality(others) = 1
    [] rule.kind = "not with" -> rule.one \in set => others = {}
    [] rule.kind = "needs" -> rule.one \in set => others # {}
    [] rule.kind = "exactly with" -> rule.one \in set <=> others # {}
    [] OTHER -> TRUE

Accepts(set) == \A rule \in class.rules : Holds(rule, set)

\* A "brings" rule does not refuse the instance: it sets the other field too.
Normalised(set) ==
  set \union UNION {rule.others : rule \in {r \in class.rules : r.kind = "brings" /\ r.one \in set}}

\* The fields whose combinations matter, and what an instance may set.
Fixed == {i \in Declared : Fields[i].emits = "always"}
Ruled == UNION {rule.others \union {rule.one} : rule \in class.rules} \intersect Names(Declared)
Free == Declared \ Fixed
Notable == {i \in Free : i \in Numbered \/ Fields[i].name \in Ruled}
PlainSets == {{}} \union {Range(f) : f \in [1..MaxPlain -> Free \ Notable]}
Instances ==
  UNION {{Names(Fixed \union some \union plain) : some \in SUBSET Notable} : plain \in PlainSets}

------------------------------------------------------------------------------
\* emit and _order_emitted_arguments, over the fields that have a block.

\* Indices in the order of their declaration.
InOrder(indices) ==
  [k \in 1..Cardinality(indices) |->
     CHOOSE i \in indices : Cardinality({j \in indices : j < i}) = k - 1]

Emitting == {i \in Declared : Fields[i].name \in given /\ Fields[i].emits # "never"}
Blocks == InOrder(Emitting)

Resolved(i) == IF Position(i) >= 0 THEN Position(i) ELSE Len(Blocks) + Position(i)

Placed == Emitting \intersect Numbered
OutOfRange_OffByOne == \E i \in Placed : Resolved(i) \notin 1..(Len(Blocks) - 1)
OutOfRange == \E i \in Placed : Resolved(i) \notin 0..(Len(Blocks) - 1)
Overlap == \E i, j \in Placed : i # j /\ Resolved(i) = Resolved(j)

Gaps(slot) == {s \in 0..slot : \A i \in Placed : Resolved(i) # s}
Agnostic_ByNumber == Reverse(InOrder(Emitting \ Numbered))
Agnostic == InOrder(Emitting \ Numbered)

\* The two internal errors: too few blocks for the gaps, or too many.
Unfilled == Cardinality(Gaps(Len(Blocks) - 1)) # Len(Agnostic)

\* Numbered blocks stand where they resolve to; the others fill the gaps.
Ordered ==
  [k \in DOMAIN Blocks |->
     IF \E i \in Placed : Resolved(i) = k - 1
     THEN CHOOSE i \in Placed : Resolved(i) = k - 1
     ELSE Agnostic[Cardinality(Gaps(k - 1))]]

------------------------------------------------------------------------------
Init ==
  /\ class \in Classes
  /\ stage = "new"
  /\ given = {}
  /\ bad = {}
  /\ line = <<>>

\* __pydantic_init_subclass__ validates the class when it is defined.
Define ==
  /\ stage = "new"
  /\ stage' = IF ValidDeclaration THEN "declared" ELSE "rejected"
  /\ UNCHANGED <<class, given, bad, line>>

\* An instance is built: field validators first, then the model's.
Build ==
  /\ stage = "declared"
  /\ \E set \in Instances, wrong \in {{}} \union {{f} : f \in class.checked \union class.bare} :
       /\ wrong \subseteq set
       /\ given' = Normalised(set)
       /\ bad' = wrong
       /\ stage' = IF wrong \subseteq class.bare /\ Accepts(set) THEN "built" ELSE "refused"
  /\ UNCHANGED <<class, line>>

\* An empty token raises, and so does a block that has no slot of its own.
emit ==
  /\ stage = "built"
  /\ \/ /\ bad # {} \/ OutOfRange \/ Overlap \/ Unfilled
        /\ stage' = "raised"
        /\ UNCHANGED line
     \/ /\ bad = {} /\ ~OutOfRange /\ ~Overlap /\ ~Unfilled
        /\ stage' = "emitted"
        /\ line' = Ordered
  /\ UNCHANGED <<class, given, bad>>

Next == Define \/ Build \/ emit

Spec == Init /\ [][Next]_vars

------------------------------------------------------------------------------
(* Properties                                                              *)

\* On an emitted line every block stands once, a block declared at p >= 0 is
\* the p-th, one declared at p < 0 the p-th from the end, and the others keep
\* the order of their declaration.
MeetsDeclaration(blocks) ==
  /\ Len(blocks) = Len(Blocks) /\ Range(blocks) = Range(Blocks)
  /\ \A k \in DOMAIN blocks :
       blocks[k] \in Numbered =>
         Position(blocks[k]) \in {k - 1, k - 1 - Len(blocks)}
  /\ \A j, k \in DOMAIN blocks :
       j < k /\ blocks[j] \notin Numbered /\ blocks[k] \notin Numbered => blocks[j] < blocks[k]

\* What emit puts in order meets the declaration, and it gives up only for a
\* bad value or a position this instance does not have: the blocks without a
\* position always fill the gaps, so that the two internal errors never happen.
OrderMeetsDeclaration ==
  /\ stage = "emitted" => MeetsDeclaration(line)
  /\ stage = "raised" => bad # {} \/ OutOfRange \/ Overlap

\* No accepted instance of a class of the registry ever fails to be ordered:
\* only an empty text in a field that has no validator makes emit raise.
RegisteredAlwaysEmits == stage = "raised" /\ class \in OfRegistry => bad # {}

\* The instance that emits every field cannot be ordered.
NeverOrdered ==
  LET all == Len(Fields)
      at(i) == IF Position(i) >= 0 THEN Position(i) ELSE all + Position(i)
  IN \/ \E i \in Numbered : at(i) \notin 0..(all - 1)
     \/ \E i, j \in Numbered : i # j /\ at(i) = at(j)

\* The check of the class refuses no class that works.
RejectionSound == stage = "rejected" => NeverOrdered

==============================================================================
