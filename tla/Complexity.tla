----------------------------- MODULE Complexity -----------------------------
(***************************************************************************)
(* One case of ComplexityTest                                              *)
(* (src/src/lograder/pipeline/test/complexity.py): the program is timed    *)
(* RunsPerSize times at each size; the medians, on a log-log scale, are    *)
(* fitted by a line, and its slope decides.                                *)
(*                                                                         *)
(* Sizes and times are powers of two, given by their exponents: a size of  *)
(* 2^s and a time of 2^t units, the unit being _MIN_MEASURABLE_S; -1 is a  *)
(* time below it.  Slopes are exact fractions; the bounds of the classes   *)
(* are in hundredths.                                                      *)
(***************************************************************************)
EXTENDS Integers, Sequences, SequencesExt

CONSTANTS
  Sizes,        \* exponents of the case's sizes
  RunsPerSize,  \* runs_per_size
  Timeout       \* exponent of the timeout: no run is measured longer

\* The median of an even number of runs is a mean, which need not be a power of
\* two: it is left out.
ASSUME ComplexityAssumption ==
  /\ Sizes \in Seq(Nat)
  /\ RunsPerSize \in Nat /\ RunsPerSize % 2 = 1
  /\ Timeout \in Nat

VARIABLES
  expected,  \* the class the case expects
  runs,      \* times of the runs at the current size
  medians,   \* median times at the sizes done
  verdict    \* none, or whether it passed and the class it measured

vars == <<expected, runs, medians, verdict>>

\* _COMPLEXITY_BOUNDS, in the order it is searched.
Bounds == <<[class |-> "O(1)",       lo |-> 0,   hi |-> 15],
            [class |-> "O(log n)",   lo |-> 5,   hi |-> 35],
            [class |-> "O(n)",       lo |-> 75,  hi |-> 135],
            [class |-> "O(n log n)", lo |-> 90,  hi |-> 155],
            [class |-> "O(n^2)",     lo |-> 175, hi |-> 235],
            [class |-> "O(n^3)",     lo |-> 270, hi |-> 330]>>

Classes == DOMAIN Bounds
Measurable == {Bounds[c].class : c \in Classes} \cup {"O(1) or less", "super-cubic"}

------------------------------------------------------------------------------
Total(s) ==
  LET sum[i \in 0..Len(s)] == IF i = 0 THEN 0 ELSE sum[i - 1] + s[i]
  IN  sum[Len(s)]

\* The middle of the sorted values: the least that more than half of them do
\* not exceed.
median(values) ==
  Min({v \in Range(values) :
         Cardinality({i \in DOMAIN values : values[i] <= v}) > Len(values) \div 2})

floored(t) == IF t < 0 THEN 0 ELSE t

\* _fit_exponent: the slope, as a numerator and a denominator.  Both sums are
\* multiplied by the square of the number of points.
fit_Uncentred(sizes, times) ==
  [num |-> Total([i \in DOMAIN sizes |-> sizes[i] * floored(times[i])]),
   den |-> Total([i \in DOMAIN sizes |-> sizes[i] * sizes[i]])]

fit(sizes, times) ==
  LET n == Len(sizes)
      off(s, i) == n * s[i] - Total(s)
      T == [i \in DOMAIN sizes |-> floored(times[i])]
      den == Total([i \in DOMAIN sizes |-> off(sizes, i) * off(sizes, i)])
  IN  IF n < 2 \/ den = 0
      THEN [num |-> 0, den |-> 1]
      ELSE [num |-> Total([i \in DOMAIN sizes |-> off(sizes, i) * off(T, i)]),
            den |-> den]

within(slope, c) ==
  /\ Bounds[c].lo * slope.den <= 100 * slope.num
  /\ 100 * slope.num <= Bounds[c].hi * slope.den

accepts_Open(slope, c) ==
  /\ Bounds[c].lo * slope.den < 100 * slope.num
  /\ 100 * slope.num < Bounds[c].hi * slope.den
accepts(slope, c) == within(slope, c)

classify(slope) ==
  LET fits == {c \in Classes : within(slope, c)}
  IN  CASE fits # {} -> Bounds[CHOOSE c \in fits : \A d \in fits : c <= d].class
        [] fits = {} /\ slope.num < 0 -> "O(1) or less"
        [] OTHER -> "super-cubic"

------------------------------------------------------------------------------
Init ==
  /\ expected \in Classes
  /\ runs = <<>>
  /\ medians = <<>>
  /\ verdict = [is |-> "none"]

Measuring == Len(medians) < Len(Sizes)

\* One timed run at the current size; a timeout ends it as any other.
Run ==
  /\ Measuring
  /\ Len(runs) < RunsPerSize
  /\ \E t \in -1..Timeout : runs' = Append(runs, t)
  /\ UNCHANGED <<expected, medians, verdict>>

EndSize ==
  /\ Measuring
  /\ Len(runs) = RunsPerSize
  /\ medians' = Append(medians, median(runs))
  /\ runs' = <<>>
  /\ UNCHANGED <<expected, verdict>>

alpha == fit(Sizes, medians)

Decide ==
  /\ ~Measuring
  /\ verdict.is = "none"
  /\ verdict' = [is |-> IF accepts(alpha, expected) THEN "passed" ELSE "failed",
                 class |-> classify(alpha)]
  /\ UNCHANGED <<expected, runs, medians>>

Next == Run \/ EndSize \/ Decide

Spec == Init /\ [][Next]_vars

------------------------------------------------------------------------------
(* Properties *)

\* Every variable has its type.
TypeOK ==
  /\ expected \in Classes
  /\ runs \in Seq(-1..Timeout) /\ Len(runs) <= RunsPerSize
  /\ medians \in Seq(-1..Timeout) /\ Len(medians) <= Len(Sizes)
  /\ verdict \in {[is |-> "none"]} \cup
                 [is : {"passed", "failed"}, class : Measurable]

Decided == verdict.is # "none"

Varied == \E i, j \in DOMAIN Sizes : Sizes[i] # Sizes[j]

\* A program whose times follow n^a exactly, on a machine of any speed, is
\* measured with the exponent a, for any case with two different sizes
\* (complexity.py:89, "Least-squares fit").
PowerLawFound ==
  Decided /\ Varied =>
    \A a \in 0..Timeout, b \in 0..Timeout :
      (\A i \in DOMAIN Sizes : floored(medians[i]) = a * Sizes[i] + b) =>
        alpha.num = a * alpha.den

\* The bounds docs/pipeline/test.md:538 gives: O(1) has none below.
WithinDocumented(slope, c) ==
  IF c = 1 THEN 100 * slope.num < Bounds[c].hi * slope.den ELSE within(slope, c)

\* The verdict and the class that is shown for it agree: a case measured as the
\* class it expects passes, and one that passes is shown as that class or as a
\* class before it whose bounds overlap.  In one case they do not: a program
\* expected to be O(1) that is measured to get faster is shown as "O(1) or less"
\* and fails (complexity.py:66, 83-84), and there alone a case fails whose slope
\* is within the documented bounds.
ClassAgrees ==
  Decided =>
    /\ verdict.class = Bounds[expected].class => verdict.is = "passed"
    /\ verdict.is = "passed" =>
         \E c \in 1..expected : /\ verdict.class = Bounds[c].class
                                /\ Bounds[c].hi >= Bounds[expected].lo
    /\ verdict.is = "failed" /\ WithinDocumented(alpha, expected)
         <=> expected = 1 /\ verdict.class = "O(1) or less"

=============================================================================
