------------------------------- MODULE Scoring -------------------------------
(***************************************************************************)
(* The scorers of src/src/lograder/pipeline/score.py, as operators.        *)
(*                                                                         *)
(* A scorer is a configuration, fixed when it is constructed, and an       *)
(* accumulator that on_packet and on_complete update and contribution      *)
(* reads.  The three classes keep different fields; one accumulator record *)
(* holds them all and each class uses its own.  Points are natural numbers *)
(* (the code's floats, scaled); a fraction is a pair num/den.              *)
(***************************************************************************)
EXTENDS Integers, FiniteSets, FiniteSetsExt

CONSTANT Cases       \* names of test cases a packet can report on

(***************************************************************************)
(* What a step yields, as far as a scorer can tell: a TestSuccess (in Ok), *)
(* a TestFailure (in Err), or any other display model in Ok or in Err.     *)
(***************************************************************************)
Packets == [what : {"TestSuccess", "TestFailure"}, case : Cases]
             \cup [what : {"OkDisplay", "ErrDisplay"}]

is_err(p) == p.what \in {"TestFailure", "ErrDisplay"}

------------------------------------------------------------------------------
(* Configurations, as the constructors build them.                         *)

NoGimme == [num |-> 0, den |-> 0, points |-> 0]
GimmeConfig(num, den, points) == [num |-> num, den |-> den, points |-> points]

\* TestCaseScorer(points_per_case = each, num_cases = num)
FlatCaseScorer(each, num, bonus, gimme) ==
  [class |-> "TestCaseScorer", points |-> [n \in Cases |-> each],
   possible |-> each * num, bonus |-> bonus, gimme |-> gimme]

\* TestCaseScorer(points_per_case = table), a dict from case name to points
TableCaseScorer(table, bonus, gimme) ==
  [class |-> "TestCaseScorer",
   points |-> [n \in Cases |-> IF n \in DOMAIN table THEN table[n] ELSE 0],
   possible |-> MapThenSumSet(LAMBDA n : table[n], DOMAIN table),
   bonus |-> bonus, gimme |-> gimme]

AllOrNothingScorer(points, extra) ==
  [class |-> "AllOrNothingScorer", possible |-> points, extra |-> extra]

CleanRunScorer(points, maxErrors, requireOk, extra) ==
  [class |-> "CleanRunScorer", possible |-> points, extra |-> extra,
   maxErrors |-> maxErrors, requireOk |-> requireOk]

\* Every configuration a constructor can be given natural numbers for.
CaseConfigs ==
  [class : {"TestCaseScorer"}, points : [Cases -> Nat], possible : Nat,
   bonus : [Cases -> Nat],
   gimme : {NoGimme} \cup [num : Nat, den : Nat \ {0}, points : Nat]]
AllOrNothingConfigs ==
  [class : {"AllOrNothingScorer"}, possible : Nat, extra : Nat]
CleanRunConfigs ==
  [class : {"CleanRunScorer"}, possible : Nat, extra : Nat, maxErrors : Nat,
   requireOk : BOOLEAN]
ScorerConfigs == CaseConfigs \cup AllOrNothingConfigs \cup CleanRunConfigs

------------------------------------------------------------------------------
(***************************************************************************)
(* The accumulator.  `_passes' is a dict from case to points that the code *)
(* sums in contribution(); here it is the set of its keys and the running  *)
(* sum of its values.  A key always gets the same value, so writing it     *)
(* again changes neither.  `ok' is AllOrNothingScorer._ok and              *)
(* CleanRunScorer._return_ok.                                              *)
(***************************************************************************)
Accumulators == [passes : SUBSET Cases, raw : Nat, fails : Nat, extra : Nat,
                 errs : Nat, ok : BOOLEAN]

Fresh == [passes |-> {}, raw |-> 0, fails |-> 0, extra |-> 0,
          errs |-> 0, ok |-> FALSE]

RecordPass(cfg, acc, n) ==
  [acc EXCEPT !.passes = @ \cup {n},
              !.raw = IF n \in acc.passes THEN @ ELSE @ + cfg.points[n],
              !.extra = @ + cfg.bonus[n]]

RecordFail_Down(acc) == [acc EXCEPT !.fails = @ - 1]
RecordFail(acc) == [acc EXCEPT !.fails = @ + 1]

on_packet(cfg, acc, p) ==
  CASE cfg.class = "TestCaseScorer" /\ p.what = "TestSuccess" ->
         RecordPass(cfg, acc, p.case)
    [] cfg.class = "TestCaseScorer" /\ p.what = "TestFailure" ->
         RecordFail(acc)
    [] cfg.class = "CleanRunScorer" /\ is_err(p) -> [acc EXCEPT !.errs = @ + 1]
    [] OTHER -> acc

on_complete(cfg, acc, isOk) ==
  IF cfg.class = "TestCaseScorer" THEN acc ELSE [acc EXCEPT !.ok = isOk]

GimmeReached_OfFailures(g, acc) ==
  LET attempted == Cardinality(acc.passes) + acc.fails
  IN  IF attempted = 0 THEN g.num = 0
      ELSE acc.fails * g.den >= g.num * attempted

\* fraction >= min_pass_fraction, with the code's 0.0 when nothing was tried
GimmeReached(g, acc) ==
  LET attempted == Cardinality(acc.passes) + acc.fails
  IN  IF attempted = 0 THEN g.num = 0
      ELSE Cardinality(acc.passes) * g.den >= g.num * attempted

larger(m, n) == IF m >= n THEN m ELSE n
smaller(m, n) == IF m <= n THEN m ELSE n

Floored_Replaced(cfg, acc) ==
  IF cfg.gimme # NoGimme /\ GimmeReached(cfg.gimme, acc)
  THEN cfg.gimme.points
  ELSE acc.raw

Floored(cfg, acc) ==
  IF cfg.gimme # NoGimme /\ GimmeReached(cfg.gimme, acc)
  THEN larger(acc.raw, cfg.gimme.points)
  ELSE acc.raw

Pay(earned, possible, extra) ==
  [earned |-> earned, possible |-> possible, extra |-> extra]

CaseContribution_Uncapped(cfg, acc) ==
  Pay(Floored(cfg, acc), cfg.possible, acc.extra)

CaseContribution(cfg, acc) ==
  Pay(smaller(Floored(cfg, acc), cfg.possible), cfg.possible, acc.extra)

AllOrNothingContribution(cfg, acc) ==
  Pay(IF acc.ok THEN cfg.possible ELSE 0, cfg.possible,
      IF acc.ok THEN cfg.extra ELSE 0)

CleanRunContribution(cfg, acc) ==
  LET qualifies == /\ cfg.requireOk => acc.ok
                   /\ acc.errs <= cfg.maxErrors
  IN  Pay(IF qualifies THEN cfg.possible ELSE 0, cfg.possible,
          IF qualifies THEN cfg.extra ELSE 0)

contribution(cfg, acc) ==
  CASE cfg.class = "TestCaseScorer" -> CaseContribution(cfg, acc)
    [] cfg.class = "AllOrNothingScorer" -> AllOrNothingContribution(cfg, acc)
    [] cfg.class = "CleanRunScorer" -> CleanRunContribution(cfg, acc)

Contributions == [earned : Nat, possible : Nat, extra : Nat]
==============================================================================
