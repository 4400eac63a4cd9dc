--------------------------- MODULE Pipeline_proofs ---------------------------
(***************************************************************************)
(* Proofs about Scoring and Pipeline, for every set of steps and scorers   *)
(* and every bound: what a scorer contributes, the type invariant, the     *)
(* shape of the score, that a call implements GradeSheet, what a step is   *)
(* fed, and what a packet changes in a score.                              *)
(***************************************************************************)
EXTENDS Pipeline, FiniteSetTheorems, TLAPS

------------------------------------------------------------------------------
(* The scorers: what they do for every configuration, accumulator and packet. *)

\* The class of a configuration decides which fields it has.
LEMMA ConfigCases ==
  ASSUME NEW cfg \in ScorerConfigs
  PROVE  /\ cfg.possible \in Nat
         /\ \/ cfg.class = "TestCaseScorer" /\ cfg \in CaseConfigs
            \/ cfg.class = "AllOrNothingScorer" /\ cfg \in AllOrNothingConfigs
            \/ cfg.class = "CleanRunScorer" /\ cfg \in CleanRunConfigs
<1>1. CASE cfg \in CaseConfigs
  BY <1>1 DEF CaseConfigs
<1>2. CASE cfg \in AllOrNothingConfigs
  BY <1>2 DEF AllOrNothingConfigs
<1>3. CASE cfg \in CleanRunConfigs
  BY <1>3 DEF CleanRunConfigs
<1>4. QED
  BY <1>1, <1>2, <1>3 DEF ScorerConfigs

LEMMA FreshType == Fresh \in Accumulators
BY DEF Fresh, Accumulators

\* A packet keeps the accumulator well formed (score.py, the on_packet methods).
LEMMA OnPacketType ==
  ASSUME NEW cfg \in ScorerConfigs, NEW a \in Accumulators, NEW p \in Packets
  PROVE  on_packet(cfg, a, p) \in Accumulators
<1>1. CASE cfg.class = "TestCaseScorer" /\ p.what = "TestSuccess"
  <2>1. cfg \in CaseConfigs
    BY <1>1, ConfigCases
  <2>2. p.case \in Cases
    BY <1>1 DEF Packets
  <2>3. cfg.points[p.case] \in Nat /\ cfg.bonus[p.case] \in Nat
    BY <2>1, <2>2 DEF CaseConfigs
  <2>4. RecordPass(cfg, a, p.case) \in Accumulators
    <3> DEFINE n == p.case
               raw == IF n \in a.passes THEN a.raw ELSE a.raw + cfg.points[n]
    <3>1. a.passes \cup {n} \in SUBSET Cases
      BY <2>2 DEF Accumulators
    <3>2. raw \in Nat /\ a.extra + cfg.bonus[n] \in Nat
      BY <2>3 DEF Accumulators
    <3>3. RecordPass(cfg, a, n)
            = [a EXCEPT !.passes = a.passes \cup {n}, !.raw = raw,
                        !.extra = a.extra + cfg.bonus[n]]
      BY DEF RecordPass
    <3> HIDE DEF n, raw
    <3>4. RecordPass(cfg, a, n) \in Accumulators
      BY <3>1, <3>2, <3>3 DEF Accumulators
    <3>5. QED
      BY <3>4 DEF n
  <2>5. QED
    BY <1>1, <2>4 DEF on_packet
<1>2. CASE cfg.class = "TestCaseScorer" /\ p.what = "TestFailure"
  <2>1. RecordFail(a) \in Accumulators
    BY DEF RecordFail, Accumulators
  <2>2. QED
    BY <1>2, <2>1 DEF on_packet
<1>3. CASE cfg.class = "CleanRunScorer" /\ is_err(p)
  <2>1. [a EXCEPT !.errs = @ + 1] \in Accumulators
    BY DEF Accumulators
  <2>2. QED
    BY <1>3, <2>1 DEF on_packet
<1>4. QED
  BY <1>1, <1>2, <1>3 DEF on_packet

LEMMA OnCompleteType ==
  ASSUME NEW cfg \in ScorerConfigs, NEW a \in Accumulators, NEW isOk \in BOOLEAN
  PROVE  on_complete(cfg, a, isOk) \in Accumulators
BY DEF on_complete, Accumulators

\* What a scorer awards: within its full marks, whatever the accumulator holds.
THEOREM ContributionBounded ==
  ASSUME NEW cfg \in ScorerConfigs, NEW a \in Accumulators
  PROVE  /\ contribution(cfg, a) \in Contributions
         /\ contribution(cfg, a).possible = cfg.possible
         /\ contribution(cfg, a).earned <= cfg.possible
<1>0. cfg.possible \in Nat
  BY ConfigCases
<1>1. CASE cfg.class = "TestCaseScorer"
  <2>1. cfg.gimme = NoGimme \/ cfg.gimme.points \in Nat
    BY <1>1, ConfigCases DEF CaseConfigs
  <2>2. a.raw \in Nat /\ a.extra \in Nat
    BY DEF Accumulators
  <2>3. Floored(cfg, a) \in Nat
    BY <2>1, <2>2 DEF Floored, larger
  <2>4. /\ smaller(Floored(cfg, a), cfg.possible) \in Nat
        /\ smaller(Floored(cfg, a), cfg.possible) <= cfg.possible
    BY <1>0, <2>3 DEF smaller
  <2>5. contribution(cfg, a) = CaseContribution(cfg, a)
    BY <1>1 DEF contribution
  <2>6. QED
    BY <1>0, <2>2, <2>4, <2>5 DEF CaseContribution, Pay, Contributions
<1>2. CASE cfg.class = "AllOrNothingScorer"
  <2>1. cfg.extra \in Nat
    BY <1>2, ConfigCases DEF AllOrNothingConfigs
  <2>2. contribution(cfg, a) = AllOrNothingContribution(cfg, a)
    BY <1>2 DEF contribution
  <2>3. QED
    BY <1>0, <2>1, <2>2 DEF AllOrNothingContribution, Pay, Contributions
<1>3. CASE cfg.class = "CleanRunScorer"
  <2>1. cfg.extra \in Nat
    BY <1>3, ConfigCases DEF CleanRunConfigs
  <2>2. contribution(cfg, a) = CleanRunContribution(cfg, a)
    BY <1>3 DEF contribution
  <2>3. QED
    BY <1>0, <2>1, <2>2 DEF CleanRunContribution, Pay, Contributions
<1>4. QED
  BY <1>1, <1>2, <1>3, ConfigCases

------------------------------------------------------------------------------
(* The score of a call. *)

\* Where the loop stands; when no call has one to show, the score is empty.
PositionInv ==
  /\ pos <= Len(steps) + 1
  /\ pc # "idle" => pos >= 1
  /\ pc = "step" => pos <= Len(steps)
  /\ pc = "idle" /\ outcome # "returned" => score = <<>>

\* The inductive invariant.  SheetSoFar alone is not inductive: that the next
\* line continues the sheet needs the place of the loop, and its worth needs
\* the types of accumulators and configurations.
SheetInv == TypeOK /\ PositionInv /\ SheetSoFar /\ CappedEarned

\* What one pass over the step at pos does to the score, driven or skipped.
Enters(pay) == score' = IF hasScorer THEN Append(score, Line(pos, pay)) ELSE score

Worthy(pay) ==
  /\ pay \in Contributions
  /\ pay.possible = Config[scorer].possible
  /\ pay.earned <= pay.possible

------------------------------------------------------------------------------
LEMMA ScorerOfPosition ==
  ASSUME TypeOK, hasScorer
  PROVE  /\ pos \in 1..Len(steps)
         /\ steps[pos] \in Steps
         /\ scorer \in Scorers
         /\ Config[scorer] \in ScorerConfigs
         /\ acc[scorer] \in Accumulators
<1>1. pos \in 1..Len(steps) /\ scorer # NoScorer
  BY DEF hasScorer, Scored, scorer
<1>2. steps[pos] \in Steps
  BY <1>1 DEF TypeOK
<1>3. scorer \in Scorers
  BY <1>1, <1>2, ScorerAssumption DEF scorer
<1>4. QED
  BY <1>1, <1>2, <1>3, ScorerAssumption DEF TypeOK

\* A contribution read off any accumulator is worth entering.
LEMMA ContributionWorthy ==
  ASSUME TypeOK, hasScorer, NEW a \in Accumulators
  PROVE  Worthy(contribution(Config[scorer], a))
BY ScorerOfPosition, ContributionBounded DEF Worthy

\* Both returns enter the step at pos, keep the accumulators typed and the
\* captured output too.
LEMMA CompleteEnters ==
  ASSUME TypeOK, NEW isOk \in BOOLEAN, NEW buffers \in [Formats -> Nat],
         Complete(isOk, buffers)
  PROVE  /\ \E pay : Enters(pay) /\ (hasScorer => Worthy(pay))
         /\ acc' \in [Scorers -> Accumulators]
         /\ shown' \in [Scorers -> [Formats -> Nat]]
<1>1. CASE hasScorer
  <2> DEFINE done == on_complete(Config[scorer], acc[scorer], isOk)
  <2>1. /\ acc' = [acc EXCEPT ![scorer] = done]
        /\ score' = Append(score, Line(pos, contribution(Config[scorer], done)))
        /\ shown' = IF NothingCaptured(buffers) THEN shown
                    ELSE [shown EXCEPT ![scorer] = buffers]
    BY <1>1 DEF Complete, Show
  <2>2. done \in Accumulators
    BY <1>1, ScorerOfPosition, OnCompleteType
  <2>3. Worthy(contribution(Config[scorer], done))
    BY <1>1, <2>2, ContributionWorthy
  <2>4. Enters(contribution(Config[scorer], done))
    BY <1>1, <2>1 DEF Enters
  <2>5. acc' \in [Scorers -> Accumulators]
    BY <2>1, <2>2 DEF TypeOK
  <2>6. shown' \in [Scorers -> [Formats -> Nat]]
    BY <2>1 DEF TypeOK
  <2>7. QED
    BY <2>3, <2>4, <2>5, <2>6
<1>2. CASE ~hasScorer
  <2>1. UNCHANGED <<acc, score, shown>>
    BY <1>2 DEF Complete
  <2>2. Enters(Line(0, 0))
    BY <1>2, <2>1 DEF Enters
  <2>3. QED
    BY <1>2, <2>1, <2>2 DEF TypeOK
<1>3. QED
  BY <1>1, <1>2

\* A buffer set stays one when a packet is captured.
LEMMA CaptureType ==
  ASSUME NEW buffers \in [Formats -> Nat], NEW rendered
  PROVE  Capture(buffers, rendered) \in [Formats -> Nat]
BY DEF Capture

\* Entering the step at pos and moving on keeps the sheet's shape.
LEMMA EnterKeepsSheet ==
  ASSUME SheetInv, pc # "idle", pos \in 1..Len(steps),
         NEW pay, Enters(pay), hasScorer => Worthy(pay),
         steps' = steps, pos' = pos + 1
  PROVE  score' \in Seq(Lines) /\ SheetSoFar' /\ CappedEarned'
<1> DEFINE line == Line(pos, pay)
<1>0. /\ score \in Seq(Lines)
      /\ pos \in Nat
      /\ \A a, b \in DOMAIN score : a < b => score[a].at < score[b].at
      /\ {score[k].at : k \in DOMAIN score} = {j \in Scored : j < pos}
      /\ \A k \in DOMAIN score :
           /\ score[k].step = steps[score[k].at]
           /\ score[k].pay.possible = Config[ScorerOf[score[k].step]].possible
      /\ \A k \in DOMAIN score : score[k].pay.earned <= score[k].pay.possible
  BY DEF SheetInv, SheetSoFar, CappedEarned, TypeOK
<1>1. Scored' = Scored
  BY DEF Scored
<1>2. \A j \in Scored : j \in Nat
  BY DEF Scored, SheetInv, TypeOK
<1>3. CASE hasScorer
  <2>1. score' = Append(score, line) /\ Worthy(pay)
    BY <1>3 DEF Enters
  <2>2. /\ line.at = pos
        /\ line.step = steps[pos]
        /\ line.pay = pay
        /\ line \in Lines
    BY <1>0, <1>3, <2>1, ScorerOfPosition DEF Line, Lines, Worthy, SheetInv
  <2> HIDE DEF line
  <2>3. /\ score' \in Seq(Lines)
        /\ DOMAIN score' = 1..(Len(score) + 1)
        /\ DOMAIN score = 1..Len(score)
        /\ Len(score) \in Nat
        /\ \A k \in DOMAIN score : score'[k] = score[k]
        /\ score'[Len(score) + 1] = line
    BY <1>0, <2>1, <2>2
  <2>4. \A k \in DOMAIN score : score[k].at < pos /\ score[k].at \in Nat
    BY <1>0, <1>2
  <2>5. \A a, b \in DOMAIN score' : a < b => score'[a].at < score'[b].at
    BY <1>0, <2>2, <2>3, <2>4
  <2>6. {score'[k].at : k \in DOMAIN score'} = {j \in Scored : j < pos + 1}
    <3>1. {score'[k].at : k \in DOMAIN score'}
            = {score[k].at : k \in DOMAIN score} \cup {pos}
      BY <2>2, <2>3
    <3>2. {j \in Scored : j < pos + 1} = {j \in Scored : j < pos} \cup {pos}
      <4>1. pos \in Scored
        BY <1>3 DEF hasScorer
      <4>2. \A j \in Scored : j < pos + 1 <=> j < pos \/ j = pos
        BY <1>0, <1>2
      <4>3. QED
        BY <1>0, <4>1, <4>2
    <3>3. QED
      BY <1>0, <3>1, <3>2
  <2>7. \A k \in DOMAIN score' :
          /\ score'[k].step = steps[score'[k].at]
          /\ score'[k].pay.possible = Config[ScorerOf[score'[k].step]].possible
          /\ score'[k].pay.earned <= score'[k].pay.possible
    BY <1>0, <2>1, <2>2, <2>3 DEF Worthy, scorer
  <2>8. QED
    BY <1>1, <2>3, <2>5, <2>6, <2>7 DEF SheetSoFar, CappedEarned
<1>4. CASE ~hasScorer
  <2>1. score' = score
    BY <1>4 DEF Enters
  <2>2. {j \in Scored : j < pos + 1} = {j \in Scored : j < pos}
    BY <1>0, <1>2, <1>4 DEF hasScorer
  <2>3. QED
    BY <1>0, <1>1, <2>1, <2>2 DEF SheetSoFar, CappedEarned
<1>5. QED
  BY <1>3, <1>4

------------------------------------------------------------------------------
THEOREM InitSheet == Init => SheetInv
<1> SUFFICES ASSUME Init PROVE SheetInv
  OBVIOUS
<1>1. TypeOK
  BY FreshType DEF Init, TypeOK, Blank, NotShown
<1>2. PositionInv /\ SheetSoFar /\ CappedEarned
  BY DEF Init, PositionInv, SheetSoFar, CappedEarned
<1>3. QED
  BY <1>1, <1>2 DEF SheetInv

\* A returned step moves on in the same way, whichever it returned.
LEMMA ReturnKeepsSheet ==
  ASSUME SheetInv, pc = "step", NEW isOk \in BOOLEAN,
         NEW buffers \in [Formats -> Nat], Complete(isOk, buffers),
         steps' = steps, pos' = pos + 1, UNCHANGED <<validated, outcome, calls>>,
         pc' = "skip" \/ (pc' = "step" /\ pos # Len(steps)),
         datum' \in Steps \cup {PIPELINE_START}, stop_index' \in Nat,
         yielded' = 0, captured' = Blank
  PROVE  SheetInv'
<1>0. /\ TypeOK
      /\ pos \in 1..Len(steps)
      /\ Len(steps) \in Nat
      /\ steps[pos] \in Steps
  BY DEF SheetInv, PositionInv, TypeOK
<1>1. PICK pay : Enters(pay) /\ (hasScorer => Worthy(pay))
  BY <1>0, CompleteEnters
<1>2. score' \in Seq(Lines) /\ SheetSoFar' /\ CappedEarned'
  BY <1>0, <1>1, EnterKeepsSheet
<1>3. acc' \in [Scorers -> Accumulators] /\ shown' \in [Scorers -> [Formats -> Nat]]
  BY <1>0, CompleteEnters
<1>4. TypeOK'
  BY <1>0, <1>2, <1>3 DEF TypeOK, Blank
<1>5. PositionInv'
  BY <1>0 DEF PositionInv
<1>6. QED
  BY <1>2, <1>4, <1>5 DEF SheetInv

LEMMA addKeepsSheet == ASSUME SheetInv, add PROVE SheetInv'
<1>1. PICK s \in Steps : steps' = Append(steps, s)
  BY DEF add
<1>2. /\ steps' \in Seq(Steps)
      /\ Len(steps') = Len(steps) + 1
      /\ \A j \in 1..Len(steps) : steps'[j] = steps[j]
      /\ Len(steps) \in Nat
  BY <1>1 DEF SheetInv, TypeOK
<1>3. UNCHANGED <<datum, pc, pos, stop_index, yielded, captured, score,
                  outcome, calls, acc, shown>> /\ validated' = "no"
  BY DEF add
<1>4. TypeOK'
  BY <1>2, <1>3 DEF SheetInv, TypeOK
<1>5. PositionInv' /\ CappedEarned'
  BY <1>2, <1>3 DEF SheetInv, PositionInv, CappedEarned, TypeOK
<1>6. SheetSoFar'
  <2> SUFFICES ASSUME pc # "idle" \/ outcome = "returned" PROVE SheetSoFar'
    BY <1>3 DEF SheetSoFar
  <2>1. {j \in Scored' : j < pos} = {j \in Scored : j < pos}
    <3>1. \A j \in 1..(Len(steps) + 1) : j < pos => j \in 1..Len(steps)
      BY <1>2 DEF SheetInv, PositionInv, TypeOK
    <3>2. Scored' = {j \in 1..(Len(steps) + 1) : ScorerOf[steps'[j]] # NoScorer}
      BY <1>2 DEF Scored
    <3>3. QED
      BY <1>2, <3>1, <3>2 DEF Scored
  <2>2. \A k \in DOMAIN score : score[k].at \in 1..Len(steps)
    BY DEF SheetInv, SheetSoFar, Scored
  <2>3. QED
    BY <1>2, <1>3, <2>1, <2>2 DEF SheetInv, SheetSoFar
<1>7. QED
  BY <1>4, <1>5, <1>6 DEF SheetInv

LEMMA StepKeepsSheet == ASSUME SheetInv, [Next]_vars PROVE SheetInv'
<1> USE DEF SheetInv
<1>0. /\ pos \in Nat /\ Len(steps) \in Nat
      /\ \A j \in 1..Len(steps) : steps[j] \in Steps
  BY DEF TypeOK
<1>1. CASE add
  BY <1>1, addKeepsSheet
<1>2. CASE validate_step_types
  <2>1. TypeOK'
    <3>1. validated' \in {"fits", "DeveloperException", "StaffException"}
      BY <1>2 DEF validate_step_types
    <3>2. QED
      BY <1>2, <3>1 DEF validate_step_types, TypeOK
  <2>2. PositionInv' /\ SheetSoFar' /\ CappedEarned'
    BY <1>2 DEF validate_step_types, PositionInv, SheetSoFar, CappedEarned, Scored
  <2>3. QED
    BY <2>1, <2>2
<1>3. CASE Call
  <2>1. TypeOK'
    BY <1>0, <1>3 DEF Call, TypeOK, Blank
  <2>2. PositionInv'
    <3>1. steps # <<>> => Len(steps) >= 1
      BY <1>0 DEF TypeOK
    <3>2. QED
      BY <1>0, <1>3, <3>1 DEF Call, PositionInv
  <2>3. SheetSoFar' /\ CappedEarned'
    <3>1. {j \in Scored' : j < 1} = {}
      BY <1>3 DEF Call, Scored
    <3>2. QED
      BY <1>3, <3>1 DEF Call, SheetSoFar, CappedEarned
  <2>4. QED
    BY <2>1, <2>2, <2>3
<1>4. CASE Yield
  <2>1. PICK p \in Packets, rendered \in Rendered :
          /\ acc' = IF hasScorer
                    THEN [acc EXCEPT ![scorer] = on_packet(Config[scorer], @, p)]
                    ELSE acc
          /\ captured' = Capture(captured, rendered)
    BY <1>4 DEF Yield
  <2>2. acc' \in [Scorers -> Accumulators]
    <3>1. CASE hasScorer
      <4>1. on_packet(Config[scorer], acc[scorer], p) \in Accumulators
        BY <3>1, ScorerOfPosition, OnPacketType
      <4>2. QED
        BY <2>1, <3>1, <4>1 DEF TypeOK
    <3>2. CASE ~hasScorer
      BY <2>1, <3>2 DEF TypeOK
    <3>3. QED
      BY <3>1, <3>2
  <2>3. captured' \in [Formats -> Nat]
    BY <2>1, CaptureType DEF TypeOK
  <2>4. TypeOK'
    BY <1>0, <1>4, <2>2, <2>3 DEF Yield, TypeOK, PositionInv
  <2>5. PositionInv' /\ SheetSoFar' /\ CappedEarned'
    BY <1>4 DEF Yield, PositionInv, SheetSoFar, CappedEarned, Scored
  <2>6. QED
    BY <2>4, <2>5
<1>5. CASE Raise
  <2>1. TypeOK'
    BY <1>0, <1>5 DEF Raise, TypeOK, PositionInv
  <2>2. PositionInv' /\ SheetSoFar' /\ CappedEarned'
    BY <1>5 DEF Raise, PositionInv, SheetSoFar, CappedEarned
  <2>3. QED
    BY <2>1, <2>2
<1>6. CASE ReturnOk
  <2>1. captured \in [Formats -> Nat] /\ steps[pos] \in Steps /\ stop_index \in Nat
    BY <1>0, <1>6 DEF OkDatum, ReturnOk, TypeOK, PositionInv
  <2>2. /\ pc = "step"
        /\ Complete(TRUE, captured)
        /\ steps' = steps /\ pos' = pos + 1
        /\ UNCHANGED <<validated, outcome, calls>>
        /\ pc' = "skip" \/ (pc' = "step" /\ pos # Len(steps))
        /\ datum' \in Steps \cup {PIPELINE_START} /\ stop_index' \in Nat
        /\ yielded' = 0 /\ captured' = Blank
    BY <1>6, <2>1 DEF OkDatum, ReturnOk
  <2>3. QED
    BY <2>1, <2>2, ReturnKeepsSheet
<1>7. CASE ReturnErr
  <2>1. PICK rendered \in Rendered : Complete(FALSE, Capture(captured, rendered))
    BY <1>7 DEF FirstSkipped, ReturnErr
  <2>2. Capture(captured, rendered) \in [Formats -> Nat]
    BY CaptureType DEF TypeOK
  <2>3. /\ pc = "step"
        /\ steps' = steps /\ pos' = pos + 1
        /\ UNCHANGED <<validated, outcome, calls>>
        /\ pc' = "skip"
        /\ datum' \in Steps \cup {PIPELINE_START} /\ stop_index' \in Nat
        /\ yielded' = 0 /\ captured' = Blank
    BY <1>0, <1>7 DEF FirstSkipped, ReturnErr, TypeOK
  <2>4. QED
    BY <2>1, <2>2, <2>3, ReturnKeepsSheet
<1>8. CASE Skip
  <2> DEFINE pay == contribution(Config[scorer], acc[scorer])
  <2>1. Enters(pay)
    BY <1>8 DEF Skip, EnterSkipped, Enters
  <2>2. hasScorer => Worthy(pay)
    BY ScorerOfPosition, ContributionWorthy
  <2>3. pc = "skip" /\ pos \in 1..Len(steps) /\ steps' = steps /\ pos' = pos + 1
    BY <1>0, <1>8 DEF Skip, AfterSkipped, PositionInv
  <2> HIDE DEF pay
  <2>4. score' \in Seq(Lines) /\ SheetSoFar' /\ CappedEarned'
    BY <2>1, <2>2, <2>3, EnterKeepsSheet
  <2>5. TypeOK'
    BY <1>0, <1>8, <2>4 DEF Skip, AfterSkipped, TypeOK
  <2>6. PositionInv'
    BY <1>0, <1>8, <2>3 DEF Skip, AfterSkipped, PositionInv
  <2>7. QED
    BY <2>4, <2>5, <2>6
<1>9. CASE ReturnScore
  <2>1. TypeOK'
    BY <1>9 DEF ReturnScore, TypeOK
  <2>2. PositionInv' /\ SheetSoFar' /\ CappedEarned'
    BY <1>9 DEF ReturnScore, PositionInv, SheetSoFar, CappedEarned, Scored
  <2>3. QED
    BY <2>1, <2>2
<1>10. CASE UNCHANGED vars
  BY <1>10 DEF vars, TypeOK, PositionInv, SheetSoFar, CappedEarned, Scored
<1>11. QED
  BY <1>1, <1>2, <1>3, <1>4, <1>5, <1>6, <1>7, <1>8, <1>9, <1>10
     DEF Next, Running

LEMMA SheetInvariant == Spec => []SheetInv
<1>1. SheetInv /\ [Next]_vars => SheetInv'
  BY StepKeepsSheet
<1>2. QED
  BY InitSheet, <1>1, PTL DEF Spec

\* Every reachable state of a pipeline is well typed.
THEOREM PipelineTyped == Spec => []TypeOK
<1>1. SheetInv => TypeOK
  BY DEF SheetInv
<1>2. QED
  BY SheetInvariant, <1>1, PTL

\* The score always holds one line, worth the full marks, for each scored step
\* the call has passed, whatever the steps do and however the call ends.
THEOREM PipelineEntersEveryStep == Spec => []SheetSoFar
<1>1. SheetInv => SheetSoFar
  BY DEF SheetInv
<1>2. QED
  BY SheetInvariant, <1>1, PTL

\* No line of any score earns more than its full marks.
THEOREM PipelineCapsEarned == Spec => []CappedEarned
<1>1. SheetInv => CappedEarned
  BY DEF SheetInv
<1>2. QED
  BY SheetInvariant, <1>1, PTL

------------------------------------------------------------------------------
(* The refinement of GradeSheet. *)

Phase == IF pc # "idle" THEN "grading" ELSE outcome
Expected == [j \in Scored |-> Config[ScorerOf[steps[j]]].possible]

LEMMA InitGrades == Init => Sheet!Init
<1> SUFFICES ASSUME Init PROVE Sheet!Init
  OBVIOUS
<1>1. Scored = {}
  BY DEF Init, Scored
<1>2. Expected = <<>>
  BY <1>1 DEF Expected
<1>3. QED
  BY <1>2 DEF Init, Sheet!Init, Expected

\* A pass over the step at pos is a line of the abstract sheet, or nothing.
LEMMA EnterGrades ==
  ASSUME SheetInv, pc # "idle", pc' # "idle", pos \in 1..Len(steps),
         NEW pay, Enters(pay), hasScorer => Worthy(pay), steps' = steps
  PROVE  [Sheet!Grade]_Sheet!sheetVars
<1>1. Phase = "grading" /\ Phase' = "grading" /\ Expected' = Expected
  BY DEF Phase, Expected, Scored
<1>2. CASE ~hasScorer
  <2>1. score' = score
    BY <1>2 DEF Enters
  <2>2. QED
    BY <1>1, <2>1 DEF Sheet!sheetVars, Phase, Expected
<1>3. CASE hasScorer
  <2> DEFINE line == Line(pos, pay)
  <2>1. score' = Append(score, line) /\ Worthy(pay) /\ score \in Seq(Lines)
    BY <1>3 DEF Enters, SheetInv, TypeOK
  <2>2. /\ line.at = pos
        /\ line.pay = pay
        /\ line \in Lines
    BY <1>3, <2>1, ScorerOfPosition DEF Line, Lines, Worthy, SheetInv, TypeOK
  <2> HIDE DEF line
  <2>3. score' # <<>> /\ score'[Len(score')] = line
    BY <2>1, <2>2
  <2>4. pos \in DOMAIN Expected /\ Expected[pos] = Config[scorer].possible
    BY <1>3 DEF Expected, hasScorer, scorer
  <2>5. \A j \in DOMAIN Expected : j < pos <=> j \in {score[k].at : k \in DOMAIN score}
    BY DEF Expected, SheetInv, SheetSoFar
  <2>6. Sheet!Grade
    BY <1>1, <2>1, <2>2, <2>3, <2>4, <2>5
       DEF Sheet!Grade, Sheet!Done, Worthy, Phase, Expected
  <2>7. QED
    BY <2>6
<1>4. QED
  BY <1>2, <1>3

LEMMA StepGrades == ASSUME SheetInv, [Next]_vars PROVE [Sheet!Next]_Sheet!sheetVars
<1>0. TypeOK /\ pos \in Nat /\ Len(steps) \in Nat
  BY DEF SheetInv, TypeOK
<1>1. CASE add
  <2>1. Expected' \in [DOMAIN Expected' -> Nat]
    <3>1. steps' \in Seq(Steps)
      BY <1>0, <1>1 DEF add, TypeOK
    <3>2. \A j \in Scored' : ScorerOf[steps'[j]] \in Scorers
      BY <3>1, ScorerAssumption DEF Scored
    <3>3. \A s \in Scorers : Config[s].possible \in Nat
      BY ScorerAssumption, ConfigCases
    <3>4. QED
      BY <3>2, <3>3 DEF Expected
  <2>2. Sheet!Revise
    BY <1>0, <1>1, <2>1 DEF add, Sheet!Revise, Expected, TypeOK
  <2>3. QED
    BY <2>2 DEF Sheet!Next
<1>2. CASE validate_step_types
  BY <1>2 DEF validate_step_types, Sheet!sheetVars, Scored
<1>3. CASE Call
  <2>1. Sheet!Begin
    BY <1>0, <1>3 DEF Call, Sheet!Begin, Scored, TypeOK
  <2>2. QED
    BY <2>1 DEF Sheet!Next
<1>4. CASE Yield
  BY <1>4 DEF Yield, Sheet!sheetVars, Scored
<1>5. CASE Raise
  <2>1. Sheet!Fail
    BY <1>5 DEF Raise, Sheet!Fail, Scored
  <2>2. QED
    BY <2>1 DEF Sheet!Next
<1>6. CASE ReturnOk
  <2>1. captured \in [Formats -> Nat] /\ Complete(TRUE, captured)
    BY <1>0, <1>6 DEF OkDatum, ReturnOk, TypeOK
  <2>2. PICK pay : Enters(pay) /\ (hasScorer => Worthy(pay))
    BY <1>0, <2>1, CompleteEnters
  <2>3. pc # "idle" /\ pc' # "idle" /\ pos \in 1..Len(steps) /\ steps' = steps
    BY <1>0, <1>6 DEF OkDatum, ReturnOk, SheetInv, PositionInv
  <2>4. QED
    BY <2>2, <2>3, EnterGrades DEF Sheet!Next
<1>7. CASE ReturnErr
  <2>1. PICK rendered \in Rendered : Complete(FALSE, Capture(captured, rendered))
    BY <1>7 DEF FirstSkipped, ReturnErr
  <2>2. Capture(captured, rendered) \in [Formats -> Nat]
    BY <1>0, CaptureType DEF TypeOK
  <2>3. PICK pay : Enters(pay) /\ (hasScorer => Worthy(pay))
    BY <1>0, <2>1, <2>2, CompleteEnters
  <2>4. pc # "idle" /\ pc' # "idle" /\ pos \in 1..Len(steps) /\ steps' = steps
    BY <1>0, <1>7 DEF FirstSkipped, ReturnErr, SheetInv, PositionInv
  <2>5. QED
    BY <2>3, <2>4, EnterGrades DEF Sheet!Next
<1>8. CASE Skip
  <2>1. Enters(contribution(Config[scorer], acc[scorer]))
    BY <1>8 DEF Skip, EnterSkipped, Enters
  <2>2. hasScorer => Worthy(contribution(Config[scorer], acc[scorer]))
    BY <1>0, ScorerOfPosition, ContributionWorthy
  <2>3. pc # "idle" /\ pc' # "idle" /\ pos \in 1..Len(steps) /\ steps' = steps
    BY <1>0, <1>8 DEF Skip, SheetInv, PositionInv
  <2>4. QED
    BY <2>1, <2>2, <2>3, EnterGrades DEF Sheet!Next
<1>9. CASE ReturnScore
  <2>1. {j \in Scored : j < pos} = Scored
    BY <1>0, <1>9 DEF ReturnScore, Scored
  <2>2. {score[k].at : k \in DOMAIN score} = DOMAIN Expected
    BY <1>9, <2>1 DEF ReturnScore, Expected, SheetInv, SheetSoFar
  <2>3. Sheet!HandOver
    BY <1>9, <2>2 DEF ReturnScore, Sheet!HandOver, Sheet!Done, Expected, Scored
  <2>4. QED
    BY <2>3 DEF Sheet!Next
<1>10. CASE UNCHANGED vars
  BY <1>10 DEF vars, Sheet!sheetVars, Scored
<1>11. QED
  BY <1>1, <1>2, <1>3, <1>4, <1>5, <1>6, <1>7, <1>8, <1>9, <1>10
     DEF Next, Running

\* A pipeline grades by the sheet: it fills one line per scored step, in order
\* and within its full marks, and hands over complete sheets only.
THEOREM PipelineGradesBySheet == Spec => GradesBySheet
<1>1. SheetInv /\ [Next]_vars => [Sheet!Next]_Sheet!sheetVars
  BY StepGrades
<1>2. QED
  BY InitGrades, SheetInvariant, <1>1, PTL DEF Spec, GradesBySheet, Sheet!Spec

------------------------------------------------------------------------------
(* The datum between steps. *)

\* What the verdict of validate_step_types still says of the steps: adding a
\* step withdraws it.
VerdictInv == validated = "fits" => ChainFits

\* Until the first step of the first call has returned nothing replaces the
\* datum the pipeline was made with.
FirstDatumInv ==
  /\ calls \in Nat
  /\ calls = 0 => pc = "idle" /\ datum = PIPELINE_START
  /\ calls = 1 /\ pc = "step" /\ pos = 1 => datum = PIPELINE_START

ChainInv == SheetInv /\ ChainedDatum /\ VerdictInv /\ FirstDatumInv

LEMMA StepKeepsFirst == ASSUME ChainInv, [Next]_vars PROVE FirstDatumInv'
<1>0. FirstDatumInv /\ pos \in Nat
  BY DEF ChainInv, SheetInv, TypeOK
<1>a. pc = "step" => pos >= 1
  BY DEF ChainInv, SheetInv, PositionInv
<1>1. CASE add \/ validate_step_types
  BY <1>0, <1>1 DEF add, validate_step_types, FirstDatumInv
<1>2. CASE Call
  BY <1>0, <1>2 DEF Call, FirstDatumInv
<1>3. CASE Yield \/ Raise
  BY <1>0, <1>3 DEF Yield, Raise, FirstDatumInv
<1>4. CASE ReturnOk
  BY <1>0, <1>a, <1>4 DEF ReturnOk, FirstDatumInv
<1>5. CASE ReturnErr \/ Skip \/ ReturnScore
  BY <1>0, <1>5 DEF ReturnErr, Skip, ReturnScore, FirstDatumInv
<1>6. CASE UNCHANGED vars
  BY <1>0, <1>6 DEF vars, FirstDatumInv
<1>7. QED
  BY <1>1, <1>2, <1>3, <1>4, <1>5, <1>6 DEF Next, Running

LEMMA StepKeepsChain == ASSUME ChainInv, [Next]_vars PROVE ChainedDatum' /\ VerdictInv'
<1>0. /\ TypeOK /\ PositionInv /\ ChainedDatum /\ VerdictInv
      /\ pos \in Nat
  BY DEF ChainInv, SheetInv, TypeOK
<1>1. CASE add
  BY <1>0, <1>1 DEF add, ChainedDatum, VerdictInv
<1>2. CASE validate_step_types
  BY <1>0, <1>2 DEF validate_step_types, ChainedDatum, VerdictInv, ChainFits
<1>3. CASE Call
  BY <1>0, <1>3 DEF Call, ChainedDatum, VerdictInv, ChainFits
<1>4. CASE Yield
  BY <1>0, <1>4 DEF Yield, ChainedDatum, VerdictInv, ChainFits
<1>5. CASE Raise
  BY <1>0, <1>5 DEF Raise, ChainedDatum, VerdictInv, ChainFits
<1>6. CASE ReturnOk
  <2>1. datum' = steps[pos] /\ pos' = pos + 1 /\ UNCHANGED <<steps, validated>>
    BY <1>6 DEF ReturnOk, OkDatum
  <2>2. ChainedDatum'
    BY <1>0, <2>1 DEF ChainedDatum
  <2>3. QED
    BY <1>0, <2>1, <2>2 DEF VerdictInv, ChainFits
<1>7. CASE ReturnErr
  BY <1>0, <1>7 DEF ReturnErr, ChainedDatum, VerdictInv, ChainFits
<1>8. CASE Skip
  BY <1>0, <1>8 DEF Skip, ChainedDatum, VerdictInv, ChainFits
<1>9. CASE ReturnScore
  BY <1>0, <1>9 DEF ReturnScore, ChainedDatum, VerdictInv, ChainFits
<1>10. CASE UNCHANGED vars
  BY <1>0, <1>10 DEF vars, ChainedDatum, VerdictInv, ChainFits
<1>11. QED
  BY <1>1, <1>2, <1>3, <1>4, <1>5, <1>6, <1>7, <1>8, <1>9, <1>10
     DEF Next, Running

LEMMA ChainInvariant == Spec => []ChainInv
<1>1. Init => ChainedDatum /\ VerdictInv /\ FirstDatumInv
  BY DEF Init, ChainedDatum, VerdictInv, FirstDatumInv
<1>2. ChainInv /\ [Next]_vars => ChainInv'
  BY StepKeepsChain, StepKeepsFirst, StepKeepsSheet DEF ChainInv
<1>3. Init => ChainInv
  BY <1>1, InitSheet DEF ChainInv
<1>4. QED
  BY <1>2, <1>3, PTL DEF Spec

\* Every step but the first is fed what the step just before it returned in
\* this call, however earlier calls ended.
THEOREM PipelineChainsDatum == Spec => []ChainedDatum
<1>1. ChainInv => ChainedDatum
  BY DEF ChainInv
<1>2. QED
  BY ChainInvariant, <1>1, PTL

\* Whatever steps validate_step_types accepted, and however often they are
\* called, a step driven with a type it does not take is the first of its call,
\* and not one of the first call that got another datum than PIPELINE_START.
THEOREM ValidatedPipelineFits == Spec => []ValidatedRunFits
<1>1. ASSUME ChainInv PROVE ValidatedRunFits
  <2>0. /\ pos \in Nat /\ (pc = "step" => pos >= 1)
        /\ pc = "step" /\ pos = 1 /\ calls = 1 => datum = PIPELINE_START
    BY <1>1 DEF ChainInv, SheetInv, TypeOK, PositionInv, FirstDatumInv
  <2> SUFFICES ASSUME validated = "fits", pc = "step", pos > 1
               PROVE  ValidOutput[datum] \in ValidInputs[steps[pos]]
    BY <2>0 DEF ValidatedRunFits
  <2>1. pos \in 2..Len(steps) /\ Len(steps) \in Nat
    BY <1>1 DEF ChainInv, SheetInv, TypeOK, PositionInv
  <2>2. datum = steps[pos - 1] /\ ChainFits
    BY <1>1 DEF ChainInv, ChainedDatum, VerdictInv
  <2>3. pos - 1 \in 1..(Len(steps) - 1) /\ (pos - 1) + 1 = pos
    BY <2>1
  <2>4. is_follow(steps[pos - 1], steps[(pos - 1) + 1])
    BY <2>2, <2>3 DEF ChainFits
  <2>5. QED
    BY <2>2, <2>3, <2>4 DEF is_follow
<1>2. QED
  BY ChainInvariant, <1>1, PTL

------------------------------------------------------------------------------
(* What one packet changes in what a scorer would award. *)

\* Only finitely many cases are recorded, so that their number means something.
FiniteInv == \A s \in Scorers : IsFiniteSet(acc[s].passes)

WorthInv == SheetInv /\ FiniteInv

\* A pass added to p passes and f failures keeps the fraction at or above
\* num/den (score.py, the gimme floor): were num > den, it could only be
\* reached by nothing at all.
LEMMA PassKeepsFraction ==
  ASSUME NEW p \in Nat, NEW f \in Nat, NEW num \in Nat, NEW den \in Nat,
         p + f > 0, p * den >= num * (p + f)
  PROVE  (p + 1) * den >= num * (p + 1 + f)
<1>1. num * (p + f) = num * p + num * f /\ num * f \in Nat /\ num * p \in Nat
  OBVIOUS
<1>2. num * (p + 1 + f) = num * (p + f) + num
  OBVIOUS
<1>3. (p + 1) * den = p * den + den
  OBVIOUS
<1>4. CASE den >= num
  BY <1>2, <1>3, <1>4
<1>5. CASE den < num
  <2>1. num = den + 1 + (num - den - 1) /\ num - den - 1 \in Nat
    BY <1>5
  <2>2. PICK d \in Nat : num = den + 1 + d
    BY <2>1
  <2>3. num * p = p * den + p + d * p
    BY <2>2
  <2>4. d * p \in Nat
    BY <2>2
  <2>5. p = 0
    BY <1>1, <2>3, <2>4
  <2>6. num * f >= f
    BY <2>2
  <2>7. QED
    BY <1>1, <2>5, <2>6
<1>6. QED
  BY <1>4, <1>5

\* A failure more keeps it below: what is reached with the failure was reached
\* without it.
LEMMA FailureLowersFraction ==
  ASSUME NEW p \in Nat, NEW f \in Nat, NEW num \in Nat, NEW den \in Nat,
         p * den >= num * (p + (f + 1))
  PROVE  p * den >= num * (p + f)
<1>1. num * (p + (f + 1)) = num * (p + f) + num
  OBVIOUS
<1>2. num * (p + f) \in Nat /\ p * den \in Nat
  OBVIOUS
<1>3. QED
  BY <1>1, <1>2

LEMMA GimmeTyped ==
  ASSUME NEW cfg \in CaseConfigs, cfg.gimme # NoGimme
  PROVE  cfg.gimme.num \in Nat /\ cfg.gimme.den \in Nat /\ cfg.gimme.points \in Nat
BY DEF CaseConfigs

LEMMA PassKeepsGimme ==
  ASSUME NEW cfg \in CaseConfigs, cfg.gimme # NoGimme,
         NEW a \in Accumulators, IsFiniteSet(a.passes), NEW n \in Cases,
         GimmeReached(cfg.gimme, a)
  PROVE  GimmeReached(cfg.gimme, RecordPass(cfg, a, n))
<1> DEFINE b == RecordPass(cfg, a, n)
           p == Cardinality(a.passes)
           q == Cardinality(b.passes)
           f == a.fails
           num == cfg.gimme.num
           den == cfg.gimme.den
<1>1. b.passes = a.passes \cup {n} /\ b.fails = f
  BY DEF RecordPass, Accumulators
<1>2. p \in Nat /\ (q = p \/ q = p + 1)
  <2>1. p \in Nat
    BY FS_CardinalityType
  <2>2. CASE n \in a.passes
    BY <1>1, <2>1, <2>2
  <2>3. CASE n \notin a.passes
    BY <1>1, <2>1, <2>3, FS_AddElement
  <2>4. QED
    BY <2>1, <2>2, <2>3
<1>3. num \in Nat /\ den \in Nat /\ f \in Nat
  BY GimmeTyped DEF Accumulators
<1>4. IF p + f = 0 THEN num = 0 ELSE p * den >= num * (p + f)
  BY DEF GimmeReached
<1>5. GimmeReached(cfg.gimme, b)
        <=> IF q + f = 0 THEN num = 0 ELSE q * den >= num * (q + f)
  BY <1>1 DEF GimmeReached
<1> HIDE DEF b, p, q, f, num, den
<1>6. CASE q = p
  BY <1>4, <1>5, <1>6 DEF b
<1>7. CASE q = p + 1
  <2>1. q + f # 0
    BY <1>2, <1>3, <1>7
  <2>2. CASE p + f = 0
    <3>1. num = 0 /\ q * den >= 0
      BY <1>2, <1>3, <1>4, <1>7, <2>2
    <3>2. num * (q + f) = 0
      BY <1>2, <1>3, <1>7, <3>1
    <3>3. QED
      BY <1>5, <2>1, <3>1, <3>2 DEF b
  <2>3. CASE p + f # 0
    <3>1. p + f > 0 /\ p * den >= num * (p + f)
      BY <1>2, <1>3, <1>4, <2>3
    <3>2. (p + 1) * den >= num * (p + 1 + f)
      BY <1>2, <1>3, <3>1, PassKeepsFraction
    <3>3. QED
      BY <1>5, <1>7, <2>1, <3>2 DEF b
  <2>4. QED
    BY <2>2, <2>3
<1>8. QED
  BY <1>2, <1>6, <1>7 DEF b

LEMMA FailureKeepsGimme ==
  ASSUME NEW cfg \in CaseConfigs, cfg.gimme # NoGimme,
         NEW a \in Accumulators, IsFiniteSet(a.passes),
         GimmeReached(cfg.gimme, RecordFail(a))
  PROVE  GimmeReached(cfg.gimme, a)
<1> DEFINE p == Cardinality(a.passes)
           f == a.fails
           num == cfg.gimme.num
           den == cfg.gimme.den
<1>1. RecordFail(a).passes = a.passes /\ RecordFail(a).fails = f + 1
  BY DEF RecordFail, Accumulators
<1>2. p \in Nat /\ num \in Nat /\ den \in Nat /\ f \in Nat
  BY GimmeTyped, FS_CardinalityType DEF Accumulators
<1>3. IF p + (f + 1) = 0 THEN num = 0 ELSE p * den >= num * (p + (f + 1))
  BY <1>1 DEF GimmeReached
<1>4. GimmeReached(cfg.gimme, a)
        <=> IF p + f = 0 THEN num = 0 ELSE p * den >= num * (p + f)
  BY DEF GimmeReached
<1> HIDE DEF p, f, num, den
<1>5. p * den >= num * (p + (f + 1))
  BY <1>2, <1>3
<1>6. p * den >= num * (p + f)
  BY <1>2, <1>5, FailureLowersFraction
<1>7. CASE p + f = 0
  <2>1. p = 0 /\ f = 0
    BY <1>2, <1>7
  <2>2. p * den = 0 /\ num * (p + (f + 1)) = num
    BY <1>2, <2>1
  <2>3. num = 0
    BY <1>2, <1>5, <2>2
  <2>4. QED
    BY <1>4, <1>7, <2>3
<1>8. QED
  BY <1>4, <1>6, <1>7

\* What a TestCaseScorer awards grows with the points, the extra credit and
\* whether the floor is reached.
LEMMA CaseContributionGrows ==
  ASSUME NEW cfg \in CaseConfigs, NEW a \in Accumulators, NEW b \in Accumulators,
         b.raw >= a.raw, b.extra >= a.extra,
         cfg.gimme # NoGimme /\ GimmeReached(cfg.gimme, a)
           => GimmeReached(cfg.gimme, b)
  PROVE  AtLeast(contribution(cfg, b), contribution(cfg, a))
<1>1. /\ a.raw \in Nat /\ b.raw \in Nat
      /\ a.extra \in Nat /\ b.extra \in Nat
      /\ cfg.possible \in Nat
      /\ cfg.gimme # NoGimme => cfg.gimme.points \in Nat
  BY GimmeTyped DEF Accumulators, CaseConfigs
<1>2. /\ Floored(cfg, a) \in Nat
      /\ Floored(cfg, b) \in Nat
      /\ Floored(cfg, b) >= Floored(cfg, a)
  BY <1>1 DEF Floored, larger
<1>3. smaller(Floored(cfg, b), cfg.possible) >= smaller(Floored(cfg, a), cfg.possible)
  BY <1>1, <1>2 DEF smaller
<1>4. /\ contribution(cfg, a) = CaseContribution(cfg, a)
      /\ contribution(cfg, b) = CaseContribution(cfg, b)
  BY DEF contribution, CaseConfigs
<1>5. QED
  BY <1>3, <1>4 DEF CaseContribution, Pay, AtLeast

\* A packet that records no failure and no error never lowers the award.
LEMMA PassPays ==
  ASSUME NEW cfg \in ScorerConfigs, NEW a \in Accumulators,
         IsFiniteSet(a.passes), NEW p \in Packets,
         ~(on_packet(cfg, a, p).fails > a.fails),
         ~(on_packet(cfg, a, p).errs > a.errs)
  PROVE  AtLeast(contribution(cfg, on_packet(cfg, a, p)), contribution(cfg, a))
<1> DEFINE b == on_packet(cfg, a, p)
<1>1. b \in Accumulators
  BY OnPacketType
<1>2. CASE cfg.class = "TestCaseScorer" /\ p.what = "TestSuccess"
  <2>1. cfg \in CaseConfigs /\ p.case \in Cases
    BY <1>2, ConfigCases DEF Packets
  <2>2. b = RecordPass(cfg, a, p.case)
    BY <1>2 DEF on_packet
  <2>3. cfg.points[p.case] \in Nat /\ cfg.bonus[p.case] \in Nat
    BY <2>1 DEF CaseConfigs
  <2>4. a.raw \in Nat /\ a.extra \in Nat
    BY DEF Accumulators
  <2>5. b.raw >= a.raw /\ b.extra >= a.extra
    <3>1. b.raw = IF p.case \in a.passes THEN a.raw ELSE a.raw + cfg.points[p.case]
      BY <2>2 DEF RecordPass, Accumulators
    <3>2. b.extra = a.extra + cfg.bonus[p.case]
      BY <2>2 DEF RecordPass, Accumulators
    <3> HIDE DEF b
    <3>3. QED
      BY <2>3, <2>4, <3>1, <3>2
  <2>6. cfg.gimme # NoGimme /\ GimmeReached(cfg.gimme, a) => GimmeReached(cfg.gimme, b)
    BY <2>1, <2>2, PassKeepsGimme
  <2>7. QED
    BY <1>1, <2>1, <2>5, <2>6, CaseContributionGrows
<1>3. CASE cfg.class = "TestCaseScorer" /\ p.what = "TestFailure"
  <2>1. b.fails = a.fails + 1 /\ a.fails \in Nat
    BY <1>3 DEF on_packet, RecordFail, Accumulators
  <2>2. QED
    BY <2>1
<1>4. CASE cfg.class = "CleanRunScorer" /\ is_err(p)
  <2>1. b.errs = a.errs + 1 /\ a.errs \in Nat
    BY <1>4 DEF on_packet, Accumulators
  <2>2. QED
    BY <2>1
<1>5. CASE b = a
  <2>1. contribution(cfg, a).earned \in Nat /\ contribution(cfg, a).extra \in Nat
    BY ContributionBounded DEF Contributions
  <2>2. QED
    BY <1>5, <2>1 DEF AtLeast
<1>6. QED
  BY <1>2, <1>3, <1>4, <1>5 DEF on_packet

\* A packet that records a failure or an error never raises it.
LEMMA FailureCosts ==
  ASSUME NEW cfg \in ScorerConfigs, NEW a \in Accumulators,
         IsFiniteSet(a.passes), NEW p \in Packets,
         \/ on_packet(cfg, a, p).fails > a.fails
         \/ on_packet(cfg, a, p).errs > a.errs
  PROVE  AtLeast(contribution(cfg, a), contribution(cfg, on_packet(cfg, a, p)))
<1> DEFINE b == on_packet(cfg, a, p)
<1>0. a.fails \in Nat /\ a.errs \in Nat /\ a.raw \in Nat /\ a.extra \in Nat
  BY DEF Accumulators
<1>1. b \in Accumulators
  BY OnPacketType
<1>2. CASE cfg.class = "TestCaseScorer" /\ p.what = "TestSuccess"
  <2>1. b.fails = a.fails /\ b.errs = a.errs
    BY <1>2 DEF on_packet, RecordPass, Accumulators
  <2>2. QED
    BY <1>0, <2>1
<1>3. CASE cfg.class = "TestCaseScorer" /\ p.what = "TestFailure"
  <2>1. cfg \in CaseConfigs
    BY <1>3, ConfigCases
  <2>2. b = RecordFail(a)
    BY <1>3 DEF on_packet
  <2>3. b.raw = a.raw /\ b.extra = a.extra
    BY <2>2 DEF RecordFail, Accumulators
  <2>4. cfg.gimme # NoGimme /\ GimmeReached(cfg.gimme, b) => GimmeReached(cfg.gimme, a)
    BY <2>1, <2>2, FailureKeepsGimme
  <2>5. a.raw >= b.raw /\ a.extra >= b.extra
    BY <1>0, <2>3
  <2>6. QED
    BY <1>1, <2>1, <2>4, <2>5, CaseContributionGrows
<1>4. CASE cfg.class = "CleanRunScorer" /\ is_err(p)
  <2>1. b = [a EXCEPT !.errs = @ + 1]
    BY <1>4 DEF on_packet
  <2>2. b.errs = a.errs + 1 /\ b.ok = a.ok
    BY <2>1 DEF Accumulators
  <2>3. cfg.possible \in Nat /\ cfg.extra \in Nat /\ cfg.maxErrors \in Nat
    BY <1>4, ConfigCases DEF CleanRunConfigs
  <2>4. /\ contribution(cfg, a) = CleanRunContribution(cfg, a)
        /\ contribution(cfg, b) = CleanRunContribution(cfg, b)
    BY <1>4 DEF contribution
  <2>5. b.errs <= cfg.maxErrors => a.errs <= cfg.maxErrors
    BY <1>0, <2>2, <2>3
  <2> HIDE DEF b
  <2>6. AtLeast(CleanRunContribution(cfg, a), CleanRunContribution(cfg, b))
    BY <2>2, <2>3, <2>5 DEF CleanRunContribution, Pay, AtLeast
  <2>7. QED
    BY <2>4, <2>6 DEF b
<1>5. CASE b = a
  BY <1>0, <1>5
<1>6. QED
  BY <1>2, <1>3, <1>4, <1>5 DEF on_packet

\* A packet touches the accumulator of the step's own scorer only.
LEMMA YieldScores ==
  ASSUME TypeOK, Yield
  PROVE  \A s \in Scorers :
           acc'[s] = acc[s] \/ \E p \in Packets : acc'[s] = on_packet(Config[s], acc[s], p)
<1>1. PICK p \in Packets :
        acc' = IF hasScorer
               THEN [acc EXCEPT ![scorer] = on_packet(Config[scorer], @, p)]
               ELSE acc
  BY DEF Yield
<1>2. acc \in [Scorers -> Accumulators]
  BY DEF TypeOK
<1>3. QED
  BY <1>1, <1>2

\* A return leaves the passes and the failures as they were.
LEMMA CompleteKeepsCounts ==
  ASSUME TypeOK, NEW isOk \in BOOLEAN, NEW buffers, Complete(isOk, buffers),
         NEW s \in Scorers
  PROVE  /\ acc'[s].passes = acc[s].passes
         /\ acc'[s].fails = acc[s].fails
         /\ acc'[s].errs = acc[s].errs
<1>1. acc \in [Scorers -> Accumulators] /\ acc[s] \in Accumulators
  BY DEF TypeOK
<1>2. acc'[s] = acc[s] \/ acc'[s] = on_complete(Config[s], acc[s], isOk)
  BY <1>1 DEF Complete
<1>3. QED
  BY <1>1, <1>2 DEF on_complete, Accumulators

\* What a step that is no packet leaves of the counts.
LEMMA OthersKeepCounts ==
  ASSUME TypeOK, [Next]_vars, ~Yield, NEW s \in Scorers
  PROVE  /\ acc'[s].passes = acc[s].passes
         /\ acc'[s].fails = acc[s].fails
         /\ acc'[s].errs = acc[s].errs
<1>1. CASE ReturnOk
  <2>1. Complete(TRUE, captured)
    BY <1>1 DEF ReturnOk
  <2>2. QED
    BY <2>1, CompleteKeepsCounts
<1>2. CASE ReturnErr
  <2>1. PICK rendered : Complete(FALSE, Capture(captured, rendered))
    BY <1>2 DEF ReturnErr
  <2>2. QED
    BY <2>1, CompleteKeepsCounts
<1>3. CASE ~ReturnOk /\ ~ReturnErr
  <2>1. acc' = acc
    BY <1>3 DEF Next, Running, vars, add, validate_step_types, Call, Raise,
                Skip, ReturnScore
  <2>2. QED
    BY <2>1
<1>4. QED
  BY <1>1, <1>2, <1>3

LEMMA StepKeepsFinite == ASSUME WorthInv, [Next]_vars PROVE FiniteInv'
<1>0. TypeOK /\ FiniteInv
  BY DEF WorthInv, SheetInv
<1>1. CASE Yield
  <2> SUFFICES ASSUME NEW s \in Scorers PROVE IsFiniteSet(acc'[s].passes)
    BY DEF FiniteInv
  <2>1. acc[s] \in Accumulators /\ IsFiniteSet(acc[s].passes)
    BY <1>0 DEF TypeOK, FiniteInv
  <2>2. CASE acc'[s] = acc[s]
    BY <2>1, <2>2
  <2>3. ASSUME NEW p \in Packets, acc'[s] = on_packet(Config[s], acc[s], p)
        PROVE  IsFiniteSet(acc'[s].passes)
    <3>1. \/ acc'[s] = RecordPass(Config[s], acc[s], p.case)
          \/ acc'[s] = RecordFail(acc[s])
          \/ acc'[s] = [acc[s] EXCEPT !.errs = @ + 1]
          \/ acc'[s] = acc[s]
      BY <2>3 DEF on_packet
    <3>2. \/ acc'[s].passes = acc[s].passes \cup {p.case}
          \/ acc'[s].passes = acc[s].passes
      BY <2>1, <3>1 DEF RecordPass, RecordFail, Accumulators
    <3>3. IsFiniteSet(acc[s].passes \cup {p.case})
      BY <2>1, FS_AddElement
    <3>4. QED
      BY <2>1, <3>2, <3>3
  <2>4. QED
    BY <1>0, <1>1, <2>2, <2>3, YieldScores
<1>2. CASE ~Yield
  BY <1>0, <1>2, OthersKeepCounts DEF FiniteInv
<1>3. QED
  BY <1>1, <1>2

LEMMA WorthInvariant == Spec => []WorthInv
<1>1. Init => WorthInv
  <2>1. ASSUME Init, NEW s \in Scorers PROVE IsFiniteSet(acc[s].passes)
    <3>1. acc[s].passes = {}
      BY <2>1 DEF Init, Fresh
    <3>2. QED
      BY <3>1, FS_EmptySet
  <2>2. QED
    BY <2>1, InitSheet DEF WorthInv, FiniteInv
<1>2. WorthInv /\ [Next]_vars => WorthInv'
  BY StepKeepsFinite, StepKeepsSheet DEF WorthInv
<1>3. QED
  BY <1>1, <1>2, PTL DEF Spec

LEMMA ScorerState ==
  ASSUME WorthInv, NEW s \in Scorers
  PROVE  /\ Config[s] \in ScorerConfigs
         /\ acc[s] \in Accumulators
         /\ IsFiniteSet(acc[s].passes)
BY ScorerAssumption DEF WorthInv, SheetInv, TypeOK, FiniteInv

LEMMA SameWorth ==
  ASSUME WorthInv, NEW s \in Scorers, acc'[s] = acc[s]
  PROVE  AtLeast(Worth(s)', Worth(s)) /\ AtLeast(Worth(s), Worth(s)')
<1>1. Worth(s)' = Worth(s)
  BY DEF Worth
<1>2. Worth(s) \in Contributions
  BY ScorerState, ContributionBounded DEF Worth
<1>3. Worth(s).earned \in Nat /\ Worth(s).extra \in Nat
  BY <1>2 DEF Contributions
<1>4. QED
  BY <1>1, <1>3 DEF AtLeast

\* While a step yields, a packet without a failure never lowers what its scorer
\* would award, for any gimme fraction and any number of repeated cases.
THEOREM PipelinePassNeverCosts == Spec => PassNeverCosts
<1>1. ASSUME WorthInv, [Next]_vars
      PROVE  [pc = "step" /\ pc' = "step" /\ pos' = pos =>
                \A s \in Scorers : ~MoreFailures(s) => AtLeast(Worth(s)', Worth(s))]_vars
  <2> SUFFICES ASSUME pc = "step", pc' = "step", pos' = pos,
                      NEW s \in Scorers, ~MoreFailures(s)
               PROVE  AtLeast(Worth(s)', Worth(s))
    OBVIOUS
  <2>0. TypeOK /\ pos \in Nat
    BY <1>1 DEF WorthInv, SheetInv, TypeOK
  <2>1. CASE Yield
    <3>1. CASE acc'[s] = acc[s]
      BY <1>1, <3>1, SameWorth
    <3>2. ASSUME NEW p \in Packets, acc'[s] = on_packet(Config[s], acc[s], p)
          PROVE  AtLeast(Worth(s)', Worth(s))
      <4>1. AtLeast(contribution(Config[s], on_packet(Config[s], acc[s], p)),
                    contribution(Config[s], acc[s]))
        BY <1>1, <3>2, ScorerState, PassPays DEF MoreFailures
      <4>2. QED
        BY <3>2, <4>1 DEF Worth
    <3>3. QED
      BY <2>0, <2>1, <3>1, <3>2, YieldScores
  <2>2. CASE ~Yield
    <3>1. ~ReturnOk /\ ~ReturnErr
      <4>1. ReturnOk => pos' = pos + 1
        BY DEF ReturnOk
      <4>2. ReturnErr => pc' = "skip"
        BY DEF ReturnErr
      <4>3. QED
        BY <2>0, <4>1, <4>2
    <3>2. acc' = acc
      BY <1>1, <2>2, <3>1 DEF Next, Running, vars, add, validate_step_types,
         Call, Raise, Skip, ReturnScore
    <3>3. QED
      BY <1>1, <3>2, SameWorth
  <2>3. QED
    BY <2>1, <2>2
<1>2. QED
  BY WorthInvariant, <1>1, PTL DEF Spec, PassNeverCosts

\* A packet that records a failure or an error never raises the award, of any
\* scorer of any pipeline.
THEOREM PipelineFailureNeverPays == Spec => FailureNeverPays
<1>1. ASSUME WorthInv, [Next]_vars
      PROVE  [\A s \in Scorers : MoreFailures(s) => AtLeast(Worth(s), Worth(s)')]_vars
  <2> SUFFICES ASSUME NEW s \in Scorers, MoreFailures(s)
               PROVE  AtLeast(Worth(s), Worth(s)')
    OBVIOUS
  <2>0. TypeOK /\ acc[s] \in Accumulators
    BY <1>1 DEF WorthInv, SheetInv, TypeOK
  <2>1. acc[s].fails \in Nat /\ acc[s].errs \in Nat
    BY <2>0 DEF Accumulators
  <2>2. CASE Yield
    <3>1. CASE acc'[s] = acc[s]
      BY <1>1, <3>1, SameWorth
    <3>2. ASSUME NEW p \in Packets, acc'[s] = on_packet(Config[s], acc[s], p)
          PROVE  AtLeast(Worth(s), Worth(s)')
      <4>1. AtLeast(contribution(Config[s], acc[s]),
                    contribution(Config[s], on_packet(Config[s], acc[s], p)))
        BY <1>1, <3>2, ScorerState, FailureCosts DEF MoreFailures
      <4>2. QED
        BY <3>2, <4>1 DEF Worth
    <3>3. QED
      BY <2>0, <2>2, <3>1, <3>2, YieldScores
  <2>3. CASE ~Yield
    <3>1. acc'[s].fails = acc[s].fails /\ acc'[s].errs = acc[s].errs
      BY <1>1, <2>0, <2>3, OthersKeepCounts
    <3>2. QED
      BY <2>1, <3>1 DEF MoreFailures
  <2>4. QED
    BY <2>2, <2>3
<1>2. QED
  BY WorthInvariant, <1>1, PTL DEF Spec, FailureNeverPays
==============================================================================
