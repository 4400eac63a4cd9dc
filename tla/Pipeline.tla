------------------------------ MODULE Pipeline ------------------------------
(***************************************************************************)
(* Pipeline of src/src/lograder/pipeline/pipeline.py, with the part of     *)
(* Step it drives and the scorers it feeds.                                *)
(*                                                                         *)
(* A pipeline is a list of steps.  Calling it runs them one after the      *)
(* other: each step is a generator that yields display packets and returns *)
(* Ok(datum), which becomes the next step's input, or Err, which ends the  *)
(* run.  Every packet goes to the logger, to the step's scorer and, as     *)
(* rendered text, into the capture buffers.  The steps after a fatal Err   *)
(* are still entered in the score.                                         *)
(*                                                                         *)
(* Step objects and their scorers outlive a run, and so does the           *)
(* pipeline's datum: the client may call the pipeline again.               *)
(***************************************************************************)
EXTENDS Scoring, Sequences

CONSTANTS
  Steps,            \* step objects
  Scorers,          \* scorer objects
  NoScorer,         \* step.scorer is None
  ScorerOf,         \* [Steps -> Scorers \cup {NoScorer}]
  Config,           \* [Scorers -> ScorerConfigs]
  PIPELINE_START,   \* the datum of a new pipeline
  ValidInputs,      \* [Steps -> sets of types], Step.get_valid_inputs
  ValidOutput,      \* [Steps -> types], Step.get_valid_output
  MaxSteps,         \* bound: length of the pipeline
  MaxPackets,       \* bound: packets one step yields in one run
  MaxCalls,         \* bound: calls of the pipeline
  Rendered          \* bound: how many of the four renderers of a packet run

ASSUME ScorerAssumption ==
  /\ NoScorer \notin Scorers
  /\ ScorerOf \in [Steps -> Scorers \cup {NoScorer}]
  /\ Config \in [Scorers -> ScorerConfigs]

ASSUME StartAssumption == PIPELINE_START \notin Steps

ASSUME BoundsAssumption ==
  {MaxSteps, MaxPackets, MaxCalls} \subseteq Nat /\ Rendered \subseteq 0..4

VARIABLES
  steps,       \* self.steps
  datum,       \* self.datum: PIPELINE_START, or the step whose output it is
  validated,   \* verdict of the last validate_step_types() on these steps
  pc,          \* "idle"; in a call: "step" (driving steps), "skip" (after them)
  pos,         \* the step being driven or skipped, from 1
  stop_index,  \* the last step of the run that was driven
  yielded,     \* packets the current step has yielded
  captured,    \* texts in each capture buffer of the current step
  score,       \* the call's PipelineScore.contributions
  outcome,     \* how the last call ended
  calls,       \* calls made
  acc,         \* each scorer's accumulator
  shown        \* each scorer's captured_output

vars == <<steps, datum, validated, pc, pos, stop_index, yielded, captured,
          score, outcome, calls, acc, shown>>

------------------------------------------------------------------------------
Formats == {"simple", "ascii", "ansi", "html"}
Rank == [simple |-> 1, ascii |-> 2, ansi |-> 3, html |-> 4]
Blank == [f \in Formats |-> 0]
NotShown == Blank     \* captured_output is None: no text in any format


\* The four renderers run in order and the first that raises ends them, so a
\* packet reaches a prefix of the buffers.
Capture(buffers, rendered) ==
  [f \in Formats |-> IF Rank[f] <= rendered THEN buffers[f] + 1 ELSE buffers[f]]

NothingCaptured(buffers) == \A f \in Formats : buffers[f] = 0

Scored == {j \in 1..Len(steps) : ScorerOf[steps[j]] # NoScorer}

Line(j, pay) == [at |-> j, step |-> steps[j], pay |-> pay]

scorer == ScorerOf[steps[pos]]
hasScorer == pos \in Scored

is_follow(prev, next) == ValidOutput[prev] \in ValidInputs[next]

ChainFits_AllButLast ==
  \A j \in 1..(Len(steps) - 2) : is_follow(steps[j], steps[j + 1])

ChainFits == \A j \in 1..(Len(steps) - 1) : is_follow(steps[j], steps[j + 1])

------------------------------------------------------------------------------
Init ==
  /\ steps = <<>>
  /\ datum = PIPELINE_START
  /\ validated = "no"
  /\ pc = "idle"
  /\ pos = 0
  /\ stop_index = 0
  /\ yielded = 0
  /\ captured = Blank
  /\ score = <<>>
  /\ outcome = "none"
  /\ calls = 0
  /\ acc = [s \in Scorers |-> Fresh]
  /\ shown = [s \in Scorers |-> NotShown]

(* The client, between calls. *)

add ==
  /\ pc = "idle"
  /\ Len(steps) < MaxSteps
  /\ \E s \in Steps : steps' = Append(steps, s)
  /\ validated' = "no"
  /\ UNCHANGED <<datum, pc, pos, stop_index, yielded, captured, score,
                 outcome, calls, acc, shown>>

validate_step_types ==
  /\ pc = "idle"
  /\ validated' = CASE steps = <<>> -> "DeveloperException"
                    [] steps # <<>> /\ ChainFits -> "fits"
                    [] OTHER -> "StaffException"
  /\ UNCHANGED <<steps, datum, pc, pos, stop_index, yielded, captured, score,
                 outcome, calls, acc, shown>>

Call ==
  /\ pc = "idle"
  /\ calls < MaxCalls
  /\ calls' = calls + 1
  /\ score' = <<>>
  /\ outcome' = "none"
  /\ pos' = 1
  /\ stop_index' = Len(steps)
  /\ yielded' = 0
  /\ captured' = Blank
  /\ pc' = IF steps = <<>> THEN "skip" ELSE "step"
  /\ UNCHANGED <<steps, datum, validated, acc, shown>>

(* The loop over the steps. *)

\* The step yields a packet: it is logged, scored, then captured.
Yield ==
  /\ pc = "step"
  /\ yielded < MaxPackets
  /\ yielded' = yielded + 1
  /\ \E p \in Packets, rendered \in Rendered :
       /\ acc' = IF hasScorer
                 THEN [acc EXCEPT ![scorer] = on_packet(Config[scorer], @, p)]
                 ELSE acc
       /\ captured' = Capture(captured, rendered)
  /\ UNCHANGED <<steps, datum, validated, pc, pos, stop_index, score,
                 outcome, calls, shown>>

\* The step raises, or yields or returns a model that the logger has no layout
\* for: the exception leaves the call, and the score with it.
Raise ==
  /\ pc = "step"
  /\ pc' = "idle"
  /\ outcome' = "raised"
  /\ score' = <<>>
  /\ UNCHANGED <<steps, datum, validated, pos, stop_index, yielded, captured,
                 calls, acc, shown>>


\* The captured output is left alone when nothing was captured.
Show(buffers) ==
  IF NothingCaptured(buffers) THEN shown ELSE [shown EXCEPT ![scorer] = buffers]

\* What both returns do to the scorer, the score and the captured output.
Complete(isOk, buffers) ==
  IF hasScorer
  THEN LET done == on_complete(Config[scorer], acc[scorer], isOk)
       IN  /\ acc' = [acc EXCEPT ![scorer] = done]
           /\ score' = Append(score,
                              Line(pos, contribution(Config[scorer], done)))
           /\ shown' = Show(buffers)
  ELSE UNCHANGED <<acc, score, shown>>

OkDatum_Scored == IF hasScorer THEN steps[pos] ELSE datum
OkDatum == steps[pos]

ReturnOk ==
  /\ pc = "step"
  /\ Complete(TRUE, captured)
  /\ datum' = OkDatum
  /\ pos' = pos + 1
  /\ pc' = IF pos = Len(steps) THEN "skip" ELSE "step"
  /\ yielded' = 0
  /\ captured' = Blank
  /\ UNCHANGED <<steps, validated, stop_index, outcome, calls>>

FirstSkipped_StepItself == pos
FirstSkipped == pos + 1

\* The fatal Err is logged and captured before the step is scored.
ReturnErr ==
  /\ pc = "step"
  /\ \E rendered \in Rendered : Complete(FALSE, Capture(captured, rendered))
  /\ stop_index' = pos
  /\ pos' = FirstSkipped
  /\ pc' = "skip"
  /\ yielded' = 0
  /\ captured' = Blank
  /\ UNCHANGED <<steps, datum, validated, outcome, calls>>

(* After the loop. *)

EnterSkipped_Nothing == score
EnterSkipped ==
  IF hasScorer
  THEN Append(score, Line(pos, contribution(Config[scorer], acc[scorer])))
  ELSE score

AfterSkipped_Scored == IF hasScorer THEN pos + 1 ELSE pos
AfterSkipped == pos + 1

\* A step the run never reached is entered with what its scorer says.
Skip ==
  /\ pc = "skip"
  /\ pos <= Len(steps)
  /\ score' = EnterSkipped
  /\ pos' = AfterSkipped
  /\ UNCHANGED <<steps, datum, validated, pc, stop_index, yielded, captured,
                 outcome, calls, acc, shown>>

ReturnScore ==
  /\ pc = "skip"
  /\ pos > Len(steps)
  /\ pc' = "idle"
  /\ outcome' = "returned"
  /\ UNCHANGED <<steps, datum, validated, pos, stop_index, yielded, captured,
                 score, calls, acc, shown>>

Running == Yield \/ Raise \/ ReturnOk \/ ReturnErr \/ Skip \/ ReturnScore

Next == add \/ validate_step_types \/ Call \/ Running

\* A call is one Python thread: it keeps going until it returns.  MaxPackets
\* stands for the generators being finite.
Spec == Init /\ [][Next]_vars /\ WF_vars(Running)

------------------------------------------------------------------------------
(* Properties *)

Lines == [at : Nat, step : Steps, pay : Contributions]

\* Every variable has its type.
TypeOK ==
  /\ steps \in Seq(Steps)
  /\ datum \in Steps \cup {PIPELINE_START}
  /\ validated \in {"no", "fits", "DeveloperException", "StaffException"}
  /\ pc \in {"idle", "step", "skip"}
  /\ pos \in Nat
  /\ stop_index \in Nat
  /\ yielded \in Nat
  /\ captured \in [Formats -> Nat]
  /\ score \in Seq(Lines)
  /\ outcome \in {"none", "returned", "raised"}
  /\ calls \in Nat
  /\ acc \in [Scorers -> Accumulators]
  /\ shown \in [Scorers -> [Formats -> Nat]]

\* The score holds, in pipeline order, exactly one line for every scored step
\* the call has passed, driven or skipped, and that line is worth the step's
\* full marks, so that the total possible is the same however the run ends
\* (pipeline.py:104, "so total.possible stays accurate").
SheetSoFar ==
  pc # "idle" \/ outcome = "returned" =>
    /\ \A a, b \in DOMAIN score : a < b => score[a].at < score[b].at
    /\ {score[k].at : k \in DOMAIN score} = {j \in Scored : j < pos}
    /\ \A k \in DOMAIN score :
         /\ score[k].step = steps[score[k].at]
         /\ score[k].pay.possible = Config[ScorerOf[score[k].step]].possible

\* No line earns more than its full marks, whatever the gimme floor, repeated
\* cases or earlier calls have put into the accumulators; only extra credit
\* goes beyond.
CappedEarned ==
  \A k \in DOMAIN score : score[k].pay.earned <= score[k].pay.possible

\* Every step but the first is fed what the step just before it returned, never
\* an older datum: not that of an earlier call, nor one a failed step left.
ChainedDatum == pc = "step" /\ pos > 1 => datum = steps[pos - 1]

\* When validate_step_types accepted the steps as they are now, only the first
\* step of a call can be driven with a type it does not take, and in the first
\* call that one is driven with PIPELINE_START.  The first step of a later call
\* gets what the call before it left (pipeline.py:52, 100), which the validation
\* never compared with it: nothing is promised there.
ValidatedRunFits ==
  validated = "fits" /\ pc = "step" =>
    \/ pos > 1 /\ ValidOutput[datum] \in ValidInputs[steps[pos]]
    \/ pos = 1 /\ (calls = 1 => datum = PIPELINE_START)

Worth(s) == contribution(Config[s], acc[s])
AtLeast(p, q) == p.earned >= q.earned /\ p.extra >= q.extra

MoreFailures(s) == acc'[s].fails > acc[s].fails \/ acc'[s].errs > acc[s].errs

\* A packet that reports no failure never lowers what the scorer would award,
\* although each pass also changes the gimme fraction.
PassNeverCosts ==
  [][pc = "step" /\ pc' = "step" /\ pos' = pos =>
       \A s \in Scorers : ~MoreFailures(s) => AtLeast(Worth(s)', Worth(s))]_vars

\* A packet that reports a failure never raises it.
FailureNeverPays ==
  [][\A s \in Scorers : MoreFailures(s) => AtLeast(Worth(s), Worth(s)')]_vars

\* A call always comes back, with a score or an exception.
CallEnds == pc # "idle" ~> pc = "idle"

\* What a grading run promises, whatever the steps do: GradeSheet.
Sheet == INSTANCE GradeSheet WITH
  phase <- IF pc # "idle" THEN "grading" ELSE outcome,
  expected <- [j \in Scored |-> Config[ScorerOf[steps[j]]].possible],
  sheet <- score
GradesBySheet == Sheet!Spec
==============================================================================
