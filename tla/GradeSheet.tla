----------------------------- MODULE GradeSheet -----------------------------
(***************************************************************************)
(* What Pipeline.__call__ and PipelineScore promise to whoever grades with *)
(* them, without saying how steps run: a grading run fills in one line per *)
(* scored step, in order and within its full marks, and hands the sheet    *)
(* over only when every line is there; a run that fails hands nothing over.*)
(***************************************************************************)
EXTENDS Integers, Sequences

VARIABLES
  phase,      \* "none", "grading", "returned" or "raised"
  expected,   \* full marks of each scored step, by its position
  sheet       \* the lines so far

sheetVars == <<phase, expected, sheet>>

Done == {sheet[k].at : k \in DOMAIN sheet}

Init == phase = "none" /\ expected = <<>> /\ sheet = <<>>

\* Between runs the assignment may be changed.
Revise ==
  /\ phase # "grading"
  /\ expected' \in [DOMAIN expected' -> Nat]
  /\ UNCHANGED <<phase, sheet>>

Begin ==
  /\ phase # "grading"
  /\ phase' = "grading"
  /\ sheet' = <<>>
  /\ UNCHANGED expected

\* The next step that has no line yet gets one.
Grade ==
  /\ phase = "grading"
  /\ sheet' # <<>>
  /\ LET line == sheet'[Len(sheet')] IN
       /\ sheet' = Append(sheet, line)
       /\ line.at \in DOMAIN expected
       /\ \A j \in DOMAIN expected : j < line.at <=> j \in Done
       /\ line.pay.possible = expected[line.at]
       /\ line.pay.earned <= line.pay.possible
  /\ UNCHANGED <<phase, expected>>

HandOver ==
  /\ phase = "grading"
  /\ Done = DOMAIN expected
  /\ phase' = "returned"
  /\ UNCHANGED <<expected, sheet>>

Fail ==
  /\ phase = "grading"
  /\ phase' = "raised"
  /\ sheet' = <<>>
  /\ UNCHANGED expected

Next == Revise \/ Begin \/ Grade \/ HandOver \/ Fail

Spec == Init /\ [][Next]_sheetVars
==============================================================================
