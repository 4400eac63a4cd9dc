----------------------------- MODULE CaseReport -----------------------------
(***************************************************************************)
(* What the pipeline relies on when it drives a test step's generator: the *)
(* cases are reported one by one, in the order they were given; the step   *)
(* returns Ok only after the last one; once it is over, by Ok, fatal Err,  *)
(* exception or because it was abandoned, nothing more is reported.        *)
(***************************************************************************)
EXTENDS Integers, Sequences

CONSTANT N   \* number of cases

VARIABLES
  reported,  \* the cases reported so far, in the order of their packets
  status     \* open, or how the step ended

vars == <<reported, status>>

Closed == {"ok", "err", "raised", "abandoned"}

Init == reported = <<>> /\ status = "open"

Report ==
  /\ status = "open"
  /\ Len(reported) < N
  /\ reported' = Append(reported, Len(reported) + 1)
  /\ UNCHANGED status

Close(how) ==
  /\ status = "open"
  /\ how = "ok" => Len(reported) = N
  /\ status' = how
  /\ UNCHANGED reported

Next == Report \/ \E how \in Closed : Close(how)

Spec == Init /\ [][Next]_vars
=============================================================================
