------------------------------ MODULE CaseSteps ------------------------------
(***************************************************************************)
(* The nine test steps that run something once per case                    *)
(* (src/src/lograder/pipeline/test): one call of one of them, as a         *)
(* generator driven by the pipeline.                                       *)
(*                                                                         *)
(* A call resolves the artifact, makes sure of its tool, and then, for     *)
(* each case, runs the program (DifferentialTest: and the reference),      *)
(* judges what it observed and yields a packet.  What a run printed is     *)
(* abstracted to whether it is what the case wants; time to whether it is  *)
(* within the limit; ComplexityTest's runs of one case are one run here    *)
(* (module Complexity has them).                                           *)
(*                                                                         *)
(* The output file of FileOutputTest is shared with the environment: with  *)
(* the program, with what was in the directory before, and with children   *)
(* that earlier runs left behind.                                          *)
(***************************************************************************)
EXTENDS Integers, Sequences, FiniteSets

CONSTANTS
  Kinds,     \* step classes to choose from
  N,         \* number of cases
  Timed,     \* step classes whose runs have a timeout
  Coded,     \* cases with expected_exit_code (all, with check_exit_codes)
  Negated,   \* cases of CompileCheckTest with should_compile = False
  Forking    \* programs may leave a child behind

AllKinds == {"output_compare", "file_output", "performance", "asan", "valgrind",
             "differential", "complexity", "symbol", "compile_check"}

ASSUME CaseStepsAssumption ==
  /\ Kinds \subseteq AllKinds /\ Timed \subseteq AllKinds
  /\ "performance" \in Timed
  /\ N \in Nat /\ Coded \subseteq 1..N /\ Negated \subseteq 1..N
  /\ Forking \in BOOLEAN

VARIABLES
  kind,      \* the step's class
  pc,        \* where the generator is
  case,      \* the case being run, or the number of those done
  run,       \* what the run showed
  file,      \* the output file
  left,      \* runs that left a child behind (0: something before the call)
  holds,     \* a child of the run under way holds its output pipes
  temp,      \* the step's temporary directory exists
  report     \* packets yielded, each with the evidence it was judged on

vars == <<kind, pc, case, run, file, left, holds, temp, report>>

Closed == {"ok", "err", "raised", "abandoned"}

\* How an invocation ended: by itself; by itself but with a child that kept the
\* pipes open until the timeout; by the kill; or with an exception.
Endings == {"exited", "held", "killed", "raised"}

NoRun == [ends |-> "exited", match |-> FALSE, code |-> FALSE]
NoFile == [is |-> "absent", by |-> 0, right |-> FALSE]
Files == {NoFile} \cup [is : {"file", "directory"}, by : 0..N, right : BOOLEAN]

------------------------------------------------------------------------------
Init ==
  /\ kind \in Kinds
  /\ pc = "resolving"
  /\ case = 0
  /\ run = NoRun
  /\ IF kind = "file_output" THEN file \in {f \in Files : f.by = 0} ELSE file = NoFile
  /\ left \in (IF Forking THEN SUBSET {0} ELSE {{}})
  /\ holds = FALSE
  /\ temp = FALSE
  /\ report = <<>>

Goto(next) == pc' = next

\* Returning, raising and being closed leave the with-blocks.
Leave_KeepTemp(how) == Goto(how) /\ UNCHANGED temp
Leave(how) == Goto(how) /\ temp' = FALSE

NeedsTool == kind \in {"valgrind", "symbol", "compile_check"}

\* _resolve_artifact, for the program and for the reference of DifferentialTest.
Resolve ==
  /\ pc = "resolving"
  /\ \/ Goto(IF NeedsTool THEN "tool" ELSE "next")
     \/ kind # "compile_check" /\ Goto("err")
  /\ UNCHANGED <<kind, case, run, file, left, holds, temp, report>>

\* check_runnable; ValgrindTest may install, and install() may raise.
\* CompileCheckTest opens the directory that all its cases share.
FindTool ==
  /\ pc = "tool"
  /\ \/ Goto("next") /\ temp' = (kind = "compile_check")
     \/ Goto("err") /\ UNCHANGED temp
     \/ kind = "valgrind" /\ Goto("raised") /\ UNCHANGED temp
  /\ UNCHANGED <<kind, case, run, file, left, holds, report>>

unlink_Not == UNCHANGED file
unlink == file' = NoFile

HasCase == case < N

following_FromTheEnd == N - case
following == case + 1

\* The next case; FileOutputTest first removes the file, which raises when it
\* is a directory; ValgrindTest opens a directory of the case's own.
NextCase ==
  /\ pc = "next"
  /\ HasCase
  /\ IF kind = "file_output" /\ file.is = "directory"
     THEN Leave("raised") /\ UNCHANGED <<case, file>>
     ELSE /\ Goto("running")
          /\ case' = following
          /\ IF kind = "file_output" THEN unlink ELSE UNCHANGED file
          /\ temp' = (temp \/ kind = "valgrind")
  /\ UNCHANGED <<kind, run, left, holds, report>>

ReturnOk ==
  /\ pc = "next"
  /\ ~HasCase
  /\ Leave("ok")
  /\ UNCHANGED <<kind, case, run, file, left, holds, report>>

\* What a run can show.  A killed program has no exit code a case asks for,
\* leaves no whole report, and took longer than time_limit; only a child can
\* have kept the pipes of one that exited.
Showings ==
  {r \in [ends : Endings \ {"raised"}, match : BOOLEAN, code : BOOLEAN] :
     /\ r.ends = "killed" => ~r.code
     /\ r.ends \in {"held", "killed"} =>
          kind \in Timed /\ (kind = "performance" => ~r.match)
     /\ r.ends = "held" => case \in left}

\* communicate() has read the pipes to their end, after the kill too: there is
\* no end while a child holds them.
EndRun ==
  /\ pc = "running"
  /\ ~holds
  /\ run' \in Showings
  /\ Goto(IF kind = "differential" THEN "reference" ELSE "judging")
  /\ UNCHANGED <<kind, case, file, left, holds, temp, report>>

\* DifferentialTest runs the reference on the same input; match and code now
\* compare the two.
EndReference ==
  /\ pc = "reference"
  /\ \E m, c \in BOOLEAN : run' = [run EXCEPT !.match = m, !.code = c]
  /\ Goto("judging")
  /\ UNCHANGED <<kind, case, file, left, holds, temp, report>>

swallowed == kind = "performance"

\* The invocation raises.  PerformanceTest swallows the exception and judges
\* the elapsed time; the typed executables may also answer Err.
RunRaises ==
  /\ pc \in {"running", "reference"}
  /\ IF swallowed
     THEN /\ run' \in [ends : {"raised"}, match : BOOLEAN, code : {FALSE}]
          /\ Goto("judging")
          /\ UNCHANGED temp
     ELSE /\ \/ Leave("raised")
             \/ kind \in {"symbol", "compile_check"} /\ Leave("err")
          /\ UNCHANGED run
  /\ holds' = FALSE
  /\ UNCHANGED <<kind, case, file, left, report>>

exit_ok == case \notin Coded \/ run.code

file_ok == file.is = "file" /\ file.right

(* What each class asks for: run.match is that *)

\* stdout is what the case expects.
OutputCompareOk == run.match /\ exit_ok

FileOutputOk == file_ok /\ exit_ok

\* the elapsed time is below time_limit.
PerformanceOk == run.match

\* stderr holds no sanitizer report.
ASanOk == run.match /\ exit_ok

\* the XML report holds no error and no fatal signal.
ValgrindOk == run.match

\* both programs printed the same.
DifferentialOk == run.match /\ exit_ok

\* the exponent lies within the expected class.
ComplexityOk == run.match

\* all required symbols are there and no forbidden one.
SymbolOk == run.match

CompileCheckOk == run.code <=> case \notin Negated

Passes ==
  \/ kind = "output_compare" /\ OutputCompareOk
  \/ kind = "file_output" /\ FileOutputOk
  \/ kind = "performance" /\ PerformanceOk
  \/ kind = "asan" /\ ASanOk
  \/ kind = "valgrind" /\ ValgrindOk
  \/ kind = "differential" /\ DifferentialOk
  \/ kind = "complexity" /\ ComplexityOk
  \/ kind = "symbol" /\ SymbolOk
  \/ kind = "compile_check" /\ CompileCheckOk

\* No XML, or not all of it, from valgrind; nm failed.
NoVerdict_Lenient == FALSE
NoVerdict == kind \in {"valgrind", "symbol"} /\ ~run.code

\* read_text of a directory.
Unreadable == kind = "file_output" /\ file.is = "directory"

Judge ==
  /\ pc = "judging"
  /\ ~NoVerdict /\ ~Unreadable
  /\ Goto("yielded")
  /\ report' = Append(report, [case |-> case, passed |-> Passes,
                               ends |-> run.ends, by |-> file.by])
  /\ temp' = (temp /\ kind # "valgrind")
  /\ UNCHANGED <<kind, case, run, file, left, holds>>

\* A bug: the case is run again until there is a verdict.
GiveUp_Retries ==
  /\ pc = "judging"
  /\ NoVerdict \/ Unreadable
  /\ Goto("running")
  /\ UNCHANGED <<kind, case, run, file, left, holds, temp, report>>

GiveUp ==
  /\ pc = "judging"
  /\ NoVerdict \/ Unreadable
  /\ Leave(IF NoVerdict THEN "err" ELSE "raised")
  /\ UNCHANGED <<kind, case, run, file, left, holds, report>>

(* The pipeline: it asks for the next packet, or lets go of the generator when
   a scorer or a handler raises. *)

Resume ==
  /\ pc = "yielded"
  /\ Goto("next")
  /\ UNCHANGED <<kind, case, run, file, left, holds, temp, report>>

Abandon ==
  /\ pc = "yielded"
  /\ Leave("abandoned")
  /\ UNCHANGED <<kind, case, run, file, left, holds, report>>

(* The programs. *)

Puts(j) ==
  \E f \in Files : f.is # "absent" /\ f.by = j /\ file' = f

ProgramWrites ==
  /\ kind = "file_output"
  /\ pc = "running"
  /\ Puts(case)
  /\ UNCHANGED <<kind, pc, case, run, left, holds, temp, report>>

\* One child stands for all those of a run; it may or may not have its pipes.
LeavesChild ==
  /\ Forking
  /\ pc = "running"
  /\ case \notin left
  /\ left' = left \cup {case}
  /\ holds' \in BOOLEAN
  /\ UNCHANGED <<kind, pc, case, run, file, temp, report>>

\* It closes the pipes, or exits; it need never.
ChildLetsGo ==
  /\ holds
  /\ holds' = FALSE
  /\ UNCHANGED <<kind, pc, case, run, file, left, temp, report>>

ChildWrites(j) ==
  /\ kind = "file_output"
  /\ pc \notin Closed
  /\ Puts(j)
  /\ UNCHANGED <<kind, pc, case, run, left, holds, temp, report>>

Step == Resolve \/ FindTool \/ NextCase \/ ReturnOk \/ Judge \/ GiveUp \/ Resume

Ends == EndRun \/ EndReference

Next ==
  \/ Step
  \/ Ends
  \/ RunRaises
  \/ Abandon
  \/ ProgramWrites
  \/ LeavesChild
  \/ ChildLetsGo
  \/ \E j \in left : ChildWrites(j)

\* The generator and the pipeline keep going; a run with a timeout ends, unless a
\* child holds its pipes (module Invocations, TimedCallsEnd); another one need not.
Fairness ==
  /\ WF_vars(Step)
  /\ WF_vars(kind \in Timed /\ Ends)

Spec == Init /\ [][Next]_vars /\ Fairness

------------------------------------------------------------------------------
(* Properties *)

\* Every variable has its type.
TypeOK ==
  /\ kind \in Kinds
  /\ pc \in {"resolving", "tool", "next", "running", "reference", "judging",
             "yielded"} \cup Closed
  /\ case \in 0..N
  /\ run \in [ends : Endings, match : BOOLEAN, code : BOOLEAN]
  /\ file \in Files
  /\ left \subseteq 0..N
  /\ holds \in BOOLEAN
  /\ temp \in BOOLEAN
  /\ report \in Seq([case : 1..N, passed : BOOLEAN, ends : Endings, by : 0..N])

\* A case of FileOutputTest passes on a file that its own run wrote, or a child
\* that an earlier program left behind: never on what an earlier case, or the
\* submission, had put there (file_output.py:85-91).
PassedOnFreshFile ==
  kind = "file_output" =>
    \A i \in DOMAIN report :
      report[i].passed => report[i].by \in {report[i].case} \cup left

\* A program that the timeout killed does not pass where the verdict needs the
\* whole run: its time (docs/pipeline/test.md:152, "the process is killed and
\* the test fails"), its valgrind report, or nm's symbols; nor does a compiler
\* that was killed count as having compiled.
KilledNeverPasses ==
  \A i \in DOMAIN report :
    report[i].passed /\ report[i].ends = "killed" =>
      /\ kind \notin {"performance", "valgrind", "symbol"}
      /\ kind = "compile_check" => report[i].case \in Negated

\* However a call ends, also by an exception or abandoned between two packets,
\* no temporary directory outlives it.
NoTempLeft == pc \in Closed => ~temp

\* The call of a step whose runs have a timeout ends, also when its programs run
\* for ever, as long as no child of theirs holds the pipes for ever.
StepEnds == (holds ~> ~holds) => ((kind \in Timed) ~> (pc \in Closed))

\* Each packet is about the case after that of the one before it, Ok comes after
\* the last one, and nothing comes after the end (docs/pipeline/test.md:3).
Abstract == INSTANCE CaseReport WITH
  reported <- [i \in DOMAIN report |-> report[i].case],
  status <- IF pc \in Closed THEN pc ELSE "open"
ImplementsCaseReport == Abstract!Spec
==============================================================================
