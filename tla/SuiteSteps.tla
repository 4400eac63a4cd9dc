------------------------------ MODULE SuiteSteps ------------------------------
(***************************************************************************)
(* The four test steps that run a whole test suite once and read its JUnit *)
(* report: GTestTest, Catch2Test, CTestTest and PytestTest                 *)
(* (src/src/lograder/pipeline/test), with the parser they share            *)
(* (process/parsers/junit.py).                                             *)
(*                                                                         *)
(* A call makes an empty temporary file, lets the suite write its report   *)
(* there, parses it, yields one packet per test case that is not skipped,  *)
(* and removes the file however it ends.                                   *)
(***************************************************************************)
EXTENDS Integers, Sequences

CONSTANTS
  Kinds,     \* step classes to choose from
  N,         \* bound on the test cases of a report
  TestCases  \* what a <testcase> element can hold

AllKinds == {"gtest", "catch2", "ctest", "pytest"}

\* A <testcase>: failure and error elements (an error with or without its
\* message attribute) and whether it is marked as skipped.
TestCase == [failure : BOOLEAN, error : {"none", "bare", "message"}, skipped : BOOLEAN]

ASSUME SuiteStepsAssumption ==
  /\ Kinds \subseteq AllKinds
  /\ N \in Nat
  /\ TestCases \subseteq TestCase

VARIABLES
  kind,      \* the step's class
  warn,      \* warn_no_tests
  pc,        \* where the generator is
  temp,      \* the temporary file: absent, empty, broken, or a whole report
  xml,       \* the test cases of the report that was read
  next,      \* the test case the loop is at
  report     \* packets yielded, each with its test case

vars == <<kind, warn, pc, temp, xml, next, report>>

Closed == {"ok", "err", "raised", "abandoned"}

Reports == UNION {[1..n -> TestCases] : n \in 0..N}

------------------------------------------------------------------------------
Init ==
  /\ kind \in Kinds
  /\ warn \in BOOLEAN
  /\ pc = "resolving"
  /\ temp = "absent"
  /\ xml = <<>>
  /\ next = 1
  /\ report = <<>>

Goto(where) == pc' = where

\* The finally clause of the try that holds the file.
Leave_KeepFile(how) == Goto(how) /\ UNCHANGED temp
Leave(how) == Goto(how) /\ temp' = "absent"

\* ctest and pytest are tools: checked, and installed when they are missing.
NeedsTool == kind \in {"ctest", "pytest"}

\* The artifact or the build directory; PytestTest looks up nothing.
Resolve ==
  /\ pc = "resolving"
  /\ \/ Goto(IF NeedsTool THEN "tool" ELSE "starting")
     \/ kind # "pytest" /\ Goto("err")
  /\ UNCHANGED <<kind, warn, temp, xml, next, report>>

\* install() may raise.
FindTool ==
  /\ pc = "tool"
  /\ Goto("starting") \/ Goto("err") \/ Goto("raised")
  /\ UNCHANGED <<kind, warn, temp, xml, next, report>>

MakeFile ==
  /\ pc = "starting"
  /\ Goto("running")
  /\ temp' = "empty"
  /\ UNCHANGED <<kind, warn, xml, next, report>>

\* The suite leaves the file empty (it crashed or was killed first), removes
\* it, or writes something; its exit code is not looked at.
SuiteEnds ==
  /\ pc = "running"
  /\ Goto("reading")
  /\ temp' \in {"absent", "empty", "broken", "whole"}
  /\ IF temp' = "whole" THEN xml' \in Reports ELSE UNCHANGED xml
  /\ UNCHANGED <<kind, warn, next, report>>

\* It cannot be started: an artifact raises, a tool also answers Err.
SuiteRaises ==
  /\ pc = "running"
  /\ Leave("raised") \/ (NeedsTool /\ Leave("err"))
  /\ UNCHANGED <<kind, warn, xml, next, report>>

Unusable == temp # "whole" \/ (warn /\ xml = <<>>)

ReadReport ==
  /\ pc = "reading"
  /\ IF Unusable THEN Leave("err") ELSE Goto("next") /\ UNCHANGED temp
  /\ UNCHANGED <<kind, warn, xml, next, report>>

\* JUnitTestCase.passed: of an error only the message attribute counts.
passed(tc) == ~tc.failure /\ tc.error # "message" /\ ~tc.skipped

Packet(how) ==
  report' = Append(report, [case |-> next, passed |-> how])

silent_Failed(tc) == ~passed(tc)

\* A test case that neither passed nor counts as failed yields nothing.
silent(tc) == ~passed(tc) /\ tc.skipped

Yield ==
  /\ pc = "next"
  /\ next <= Len(xml)
  /\ ~silent(xml[next])
  /\ Packet(passed(xml[next]))
  /\ Goto("yielded")
  /\ next' = next + 1
  /\ UNCHANGED <<kind, warn, temp, xml>>

Ignore ==
  /\ pc = "next"
  /\ next <= Len(xml)
  /\ silent(xml[next])
  /\ next' = next + 1
  /\ UNCHANGED <<kind, warn, pc, temp, xml, report>>

ReturnOk ==
  /\ pc = "next"
  /\ next > Len(xml)
  /\ Leave("ok")
  /\ UNCHANGED <<kind, warn, xml, next, report>>

(* The pipeline asks for the next packet, or lets go of the generator. *)

Resume ==
  /\ pc = "yielded"
  /\ Goto("next")
  /\ UNCHANGED <<kind, warn, temp, xml, next, report>>

Abandon ==
  /\ pc = "yielded"
  /\ Leave("abandoned")
  /\ UNCHANGED <<kind, warn, xml, next, report>>

Next ==
  \/ Resolve \/ FindTool \/ MakeFile
  \/ SuiteEnds \/ SuiteRaises
  \/ ReadReport \/ Yield \/ Ignore \/ ReturnOk
  \/ Resume \/ Abandon

Spec == Init /\ [][Next]_vars

------------------------------------------------------------------------------
(* Properties *)

\* Every variable has its type.
TypeOK ==
  /\ kind \in Kinds
  /\ warn \in BOOLEAN
  /\ pc \in {"resolving", "tool", "starting", "running", "reading", "next",
             "yielded"} \cup Closed
  /\ temp \in {"absent", "empty", "broken", "whole"}
  /\ xml \in Reports
  /\ next \in 1..N + 1
  /\ report \in Seq([case : 1..N, passed : BOOLEAN])

\* A suite that ended Ok has reported each of its test cases that is not marked
\* as skipped, once and in their order, and none else (gtest.py:66-68).
EveryTestReported ==
  /\ pc = "ok" => {report[i].case : i \in DOMAIN report} =
                    {c \in DOMAIN xml : ~xml[c].skipped}
  /\ \A i, j \in DOMAIN report : i < j => report[i].case < report[j].case

\* However a call ends, its temporary file is removed.
NoFileLeft == pc \in Closed => temp = "absent"

==============================================================================
