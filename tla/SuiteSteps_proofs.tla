-------------------------- MODULE SuiteSteps_proofs --------------------------
(***************************************************************************)
(* Proofs about SuiteSteps, for reports of any length and any marks of the *)
(* test cases: what a suite step reports, and that its temporary file does *)
(* not outlive the call.                                                   *)
(***************************************************************************)
EXTENDS SuiteSteps, TLAPS

Before == {"resolving", "tool", "starting"}

\* The temporary file exists only while the try that holds it runs.
FileInv == pc \in Before \cup Closed => temp = "absent"

\* Where the loop over the test cases stands.
LoopInv ==
  /\ next <= Len(xml) + 1
  /\ pc \in Before \cup {"running", "reading"} => next = 1 /\ report = <<>>
  /\ pc = "ok" => next > Len(xml)

\* Ascending, the reported cases are those the loop has passed that are not
\* silent.  EveryTestReported speaks of the end of the loop only and of the
\* mark: it needs this at every case.
ReportInv ==
  /\ {report[i].case : i \in DOMAIN report} =
       {c \in DOMAIN xml : c < next /\ ~silent(xml[c])}
  /\ \A i, j \in DOMAIN report : i < j => report[i].case < report[j].case

SuiteInv == TypeOK /\ FileInv /\ LoopInv /\ ReportInv

------------------------------------------------------------------------------
\* A report is a sequence of test cases.
LEMMA ReportType ==
  ASSUME NEW r \in Reports
  PROVE  r \in Seq(TestCases) /\ Len(r) \in 0..N /\ DOMAIN r = 1..Len(r)
<1>1. PICK n \in 0..N : r \in [1..n -> TestCases]
  BY DEF Reports
<1>2. n \in Nat
  BY SuiteStepsAssumption
<1>3. r \in Seq(TestCases) /\ DOMAIN r = 1..n
  BY <1>1, <1>2
<1>4. Len(r) = n
  BY <1>2, <1>3
<1>5. QED
  BY <1>3, <1>4

\* A test case is silent exactly when it is marked as skipped: a passed one is
\* not skipped (junit.py, JUnitTestCase.passed).
LEMMA SilentIsSkipped ==
  ASSUME NEW tc \in TestCase
  PROVE  silent(tc) <=> tc.skipped
BY DEF silent, passed, TestCase

LEMMA InitSuite == Init => SuiteInv
<1> SUFFICES ASSUME Init PROVE SuiteInv
  OBVIOUS
<1>1. xml \in Reports
  <2>1. xml \in [1..0 -> TestCases] /\ 0 \in 0..N
    BY SuiteStepsAssumption DEF Init
  <2>2. QED
    BY <2>1 DEF Reports
<1>2. TypeOK
  BY <1>1, SuiteStepsAssumption DEF Init, TypeOK
<1>3. FileInv /\ LoopInv /\ ReportInv
  BY DEF Init, FileInv, LoopInv, ReportInv, Before, Closed
<1>4. QED
  BY <1>2, <1>3 DEF SuiteInv

\* Reporting the case the loop is at, or passing it over in silence.
LEMMA LoopStep ==
  ASSUME SuiteInv, pc = "next", next <= Len(xml), next' = next + 1, xml' = xml,
         \/ ~silent(xml[next]) /\ Packet(passed(xml[next]))
         \/ silent(xml[next]) /\ report' = report
  PROVE  /\ next' \in 1..N + 1
         /\ report' \in Seq([case : 1..N, passed : BOOLEAN])
         /\ ReportInv'
<1>0. /\ next \in 1..Len(xml) /\ Len(xml) \in 0..N /\ N \in Nat
      /\ DOMAIN xml = 1..Len(xml)
      /\ xml[next] \in TestCase
      /\ report \in Seq([case : 1..N, passed : BOOLEAN])
  BY ReportType, SuiteStepsAssumption DEF SuiteInv, TypeOK
<1>1. next' \in 1..N + 1
  BY <1>0
<1>2. {c \in DOMAIN xml : c < next + 1 /\ ~silent(xml[c])}
        = {c \in DOMAIN xml : c < next /\ ~silent(xml[c])}
            \cup {c \in {next} : ~silent(xml[c])}
  BY <1>0
<1>3. CASE silent(xml[next])
  <2>1. report' = report
    BY <1>3
  <2>2. QED
    BY <1>0, <1>1, <1>2, <1>3, <2>1 DEF SuiteInv, ReportInv
<1>4. CASE ~silent(xml[next])
  <2> DEFINE line == [case |-> next, passed |-> passed(xml[next])]
  <2>1. report' = Append(report, line)
    BY <1>4 DEF Packet
  <2>2. line \in [case : 1..N, passed : BOOLEAN] /\ line.case = next
    <3>1. passed(xml[next]) \in BOOLEAN
      BY DEF passed
    <3>2. next \in 1..N
      BY <1>0
    <3>3. QED
      BY <3>1, <3>2
  <2> HIDE DEF line
  <2>3. /\ report' \in Seq([case : 1..N, passed : BOOLEAN])
        /\ DOMAIN report' = 1..(Len(report) + 1)
        /\ DOMAIN report = 1..Len(report)
        /\ Len(report) \in Nat
        /\ \A i \in DOMAIN report : report'[i] = report[i]
        /\ report'[Len(report) + 1] = line
    BY <1>0, <2>1, <2>2
  <2>4. {report'[i].case : i \in DOMAIN report'}
          = {report[i].case : i \in DOMAIN report} \cup {next}
    BY <2>2, <2>3
  <2>5. {report'[i].case : i \in DOMAIN report'}
          = {c \in DOMAIN xml : c < next + 1 /\ ~silent(xml[c])}
    BY <1>2, <1>4, <2>4 DEF SuiteInv, ReportInv
  <2>6. \A i \in DOMAIN report : report[i].case < next /\ report[i].case \in Nat
    <3>1. \A i \in DOMAIN report :
            report[i].case \in {c \in DOMAIN xml : c < next /\ ~silent(xml[c])}
      BY DEF SuiteInv, ReportInv
    <3>2. QED
      BY <1>0, <3>1
  <2>7. \A i, j \in DOMAIN report' : i < j => report'[i].case < report'[j].case
    <3>1. \A i, j \in DOMAIN report : i < j => report[i].case < report[j].case
      BY DEF SuiteInv, ReportInv
    <3>2. \A i, j \in DOMAIN report' : i < j =>
            i \in DOMAIN report /\ (j \in DOMAIN report \/ j = Len(report) + 1)
      BY <2>3
    <3>3. QED
      BY <2>2, <2>3, <2>6, <3>1, <3>2
  <2>8. QED
    BY <1>1, <2>3, <2>5, <2>7 DEF ReportInv
<1>5. QED
  BY <1>3, <1>4

LEMMA StepKeepsSuite == ASSUME SuiteInv, [Next]_vars PROVE SuiteInv'
<1> USE DEF SuiteInv, Goto, Leave, Closed, Before
<1>0. N \in Nat /\ Len(xml) \in Nat /\ next \in Nat
  BY ReportType, SuiteStepsAssumption DEF TypeOK
<1>1. CASE Resolve
  BY <1>1 DEF Resolve, NeedsTool, TypeOK, FileInv, LoopInv, ReportInv
<1>2. CASE FindTool
  BY <1>2 DEF FindTool, TypeOK, FileInv, LoopInv, ReportInv
<1>3. CASE MakeFile
  BY <1>3 DEF MakeFile, TypeOK, FileInv, LoopInv, ReportInv
<1>4. CASE SuiteEnds
  <2>1. xml' \in Reports /\ next' = 1 /\ report' = <<>> /\ pc' = "reading"
    BY <1>4 DEF SuiteEnds, TypeOK, LoopInv
  <2>2. TypeOK'
    BY <1>4, <2>1 DEF SuiteEnds, TypeOK
  <2>3. Len(xml') \in Nat
    BY <2>1, ReportType
  <2>4. \A c \in DOMAIN xml' : ~(c < 1)
    BY <2>1, ReportType
  <2>5. FileInv' /\ LoopInv'
    BY <2>1, <2>3 DEF FileInv, LoopInv
  <2>6. ReportInv'
    BY <2>1, <2>4 DEF ReportInv
  <2>7. QED
    BY <2>2, <2>5, <2>6
<1>5. CASE SuiteRaises
  BY <1>5 DEF SuiteRaises, TypeOK, FileInv, LoopInv, ReportInv
<1>6. CASE ReadReport
  BY <1>6 DEF ReadReport, TypeOK, FileInv, LoopInv, ReportInv
<1>7. CASE Yield
  <2>1. /\ next' \in 1..N + 1
        /\ report' \in Seq([case : 1..N, passed : BOOLEAN])
        /\ ReportInv'
    BY <1>7, LoopStep DEF Yield
  <2>2. TypeOK'
    BY <1>7, <2>1 DEF Yield, TypeOK
  <2>3. FileInv' /\ LoopInv'
    BY <1>0, <1>7 DEF Yield, FileInv, LoopInv
  <2>4. QED
    BY <2>1, <2>2, <2>3
<1>8. CASE Ignore
  <2>1. /\ next' \in 1..N + 1
        /\ report' \in Seq([case : 1..N, passed : BOOLEAN])
        /\ ReportInv'
    BY <1>8, LoopStep DEF Ignore
  <2>2. TypeOK'
    BY <1>8, <2>1 DEF Ignore, TypeOK
  <2>3. FileInv' /\ LoopInv'
    BY <1>0, <1>8 DEF Ignore, FileInv, LoopInv
  <2>4. QED
    BY <2>1, <2>2, <2>3
<1>9. CASE ReturnOk
  BY <1>9 DEF ReturnOk, TypeOK, FileInv, LoopInv, ReportInv
<1>10. CASE Resume
  BY <1>10 DEF Resume, TypeOK, FileInv, LoopInv, ReportInv
<1>11. CASE Abandon
  BY <1>11 DEF Abandon, TypeOK, FileInv, LoopInv, ReportInv
<1>12. CASE UNCHANGED vars
  BY <1>12 DEF vars, TypeOK, FileInv, LoopInv, ReportInv
<1>13. QED
  BY <1>1, <1>2, <1>3, <1>4, <1>5, <1>6, <1>7, <1>8, <1>9, <1>10, <1>11, <1>12
     DEF Next

LEMMA SuiteInvariant == Spec => []SuiteInv
<1>1. SuiteInv /\ [Next]_vars => SuiteInv'
  BY StepKeepsSuite
<1>2. QED
  BY InitSuite, <1>1, PTL DEF Spec

\* A suite that ended Ok has reported every test case of its report that is not
\* marked as skipped, once and in order, for reports of any length.
THEOREM SuitesReportEveryTest == Spec => []EveryTestReported
<1>1. ASSUME SuiteInv PROVE EveryTestReported
  <2>1. ASSUME pc = "ok"
        PROVE  {report[i].case : i \in DOMAIN report} = {c \in DOMAIN xml : ~xml[c].skipped}
    <3>1. /\ DOMAIN xml = 1..Len(xml) /\ Len(xml) \in Nat /\ next \in Nat
          /\ \A c \in DOMAIN xml : xml[c] \in TestCase
      BY <1>1, ReportType, SuiteStepsAssumption DEF SuiteInv, TypeOK
    <3>2. \A c \in DOMAIN xml : c < next
      BY <1>1, <2>1, <3>1 DEF SuiteInv, LoopInv
    <3>3. \A c \in DOMAIN xml : silent(xml[c]) <=> xml[c].skipped
      BY <3>1, SilentIsSkipped
    <3>4. QED
      BY <1>1, <3>2, <3>3 DEF SuiteInv, ReportInv
  <2>2. QED
    BY <1>1, <2>1 DEF EveryTestReported, SuiteInv, ReportInv
<1>2. QED
  BY SuiteInvariant, <1>1, PTL

\* No way a call can end leaves its temporary file behind.
THEOREM SuitesLeaveNoFile == Spec => []NoFileLeft
<1>1. SuiteInv => NoFileLeft
  BY DEF SuiteInv, FileInv, NoFileLeft
<1>2. QED
  BY SuiteInvariant, <1>1, PTL
==============================================================================
