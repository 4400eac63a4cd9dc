--------------------------- MODULE CaseSteps_proofs ---------------------------
(***************************************************************************)
(* Proofs about CaseSteps, for any number of cases, any programs and any   *)
(* children they leave behind.                                             *)
(***************************************************************************)
EXTENDS CaseSteps, TLAPS

\* A case is under way between NextCase and its packet; then, and only then, one
\* case more has been taken than reported.
UnderWay == pc \in {"running", "reference", "judging"}

ReportInv ==
  /\ pc \in {"resolving", "tool"} => case = 0 /\ report = <<>> /\ ~temp
  /\ UnderWay => Len(report) = case - 1
  /\ pc \in {"next", "yielded"} => Len(report) = case
  /\ Len(report) <= N

\* From NextCase to the packet, the output file is of this run or of a child
\* left behind.
FreshInv ==
  kind = "file_output" /\ UnderWay /\ file.is # "absent" =>
    file.by \in {case} \cup left

\* What a killed run shows: no exit code, and no good time.
KilledInv ==
  /\ pc = "reference" => kind = "differential"
  /\ pc = "judging" /\ run.ends = "killed" =>
       /\ kind # "differential" => ~run.code
       /\ kind = "performance" => ~run.match

CaseStepsInv ==
  /\ TypeOK
  /\ ReportInv
  /\ NoTempLeft
  /\ FreshInv /\ PassedOnFreshFile
  /\ KilledInv /\ KilledNeverPasses

USE CaseStepsAssumption DEF Closed, Endings, UnderWay

\* What is known of any file: who wrote it; and the file that is not there.
LEMMA FileFacts ==
  /\ NoFile \in Files
  /\ NoFile.is = "absent" /\ NoFile.by = 0
  /\ \A f \in Files : f.by \in 0..N
<1>1. NoFile \in Files
  BY DEF Files
<1>2. NoFile.is = "absent" /\ NoFile.by = 0
  BY DEF NoFile
<1>3. ASSUME NEW f \in Files PROVE f.by \in 0..N
  <2>1. CASE f = NoFile
    BY <2>1, <1>2
  <2>2. CASE f \in [is : {"file", "directory"}, by : 0..N, right : BOOLEAN]
    BY <2>2
  <2>3. QED
    BY <2>1, <2>2, <1>3 DEF Files
<1>4. QED
  BY <1>1, <1>2, <1>3

LEMMA InitInv == Init => CaseStepsInv
<1> SUFFICES ASSUME Init PROVE CaseStepsInv
  OBVIOUS
<1>1. kind \in Kinds /\ pc = "resolving" /\ case = 0 /\ temp = FALSE /\ report = <<>>
  BY DEF Init
<1>2. file \in Files
  BY FileFacts DEF Init
<1>3. left \subseteq 0..N
  <2>1. left \in SUBSET {0} \/ left = {}
    BY DEF Init
  <2>2. QED
    BY <2>1
<1>4. run \in [ends : Endings, match : BOOLEAN, code : BOOLEAN]
  BY DEF Init, NoRun
<1>5. report \in Seq([case : 1..N, passed : BOOLEAN, ends : Endings, by : 0..N])
  BY <1>1
<1>6. TypeOK
  <2>1. temp \in BOOLEAN /\ holds \in BOOLEAN
    BY <1>1 DEF Init
  <2>2. case \in 0..N
    BY <1>1
  <2>3. QED
    BY <1>1, <1>2, <1>3, <1>4, <1>5, <2>1, <2>2 DEF TypeOK
<1>7. ReportInv /\ NoTempLeft /\ FreshInv /\ KilledInv
  BY <1>1 DEF ReportInv, NoTempLeft, FreshInv, KilledInv
<1>8. PassedOnFreshFile /\ KilledNeverPasses
  <2>1. DOMAIN report = {}
    BY <1>1
  <2>2. QED
    BY <2>1 DEF PassedOnFreshFile, KilledNeverPasses
<1>9. QED
  BY <1>6, <1>7, <1>8 DEF CaseStepsInv

\* The packet Judge appends has a field of the right type each.
LEMMA JudgeTyped ==
  ASSUME TypeOK, ReportInv, Judge
  PROVE  /\ report' \in Seq([case : 1..N, passed : BOOLEAN, ends : Endings, by : 0..N])
         /\ Len(report') = Len(report) + 1
         /\ Len(report') <= N
         /\ \A i \in 1..Len(report) : report'[i] = report[i]
         /\ report'[Len(report')] = [case |-> case, passed |-> Passes,
                                     ends |-> run.ends, by |-> file.by]
<1> DEFINE packet == [case |-> case, passed |-> Passes, ends |-> run.ends, by |-> file.by]
           Packets == [case : 1..N, passed : BOOLEAN, ends : Endings, by : 0..N]
<1>1. case \in 1..N /\ Len(report) = case - 1
  BY DEF TypeOK, ReportInv, Judge
<1>2. Passes \in BOOLEAN
  BY DEF Passes
<1>3. run.ends \in Endings /\ file.by \in 0..N
  BY FileFacts DEF TypeOK
<1>4. packet \in Packets
  BY <1>1, <1>2, <1>3
<1>5. report \in Seq(Packets) /\ report' = Append(report, packet)
  BY DEF TypeOK, Judge
<1> HIDE DEF packet, Packets
<1>6. /\ report' \in Seq(Packets)
      /\ Len(report') = Len(report) + 1
      /\ \A i \in 1..Len(report) : report'[i] = report[i]
      /\ report'[Len(report) + 1] = packet
  BY <1>4, <1>5
<1>7. Len(report') <= N
  BY <1>1, <1>6
<1>8. QED
  BY <1>6, <1>7 DEF packet, Packets

LEMMA TypeStep == TypeOK /\ ReportInv /\ [Next]_vars => TypeOK'
<1> SUFFICES ASSUME TypeOK, ReportInv, [Next]_vars PROVE TypeOK'
  OBVIOUS
<1>1. CASE Resolve \/ FindTool \/ ReturnOk \/ GiveUp \/ Resume \/ Abandon \/ UNCHANGED vars
  BY <1>1 DEF TypeOK, Resolve, FindTool, ReturnOk, GiveUp, Resume, Abandon, Goto, Leave, vars
<1>2. CASE NextCase
  <2>1. case' \in 0..N
    BY <1>2 DEF TypeOK, NextCase, HasCase, following
  <2>2. file' \in Files
    BY <1>2, FileFacts DEF TypeOK, NextCase, unlink
  <2>3. pc' \in {"raised", "running"} /\ temp' \in BOOLEAN
    BY <1>2 DEF TypeOK, NextCase, Goto, Leave
  <2>4. UNCHANGED <<kind, run, left, holds, report>>
    BY <1>2 DEF NextCase
  <2>5. QED
    BY <2>1, <2>2, <2>3, <2>4 DEF TypeOK
<1>3. CASE Ends
  <2>1. CASE EndRun
    <3>1. run' \in [ends : Endings, match : BOOLEAN, code : BOOLEAN]
      BY <2>1 DEF EndRun, Showings
    <3>2. pc' \in {"reference", "judging"} /\ UNCHANGED <<kind, case, file, left, holds, temp, report>>
      BY <2>1 DEF EndRun, Goto
    <3>3. QED
      BY <3>1, <3>2 DEF TypeOK
  <2>2. CASE EndReference
    <3>1. PICK m \in BOOLEAN, c \in BOOLEAN : run' = [run EXCEPT !.match = m, !.code = c]
      BY <2>2 DEF EndReference
    <3>2. run' \in [ends : Endings, match : BOOLEAN, code : BOOLEAN]
      BY <3>1 DEF TypeOK
    <3>3. pc' = "judging" /\ UNCHANGED <<kind, case, file, left, holds, temp, report>>
      BY <2>2 DEF EndReference, Goto
    <3>4. QED
      BY <3>2, <3>3 DEF TypeOK
  <2>3. QED
    BY <1>3, <2>1, <2>2 DEF Ends
<1>4. CASE RunRaises
  BY <1>4 DEF TypeOK, RunRaises, Goto, Leave, swallowed
<1>5. CASE Judge
  BY <1>5, JudgeTyped DEF TypeOK, Judge, Goto
<1>6. CASE ProgramWrites \/ LeavesChild \/ ChildLetsGo \/ \E j \in left : ChildWrites(j)
  BY <1>6 DEF TypeOK, ProgramWrites, LeavesChild, ChildLetsGo, ChildWrites, Puts
<1>7. QED
  BY <1>1, <1>2, <1>3, <1>4, <1>5, <1>6 DEF Next, Step

LEMMA ReportStep ==
  TypeOK /\ ReportInv /\ NoTempLeft /\ [Next]_vars => ReportInv' /\ NoTempLeft'
<1> SUFFICES ASSUME TypeOK, ReportInv, NoTempLeft, [Next]_vars
             PROVE  ReportInv' /\ NoTempLeft'
  OBVIOUS
<1>1. CASE Resolve \/ FindTool \/ ReturnOk \/ GiveUp \/ Resume \/ Abandon \/ UNCHANGED vars
  BY <1>1 DEF TypeOK, ReportInv, NoTempLeft, Resolve, FindTool, ReturnOk, GiveUp, Resume,
              Abandon, Goto, Leave, vars
<1>2. CASE NextCase
  BY <1>2 DEF TypeOK, ReportInv, NoTempLeft, NextCase, HasCase, following, Goto, Leave
<1>3. CASE Ends
  <2>1. UnderWay /\ pc' \in {"reference", "judging"} /\ UNCHANGED <<case, temp, report>>
    <3>1. EndRun => pc = "running" /\ pc' \in {"reference", "judging"}
      BY DEF EndRun, Goto
    <3>2. EndReference => pc = "reference" /\ pc' = "judging"
      BY DEF EndReference, Goto
    <3>3. UNCHANGED <<case, temp, report>>
      BY <1>3 DEF Ends, EndRun, EndReference
    <3>4. QED
      BY <1>3, <3>1, <3>2, <3>3 DEF Ends
  <2>2. QED
    BY <2>1 DEF ReportInv, NoTempLeft
<1>4. CASE RunRaises
  BY <1>4 DEF ReportInv, NoTempLeft, RunRaises, Goto, Leave
<1>5. CASE Judge
  <2>1. Len(report') = Len(report) + 1 /\ Len(report') <= N
    BY <1>5, JudgeTyped
  <2>2. Len(report) = case - 1 /\ case' = case /\ pc' = "yielded" /\ case \in 0..N
    BY <1>5 DEF ReportInv, Judge, Goto, TypeOK
  <2>3. QED
    BY <2>1, <2>2 DEF ReportInv, NoTempLeft
<1>6. CASE ProgramWrites \/ LeavesChild \/ ChildLetsGo \/ \E j \in left : ChildWrites(j)
  BY <1>6 DEF ReportInv, NoTempLeft, ProgramWrites, LeavesChild, ChildLetsGo, ChildWrites
<1>7. QED
  BY <1>1, <1>2, <1>3, <1>4, <1>5, <1>6 DEF Next, Step

\* The file is fresh while its case is under way, so a case passes on nothing else.
LEMMA FreshStep ==
  TypeOK /\ ReportInv /\ FreshInv /\ PassedOnFreshFile /\ [Next]_vars
    => FreshInv' /\ PassedOnFreshFile'
<1> SUFFICES ASSUME TypeOK, ReportInv, FreshInv, PassedOnFreshFile, [Next]_vars
             PROVE  FreshInv' /\ PassedOnFreshFile'
  OBVIOUS
<1>1. CASE Resolve \/ FindTool \/ ReturnOk \/ GiveUp \/ Resume \/ Abandon \/ UNCHANGED vars
  BY <1>1 DEF FreshInv, PassedOnFreshFile, Resolve, FindTool, ReturnOk, GiveUp, Resume,
              Abandon, Goto, Leave, vars
<1>2. CASE NextCase
  <2>1. UNCHANGED <<kind, left, report>>
    BY <1>2 DEF NextCase
  <2>2. kind = "file_output" => pc' = "raised" \/ file' = NoFile
    BY <1>2 DEF NextCase, Goto, Leave, unlink
  <2>3. QED
    BY <2>1, <2>2, FileFacts DEF FreshInv, PassedOnFreshFile
<1>3. CASE Ends
  <2>1. UnderWay /\ UNCHANGED <<kind, case, file, left, report>>
    BY <1>3 DEF Ends, EndRun, EndReference
  <2>2. QED
    BY <2>1 DEF FreshInv, PassedOnFreshFile
<1>4. CASE RunRaises
  <2>1. UnderWay /\ UNCHANGED <<kind, case, file, left, report>>
    BY <1>4 DEF RunRaises
  <2>2. QED
    BY <2>1 DEF FreshInv, PassedOnFreshFile
<1>5. CASE Judge
  <2>1. UNCHANGED <<kind, left>> /\ pc = "judging" /\ pc' = "yielded"
    BY <1>5 DEF Judge, Goto
  <2>2. FreshInv'
    BY <2>1 DEF FreshInv
  <2>3. ASSUME kind = "file_output", NEW i \in DOMAIN report', report'[i].passed
        PROVE  report'[i].by \in {report'[i].case} \cup left
    <3>1. /\ DOMAIN report' = 1..Len(report) + 1 /\ DOMAIN report = 1..Len(report)
          /\ Len(report) \in Nat
      BY <1>5, JudgeTyped DEF TypeOK
    <3>2. CASE i \in 1..Len(report)
      <4>1. report'[i] = report[i]
        BY <3>2, <1>5, JudgeTyped
      <4>2. QED
        BY <4>1, <2>3, <3>1, <3>2 DEF PassedOnFreshFile
    <3>3. CASE i = Len(report) + 1
      <4>1. report'[i] = [case |-> case, passed |-> Passes, ends |-> run.ends, by |-> file.by]
        BY <3>3, <1>5, JudgeTyped
      <4>2. Passes
        BY <4>1, <2>3
      <4>3. file.is # "absent"
        BY <4>2, <2>3 DEF Passes, FileOutputOk, file_ok
      <4>4. file.by \in {case} \cup left
        BY <4>3, <2>1, <2>3 DEF FreshInv
      <4>5. QED
        BY <4>1, <4>4
    <3>4. QED
      BY <3>1, <3>2, <3>3
  <2>4. QED
    BY <2>1, <2>2, <2>3 DEF PassedOnFreshFile
<1>6. CASE ProgramWrites
  <2>1. UNCHANGED <<kind, pc, case, left, report>> /\ file'.by = case
    BY <1>6 DEF ProgramWrites, Puts
  <2>2. QED
    BY <2>1 DEF FreshInv, PassedOnFreshFile
<1>7. CASE LeavesChild \/ ChildLetsGo
  <2>1. UNCHANGED <<kind, pc, case, file, report>> /\ left \subseteq left'
    BY <1>7 DEF LeavesChild, ChildLetsGo
  <2>2. QED
    BY <2>1 DEF FreshInv, PassedOnFreshFile
<1>8. CASE \E j \in left : ChildWrites(j)
  <2>1. UNCHANGED <<kind, pc, case, left, report>> /\ file'.by \in left
    BY <1>8 DEF ChildWrites, Puts
  <2>2. QED
    BY <2>1 DEF FreshInv, PassedOnFreshFile
<1>9. QED
  BY <1>1, <1>2, <1>3, <1>4, <1>5, <1>6, <1>7, <1>8 DEF Next, Step

LEMMA KilledStep ==
  TypeOK /\ ReportInv /\ KilledInv /\ KilledNeverPasses /\ [Next]_vars
    => KilledInv' /\ KilledNeverPasses'
<1> SUFFICES ASSUME TypeOK, ReportInv, KilledInv, KilledNeverPasses, [Next]_vars
             PROVE  KilledInv' /\ KilledNeverPasses'
  OBVIOUS
<1>1. CASE Resolve \/ FindTool \/ NextCase \/ ReturnOk \/ GiveUp \/ Resume \/ Abandon
  <2>1. pc' \notin {"reference", "judging"} /\ UNCHANGED <<kind, report>>
    BY <1>1 DEF Resolve, FindTool, NextCase, ReturnOk, GiveUp, Resume, Abandon, Goto, Leave
  <2>2. QED
    BY <2>1 DEF KilledInv, KilledNeverPasses
<1>2. CASE EndRun
  <2>1. UNCHANGED <<kind, report>> /\ run' \in Showings
    BY <1>2 DEF EndRun
  <2>2. IF kind = "differential" THEN pc' = "reference" ELSE pc' = "judging"
    BY <1>2 DEF EndRun, Goto
  <2>3. KilledInv'
    BY <2>1, <2>2 DEF KilledInv, Showings
  <2>4. QED
    BY <2>1, <2>3 DEF KilledNeverPasses
<1>3. CASE EndReference
  <2>1. kind = "differential" /\ pc' = "judging" /\ UNCHANGED <<kind, report>>
    BY <1>3 DEF EndReference, KilledInv, Goto
  <2>2. QED
    BY <2>1 DEF KilledInv, KilledNeverPasses
<1>4. CASE RunRaises
  <2>1. UNCHANGED <<kind, report>>
    BY <1>4 DEF RunRaises
  <2>2. pc' \in Closed \/ (pc' = "judging" /\ run'.ends = "raised")
    BY <1>4 DEF RunRaises, Goto, Leave
  <2>3. QED
    BY <2>1, <2>2 DEF KilledInv, KilledNeverPasses
<1>5. CASE Judge
  <2>1. UNCHANGED kind /\ pc = "judging" /\ pc' = "yielded" /\ ~NoVerdict
    BY <1>5 DEF Judge, Goto
  <2>2. KilledInv'
    BY <2>1 DEF KilledInv
  <2>3. ASSUME NEW i \in DOMAIN report', report'[i].passed, report'[i].ends = "killed"
        PROVE  /\ kind \notin {"performance", "valgrind", "symbol"}
               /\ kind = "compile_check" => report'[i].case \in Negated
    <3>1. /\ DOMAIN report' = 1..Len(report) + 1 /\ DOMAIN report = 1..Len(report)
          /\ Len(report) \in Nat
      BY <1>5, JudgeTyped DEF TypeOK
    <3>2. CASE i \in 1..Len(report)
      <4>1. report'[i] = report[i]
        BY <3>2, <1>5, JudgeTyped
      <4>2. QED
        BY <4>1, <2>3, <3>1, <3>2 DEF KilledNeverPasses
    <3>3. CASE i = Len(report) + 1
      <4>1. report'[i] = [case |-> case, passed |-> Passes, ends |-> run.ends, by |-> file.by]
        BY <3>3, <1>5, JudgeTyped
      <4>2. Passes /\ run.ends = "killed" /\ report'[i].case = case
        BY <4>1, <2>3
      <4>3. /\ kind # "differential" => ~run.code
            /\ kind = "performance" => ~run.match
        BY <4>2, <2>1 DEF KilledInv
      <4>4. kind \notin {"valgrind", "symbol"}
        BY <4>3, <2>1 DEF NoVerdict
      <4>5. kind # "performance"
        BY <4>2, <4>3 DEF Passes, PerformanceOk
      <4>6. kind = "compile_check" => case \in Negated
        BY <4>2, <4>3 DEF Passes, CompileCheckOk
      <4>7. QED
        BY <4>2, <4>4, <4>5, <4>6
    <3>4. QED
      BY <3>1, <3>2, <3>3
  <2>4. QED
    BY <2>1, <2>2, <2>3 DEF KilledNeverPasses
<1>6. CASE \/ ProgramWrites \/ LeavesChild \/ ChildLetsGo \/ (\E j \in left : ChildWrites(j))
           \/ UNCHANGED vars
  <2>1. UNCHANGED <<kind, pc, run, report>>
    BY <1>6 DEF ProgramWrites, LeavesChild, ChildLetsGo, ChildWrites, vars
  <2>2. QED
    BY <2>1 DEF KilledInv, KilledNeverPasses
<1>7. QED
  BY <1>1, <1>2, <1>3, <1>4, <1>5, <1>6 DEF Next, Step, Ends

LEMMA CaseStepsInductive == CaseStepsInv /\ [Next]_vars => CaseStepsInv'
BY TypeStep, ReportStep, FreshStep, KilledStep DEF CaseStepsInv

LEMMA CaseStepsInvariant == Spec => []CaseStepsInv
BY InitInv, CaseStepsInductive, PTL DEF Spec

------------------------------------------------------------------------------
\* Every variable has its type, in particular the packets' evidence.
THEOREM CaseStepsTyped == Spec => []TypeOK
<1>1. CaseStepsInv => TypeOK
  BY DEF CaseStepsInv
<1>2. QED
  BY <1>1, CaseStepsInvariant, PTL

\* However a call of a step ends, its temporary directory is gone.
THEOREM CaseStepsLeaveNoTemp == Spec => []NoTempLeft
<1>1. CaseStepsInv => NoTempLeft
  BY DEF CaseStepsInv
<1>2. QED
  BY <1>1, CaseStepsInvariant, PTL

\* A case of FileOutputTest passes only on its own run's file, or a left-behind
\* child's.
THEOREM CaseStepsPassFreshFiles == Spec => []PassedOnFreshFile
<1>1. CaseStepsInv => PassedOnFreshFile
  BY DEF CaseStepsInv
<1>2. QED
  BY <1>1, CaseStepsInvariant, PTL

\* A killed program does not pass where the verdict needs the whole run.
THEOREM CaseStepsKilledFail == Spec => []KilledNeverPasses
<1>1. CaseStepsInv => KilledNeverPasses
  BY DEF CaseStepsInv
<1>2. QED
  BY <1>1, CaseStepsInvariant, PTL

\* The cases of a report, one case longer for each packet.
LEMMA CasesGrow ==
  ASSUME TypeOK, ReportInv, Judge
  PROVE  LET cases == [i \in DOMAIN report |-> report[i].case] IN
         /\ Len(cases) = Len(report)
         /\ [i \in DOMAIN report' |-> report'[i].case] = Append(cases, Len(cases) + 1)
<1> DEFINE cases == [i \in DOMAIN report |-> report[i].case]
           new == [i \in DOMAIN report' |-> report'[i].case]
<1>1. /\ DOMAIN report = 1..Len(report) /\ Len(report) \in Nat
      /\ DOMAIN report' = 1..(Len(report) + 1)
      /\ \A i \in 1..Len(report) : report'[i] = report[i]
  BY JudgeTyped DEF TypeOK
<1>2. report'[Len(report) + 1].case = Len(report) + 1
  <2>1. report'[Len(report) + 1].case = case
    BY JudgeTyped
  <2>2. case \in Nat /\ Len(report) = case - 1
    BY DEF TypeOK, ReportInv, Judge
  <2>3. QED
    BY <1>1, <2>1, <2>2
<1>3. \A i \in 1..Len(report) : report[i].case \in Nat
  <2> DEFINE Packets == [case : 1..N, passed : BOOLEAN, ends : Endings, by : 0..N]
  <2>1. \A packet \in Packets : packet.case \in Nat
    OBVIOUS
  <2>2. report \in Seq(Packets)
    BY DEF TypeOK
  <2> HIDE DEF Packets
  <2>3. \A i \in 1..Len(report) : report[i] \in Packets
    BY <2>2
  <2>4. QED
    BY <2>1, <2>3
<1>4. cases \in Seq(Nat) /\ Len(cases) = Len(report)
  <2>1. cases \in [1..Len(report) -> Nat]
    BY <1>1, <1>3
  <2>2. QED
    BY <1>1, <2>1
<1>5. \A i \in 1..Len(report) : cases[i] = report[i].case
  BY <1>1
<1> DEFINE after == Append(cases, Len(cases) + 1)
<1>6. /\ after \in Seq(Nat) /\ Len(after) = Len(report) + 1
      /\ \A i \in 1..Len(report) : after[i] = cases[i]
      /\ after[Len(report) + 1] = Len(report) + 1
  <2> HIDE DEF cases
  <2>1. Len(cases) + 1 \in Nat
    BY <1>1, <1>4
  <2>2. QED
    BY <1>4, <2>1
<1>7. \A i \in 1..(Len(report) + 1) : after[i] = new[i]
  <2> HIDE DEF after, cases
  <2>1. ASSUME NEW i \in 1..Len(report) PROVE after[i] = new[i]
    BY <2>1, <1>1, <1>5, <1>6
  <2>2. after[Len(report) + 1] = new[Len(report) + 1]
    BY <1>1, <1>2, <1>6
  <2>3. QED
    BY <1>1, <2>1, <2>2
<1>8. DOMAIN after = 1..(Len(report) + 1) /\ DOMAIN new = 1..(Len(report) + 1)
  <2>1. DOMAIN new = 1..(Len(report) + 1)
    BY <1>1
  <2> HIDE DEF after, new
  <2>2. QED
    BY <1>6, <2>1
<1>9. after = [i \in 1..(Len(report) + 1) |-> after[i]]
  <2> HIDE DEF after
  <2>1. QED
    BY <1>6
<1>10. new = [i \in 1..(Len(report) + 1) |-> new[i]]
  BY <1>1
<1>11. after = new
  <2> HIDE DEF after, new
  <2>1. QED
    BY <1>7, <1>9, <1>10
<1>12. QED
  BY <1>4, <1>11

\* Every step class reports its cases in the order they were given, each once,
\* returns Ok after the last one, and reports nothing once it is over.
THEOREM CaseStepsImplementReport == Spec => ImplementsCaseReport
<1> DEFINE reported == [i \in DOMAIN report |-> report[i].case]
           status == IF pc \in Closed THEN pc ELSE "open"
<1>1. Init => Abstract!Init
  <2>1. ASSUME Init PROVE reported = <<>> /\ status = "open"
    <3>1. DOMAIN report = {} /\ pc = "resolving"
      BY <2>1 DEF Init
    <3>2. reported = <<>>
      BY <3>1
    <3>3. QED
      BY <3>1, <3>2
  <2>2. QED
    BY <2>1 DEF Abstract!Init
<1>2. CaseStepsInv /\ [Next]_vars => [Abstract!Next]_(Abstract!vars)
  <2> SUFFICES ASSUME CaseStepsInv, [Next]_vars
               PROVE  [Abstract!Next]_(Abstract!vars)
    OBVIOUS
  <2>1. TypeOK /\ ReportInv
    BY DEF CaseStepsInv
  <2>2. CASE Judge
    <3>1. pc = "judging" /\ pc' = "yielded"
      BY <2>2 DEF Judge, Goto
    <3>2. status = "open" /\ status' = "open"
      BY <3>1
    <3>3. reported' = Append(reported, Len(reported) + 1) /\ Len(reported) < N
      <4>1. Len(report') = Len(report) + 1 /\ Len(report') <= N
        BY <2>1, <2>2, JudgeTyped
      <4>2. Len(report) \in Nat /\ N \in Nat
        BY <2>1, CaseStepsAssumption DEF TypeOK
      <4>3. Len(report) < N
        BY <4>1, <4>2
      <4>4. Len(reported) = Len(report) /\ reported' = Append(reported, Len(reported) + 1)
        BY <2>1, <2>2, CasesGrow
      <4>5. QED
        BY <4>3, <4>4, Zenon
    <3>4. Abstract!Report
      BY <3>2, <3>3 DEF Abstract!Report
    <3>5. QED
      BY <3>4 DEF Abstract!Next
  <2>3. CASE ~Judge
    <3>1. report' = report
      BY <2>3 DEF Next, Step, Ends, Resolve, FindTool, NextCase, ReturnOk, GiveUp, Resume,
         Abandon, EndRun, EndReference, RunRaises, ProgramWrites, LeavesChild,
         ChildLetsGo, ChildWrites, vars
    <3>2. CASE pc' \notin Closed \/ pc' = pc
      <4>1. pc \in Closed => pc' = pc
        BY DEF Next, Step, Ends, Resolve, FindTool, NextCase, ReturnOk, Judge, GiveUp,
           Resume, Abandon, EndRun, EndReference, RunRaises, ProgramWrites, LeavesChild,
           ChildLetsGo, ChildWrites, vars
      <4>2. status' = status
        BY <3>2, <4>1
      <4>3. QED
        BY <3>1, <4>2 DEF Abstract!vars
    <3>3. CASE pc' \in Closed /\ pc' # pc
      <4>1. pc \notin Closed
        BY <3>3 DEF Next, Step, Ends, Resolve, FindTool, NextCase, ReturnOk, Judge, GiveUp,
           Resume, Abandon, EndRun, EndReference, RunRaises, ProgramWrites, LeavesChild,
           ChildLetsGo, ChildWrites, vars
      <4>2. status = "open" /\ status' = pc'
        BY <3>3, <4>1
      <4>3. pc' = "ok" => ReturnOk
        BY <3>3, <2>3 DEF Next, Step, Ends, Resolve, FindTool, NextCase, ReturnOk, GiveUp,
           Resume, Abandon, EndRun, EndReference, RunRaises, ProgramWrites, LeavesChild,
           ChildLetsGo, ChildWrites, Goto, Leave, vars
      <4>4. pc' = "ok" => Len(reported) = N
        <5>1. Len(reported) = Len(report)
          <6>1. Len(report) \in Nat /\ DOMAIN report = 1..Len(report)
            BY <2>1 DEF TypeOK
          <6>2. QED
            BY <6>1
        <5>2. ReturnOk => Len(report) = N
          BY <2>1 DEF ReturnOk, HasCase, ReportInv, TypeOK
        <5>3. QED
          BY <4>3, <5>1, <5>2
      <4>5. Abstract!Close(pc')
        BY <3>1, <4>2, <4>4 DEF Abstract!Close
      <4>6. QED
        BY <3>3, <4>5 DEF Abstract!Next, Abstract!Closed
    <3>4. QED
      BY <3>2, <3>3
  <2>4. QED
    BY <2>2, <2>3
<1>3. QED
  BY <1>1, <1>2, CaseStepsInvariant, PTL DEF Spec, ImplementsCaseReport, Abstract!Spec
==============================================================================
