-------------------------- MODULE Executables_proofs --------------------------
(***************************************************************************)
(* What Executables promises for any set of tools, however they are        *)
(* installed: that a process is started with the command the last search   *)
(* found, or that this call's own script installed for a step that runs it *)
(* itself, and that calls keep the contract of ToolCalls.                  *)
(***************************************************************************)
EXTENDS Executables, SequenceTheorems, TLAPS

Frames == [tool : Tools, at : Places, found : {"nothing", "original", "installed"}]

------------------------------------------------------------------------------
(* The stack of calls                                                       *)

LEMMA Calling ==
  ASSUME NEW s, Len(s) # 0
  PROVE  s # <<>>
<1>1. Len(<<>>) = 0
  BY EmptySeq
<1>2. QED
  BY <1>1

\* What is left when the innermost of at most two calls is over.
LEMMA Popped ==
  ASSUME NEW S, NEW s \in Seq(S), Len(s) \in 1..2
  PROVE  LET rest == SubSeq(s, 1, Len(s) - 1) IN
         /\ rest \in Seq(S) /\ Len(rest) = Len(s) - 1
         /\ Len(s) = 1 => rest = <<>>
         /\ Len(s) = 2 => rest[1] = s[1]
<1> DEFINE rest == SubSeq(s, 1, Len(s) - 1)
<1>0. \A i \in 1..(Len(s) - 1) : s[i] \in S
  BY LenProperties
<1>a. 1 \in Int /\ Len(s) - 1 \in Int /\ Len(s) - 1 >= 0
  OBVIOUS
<1>b. rest \in Seq(S)
  BY <1>0, <1>a, SubSeqProperties
<1>c. Len(rest) = IF 1 <= Len(s) - 1 THEN (Len(s) - 1) - 1 + 1 ELSE 0
  BY <1>0, <1>a, SubSeqProperties
<1> HIDE DEF rest
<1>1. rest \in Seq(S) /\ Len(rest) = Len(s) - 1
  BY <1>a, <1>b, <1>c
<1>2. Len(s) = 2 => rest[1] = s[1]
  BY <1>0, SubSeqProperties DEF rest
<1>3. Len(s) = 1 => rest = <<>>
  BY <1>1, EmptySeq
<1>4. QED
  BY <1>1, <1>2, <1>3 DEF rest

\* What the stack is when its innermost call moves on.
LEMMA Moved ==
  ASSUME NEW S, NEW s \in Seq(S), Len(s) \in 1..2, NEW x \in S
  PROVE  LET new == Append(SubSeq(s, 1, Len(s) - 1), x) IN
         /\ new \in Seq(S) /\ Len(new) = Len(s) /\ new[Len(s)] = x
         /\ Len(s) = 2 => new[1] = s[1]
<1> DEFINE rest == SubSeq(s, 1, Len(s) - 1)
<1>1. /\ rest \in Seq(S) /\ Len(rest) = Len(s) - 1
      /\ Len(s) = 2 => rest[1] = s[1]
  BY Popped
<1> HIDE DEF rest
<1>2. /\ Append(rest, x) \in Seq(S) /\ Len(Append(rest, x)) = Len(s)
      /\ Append(rest, x)[Len(s)] = x
  BY <1>1, AppendProperties
<1>3. Len(s) = 2 => Append(rest, x)[1] = s[1]
  BY <1>1, AppendProperties
<1>4. QED
  BY <1>2, <1>3 DEF rest

\* What the stack is when the only call starts another.
LEMMA Pushed ==
  ASSUME NEW S, NEW s \in Seq(S), Len(s) = 1, NEW x \in S, NEW y \in S
  PROVE  LET new == SubSeq(s, 1, Len(s) - 1) \o <<x, y>> IN
         /\ new \in Seq(S) /\ Len(new) = 2 /\ new[1] = x /\ new[2] = y
<1> DEFINE rest == SubSeq(s, 1, Len(s) - 1)
<1>1. rest = <<>>
  BY Popped
<1> HIDE DEF rest
<1>2. <<>> \o <<x, y>> = <<x, y>>
  OBVIOUS
<1>3. QED
  BY <1>1, <1>2 DEF rest

------------------------------------------------------------------------------
(* The inductive invariant                                                  *)

Commands == [Tools -> {"original", "installed"}]
Results == {"none", "zero", "nonzero", "err", "raised"}

\* Whoever is about to install, or waits for a script, had the consent.
Consent ==
  stack # <<>> =>
    /\ stack[1].at \in {"preinstall", "preinstalling"} =>
         get_config \/ Prelude[stack[1].tool] = "installs"
    /\ stack[1].at \in {"install", "installing"} => get_config

\* A script has been asked for and has not been started.
Asked == Len(stack) = 2 /\ stack[2].at # "running"

\* How many scripts were started, by how far the call has come: one that waited
\* for its step's own script, and sees that it ended well, has had it started.
Spent ==
  stack # <<>> =>
    /\ stack[1].at = "preinstalling" /\ Len(stack) = 2 /\ stack[2].at = "running" => scripts = 1
    /\ stack[1].at = "preinstalling" /\ Len(stack) = 1 /\ returned = "zero" => scripts = 1
    /\ stack[1].at \in {"precheck", "preinstall"} => scripts = 0
    /\ stack[1].at \in {"preinstalling", "emit", "check", "install"} => scripts <= 1
    /\ stack[1].at = "preinstalling" /\ Asked => scripts = 0
    /\ stack[1].at = "installing" /\ Asked => scripts <= 1

\* Before its step's own check succeeds a call has found nothing.
Unfound ==
  stack # <<>> /\ stack[1].at \in {"precheck", "preinstall", "preinstalling"} =>
    stack[1].found = "nothing"

ExecInv == TypeOK /\ RunsWhatItFound /\ Consent /\ Spent /\ Unfound

\* A frame that may start: with what was found, or with what was installed.
Fit(f, commands, n) ==
  \/ f.found = commands[f.tool]
  \/ Prelude[f.tool] = "runs" /\ f.found = "nothing" /\ n = 1

\* What may be asked of a frame that becomes the outermost call.
Placed(f, commands, result) ==
  /\ f.at \in {"run", "running", "again"} => Fit(f, commands, scripts)
  /\ f.at \in {"precheck", "preinstall", "preinstalling"} => f.found = "nothing"
  /\ f.at = "preinstalling" /\ result = "zero" => scripts = 1
  /\ f.at \in {"preinstall", "preinstalling"} => get_config \/ Prelude[f.tool] = "installs"
  /\ f.at \in {"install", "installing"} => get_config
  /\ f.at \in {"precheck", "preinstall"} => scripts = 0
  /\ f.at \in {"preinstalling", "emit", "check", "install"} => scripts <= 1

USE ExecutablesAssumption

LEMMA InitInv == Init => ExecInv
<1> SUFFICES ASSUME Init PROVE ExecInv
  OBVIOUS
<1>1. /\ posix \in BOOLEAN /\ onPath \subseteq Tools /\ stack = <<>> /\ scripts = 0
      /\ location = [t \in Tools |-> "absent"] /\ command = [t \in Tools |-> "original"]
      /\ allow = <<FALSE>> /\ returned = "none"
  BY DEF Init
<1>2. allow \in Seq(BOOLEAN) /\ Len(allow) \in 1..(MaxBlocks + 1) /\ ~allow[1]
  BY <1>1 DEF ExecutablesAssumption
<1>3. stack \in Seq(Frames) /\ Len(stack) = 0
  BY <1>1
<1>4. TypeOK
  BY <1>1, <1>2, <1>3 DEF TypeOK, Frames
<1>5. QED
  BY <1>1, <1>4 DEF ExecInv, RunsWhatItFound, Consent, Spent, Unfound, At

\* What the type of the stack says of its innermost call.
LEMMA TopFacts ==
  ASSUME TypeOK, stack # <<>>
  PROVE  /\ stack \in Seq(Frames) /\ Len(stack) \in 1..2
         /\ top \in Frames
<1>1. stack \in Seq(Frames) /\ Len(stack) <= 2
  BY DEF TypeOK, Frames
<1>a. Len(stack) \in Nat \ {0}
  BY <1>1, EmptySeq
<1>b. Len(stack) <= 2
  BY <1>1
<1>c. \A n \in Nat \ {0} : n <= 2 => n \in 1..2
  OBVIOUS
<1>2. Len(stack) \in 1..2
  BY <1>a, <1>b, <1>c, Zenon
<1>3. top \in Frames
  BY <1>1, <1>2, LenProperties DEF top
<1>4. QED
  BY <1>1, <1>2, <1>3

\* The outermost call takes a step of its own.
LEMMA CallGoesOn ==
  ASSUME ExecInv, Len(stack) = 1, NEW f \in Frames, stack' = Append(callers, f),
         UNCHANGED <<machine, allow, scripts>>, command' \in Commands, returned' \in Results,
         Placed(f, command', returned')
  PROVE  ExecInv' /\ stack' # <<>> /\ stack'[1] = f
<1>a. Len(stack) # 0
  OBVIOUS
<1>0. TypeOK /\ stack # <<>>
  BY <1>a, Calling DEF ExecInv
<1>1. stack' \in Seq(Frames) /\ Len(stack') = 1 /\ stack'[1] = f
  BY <1>0, TopFacts, Moved DEF callers
<1>b. Len(stack') # 0
  BY <1>1
<1>2. stack' # <<>>
  BY <1>b, Calling
<1>3. TypeOK'
  BY <1>0, <1>1 DEF TypeOK, Frames, machine, Commands, Results
<1>4. RunsWhatItFound'
  BY <1>1 DEF RunsWhatItFound, At, top, Placed, Fit
<1>5. Consent' /\ Spent' /\ Unfound'
  BY <1>1 DEF Consent, Spent, Unfound, Asked, get_config, Placed
<1>6. QED
  BY <1>1, <1>2, <1>3, <1>4, <1>5 DEF ExecInv

\* A script that has not been started takes a step, which may start it.
LEMMA ScriptGoesOn ==
  ASSUME ExecInv, Len(stack) = 2, top.at # "running", NEW f \in Frames, f.tool = Bash,
         stack' = Append(callers, f),
         UNCHANGED <<machine, allow>>, command' \in Commands, returned' \in Results,
         scripts' = IF f.at = "running" THEN scripts + 1 ELSE scripts,
         f.at # "again", f.at \in {"run", "running"} => f.found = command'[f.tool]
  PROVE  ExecInv' /\ stack' # <<>> /\ stack'[1] = stack[1]
<1>a. Len(stack) # 0
  OBVIOUS
<1>0. TypeOK /\ stack # <<>> /\ Asked
  BY <1>a, Calling DEF ExecInv, Asked, top
<1>1. stack' \in Seq(Frames) /\ Len(stack') = 2 /\ stack'[1] = stack[1] /\ stack'[2] = f
  BY <1>0, TopFacts, Moved DEF callers
<1>b. Len(stack') # 0
  BY <1>1
<1>2. stack' # <<>>
  BY <1>b, Calling
<1>3. stack[1].at \in {"preinstalling", "installing"}
  BY <1>0 DEF TypeOK
<1>4. /\ scripts \in 0..2 /\ (stack[1].at = "preinstalling" => scripts = 0)
      /\ (stack[1].at = "installing" => scripts <= 1)
  BY <1>0 DEF ExecInv, Spent, TypeOK
<1>5. scripts' \in 0..2
  BY <1>3, <1>4
<1>6. TypeOK'
  BY <1>0, <1>1, <1>3, <1>5 DEF TypeOK, Frames, machine, Commands, Results
<1>7. RunsWhatItFound'
  BY <1>1 DEF RunsWhatItFound, At, top
<1>8. Consent'
  BY <1>0, <1>1 DEF ExecInv, Consent, get_config
<1>9. Spent' /\ Unfound'
  BY <1>0, <1>1, <1>3, <1>4 DEF ExecInv, Spent, Unfound, Asked
<1>10. QED
  BY <1>1, <1>2, <1>6, <1>7, <1>8, <1>9 DEF ExecInv

\* No call is left, or only the outermost.
LEMMA CallsEnd ==
  ASSUME ExecInv, stack' = <<>>, UNCHANGED <<machine, command, allow, scripts>>, returned' \in Results
  PROVE  ExecInv'
<1>1. stack' \in Seq(Frames) /\ Len(stack') = 0
  OBVIOUS
<1>2. TypeOK'
  BY <1>1 DEF ExecInv, TypeOK, Frames, machine, Results
<1>3. RunsWhatItFound' /\ Consent' /\ Spent' /\ Unfound'
  BY DEF RunsWhatItFound, Consent, Spent, Unfound, At
<1>4. QED
  BY <1>2, <1>3 DEF ExecInv

LEMMA ScriptEnds ==
  ASSUME ExecInv, Len(stack) = 2, stack' = callers,
         UNCHANGED <<machine, command, allow, scripts>>, returned' \in Results,
         returned' = "zero" => top.at = "running"
  PROVE  ExecInv' /\ stack' # <<>> /\ stack'[1] = stack[1]
<1>a. Len(stack) # 0
  OBVIOUS
<1>0. TypeOK /\ stack # <<>>
  BY <1>a, Calling DEF ExecInv
<1>1. stack' \in Seq(Frames) /\ Len(stack') = 1 /\ stack'[1] = stack[1]
  BY <1>0, TopFacts, Popped DEF callers
<1>b. Len(stack') # 0
  BY <1>1
<1>2. stack' # <<>>
  BY <1>b, Calling
<1>3. stack[1].at \in {"preinstalling", "installing"}
  BY <1>0 DEF TypeOK
<1>4. TypeOK'
  BY <1>0, <1>1 DEF TypeOK, Frames, machine, Results
<1>5. RunsWhatItFound'
  BY <1>1, <1>3 DEF RunsWhatItFound, At, top
<1>6. Consent'
  BY <1>0, <1>1 DEF ExecInv, Consent, get_config
<1>7. Spent' /\ Unfound'
  BY <1>0, <1>1, <1>3 DEF ExecInv, Spent, Unfound, Asked, top
<1>8. QED
  BY <1>1, <1>2, <1>4, <1>5, <1>6, <1>7 DEF ExecInv

------------------------------------------------------------------------------
(* What the steps of a call are for ToolCalls                               *)

Step == [Contract!Next]_(Contract!vars)

\* A step that leaves the outermost call where it was, running, between cases or
\* neither, and starts no script, is none of the contract.
LEMMA Unseen ==
  ASSUME stack # <<>>, stack' # <<>>, stack'[1].tool = stack[1].tool,
         stack'[1].at = "running" <=> stack[1].at = "running",
         stack'[1].at = "again" <=> stack[1].at = "again",
         UNCHANGED <<allow, scripts>>
  PROVE  Step
<1>1. UNCHANGED <<allow, scripts, get_config>>
  BY DEF get_config
<1>2. UNCHANGED Contract!vars
  BY <1>1 DEF Contract!vars
<1>3. QED
  BY <1>2 DEF Step

LEMMA OutermostFacts ==
  ASSUME TypeOK, stack # <<>>
  PROVE  /\ stack[1].tool \in Tools /\ stack[1].tool # "nothing"
         /\ Len(stack) = 1 => top = stack[1]
         /\ Len(stack) = 2 => /\ stack[1].at \in {"preinstalling", "installing"}
                              /\ top = stack[2] /\ top.tool = Bash
<1>1. stack \in Seq(Frames) /\ Len(stack) \in 1..2
  BY TopFacts
<1>2. stack[1] \in Frames
  BY <1>1, LenProperties
<1>3. stack[1].tool \in Tools /\ stack[1].tool # "nothing"
  BY <1>2 DEF Frames, ExecutablesAssumption
<1>4. QED
  BY <1>3 DEF TypeOK, top

\* What a call may return, by where it is.
Returned(at) ==
  IF at = "running" THEN {"zero", "nonzero"} ELSE IF at = "again" THEN {} ELSE {"err"}

\* The outermost call returns or raises.
LEMMA Answers ==
  ASSUME ExecInv, stack # <<>>, stack' = <<>>, UNCHANGED <<allow, scripts>>,
         returned' = "raised" \/ returned' \in Returned(stack[1].at)
  PROVE  Step
<1>1. stack[1].tool # "nothing"
  BY OutermostFacts DEF ExecInv
<1>2. UNCHANGED <<allow, scripts, get_config>>
  BY DEF get_config
<1>3. Contract!Answer
  BY <1>1, <1>2 DEF Contract!Answer, Contract!Outputs, Returned
<1>4. QED
  BY <1>3 DEF Step, Contract!Next

LEMMA Raises ==
  ASSUME ExecInv, stack # <<>>, Raise
  PROVE  ExecInv' /\ Step
<1>1. stack' = <<>> /\ returned' = "raised" /\ UNCHANGED <<machine, command, allow, scripts>>
  BY DEF Raise
<1>2. ExecInv'
  BY <1>1, CallsEnd DEF Results
<1>3. QED
  BY <1>1, <1>2, Answers

LEMMA Returns ==
  ASSUME ExecInv, stack # <<>>,
         NEW r \in Returned(top.at), Return(r)
  PROVE  ExecInv' /\ Step
<1>1. stack' = callers /\ returned' = r /\ UNCHANGED <<machine, command, allow, scripts>>
  BY DEF Return
<1>2. r \in Results /\ (r = "zero" => top.at = "running")
  BY DEF Results, Returned
<1>3. TypeOK /\ stack \in Seq(Frames) /\ Len(stack) \in 1..2
  BY TopFacts DEF ExecInv
<1>4. CASE Len(stack) = 1
  <2>1. stack' = <<>>
    BY <1>1, <1>3, <1>4, Popped DEF callers
  <2>2. top = stack[1]
    BY <1>3, <1>4, OutermostFacts
  <2>3. ExecInv'
    BY <1>1, <1>2, <2>1, CallsEnd
  <2>4. QED
    BY <1>1, <2>1, <2>2, <2>3, Answers
<1>5. CASE Len(stack) = 2
  <2>1. ExecInv' /\ stack' # <<>> /\ stack'[1] = stack[1]
    BY <1>1, <1>2, <1>5, ScriptEnds
  <2>2. QED
    BY <1>1, <2>1, Unseen
<1>6. QED
  BY <1>3, <1>4, <1>5

\* The innermost call goes from one place to another, and starts nothing.
LEMMA Moves ==
  ASSUME ExecInv, stack # <<>>, top.at \notin {"running", "again"},
         NEW f \in Frames, f.tool = top.tool, f.at \notin {"running", "again"},
         stack' = Append(callers, f),
         UNCHANGED <<machine, allow, scripts>>, command' \in Commands, returned' \in Results,
         f.at = "run" => Fit(f, command', scripts),
         Len(stack) = 1 => Placed(f, command', returned')
  PROVE  ExecInv' /\ Step
<1>1. TypeOK /\ Len(stack) \in 1..2
  BY TopFacts DEF ExecInv
<1>2. CASE Len(stack) = 1
  <2>1. top = stack[1]
    BY <1>1, <1>2, OutermostFacts
  <2>2. ExecInv' /\ stack' # <<>> /\ stack'[1] = f
    BY <1>2, CallGoesOn
  <2>3. QED
    BY <2>1, <2>2, Unseen
<1>3. CASE Len(stack) = 2
  <2>1. f.tool = Bash /\ (f.at = "run" => f.found = command'[f.tool])
    BY <1>1, <1>3, OutermostFacts DEF Fit, ExecutablesAssumption
  <2>2. ExecInv' /\ stack' # <<>> /\ stack'[1] = stack[1]
    BY <1>3, <2>1, ScriptGoesOn
  <2>3. QED
    BY <2>2, Unseen
<1>4. QED
  BY <1>1, <1>2, <1>3

------------------------------------------------------------------------------
(* The actions                                                              *)

\* What the invariant says of the innermost call, wherever it is.
LEMMA InnermostFacts ==
  ASSUME ExecInv, stack # <<>>
  PROVE  /\ top \in Frames /\ command \in Commands /\ returned \in Results
         /\ Len(stack) = 1 =>
              /\ top.at \in {"preinstall", "preinstalling"} => get_config \/ Prelude[top.tool] = "installs"
              /\ top.at \in {"install", "installing"} => get_config
              /\ top.at \in {"precheck", "preinstall"} => scripts = 0
              /\ top.at \in {"preinstalling", "emit", "check", "install"} => scripts <= 1
              /\ top.at \in {"precheck", "preinstall", "preinstalling"} => top.found = "nothing"
              /\ top.at = "preinstalling" /\ returned = "zero" => scripts = 1
<1>1. TypeOK
  BY DEF ExecInv
<1>2. top \in Frames /\ command \in Commands /\ returned \in Results
  BY <1>1, TopFacts DEF TypeOK, Commands, Results
<1>3. Len(stack) = 1 => top = stack[1]
  BY <1>1, OutermostFacts
<1>4. QED
  BY <1>2, <1>3 DEF ExecInv, Consent, Spent, Unfound

\* An innermost call sent to another place is a frame again.
LEMMA FrameAt ==
  ASSUME NEW f \in Frames, NEW place \in Places
  PROVE  LET g == [f EXCEPT !.at = place] IN
         g \in Frames /\ g.tool = f.tool /\ g.at = place /\ g.found = f.found
  BY DEF Frames

\* A call that is at the given places, and not running.
LEMMA AtFacts ==
  ASSUME NEW places, At(places)
  PROVE  stack # <<>> /\ top.at \in places
  BY DEF At

LEMMA EmitStep == ASSUME ExecInv, Emit PROVE ExecInv' /\ Step
<1>1. stack # <<>> /\ top.at = "emit"
  BY AtFacts DEF Emit
<1>2. CASE Raise
  BY <1>1, <1>2, Raises
<1>3. CASE Goto("check") /\ UNCHANGED <<machine, command, allow, returned, scripts>>
  <2> DEFINE f == [top EXCEPT !.at = "check"]
  <2>1. "check" \in Places
    BY DEF Places
  <2>2. f \in Frames /\ f.tool = top.tool /\ f.at = "check"
    BY <1>1, <2>1, InnermostFacts, FrameAt
  <2>3. stack' = Append(callers, f)
    BY <1>3 DEF Goto
  <2>4. /\ command' \in Commands /\ returned' \in Results
        /\ Len(stack) = 1 => Placed(f, command', returned')
    BY <1>1, <1>3, <2>2, InnermostFacts DEF Placed
  <2> HIDE DEF f
  <2>5. QED
    BY <1>1, <1>3, <2>2, <2>3, <2>4, Moves
<1>4. QED
  BY <1>2, <1>3 DEF Emit

\* A search that finds the command sends the call to its arguments or its start.
LEMMA FoundStep ==
  ASSUME ExecInv, stack # <<>>, top.at \in {"precheck", "check", "recheck"}, Found
  PROVE  ExecInv' /\ Step
<1> DEFINE f == [top EXCEPT !.at = AfterFound, !.found = command[top.tool]]
<1>1. /\ AfterFound \in {"emit", "run"} /\ AfterFound \in Places
      /\ AfterFound = "emit" => top.at = "precheck"
  BY DEF AfterFound, Afterwards, Places
<1>2. /\ top \in Frames /\ command \in Commands /\ returned \in Results
      /\ Len(stack) = 1 /\ top.at = "precheck" => scripts = 0
  BY InnermostFacts
<1>3. command[top.tool] \in {"original", "installed"}
  BY <1>2 DEF Frames, Commands
<1>4. f \in Frames /\ f.tool = top.tool /\ f.at = AfterFound /\ f.found = command[top.tool]
  BY <1>1, <1>2, <1>3 DEF Frames
<1>5. /\ stack' = Append(callers, f)
      /\ UNCHANGED <<machine, command, allow, returned, scripts>>
  BY DEF Found
<1> HIDE DEF f
<1>6. Fit(f, command', scripts)
  BY <1>4, <1>5 DEF Fit
<1>7. Len(stack) = 1 => Placed(f, command', returned')
  BY <1>1, <1>2, <1>4, <1>5, <1>6 DEF Placed
<1>8. QED
  BY <1>1, <1>2, <1>4, <1>5, <1>6, <1>7, Moves

LEMMA SearchStep == ASSUME ExecInv, check_runnable PROVE ExecInv' /\ Step
<1>1. stack # <<>> /\ top.at \in {"precheck", "check"}
  BY AtFacts DEF check_runnable
<1>2. CASE Found
  BY <1>1, <1>2, FoundStep
<1>3. CASE MayInstall /\ Goto(Install) /\ UNCHANGED <<machine, command, allow, returned, scripts>>
  <2> DEFINE f == [top EXCEPT !.at = Install]
  <2>1. Install \in Places /\ Install = IF top.at = "precheck" THEN "preinstall" ELSE "install"
    BY DEF Install, Places
  <2>2. f \in Frames /\ f.tool = top.tool /\ f.at = Install /\ f.found = top.found
    BY <1>1, <2>1, InnermostFacts, FrameAt
  <2>3. stack' = Append(callers, f)
    BY <1>3 DEF Goto
  <2>4. get_config \/ (top.at = "precheck" /\ Prelude[top.tool] = "installs")
    BY <1>3 DEF MayInstall
  <2>5. /\ command' \in Commands /\ returned' \in Results
        /\ Len(stack) = 1 => Placed(f, command', returned')
    BY <1>1, <1>3, <2>1, <2>2, <2>4, InnermostFacts DEF Placed
  <2> HIDE DEF f
  <2>6. QED
    BY <1>1, <1>3, <2>1, <2>2, <2>3, <2>5, Moves
<1>4. CASE Return("err")
  BY <1>1, <1>4, Returns DEF Returned
<1>5. QED
  BY <1>2, <1>3, <1>4 DEF check_runnable

LEMMA RecheckStep == ASSUME ExecInv, recheck PROVE ExecInv' /\ Step
<1>1. stack # <<>> /\ top.at = "recheck"
  BY AtFacts DEF recheck
<1>2. CASE Found
  BY <1>1, <1>2, FoundStep
<1>3. CASE StillMissing
  BY <1>1, <1>3, Returns DEF StillMissing, Returned
<1>4. QED
  BY <1>2, <1>3 DEF recheck

LEMMA InstallStep == ASSUME ExecInv, install PROVE ExecInv' /\ Step
<1>1. stack # <<>> /\ top.at \in {"preinstall", "install"}
  BY AtFacts DEF install
<1>2. CASE Return("err")
  BY <1>1, <1>2, Returns DEF Returned
<1>3. CASE Raise
  BY <1>1, <1>3, Raises
<1>4. CASE /\ Script[top.tool] # "none"
           /\ stack' = callers \o <<[top EXCEPT !.at = Waiting], Frame(Bash, "emit")>>
           /\ returned' = "none"
           /\ UNCHANGED <<machine, command, allow, scripts>>
  <2> DEFINE f == [top EXCEPT !.at = Waiting]
             b == Frame(Bash, "emit")
  <2>1. TypeOK /\ stack \in Seq(Frames) /\ Len(stack) \in 1..2
    BY <1>1, TopFacts DEF ExecInv
  <2>2. Len(stack) = 1 /\ top = stack[1]
    BY <1>1, <1>4, <2>1, OutermostFacts DEF ExecutablesAssumption
  <2>3. Waiting \in Places /\ Waiting = IF top.at = "preinstall" THEN "preinstalling" ELSE "installing"
    BY DEF Waiting, Places
  <2>4. f \in Frames /\ f.tool = top.tool /\ f.at = Waiting /\ f.found = top.found
    BY <1>1, <2>3, InnermostFacts, FrameAt
  <2>5. b \in Frames /\ b.tool = Bash /\ b.at = "emit"
    BY DEF Frame, Frames, Places, ExecutablesAssumption
  <2> HIDE DEF f, b
  <2>6. stack' = SubSeq(stack, 1, Len(stack) - 1) \o <<f, b>>
    BY <1>4 DEF f, b, callers
  <2>7. stack' \in Seq(Frames) /\ Len(stack') = 2 /\ stack'[1] = f /\ stack'[2] = b
    BY <2>1, <2>2, <2>4, <2>5, <2>6, Pushed
  <2>8. /\ top.at = "preinstall" =>
             scripts = 0 /\ top.found = "nothing" /\ (get_config \/ Prelude[top.tool] = "installs")
        /\ top.at = "install" => scripts <= 1 /\ get_config
    BY <1>1, <2>2, InnermostFacts
  <2>9. TypeOK'
    BY <1>1, <1>4, <2>1, <2>3, <2>4, <2>5, <2>7 DEF TypeOK, Frames, machine
  <2>10. RunsWhatItFound'
    BY <2>5, <2>7 DEF RunsWhatItFound, At, top
  <2>11. Consent'
    BY <1>1, <1>4, <2>3, <2>4, <2>7, <2>8 DEF Consent, get_config
  <2>12. Spent' /\ Unfound'
    BY <1>1, <1>4, <2>3, <2>4, <2>5, <2>7, <2>8 DEF Spent, Unfound
  <2>13. stack' # <<>>
    <3>1. Len(stack') # 0
      BY <2>7
    <3>2. QED
      BY <3>1, Calling
  <2>14. Step
    BY <1>1, <1>4, <2>2, <2>3, <2>4, <2>7, <2>13, Unseen
  <2>15. QED
    BY <2>9, <2>10, <2>11, <2>12, <2>14 DEF ExecInv
<1>5. QED
  BY <1>2, <1>3, <1>4 DEF install

LEMMA RedirectStep == ASSUME ExecInv, get_command PROVE ExecInv' /\ Step
<1>1. stack # <<>> /\ top.at \in {"preinstalling", "installing"}
  BY AtFacts DEF get_command
<1>2. CASE Return("err")
  BY <1>1, <1>2, Returns DEF Returned
<1>3. CASE /\ Installed
           /\ command' = [command EXCEPT ![top.tool] = IF Script[top.tool] = "placed" THEN "installed" ELSE @]
           /\ Goto(AfterRedirect)
           /\ UNCHANGED <<machine, allow, returned, scripts>>
  <2> DEFINE f == [top EXCEPT !.at = AfterRedirect]
  <2>1. /\ AfterRedirect \in Places
        /\ AfterRedirect \in {"emit", "recheck", "run"}
        /\ AfterRedirect # "recheck" => top.at = "preinstalling"
        /\ AfterRedirect = "run" => Prelude[top.tool] = "runs"
    BY DEF AfterRedirect, Afterwards, Places
  <2>2. f \in Frames /\ f.tool = top.tool /\ f.at = AfterRedirect /\ f.found = top.found
    BY <1>1, <2>1, InnermostFacts, FrameAt
  <2>3. stack' = Append(callers, f)
    BY <1>3 DEF Goto
  <2>4. command \in Commands /\ returned' \in Results /\ returned = "zero"
    BY <1>1, <1>3, InnermostFacts DEF Installed
  <2>5. command' \in Commands
    BY <1>3, <2>4 DEF Commands
  <2>6. Len(stack) = 1 /\ top.at = "preinstalling" =>
          scripts <= 1 /\ scripts = 1 /\ top.found = "nothing"
    BY <1>1, <2>4, InnermostFacts
  <2> HIDE DEF f
  <2>7. f.at = "run" => Len(stack) = 1
    <3>1. TypeOK /\ Len(stack) \in 1..2
      BY <1>1, TopFacts DEF ExecInv
    <3>2. Len(stack) = 2 => top.tool = Bash
      BY <1>1, <3>1, OutermostFacts
    <3>3. QED
      BY <2>1, <2>2, <3>1, <3>2 DEF ExecutablesAssumption
  <2>8. f.at = "run" => Fit(f, command', scripts)
    BY <2>1, <2>2, <2>6, <2>7 DEF Fit
  <2>9. Len(stack) = 1 => Placed(f, command', returned')
    BY <2>1, <2>2, <2>6, <2>8 DEF Placed
  <2>10. QED
    BY <1>1, <1>3, <2>1, <2>2, <2>3, <2>4, <2>5, <2>8, <2>9, Moves
<1>4. QED
  BY <1>2, <1>3 DEF get_command

LEMMA StartStep == ASSUME ExecInv, Start PROVE ExecInv' /\ Step
<1>1. stack # <<>> /\ top.at \in {"run", "again"}
  BY AtFacts DEF Start
<1>2. CASE Raise
  BY <1>1, <1>2, Raises
<1>3. CASE /\ Goto("running")
           /\ scripts' = IF Len(stack) > 1 THEN scripts + 1 ELSE scripts
           /\ UNCHANGED <<machine, command, allow, returned>>
  <2> DEFINE f == [top EXCEPT !.at = "running"]
  <2>1. "running" \in Places
    BY DEF Places
  <2>2. f \in Frames /\ f.tool = top.tool /\ f.at = "running" /\ f.found = top.found
    BY <1>1, <2>1, InnermostFacts, FrameAt
  <2>3. stack' = Append(callers, f)
    BY <1>3 DEF Goto
  <2>4. command' \in Commands /\ returned' \in Results
    BY <1>1, <1>3, InnermostFacts
  <2>5. Fit(f, command', scripts)
    BY <1>1, <1>3, <2>2 DEF ExecInv, RunsWhatItFound, At, Fit
  <2>6. TypeOK /\ Len(stack) \in 1..2 /\ stack[1].tool # "nothing"
    BY <1>1, TopFacts, OutermostFacts DEF ExecInv
  <2>7. UNCHANGED <<allow, get_config>>
    BY <1>3 DEF get_config
  <2> HIDE DEF f
  <2>8. CASE Len(stack) = 1
    <3>1. top = stack[1] /\ UNCHANGED scripts
      BY <1>1, <1>3, <2>6, <2>8, OutermostFacts
    <3>a. Placed(f, command', returned')
      BY <2>2, <2>5 DEF Placed
    <3>2. ExecInv' /\ stack' # <<>> /\ stack'[1] = f
      BY <1>3, <2>2, <2>3, <2>4, <2>8, <3>1, <3>a, CallGoesOn
    <3>3. Contract!Start
      BY <1>1, <2>2, <2>6, <2>7, <3>1, <3>2 DEF Contract!Start
    <3>4. QED
      BY <3>2, <3>3 DEF Step, Contract!Next
  <2>9. CASE Len(stack) = 2
    <3>1. /\ stack[1].at \in {"preinstalling", "installing"}
          /\ top = stack[2] /\ top.tool = Bash /\ scripts' = scripts + 1
      BY <1>1, <1>3, <2>6, <2>9, OutermostFacts
    <3>a. f.found = command'[f.tool]
      BY <2>2, <2>5, <3>1 DEF Fit, ExecutablesAssumption
    <3>2. ExecInv' /\ stack' # <<>> /\ stack'[1] = stack[1]
      BY <1>1, <1>3, <2>2, <2>3, <2>4, <2>9, <3>1, <3>a, ScriptGoesOn
    <3>3. /\ stack[1].at = "preinstalling" =>
               scripts = 0 /\ (get_config \/ Prelude[stack[1].tool] = "installs")
          /\ stack[1].at = "installing" => scripts <= 1 /\ get_config
      BY <1>1, <2>9, <3>1 DEF ExecInv, Spent, Consent, Asked
    <3>4. scripts < 2 /\ (get_config \/ (Prelude[stack[1].tool] = "installs" /\ scripts = 0))
      BY <2>6, <3>1, <3>3 DEF TypeOK
    <3>5. stack[1].tool \in {t \in Tools : Prelude[t] = "installs"} \/ get_config
      BY <1>1, <2>6, <3>4, OutermostFacts
    <3>6. Contract!Install
      BY <1>1, <2>6, <2>7, <3>1, <3>2, <3>4, <3>5 DEF Contract!Install
    <3>7. QED
      BY <3>2, <3>6 DEF Step, Contract!Next
  <2>10. QED
    BY <2>6, <2>8, <2>9
<1>4. QED
  BY <1>2, <1>3 DEF Start

LEMMA ExitStep == ASSUME ExecInv, Exit PROVE ExecInv' /\ Step
<1>1. stack # <<>> /\ top.at = "running"
  BY AtFacts DEF Exit
<1>2. CASE Raise
  BY <1>1, <1>2, Raises
<1>3. ASSUME NEW code \in {"zero", "nonzero"}, Return(code) PROVE ExecInv' /\ Step
  BY <1>1, <1>3, Returns DEF Returned
<1>4. QED
  BY <1>2, <1>3 DEF Exit

LEMMA NextCaseStep == ASSUME ExecInv, NextCase PROVE ExecInv' /\ Step
<1> DEFINE f == [top EXCEPT !.at = "again"]
<1>1. /\ stack # <<>> /\ top.at = "running" /\ Prelude[top.tool] = "runs"
      /\ UNCHANGED <<machine, command, allow, returned, scripts>>
      /\ stack' = Append(callers, f)
  BY AtFacts DEF NextCase, Goto
<1>2. "again" \in Places
  BY DEF Places
<1>3. f \in Frames /\ f.tool = top.tool /\ f.at = "again" /\ f.found = top.found
  BY <1>1, <1>2, InnermostFacts, FrameAt
<1> HIDE DEF f
<1>4. TypeOK /\ Len(stack) \in 1..2 /\ stack[1].tool \in Tools /\ stack[1].tool # "nothing"
  BY <1>1, TopFacts, OutermostFacts DEF ExecInv
<1>5. Len(stack) = 1 /\ top = stack[1]
  BY <1>1, <1>4, OutermostFacts DEF ExecutablesAssumption
<1>6. Placed(f, command', returned')
  BY <1>1, <1>3 DEF Placed, Fit, ExecInv, RunsWhatItFound, At
<1>7. command' \in Commands /\ returned' \in Results
  BY <1>1, InnermostFacts
<1>8. ExecInv' /\ stack' # <<>> /\ stack'[1] = f
  BY <1>1, <1>3, <1>5, <1>6, <1>7, CallGoesOn
<1>9. UNCHANGED <<allow, get_config>>
  BY <1>1 DEF get_config
<1>10. Contract!NextCase
  BY <1>1, <1>3, <1>4, <1>5, <1>8, <1>9 DEF Contract!NextCase
<1>11. QED
  BY <1>8, <1>10 DEF Step, Contract!Next

LEMMA AskStep == ASSUME ExecInv, Ask PROVE ExecInv' /\ Step
<1>1. PICK t \in Tools, at \in {"emit", "precheck"} : stack' = <<Frame(t, at)>>
  BY DEF Ask, Ways
<1>2. stack = <<>> /\ returned' = "none" /\ scripts' = 0 /\ UNCHANGED <<machine, command, allow>>
  BY DEF Ask
<1>3. /\ Frame(t, at) \in Frames /\ Frame(t, at).tool = t /\ Frame(t, at).at = at
      /\ Frame(t, at).found = "nothing"
  BY DEF Frame, Frames, Places
<1>4. stack' \in Seq(Frames) /\ Len(stack') = 1 /\ stack'[1] = Frame(t, at) /\ stack' # <<>>
  BY <1>1, <1>3
<1>5. TypeOK'
  BY <1>2, <1>4 DEF ExecInv, TypeOK, Frames, machine
<1>6. RunsWhatItFound' /\ Consent' /\ Spent' /\ Unfound'
  BY <1>2, <1>3, <1>4 DEF RunsWhatItFound, Consent, Spent, Unfound, Asked, At, top
<1>7. UNCHANGED <<allow, get_config>>
  BY <1>2 DEF get_config
<1>8. Contract!Ask(t)
  BY <1>2, <1>3, <1>4, <1>7 DEF Contract!Ask
<1>9. QED
  BY <1>5, <1>6, <1>8 DEF ExecInv, Step, Contract!Next

\* Blocks are entered and left between calls.
LEMMA ConfigStep == ASSUME ExecInv, EnterConfig \/ LeaveConfig PROVE ExecInv' /\ Step
<1>1. stack = <<>> /\ UNCHANGED <<machine, command, stack, returned, scripts>>
  BY DEF EnterConfig, LeaveConfig
<1>2. TypeOK /\ allow \in Seq(BOOLEAN) /\ Len(allow) \in 1..(MaxBlocks + 1) /\ ~allow[1]
  BY DEF ExecInv, TypeOK
<1>3. allow' \in Seq(BOOLEAN) /\ Len(allow') \in 1..(MaxBlocks + 1) /\ ~allow'[1]
  <2>1. CASE EnterConfig
    <3>1. PICK v \in BOOLEAN : allow' = Append(allow, v)
      BY <2>1 DEF EnterConfig
    <3>2. Len(allow) <= MaxBlocks
      BY <2>1 DEF EnterConfig
    <3>3. /\ allow' \in Seq(BOOLEAN) /\ Len(allow') = Len(allow) + 1
          /\ allow'[1] = allow[1]
      BY <1>2, <3>1, AppendProperties
    <3>4. QED
      BY <1>2, <3>2, <3>3 DEF ExecutablesAssumption
  <2>2. CASE LeaveConfig
    <3>1. allow' = SubSeq(allow, 1, Len(allow) - 1) /\ Len(allow) > 1
      BY <2>2 DEF LeaveConfig
    <3>2. \A i \in 1..(Len(allow) - 1) : allow[i] \in BOOLEAN
      BY <1>2, LenProperties
    <3>3. /\ allow' \in Seq(BOOLEAN) /\ Len(allow') = Len(allow) - 1
          /\ allow'[1] = allow[1]
      BY <1>2, <3>1, <3>2, SubSeqProperties
    <3>4. QED
      BY <1>2, <3>1, <3>3 DEF ExecutablesAssumption
  <2>3. QED
    BY <2>1, <2>2
<1>4. TypeOK'
  BY <1>1, <1>2, <1>3 DEF TypeOK, machine
<1>5. RunsWhatItFound' /\ Consent' /\ Spent' /\ Unfound'
  BY <1>1 DEF RunsWhatItFound, Consent, Spent, Unfound, At
<1>6. get_config' \in BOOLEAN
  BY <1>3, LenProperties DEF get_config
<1>7. Contract!Configure
  BY <1>1, <1>6 DEF Contract!Configure
<1>8. QED
  BY <1>4, <1>5, <1>7 DEF ExecInv, Step, Contract!Next

LEMMA MachineStep == ASSUME ExecInv, Machine PROVE ExecInv' /\ Step
<1>1. UNCHANGED <<posix, command, allow, stack, returned, scripts>>
  BY DEF Machine
<1>2. onPath' \subseteq Tools /\ location' \in [Tools -> {"absent", "file", "executable"}]
  BY DEF Machine, ExecInv, TypeOK
<1>3. TypeOK'
  BY <1>1, <1>2 DEF ExecInv, TypeOK
<1>4. RunsWhatItFound' /\ Consent' /\ Spent' /\ Unfound'
  BY <1>1 DEF ExecInv, RunsWhatItFound, Consent, Spent, Unfound, Asked, At, top, get_config
<1>5. UNCHANGED Contract!vars
  BY <1>1 DEF Contract!vars, get_config
<1>6. QED
  BY <1>3, <1>4, <1>5 DEF ExecInv, Step

LEMMA NextStep == ASSUME ExecInv, [Next]_vars PROVE ExecInv' /\ Step
<1>1. CASE Next
  BY <1>1, EmitStep, SearchStep, InstallStep, RedirectStep, RecheckStep, StartStep, ExitStep,
     NextCaseStep, AskStep, ConfigStep, MachineStep DEF Next, Call
<1>2. CASE UNCHANGED vars
  <2>1. UNCHANGED <<posix, onPath, location, command, allow, stack, returned, scripts>>
    BY <1>2 DEF vars, machine
  <2>2. ExecInv'
    BY <2>1 DEF ExecInv, TypeOK, RunsWhatItFound, Consent, Spent, Unfound, Asked, At, top, get_config
  <2>3. UNCHANGED Contract!vars
    BY <2>1 DEF Contract!vars, get_config
  <2>4. QED
    BY <2>2, <2>3 DEF Step
<1>3. QED
  BY <1>1, <1>2

------------------------------------------------------------------------------
(* Theorems                                                                 *)

\* Whatever is installed meanwhile and wherever commands come and go, a process
\* is started with the command this call's last search found
\* (executable.py:519-559); a step that runs the command itself and had to
\* install it starts, unsearched, what its own script installed in this call
\* (test/valgrind.py:115-147).
THEOREM ExecutablesRunWhatTheyFound == Spec => []RunsWhatItFound
<1>1. ExecInv => RunsWhatItFound
  BY DEF ExecInv
<1>2. ExecInv /\ [Next]_vars => ExecInv'
  BY NextStep
<1>3. QED
  BY InitInv, <1>1, <1>2, PTL DEF Spec

\* A call of any tool keeps what ToolCalls promises the step that makes it: one
\* start, or one per case, an Err only when nothing was started, at most two
\* install scripts, and those only with consent, but for the first of a step that
\* installs of its own accord (executable.py:456-559, install_script.py;
\* mypy_check.py:153-162, ctest.py:140-153).
THEOREM ExecutablesKeepContract == Spec => KeepsContract
<1>1. Init => Contract!Init
  <2> SUFFICES ASSUME Init PROVE Contract!Init
    OBVIOUS
  <2>1. stack = <<>> /\ scripts = 0 /\ returned = "none" /\ allow = <<FALSE>>
    BY DEF Init
  <2>2. get_config = FALSE
    BY <2>1 DEF get_config
  <2>3. QED
    BY <2>1, <2>2 DEF Contract!Init
<1>2. ExecInv /\ [Next]_vars => ExecInv'
  BY NextStep
<1>3. ExecInv /\ [Next]_vars => [Contract!Next]_(Contract!vars)
  BY NextStep DEF Step
<1>4. QED
  BY InitInv, <1>1, <1>2, <1>3, PTL DEF Spec, KeepsContract, Contract!Spec
==============================================================================
