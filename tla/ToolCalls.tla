------------------------------ MODULE ToolCalls ------------------------------
(***************************************************************************)
(* What a call of a registered tool promises the step that makes it,       *)
(* whatever has to be looked up or installed on the way:                   *)
(*                                                                         *)
(*   - the tool is started at most once, or once per case by a step that   *)
(*     runs its command itself;                                            *)
(*   - an Err answer says that it was not started, an output that it was;  *)
(*   - the call runs a script only with consent.  The step that makes it   *)
(*     may run one before: with consent, or, if it is one of those that    *)
(*     install of their own accord, without.                               *)
(***************************************************************************)
EXTENDS Naturals

CONSTANTS
  Tools,
  NoTool,
  Unasked,      \* tools whose steps install without asking
  Repeated      \* tools whose steps run the command once per case

VARIABLES
  tool,      \* the tool being called
  allowed,   \* config.allow_auto_install
  scripts,   \* install scripts started for this call
  process,   \* the tool's own process: "none" yet, "running", "over" between cases
  answer     \* what the last call returned

vars == <<tool, allowed, scripts, process, answer>>

Outputs == {"zero", "nonzero"}

Init ==
  /\ tool = NoTool
  /\ allowed = FALSE
  /\ scripts = 0
  /\ process = "none"
  /\ answer = "none"

Ask(t) ==
  /\ tool = NoTool
  /\ tool' = t
  /\ scripts' = 0
  /\ answer' = "none"
  /\ UNCHANGED <<allowed, process>>

Install ==
  /\ tool # NoTool
  /\ process = "none"
  /\ scripts < 2
  /\ allowed \/ (tool \in Unasked /\ scripts = 0)
  /\ scripts' = scripts + 1
  /\ UNCHANGED <<tool, allowed, process, answer>>

Start ==
  /\ tool # NoTool
  /\ process # "running"
  /\ process' = "running"
  /\ UNCHANGED <<tool, allowed, scripts, answer>>

\* One case is over and another follows.
NextCase ==
  /\ tool \in Repeated
  /\ process = "running"
  /\ process' = "over"
  /\ UNCHANGED <<tool, allowed, scripts, answer>>

Answer ==
  /\ tool # NoTool
  /\ answer' \in CASE process = "none"    -> {"err", "raised"}
                   [] process = "running" -> Outputs \union {"raised"}
                   [] process = "over"    -> {"raised"}
  /\ tool' = NoTool
  /\ process' = "none"
  /\ UNCHANGED <<allowed, scripts>>

Configure ==
  /\ tool = NoTool
  /\ allowed' \in BOOLEAN
  /\ UNCHANGED <<tool, scripts, process, answer>>

Next == (\E t \in Tools : Ask(t)) \/ Install \/ Start \/ NextCase \/ Answer \/ Configure

Spec == Init /\ [][Next]_vars
==============================================================================
