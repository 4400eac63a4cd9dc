----------------------------- MODULE Executables -----------------------------
(***************************************************************************)
(* TypedExecutable of src/src/lograder/process/executable.py with its      *)
(* install scripts and the config() blocks around it: how a step gets from *)
(* "run valgrind" to a process, through the search for the command, an     *)
(* installation, and the search again.                                     *)
(*                                                                         *)
(* The command of a tool is state of its CLASS: an installation redirects  *)
(* it for every later call of the run.  An install script is itself a call *)
(* of a typed executable (bash), so calls stack.  What a tool's process    *)
(* does is Invocations' subject; here it ends with a code or raises.       *)
(*                                                                         *)
(* Steps differ in what they do before such a call (Prelude), and          *)
(* ValgrindTest never makes it: it runs the tool's command itself, once    *)
(* per case, without a search after the installation.                      *)
(*                                                                         *)
(* The machine is the environment: a script, or a student's program, may   *)
(* put a command on PATH or at an install location, or take it away, at    *)
(* any time.                                                               *)
(***************************************************************************)
EXTENDS Naturals, Sequences

CONSTANTS
  Tools,
  Bash,      \* the tool that runs install scripts
  Script,    \* per tool: how install_executable is declared
  Prelude,   \* per tool: what its step does before it calls it
  MaxBlocks  \* bound on nested config() blocks

\* none: no install_executable.  unplaced / placed: an InstallScript for posix,
\* without or with an install_location.
ScriptKinds == {"none", "unplaced", "placed"}

\* none: the step just calls the tool (make, cmake).  checks: it gives up first
\* when the tool is missing (g++, nm, bash).  installs: it installs a missing
\* tool and redirects first, without consulting allow_auto_install (mypy, ty,
\* ctest, pytest).  runs: it installs with consent, redirects, and runs the
\* command itself for each of its cases (valgrind).
PreludeKinds == {"none", "checks", "installs", "runs"}

ASSUME ExecutablesAssumption ==
  /\ Script \in [Tools -> ScriptKinds]
  /\ Prelude \in [Tools -> PreludeKinds]
  /\ Bash \in Tools /\ Script[Bash] = "none" /\ Prelude[Bash] # "runs"
  /\ "nothing" \notin Tools
  /\ MaxBlocks \in Nat

VARIABLES
  posix,     \* the platform, checked when the classes are defined
  onPath,    \* tools whose original command the machine can find
  location,  \* what lies at each tool's install location
  command,   \* each class's executable.command
  allow,     \* config: values of allow_auto_install, innermost last
  stack,     \* the calls in progress, innermost last
  returned,  \* what the last finished call returned
  scripts    \* history: install scripts started for the outermost call

vars == <<posix, onPath, location, command, allow, stack, returned, scripts>>
machine == <<posix, onPath, location>>

Frame(t, at) == [tool |-> t, at |-> at, found |-> "nothing"]

top == stack[Len(stack)]
callers == SubSeq(stack, 1, Len(stack) - 1)
At(places) == stack # <<>> /\ top.at \in places
Goto(place) == stack' = Append(callers, [top EXCEPT !.at = place])

get_config == allow[Len(allow)]

is_command_runnable(t) ==
  IF command[t] = "original" THEN t \in onPath ELSE location[t] = "executable"

------------------------------------------------------------------------------
Init ==
  /\ posix \in BOOLEAN
  /\ onPath \in SUBSET Tools
  /\ location = [t \in Tools |-> "absent"]
  /\ command = [t \in Tools |-> "original"]
  /\ allow = <<FALSE>>
  /\ stack = <<>>
  /\ returned = "none"
  /\ scripts = 0

\* config(allow_auto_install=v): a block around whole calls.
EnterConfig ==
  /\ stack = <<>>
  /\ Len(allow) <= MaxBlocks
  /\ \E v \in BOOLEAN : allow' = Append(allow, v)
  /\ UNCHANGED <<machine, command, stack, returned, scripts>>

LeaveConfig ==
  /\ stack = <<>>
  /\ Len(allow) > 1
  /\ allow' = SubSeq(allow, 1, Len(allow) - 1)
  /\ UNCHANGED <<machine, command, stack, returned, scripts>>

\* A step reaches for a tool: through its own check first, or at once.
Ways(t) ==
  CASE Prelude[t] = "none" -> {"emit"}
    [] Prelude[t] = "runs" -> {"precheck"}
    [] OTHER -> {"emit", "precheck"}

Ask ==
  /\ stack = <<>>
  /\ \E t \in Tools : \E at \in Ways(t) : stack' = <<Frame(t, at)>>
  /\ returned' = "none"
  /\ scripts' = 0
  /\ UNCHANGED <<machine, command, allow>>

Return(result) ==
  /\ stack' = callers
  /\ returned' = result
  /\ UNCHANGED <<machine, command, allow, scripts>>

\* An exception is caught by none of the calls in progress.
Raise ==
  /\ stack' = <<>>
  /\ returned' = "raised"
  /\ UNCHANGED <<machine, command, allow, scripts>>

\* The arguments are emitted before anything is looked up.
Emit ==
  /\ At({"emit"})
  /\ \/ Goto("check") /\ UNCHANGED <<machine, command, allow, returned, scripts>>
     \/ Raise

MayInstall_Prelude == get_config \/ Prelude[top.tool] \notin {"none", "checks"}
MayInstall ==
  CASE top.at = "precheck" /\ Prelude[top.tool] = "checks"   -> FALSE
    [] top.at = "precheck" /\ Prelude[top.tool] = "installs" -> TRUE
    [] OTHER -> get_config

\* What follows a step's own check or installation: its call of the tool, or the
\* command itself.
Afterwards == IF Prelude[top.tool] = "runs" THEN "run" ELSE "emit"
AfterFound == IF top.at = "precheck" THEN Afterwards ELSE "run"

Found ==
  /\ stack' = Append(callers, [top EXCEPT !.at = AfterFound, !.found = command[top.tool]])
  /\ UNCHANGED <<machine, command, allow, returned, scripts>>

Install == IF top.at = "precheck" THEN "preinstall" ELSE "install"

check_runnable ==
  /\ At({"precheck", "check"})
  /\ \/ is_command_runnable(top.tool) /\ Found
     \/ /\ ~is_command_runnable(top.tool)
        /\ MayInstall
        /\ Goto(Install)
        /\ UNCHANGED <<machine, command, allow, returned, scripts>>
     \/ ~is_command_runnable(top.tool) /\ ~MayInstall /\ Return("err")

Waiting == IF top.at = "preinstall" THEN "preinstalling" ELSE "installing"

\* An InstallScript none of whose platform checks held has no executable to call.
install ==
  /\ At({"preinstall", "install"})
  /\ \/ Script[top.tool] = "none" /\ Return("err")
     \/ Script[top.tool] # "none" /\ ~posix /\ Raise
     \/ /\ Script[top.tool] # "none" /\ posix
        /\ stack' = callers \o <<[top EXCEPT !.at = Waiting], Frame(Bash, "emit")>>
        /\ returned' = "none"
        /\ UNCHANGED <<machine, command, allow, scripts>>

Installed == returned = "zero" /\ ~(Script[top.tool] = "placed" /\ location[top.tool] = "absent")

AfterRedirect_Run == IF top.at = "preinstalling" THEN Afterwards ELSE "run"
AfterRedirect == IF top.at = "preinstalling" THEN Afterwards ELSE "recheck"

\* get_command, then update_base_command with what install() returned: the
\* location, or the command as it is when the script declares none.
get_command ==
  /\ At({"preinstalling", "installing"})
  /\ \/ ~Installed /\ Return("err")
     \/ /\ Installed
        /\ command' = [command EXCEPT ![top.tool] = IF Script[top.tool] = "placed" THEN "installed" ELSE @]
        /\ Goto(AfterRedirect)
        /\ UNCHANGED <<machine, allow, returned, scripts>>

StillMissing_Waits == UNCHANGED vars
StillMissing == Return("err")

\* The command stays redirected when the second search fails.
recheck ==
  /\ At({"recheck"})
  /\ \/ is_command_runnable(top.tool) /\ Found
     \/ ~is_command_runnable(top.tool) /\ StillMissing

\* invoke_command: the process starts, or create_process raises.
Start ==
  /\ At({"run", "again"})
  /\ \/ /\ Goto("running")
        /\ scripts' = IF Len(stack) > 1 THEN scripts + 1 ELSE scripts
        /\ UNCHANGED <<machine, command, allow, returned>>
     \/ Raise

\* It exits, with what it wrote or failed to write left to Machine.
Exit == At({"running"}) /\ ((\E code \in {"zero", "nonzero"} : Return(code)) \/ Raise)

\* A step that runs the command itself goes on to its next case.
NextCase ==
  /\ At({"running"})
  /\ Prelude[top.tool] = "runs"
  /\ Goto("again")
  /\ UNCHANGED <<machine, command, allow, returned, scripts>>

\* A tool appears on PATH or at its location, or goes.
Machine ==
  /\ \E t \in Tools :
       \/ onPath' \in {onPath \union {t}, onPath \ {t}} /\ UNCHANGED location
       \/ /\ Script[t] = "placed"
          /\ \E what \in {"absent", "file", "executable"} : location' = [location EXCEPT ![t] = what]
          /\ UNCHANGED onPath
  /\ UNCHANGED <<posix, command, allow, stack, returned, scripts>>

Call == Emit \/ check_runnable \/ install \/ get_command \/ recheck \/ Start

Next == EnterConfig \/ LeaveConfig \/ Ask \/ Call \/ Exit \/ NextCase \/ Machine

\* The calling thread goes on; the processes it waits for may never exit.
Spec == Init /\ [][Next]_vars /\ WF_vars(Call)

------------------------------------------------------------------------------
Places == {"precheck", "preinstall", "preinstalling", "emit", "check", "install", "installing",
           "recheck", "run", "running", "again"}

\* Every variable has its type; a call waits for at most one script, and
\* only while it installs.
TypeOK ==
  /\ posix \in BOOLEAN /\ onPath \subseteq Tools
  /\ location \in [Tools -> {"absent", "file", "executable"}]
  /\ command \in [Tools -> {"original", "installed"}]
  /\ allow \in Seq(BOOLEAN) /\ Len(allow) \in 1..(MaxBlocks + 1) /\ ~allow[1]
  /\ stack \in Seq([tool : Tools, at : Places, found : {"nothing", "original", "installed"}])
  /\ Len(stack) <= 2
  /\ Len(stack) = 2 => stack[1].at \in {"preinstalling", "installing"} /\ stack[2].tool = Bash
  /\ returned \in {"none", "zero", "nonzero", "err", "raised"}
  /\ scripts \in 0..2

\* A process is started with the command the last search of this very call
\* found: no installation slips a command in that was never looked up.  The
\* step that runs the command itself does not search after an installation
\* (test/valgrind.py:118-147): what it then starts, this call's own script has
\* installed.
RunsWhatItFound ==
  At({"run", "running", "again"}) =>
    \/ top.found = command[top.tool]
    \/ Prelude[top.tool] = "runs" /\ top.found = "nothing" /\ scripts = 1

\* Unless a process runs for ever, or a step has cases without end, every call
\* of a tool comes back, however its search, its installation and the search
\* after it go.
CallEnds == []<>~At({"running", "again"}) => (stack # <<>> ~> stack = <<>>)

\* While allow_auto_install is off no call runs an install script: "TypedExecutable
\* treats a missing executable as a fatal InstallationError rather than attempting
\* installation" (config.py:32-33).
NothingUnasked == stack # <<>> /\ scripts > 0 => get_config

------------------------------------------------------------------------------
Contract == INSTANCE ToolCalls WITH
  NoTool <- "nothing",
  Unasked <- {t \in Tools : Prelude[t] = "installs"},
  Repeated <- {t \in Tools : Prelude[t] = "runs"},
  tool <- IF stack = <<>> THEN "nothing" ELSE stack[1].tool,
  allowed <- get_config,
  scripts <- scripts,
  process <- CASE stack # <<>> /\ stack[1].at = "running" -> "running"
               [] stack # <<>> /\ stack[1].at = "again" -> "over"
               [] OTHER -> "none",
  answer <- IF stack = <<>> THEN returned ELSE "none"

\* The detailed call keeps the promises of ToolCalls: one start, or one per case;
\* Err only when nothing was started; a script only with consent, but for the
\* first of a step that installs of its own accord.
KeepsContract == Contract!Spec
==============================================================================
