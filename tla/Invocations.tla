----------------------------- MODULE Invocations -----------------------------
(***************************************************************************)
(* invoke_command and Executable.pool of                                   *)
(* src/src/lograder/process/executable.py: every student program and every *)
(* tool runs through them.                                                 *)
(*                                                                         *)
(* One pool() call submits the invocations 1..N to a thread pool; a worker *)
(* takes the oldest one, starts its process, maybe later than another      *)
(* worker starts that of a later one, and communicates with it until its   *)
(* output pipes are at end of file and the process is gone, or until the   *)
(* timeout: then it kills the process and communicates again, without a    *)
(* timeout.  A direct Executable.__call__ is a pool of one.                *)
(*                                                                         *)
(* The program is the environment: it may run for ever, close its pipes    *)
(* early, and leave behind a child of its own that still holds them.       *)
(***************************************************************************)
EXTENDS Integers, Sequences, FiniteSets

CONSTANTS
  N,            \* number of inputs of the pool() call
  MaxWorkers,   \* config.executable_max_workers
  Timed,        \* invocations with a timeout (options.timeout is not None)
  Forking,      \* invocations whose program may leave a child behind
  Unpiped,      \* invocations whose stdout_mode or stderr_mode is not PIPE
  NoPipe        \* those with neither

Jobs == 1..N

ASSUME InvocationsAssumption ==
  /\ N \in Nat
  /\ MaxWorkers \in Nat \ {0}
  /\ Timed \subseteq Jobs /\ Forking \subseteq Jobs
  /\ Unpiped \subseteq Jobs /\ NoPipe \subseteq Unpiped

VARIABLES
  submitted,   \* inputs submitted so far
  queue,       \* submitted invocations no worker has taken
  stage,       \* where each invocation's worker is
  process,     \* each invocation's process
  holds,       \* its process still holds its output pipes
  child        \* the process's own child: none, holding the pipes, or gone

vars == <<submitted, queue, stage, process, holds, child>>

Communicating == {"communicating", "draining"}
Working == {"starting"} \cup Communicating
Ended == {"returned", "raised"}

Busy == {j \in Jobs : stage[j] \in Working}

HasWorker_OneTooMany == Cardinality(Busy) <= MaxWorkers
HasWorker == Cardinality(Busy) < MaxWorkers

oldest_Newest == queue[Len(queue)]
oldest == Head(queue)

alive(j) == process[j] = "running"

eof_OwnPipes(j) == j \in NoPipe \/ ~holds[j]

\* communicate() has nothing left to read.
eof(j) == j \in NoPipe \/ (~holds[j] /\ child[j] # "holding")

------------------------------------------------------------------------------
Init ==
  /\ submitted = 0
  /\ queue = <<>>
  /\ stage = [j \in Jobs |-> "new"]
  /\ process = [j \in Jobs |-> "none"]
  /\ holds = [j \in Jobs |-> FALSE]
  /\ child = [j \in Jobs |-> "none"]

MoreInputs == submitted < N

\* pool(): the caller's loop over the inputs.
Submit ==
  /\ MoreInputs
  /\ submitted' = submitted + 1
  /\ queue' = Append(queue, submitted + 1)
  /\ stage' = [stage EXCEPT ![submitted + 1] = "queued"]
  /\ UNCHANGED <<process, holds, child>>

\* A worker takes the oldest invocation.
Take ==
  /\ queue # <<>>
  /\ HasWorker
  /\ stage' = [stage EXCEPT ![oldest] = "starting"]
  /\ queue' = Tail(queue)
  /\ UNCHANGED <<submitted, process, holds, child>>

\* create_process.
Start(j) ==
  /\ stage[j] = "starting"
  /\ stage' = [stage EXCEPT ![j] = "communicating"]
  /\ process' = [process EXCEPT ![j] = "running"]
  /\ holds' = [holds EXCEPT ![j] = TRUE]
  /\ UNCHANGED <<submitted, queue, child>>

\* It raises: no such program, or no such directory.
StartFails(j) ==
  /\ stage[j] = "starting"
  /\ stage' = [stage EXCEPT ![j] = "raised"]
  /\ UNCHANGED <<submitted, queue, process, holds, child>>

\* ExecutableOutput takes bytes: without both pipes its construction raises.
Deliver(j) ==
  stage' = [stage EXCEPT ![j] = IF j \in Unpiped THEN "raised" ELSE "returned"]

CanFinish_AtEof(j) == eof(j)
CanFinish(j) == eof(j) /\ ~alive(j)

\* communicate() has read to the end and waited for the process.
Communicated(j) ==
  /\ stage[j] \in Communicating
  /\ CanFinish(j)
  /\ Deliver(j)
  /\ UNCHANGED <<submitted, queue, process, holds, child>>

kill_Not(j) == UNCHANGED <<process, holds>>

\* Popen.kill: a process that is already gone is left alone.
kill(j) ==
  /\ process' = [process EXCEPT ![j] = IF alive(j) THEN "killed" ELSE @]
  /\ holds' = [holds EXCEPT ![j] = FALSE]

TimedOut(j) ==
  /\ stage[j] = "communicating"
  /\ j \in Timed
  /\ kill(j)
  /\ stage' = [stage EXCEPT ![j] = "draining"]
  /\ UNCHANGED <<submitted, queue, child>>

\* Any other exception in communicate(): kill, and raise.  In the second one
\* there is no kill, and nothing left to kill.
Interrupted(j) ==
  /\ stage[j] \in Communicating
  /\ kill(j)
  /\ stage' = [stage EXCEPT ![j] = "raised"]
  /\ UNCHANGED <<submitted, queue, child>>

(* The program. *)

Exits(j) ==
  /\ alive(j)
  /\ process' = [process EXCEPT ![j] = "exited"]
  /\ holds' = [holds EXCEPT ![j] = FALSE]
  /\ UNCHANGED <<submitted, queue, stage, child>>

ClosesPipes(j) ==
  /\ alive(j)
  /\ holds[j]
  /\ holds' = [holds EXCEPT ![j] = FALSE]
  /\ UNCHANGED <<submitted, queue, stage, process, child>>

Forks(j) ==
  /\ j \in Forking
  /\ alive(j)
  /\ holds[j]
  /\ child[j] = "none"
  /\ child' = [child EXCEPT ![j] = "holding"]
  /\ UNCHANGED <<submitted, queue, stage, process, holds>>

ChildExits(j) ==
  /\ child[j] = "holding"
  /\ child' = [child EXCEPT ![j] = "gone"]
  /\ UNCHANGED <<submitted, queue, stage, process, holds>>

Program(j) == Exits(j) \/ ClosesPipes(j) \/ Forks(j) \/ ChildExits(j)

Worker(j) ==
  Start(j) \/ StartFails(j) \/ Communicated(j) \/ TimedOut(j) \/ Interrupted(j)

Next ==
  \/ Submit
  \/ Take
  \/ \E j \in Jobs : Worker(j)
  \/ \E j \in Jobs : Program(j)

\* The caller and the workers keep going, and a timeout that is due fires; the
\* program owes nothing: it may never exit.
Fairness ==
  /\ WF_vars(Submit)
  /\ WF_vars(Take)
  /\ \A j \in Jobs : WF_vars(Start(j)) /\ WF_vars(Communicated(j)) /\ WF_vars(TimedOut(j))

Spec == Init /\ [][Next]_vars /\ Fairness

------------------------------------------------------------------------------
(* Properties *)

\* Every variable has its type.
TypeOK ==
  /\ submitted \in 0..N
  /\ queue \in Seq(Jobs)
  /\ stage \in [Jobs -> {"new", "queued"} \cup Working \cup Ended]
  /\ process \in [Jobs -> {"none", "running", "exited", "killed"}]
  /\ holds \in [Jobs -> BOOLEAN]
  /\ child \in [Jobs -> {"none", "holding", "gone"}]

\* When an invocation is over, by result or exception, its process is over: no
\* return code is read from a living process, and none is left running.
NothingLeftRunning == \A j \in Jobs : stage[j] \in Ended => ~alive(j)

\* A delivered output is whole: nobody can still write to the pipes it was read
\* from, also after a kill.
OutputWhole ==
  \A j \in Jobs : stage[j] = "returned" => ~holds[j] /\ child[j] # "holding"

\* Workers take the inputs in order but start their processes in any: when one
\* has started, fewer of the inputs before it than there are workers have not.
OvertakesFew ==
  \A j \in Jobs : process[j] # "none" =>
    Cardinality({i \in 1..(j - 1) : stage[i] \in {"new", "queued", "starting"}}) < MaxWorkers

\* Programs that never exit, or whose children keep the pipes, take a worker each
\* for ever; as long as they are fewer than the workers, every other submitted
\* invocation ends, if it has a timeout.
OthersEnd ==
  Cardinality(Forking \cup (Jobs \ Timed)) < MaxWorkers =>
    \A j \in Timed \ Forking : (stage[j] = "queued") ~> (stage[j] \in Ended)

\* The claim of performance.py:85 and docs/pipeline/test.md:152 ("Safety kill
\* fires ... to prevent indefinite hangs"): every submitted invocation with a
\* timeout ends.
TimedCallsEnd ==
  \A j \in Timed : (stage[j] = "queued") ~> (stage[j] \in Ended)

\* What concurrent.futures promises of the pool's futures.
Pool == INSTANCE Futures WITH
  future <- [j \in Jobs |-> CASE stage[j] \in {"new", "queued"} -> "pending"
                              [] stage[j] \in Working -> "running"
                              [] stage[j] \in Ended -> "finished"]
ImplementsFutures == Pool!Spec
==============================================================================
