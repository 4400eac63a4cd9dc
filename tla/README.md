# lograder: a TLA+ verification project

lograder is a Python library for autograders.  An instructor composes *steps*
(take the submission in, inject files, build, check, test) into a *pipeline*;
the pipeline drives each step's generator, shows and scores the packets it
yields, threads each step's `Ok` value into the next step, and returns a score.
Steps run compilers, tools and student programs as child processes, through one
function with timeouts and a thread pool.

This directory models the parts of that code with state, order, failure or
concurrency of their own, checks them with TLC and proves what matters most
with TLAPS.  Paths below are relative to `src/src/lograder/`; documents are in
`src/docs/`.

## Inventory

| part | source | state | operations | interacts with |
|---|---|---|---|---|
| scoring | `pipeline/score.py` | per scorer: passed cases, failures, bonus, last return | `on_packet`, `on_complete`, `contribution` | called by the pipeline |
| pipeline | `pipeline/pipeline.py`, `step.py`, `output/capture.py` | steps, `datum`, score lines, capture buffers | `add`, `validate_step_types`, `__call__` | drives steps and scorers, logs packets, renders layouts |
| invocations | `process/executable.py` (`invoke_command`, `Executable`) | process, pipes, pool workers, futures | `__call__`, `pool` | every test, build and check step |
| typed executables | `process/executable.py` (`TypedExecutable`), `install_script.py` | one command per class, installed tools | `check_runnable`, `install`, `__call__` | configuration, invocations |
| CLI arguments and registry | `process/cli_args.py`, `process/registry/` | the class being defined, the instance | declaration check, validators, `emit` | typed executables |
| configuration | `pipeline/config.py` | a context variable | `config()`, `get_config` | timeouts, workers, auto-install |
| input, mixins, manifests | `pipeline/input/`, `pipeline/mixin/`, `pipeline/types/parcels.py` | files of submission and staff, the manifest | `from_directory`, `from_flat`, comparisons, injections | checks, builds |
| builds | `pipeline/build/`, `process/parsers/makefile.py`, `cmake.py` | build directory, artifacts | build steps | typed executables, tests |
| tests | `pipeline/test/`, `process/parsers/junit.py`, `valgrind.py` | files the programs write, temporary files | test steps, one packet per case | invocations, scorers |
| checks | `pipeline/check/` | none; what they read is the submission's | manifest, source, annotation and type checks | typed executables, scorers |
| serialization | `pipeline/score.py:128-260`, `pipeline/metadata.py`, `output/gradescope.py` | none | `to_gradescope_dict`, due dates | the finished score |
| output | `output/` | handlers, layouts | logging, rendering | every packet |

What is hard in each part, and what makes it correct:

* **Scoring and pipeline.**  Scorers and the datum outlive a call, and steps may
  share a scorer, so a second call starts from what the first left.  A run can
  end by a fatal `Err`, by an exception of a step, or half way through rendering
  a packet.  Correct means: one line per scored step, in order, worth full
  marks, never earning more; each step fed by the step before it; passes never
  cost and failures never pay, although both move the gimme fraction.
* **Invocations.**  Processes hang, close their pipes early, leave children that
  hold the pipes, and exit between the timeout and the kill, all while other
  invocations of the pool do the same.  Correct means: no process outlives its
  invocation, a delivered output is whole, at most `max_workers` run, and
  programs that are stuck do not stop the others.
* **Tests.**  A step is a generator: it may be left by a return, a fatal `Err`,
  an exception, or because the pipeline lets go of it between two packets.
  The files it shares with programs may be stale, or written by a child of an
  earlier program.  Suites may die before their report.  Correct means: cases
  reported once and in order, `Ok` only after the last, nothing passes on a
  stale file or a killed run, nothing temporary is left.
* **Typed executables and configuration.**  The command of a tool belongs to its
  class, and an installation redirects it for the whole process; settings are
  nested overrides.  Correct means: what is run was found or has just been
  installed, a call installs only what it was allowed to, and leaving a block restores what was there.
* **Input, mixins, builds.**  A manifest is read once and relied on by every
  later step, while injections and builds write to the directory it describes,
  and find there what earlier runs left.  Correct means: the manifest a step
  holds describes the disk, a selected file arrives or was deliberately left, no
  injection destroys a file, an artifact is a file when it is collected.
* **CLI arguments.**  A position is declared on a class, and resolved against the
  blocks one instance emits.  Correct means: the line meets the declaration, no
  accepted instance of a registered tool fails to be ordered.
* **Parsers and checks.**  Each reads a document somebody else wrote, item by
  item, and must not depend on an order the document's language does not give
  meaning to.  Correct means: what is read is what the document means.
* **Metadata, serialization.**  Due dates with their extensions, sums of scores.

## Modules

| module | what it is |
|---|---|
| `Scoring` | the three scorers as operators on an accumulator record |
| `Pipeline` | the pipeline with its steps and scorers, over several calls |
| `GradeSheet` | abstract: what a grading run promises to who asked for it |
| `Invocations` | `invoke_command` and `Executable.pool` with the programs as environment |
| `Futures` | abstract: what the pool promises of the futures it returns |
| `Executables` | a typed executable: search, installation, search again, process, inside `config()` blocks |
| `ToolCalls` | abstract: what a call of a tool promises the step that makes it |
| `CliArgs` | an argument class and an instance of it, from definition to command line |
| `Registry` | the argument classes and executables the repository declares, as data |
| `Manifests` | the shape of a directory: flat lists, comparisons, order of files |
| `Workspace` | inputs, injections, manifest checks and builds over several runs in one container |
| `CaseSteps` | the nine test steps that run something per case |
| `CaseReport` | abstract: what the pipeline relies on when it drives a test step |
| `SuiteSteps` | the four test steps that run a suite and read its JUnit report |
| `Complexity` | one case of `ComplexityTest`: runs, medians, fit and class |
| `Makefiles` | the Makefile parser: variables, functions, rules, artifacts |
| `ValgrindXml` | the parser of valgrind's XML report and the verdict of `ValgrindTest` |
| `SourceChecks` | the checks that read sources, and what a scorer makes of them |
| `Documents` | the documents the readers of `Manifests`, `ValgrindXml` and `SourceChecks` may meet, growing item by item |
| `MCPipeline`, `MCExecutables`, `MCCliArgs`, `MCWorkspace`, `MCComplexity`, `MCDocuments` | instances for TLC |
| `Pipeline_proofs` (with those of `Scoring`), `Invocations_proofs`, `Executables_proofs`, `CaseSteps_proofs`, `SuiteSteps_proofs`, `CliArgs_proofs`, `Workspace_proofs` (with those of `Manifests`), `Verdicts_proofs` (those of `Complexity`, `ValgrindXml`, `SourceChecks` and `Documents`) | theorems and their proofs |

`Pipeline` and `SourceChecks` extend `Scoring`; `Workspace` extends `Manifests`;
`Documents` extends `Manifests`, `ValgrindXml` and `SourceChecks`.
`Pipeline` instantiates `GradeSheet`, `Invocations` `Futures`, `Executables`
`ToolCalls` and `CaseSteps` `CaseReport`.  The detailed modules meet at the
abstract ones: `Pipeline` lets a step yield any packets and return or raise at
any point, which covers every behaviour `CaseReport` allows; `CaseSteps` lets
each run show whatever `Invocations` can deliver (`ends` = exited, held open by
a child, killed, raised); a tool of `Workspace` is not installed, failed or done,
which are the answers `ToolCalls` allows.  `MCExecutables` and `MCCliArgs` take
their tools and classes from `Registry`.

### Pipeline and Scoring

`steps`, `datum`, `score`, `acc` and `shown` are `self.steps`, `self.datum`,
`PipelineScore.contributions`, the scorers' fields and `captured_output`.  A
call is a sequence of actions of one thread: `Yield` is one turn of the
generator loop (log, `on_packet`, capture), `ReturnOk` and `ReturnErr` the two
ways its `StopIteration` is handled, `Raise` an exception of the step or of the
logger, `Skip` one turn of the loop over the steps after `stop_index`.  Packets
are told apart by what scorers look at.  Points are natural numbers and
fractions are pairs, so that no rounding is modelled.  A datum is named by the
step that returned it.  `captured` counts the texts in each of the four
buffers: the renderers run in order, so a packet reaches a prefix of them.

### Invocations

`stage[j]` is where the worker of invocation `j` is in `invoke_command`;
`process`, `holds` and `child` are the world: the process, whether it holds its
ends of the pipes, and whether a child it left behind does.  `Take` is a worker
of the thread pool taking the oldest work item, `Start` its `Popen`: between the
two another worker may start the process of a later invocation, but only as many
as there are other workers (`OvertakesFew`).  `Communicated` is
the return of `communicate()`, possible when the pipes are at end of file and
the process is gone; `TimedOut` kills and communicates again, this time without
a timeout.  `StartFails` and `Interrupted` are the exceptions.  An invocation
with an output stream that is not piped runs to its end and then raises, since
`ExecutableOutput` takes bytes.

### Executables and ToolCalls

A call of a tool is a frame of `stack`, and `at` is where it is in
`TypedExecutable.__call__`; an install script is a call of bash, so it is a
frame of its own above the call that waits for it.  `Emit`, `check_runnable`,
`install`, `get_command`, `recheck`, `Start` and `Exit` are the steps in the
order of the code, each with its early return or exception.  `command` is the
class attribute that an installation redirects, `allow` the stack of
`allow_auto_install` values of the `config()` blocks around the call.  Steps differ
in what they do before they call (`Prelude`): some give up when their own search
fails, some install without asking, and `ValgrindTest` installs with consent and
then runs the command itself, once per case (`NextCase`), without a second search;
`RunsWhatItFound` and `ToolCalls` say what is promised of each.  `Machine` is everybody else: a command may appear on PATH or at an
install location, or go, between any two steps.

### CliArgs and Registry

`Define` is `_validate_declared_positions` of a class, `Build` the validators of
an instance, `emit` the ordering of the blocks it has.  A field is a name, a
position if it has one, and whether an instance always, maybe or never has a
block for it; what the tokens of a block say is left out.  The blocks, and those
without a position, are lists in the order of declaration (`InOrder`); `Ordered`
puts the second into the gaps of the first.  `emit` raises for a position this
instance does not have (`OutOfRange`), for two that fall together (`Overlap`),
and for the two internal errors of the code, too few or too many blocks for the
gaps (`Unfilled`), which are proved never to occur.  `Registry` declares
every class of `process/registry/` with the rules of its model validators, and
every executable with how it is installed.

### Manifests and Workspace

A tree gives each path what lies there, a file by the name of who wrote it: the
staff, the student of a run, or the build of a run.  A run loads a directory,
injects and checks a few times, builds, and hands artifacts to the tests; the
next run meets what it left, or a new submission that may bring a CMake reply
directory along.  `_copy_matching_files` is a loop over the files in the order
`file_paths` lists them, directories first (`Before`), by the recursive function
`done`: `copy_one` leaves a file alone, copies it or raises, and after the first
that raises nothing more is copied.  `from_flat` is the same loop over the lines
of a list, with `add_path`.  A build runs the submission's own rules, so its tools
may put a file of their own or a directory on any path they reach (`Reach`, in
either place), over what was there, or take it away, CMake's reply too, and end
as they like; only a tool that is not installed changes nothing, although
`CMakeExecutable` has made its query (`Queried`) before it finds that out.  After
that the builds look again: `MakefileBuild` reads a Makefile that may be gone,
and `FileArtifact` refuses what is no file.

### CaseSteps and SuiteSteps

Both are one call of one step, from the first `next()` of its generator to its
end.  `pc` is where the generator is; `yielded` is where the pipeline may let go
of it (`Abandon`).  The nine per-case classes share their shape (resolve, find
the tool, run, judge, yield) and differ in what they ask of a run, in what is
fatal and in what is temporary; each has an operator of its own.  `report`
keeps the evidence of each packet (which case, how the run ended, who wrote the
file), and `CaseReport` maps it to the cases in the order of their packets.  A run
ends when its pipes are at their end: `holds` is a child that keeps them open.  In
`CaseSteps` the output file of `FileOutputTest` is shared with the program, with
children of earlier programs, and with what was there before the call.
`file_output.py` looks whether the file exists and then removes or reads it: the
pair is one step here.  In `SuiteSteps` a test case is the three marks that
`junit.py` reads.

### Complexity

Times and sizes are powers of two given by their exponents, so that logarithms,
medians and slopes are exact integers and fractions; times below
`_MIN_MEASURABLE_S` are one value.  The median of an odd number of runs is the
least one that more than half do not exceed.  `PowerLawFound` asks for two
sizes that differ (`Varied`): the code fits no line through equal ones.  Between powers of two the code's floating
point is not modelled, nor is the median of an even number of runs.

### Makefiles, ValgrindXml and SourceChecks

The readers are operators, one per function of the code, over documents that are
sequences of items: lines of words, references, calls and operators; elements
with their children; characters; lines of names; definitions; diagnostics.  Each
property compares a reader with a definition of what the document means that is
written without the reader's operators: every `.PHONY` against those seen
so far, a variable's value when it is used against when it is assigned, the
definition that Python binds against the dict the check fills, one pass over the
text against five substitutions, the definitions above each line against the last
of the whole text.  Three of them say for which documents they speak: a text in
which no literal or comment looks as if it began another (`IsPlain`); lines of
which the definitions come first and need no more than the ten rounds the reader
has; a module in which a class shares its name with no other definition
(`NamesAreApart`).  Outside these the code does differ (known disagreements,
below).  `Documents` grows documents item by item
(a valgrind report, which is long before it is one, is edited), so that every
prefix is checked too, and states the properties of whatever document is being
read; what documents are made of (`Alphabet`, `Reports`, `ReportElements`,
`RequiredNames`) are constants, small sets in `MCDocuments` and any sets in the
proofs.  The properties of Makefiles stand in `MCDocuments`, as `Makefiles` is
recursive and nothing is proved of it.

## Runs

| run | module | question | bounds |
|---|---|---|---|
| `pipeline` | `MCPipeline` | Is the score complete, ordered and capped however a call ends, does the call end, does it implement `GradeSheet`, what is a step fed, does no pass cost and no failure pay, in a second call too, which inherits accumulators and datum? | pipelines of up to 3 of 5 steps, the same step twice among them, so that two share a scorer; one scorer of each class; 1 packet per step and call, 2 calls; no renderer fails |
| `pool` | `Invocations` | Does the pool implement `Futures`, overtaking few, leaving no process behind, with whole outputs, and do stuck programs leave the others alone? | 4 invocations, 3 workers, two that may never end |
| `executables` | `MCExecutables` | Is a process started with the command this call's last search found, does every call come back, does it keep `ToolCalls`? | 4 tools of the registry, one of each prelude (bash, one whose step runs the command its script placed, one whose step installs unasked, one that is just called), 2 nested blocks, a machine that changes at any time |
| `installs_unasked` | `MCExecutables` | finding: a step installs while `allow_auto_install` is off | as `executables` |
| `cli_args` | `MCCliArgs` | Does an emitted line meet the declaration, is every accepted instance of a registered class ordered, is no working class refused? | every class of the registry, and every class of up to 3 fields at positions -3 to 3; of the fields no rule or position names, at most 2 are set at once |
| `workspace` | `MCWorkspace` | Does a manifest describe the disk, do injected files arrive, are artifacts files, does no injection destroy anything? | 2 runs, 3 steps on a manifest in each; 5 paths, one directory, a name that is a file in one tree and a directory in another; tools reach the student's library and the staff's program, of either kind and there or not |
| `cases` | `CaseSteps` | Do the nine steps implement `CaseReport`, pass only on fresh files and whole runs, leave nothing, and end unless a child holds the pipes for ever? | 2 cases, one with an exit code or negated; any child left behind, with or without the pipes, also one from before |
| `suites` | `SuiteSteps` | Is each test case reported once and in order, is the file removed? | reports of up to 2 test cases, all 12 marks, with missing, empty and broken files |
| `complexity` | `MCComplexity` | Are exact power laws found on a machine of any speed, do verdict, shown class and documented bounds agree but for a negative slope? | sizes 1, 2, 4, three runs per size, times up to 2^4 units |
| `documents` | `MCDocuments` | Do the readers of Makefiles, valgrind reports, flat manifests, C++ text, aliases, Python modules and type checkers' output find what these documents mean? | Makefiles of 4 lines out of 20, texts of 6 characters out of 8, 5 lines of aliases, one of them a chain of nine, modules of 4 definitions, flat lists of 4 paths, 2 checked files, 4 diagnostics; two reports, each edited twice |
| `killed_but_hung` | `Invocations` | finding: a timeout does not end the call | as `pool` |
| `leaks_pass` | `MCDocuments` | finding: a leaking program passes `ValgrindTest` | reports edited twice |

Why the bounds are enough.  *Pipeline*: the shortest runs that mix a driven, a
failed and a skipped step have three steps; an accumulator is left by one call
and met by the next, so two calls; up to three steps and two calls send six
packets to one scorer, which repeat a case, or pass and fail in any order; one
case is a bonus case, one regular; one gimme floor is reached with one of two
attempts, the other with two of three.  Texts and captures are in no property of
this run, so that renderers do not fail in it.  *Invocations*: three
workers with two stuck invocations leave exactly one worker for the rest, and
the fourth invocation has to wait; each of the sets Timed, Forking, Unpiped and
NoPipe has members and non-members.  *Executables*: a call is one tool and at
most one script above it, and what a call leaves to later ones is `command`,
which is changed once; the four tools have the three kinds of script and the
four preludes between them; two blocks nest.  *CliArgs*: a clash needs two
numbered fields, a gap a third; -3 to 3 goes beyond both ends.  Three plain
fields at once are ordered like two, pair by pair.  *Workspace*: what a run
leaves meets the next; three steps are an injection, a check that relies on it,
and an injection that undoes it.  *CaseSteps*: a file or child of the first case
meets the second; what a case leaves behind can reach a later case only through
these.  *SuiteSteps*: with two test cases, one that yields nothing may come
before or after one that does.  *Complexity*: three sizes make the middle one
bend the line.  *Documents*: an assignment, one that refers to it, its use and a
`.PHONY` fit into four lines; six characters hold a comment or a literal with a
token in it and one after it; the chain of nine aliases and one or two more take
exactly the ten rounds of `_naive_expand`, or one more; two
edits of a report remove one element and bring another, or move one twice.

Deadlock is not checked where one call or one use is modelled, since it ends
(`Invocations`, `CaseSteps`, `SuiteSteps`, `Complexity`, `CliArgs`,
`Documents`), nor in `Workspace`, whose last run ends; in `Pipeline` the client
may always validate and in `Executables` the machine may always change, and it
is.

### Fairness

* `Pipeline`: weak fairness of the running call.  It is one Python thread; the
  bound on packets stands for generators that are finite.
* `Invocations`: weak fairness of submitting, of a free worker taking work, of
  `communicate()` returning when it can, and of a timeout that is due.  Nothing
  is assumed of the programs: they may run, and hold their pipes, for ever.
* `Executables`: weak fairness of the running call, one thread again.  Nothing is
  assumed of the machine, nor of the processes: install scripts have no timeout
  by default, so `CallEnds` is conditional on no process running for ever, and on
  a step that runs one process per case running out of cases.
* `CaseSteps`: weak fairness of the generator and its driver, and of the end of a
  run that has a timeout once no child holds its pipes, which is what `Invocations`
  shows; nothing makes a child let go, as `killed_but_hung` shows, so `StepEnds` is
  conditional on that.

## What the code is shown not to do

Each is a run with a counterexample and an entry under `findings`:

1. A timed-out program whose child holds its pipes hangs the call
   (`executable.py:136`, against `performance.py:85`).
2. `ValgrindTest` looks for errors in the events before the end of the run;
   leaks are reported after it, so a leaking program passes with `check_leaks`
   (`test/valgrind.py:175`, against `test.md:95`).
3. `CTestTest`, `PytestTest`, `MypyCheck` and `TyCheck` run the install script of
   a missing tool with `allow_auto_install` off (`ctest.py:142`, `pytest.py:126`,
   `mypy_check.py:155`, `ty_check.py:154`, against `config.py:32-33`; of mypy and
   ty, `check.md:337` and `384` say so).

Met while modelling, and reflected in the models, but without a run of their own.

*Against a document or a comment:*

* `CleanRunScorer(require_ok_return=False)` pays for a step that an early exit
  skipped (`pipeline.py:107`; `scoring.md:153`);
* step types are validated only on request (`pipeline.py:45`; `concepts.md:14`),
  and the first step of a second call is driven with the first call's last datum
  (`pipeline.py:52`, `:100`), which no validation compares with it;
* a skipped step enters the score with what its scorer has, from an earlier call
  or another step that shares it, not with 0 (`pipeline.py:107`; `:104`);
* `PerformanceTest` passes a program that could not be started
  (`performance.py:95`; `test.md:137`);
* a test case with both `<failure>` and `<skipped>` yields no packet
  (`gtest.py:170`; `gtest.py:66`);
* a negative slope is shown as "O(1) or less" and fails an expected O(1)
  (`complexity.py:66`, `:83-84`; `test.md:538`): the one case `ClassAgrees` names
  in which the two do not agree;
* the bonus of a case is paid each time its name passes (`score.py:344`;
  `scoring.md:104`);
* `ASanTest` replaces the timeout of its `options` (`asan.py:146-151`;
  `test.md:416`);
* `ValgrindTest` without valgrind is a fatal `Err` (`test.md:76` says that it
  "skips gracefully");
* position 0 is the default and -1 is appended last, says `process.md:72`;
  the default is no position at all, and negative ones count from the end;
* the directory `GXXBuild` compiles into is never removed (`gxx.py:74-75`);
* `_function_defs` says that the last definition seen wins
  (`python_annotation_check.py:56-57`), but the bare name of a method keeps the
  first, of whatever class (`:67`); a class that is defined again keeps the methods
  it no longer has; and a class keeps its methods, and a function its name, when
  the other kind is defined under that name after it, which is what Python calls;
* a comment opener inside a string literal hides what follows it from
  `RawSourceCheck` (`raw_source_check.py:95-102`; `121-126`);
* without a preprocessor the last definition of a name counts everywhere, before it
  too (`_ast.py:318-326`): a use between `#define B op` and a later `#define B A` is
  not found, and a chain of more than ten definitions is not followed to its end
  (`:331`), although aliases are said to be resolved before the tree is built
  (`source_check.py:238-239`);
* a target that begins with a dot is no artifact (`makefile.py:497`), though only
  phony and special ones are said to be left out (`:475-477`).

*Without one:*

* a JUnit `<error>` without `message` attribute counts as passed
  (`junit.py:25-31`); `_classify` answers "super-cubic" also for slopes in the
  gaps between classes (`complexity.py:85`);
* a program that its timeout killed can pass `OutputCompareTest` and `ASanTest`,
  and one that hangs at every size is measured as O(1); cases given as a
  generator are used up by the first call;
* a command stays redirected when the search after the installation fails;
  `ValgrindTest` does not search again at all (`test/valgrind.py:126-147`); an
  `InstallScript` off its platforms raises `AttributeError`; nothing calls
  `append_command_arguments`; the `ValidationError` branch of `config()` is dead;
* a blank text in a field without a validator raises only when it is emitted;
* `InjectStaffIntoStudent` with a relative or symlinked `staff_source` raises
  `ValueError`; `shutil.copy` into a directory of the file's name puts the file
  below it;
* a TOML manifest may name an entry twice, and one without the key "manifest"
  always raises (`parcels.py:295`);
* a directory named `Makefile` or `CMakeLists.txt` passes the project check;
* mypy and ty are judged by what they print, never by their return code, and
  `MypyCheck` overrides `extra_args`;
* `KeywordConstraint` does not see range-based `for`;
* the Makefile parser ignores `export X=`, skips rules whose target begins with
  a directive's name, and expands `=` at once: `EagerIsLazy` states where that
  makes no difference;
* a comment between two words joins them once it is stripped;
* when a report names a protocol tool, an unknown textual element in second
  place is dropped in its stead.

## Proofs

TLAPS checks the following for every value of the constants.

| theorem | says | rests on |
|---|---|---|
| `ContributionBounded` | any scorer's contribution is worth its full marks and earns at most them, whatever the accumulator | the constructors' configurations (`ScorerConfigs`) |
| `PipelineTyped`, `PipelineEntersEveryStep`, `PipelineCapsEarned` | `TypeOK`, `SheetSoFar`, `CappedEarned` are invariants | `SheetInv`, `ScorerAssumption`, `StartAssumption`, `BoundsAssumption` |
| `PipelineGradesBySheet` | `Pipeline` implements `GradeSheet` | `SheetInv` |
| `PipelineChainsDatum`, `ValidatedPipelineFits` | `ChainedDatum`, `ValidatedRunFits` are invariants | `ChainInv` |
| `PipelinePassNeverCosts`, `PipelineFailureNeverPays` | no step violates `PassNeverCosts`, `FailureNeverPays` | `WorthInv` |
| `InvocationsReap`, `InvocationsDeliverWhole`, `InvocationsOvertakeFew` | `NothingLeftRunning`, `OutputWhole`, `OvertakesFew` are invariants | `InvocationsInv`, `OvertakeInv`, `InvocationsAssumption` |
| `InvocationsImplementFutures` | the pool implements `Futures` | `InvocationsInv` |
| `ExecutablesRunWhatTheyFound` | `RunsWhatItFound` is an invariant | `ExecInv`, `ExecutablesAssumption` |
| `ExecutablesKeepContract` | `Executables` implements `ToolCalls`: outside consent at most one script, of a step that installs unasked | `ExecInv`, `ExecutablesAssumption` |
| `CaseStepsTyped`, `CaseStepsPassFreshFiles`, `CaseStepsKilledFail`, `CaseStepsLeaveNoTemp` | `TypeOK`, `PassedOnFreshFile`, `KilledNeverPasses`, `NoTempLeft` are invariants | `CaseStepsInv`, `CaseStepsAssumption` |
| `CaseStepsImplementReport` | every per-case step implements `CaseReport`, case by case | `CaseStepsInv` |
| `SuitesReportEveryTest`, `SuitesLeaveNoFile` | `EveryTestReported`, `NoFileLeft` are invariants | `SuiteInv`, `SuiteStepsAssumption` |
| `ComplexityFindsPowerLaw`, `ComplexityClassAgrees` | `PowerLawFound`, `ClassAgrees` are invariants | `ComplexityInv`, `ComplexityAssumption` |
| `CommandLinesMeetDeclarations`, `RefusedClassesCannotWork`, `RegisteredClassesEmit` | `OrderMeetsDeclaration`, `RejectionSound`, `RegisteredAlwaysEmits` are invariants, for any classes and any number of options set | `CliInv`, `ClassesAssumption`, `RegisteredAssumption` |
| `StructuresCompare` | `==` of two structures is equality, `<=` is containment (`ComparisonIsContainment`) | `PathsAssumption` |
| `FlatListsDescribeTrees` | a flat list is refused exactly when it describes no tree, and else gives the tree of its files (`FlatMeansItsFiles`) | `PathsAssumption`, and that the paths the list names are among `Paths` |
| `FlatListsCompare`, `DocumentsFlatListsMeanFiles` | what a flat list describes is a structure, and compares as one (`ManifestsMeanTheirFiles`); so `FlatListsMeanFiles` is an invariant | the same; `DocumentsAssumption` |
| `WorkspaceHoldsTrees`, `ManifestStaysCurrent`, `InjectionsArrive`, `BuildsHandOnFiles` | `TypeOK`, `ManifestIsCurrent`, `InjectionArrives`, `ArtifactsAreFiles` are invariants | `WorkspaceInv`, `WorkspaceAssumption`, `PathsAssumption` |
| `WorkspaceLosesNothing` | no injection or check violates `NothingLost`; a build, whose tools may do anything, can | `WorkspaceInv` |
| `ReportsAreTheirElements`, `DocumentsReportsAreWhole` | `ReportIsItsElements` of a report with any number of elements; so `ReportsAreWhole` is an invariant | `DocumentInv`; that an element has text or elements, never both (`TextOrElements`, in the statement) |
| `CleanRunsAreClean`, `TypeChecksFindErrors`, `DocumentsPaidIsClean` | `CleanRunIsClean` of any number of files and limits, `TypeErrorsAreFound` of an output of any length; so `PaidIsClean` is an invariant | `DocumentInv`, `DocumentsAssumption` |
| `GradedFunctionsRun`, `DocumentsGradedIsCalled` | `GradedIsTheOneThatRuns` of any module and any names; so `GradedIsCalled` is an invariant | `DocumentInv`, `DocumentsAssumption`; that a class shares its name with no other definition (`NamesAreApart`, in the statement) |

* `SheetInv` = `TypeOK` and `PositionInv` and `SheetSoFar` and `CappedEarned`.
  That the next line continues the sheet needs the place of the loop
  (`PositionInv`); what the line is worth needs the types of accumulators and
  configurations, through `ContributionBounded`.
* `ChainInv` adds to it that a verdict of `validate_step_types` is about the steps
  there are (`VerdictInv`: adding a step withdraws it), and that nothing replaces
  `PIPELINE_START` before the first step of the first call returns
  (`FirstDatumInv`).  A step that is driven then follows the one whose datum it
  gets, or is the first of its call; of the first step of a later call nothing
  is promised.
* `WorthInv` adds that only finitely many cases are recorded, without which the
  number of passes means nothing.  The rest is arithmetic: a pass keeps the
  fraction of passes at or above the gimme floor, a failure cannot lift it there.
* `InvocationsInv` adds to the claims the shape of the queue (`QueueInv`: it
  holds the last submitted inputs, in order) and that an invocation that has not
  started has no process (`UnstartedInv`): without the first, a worker might
  take an invocation that is over, without the second a queued one might have a
  running process.  `OvertakeInv` adds that no more workers are busy than there
  are: those a process overtakes have all been taken and not started.
* `ExecInv` adds to `TypeOK` (a call waits for at most one script, which is
  bash's) who may be installing (`Consent`) and how many scripts have been started
  by the place the call is at (`Spent`): without the place the contract's bound on
  scripts is not inductive.  A call that has not passed its step's own check has
  found nothing (`Unfound`), and one that waited for its step's script has had it
  started: so the only command run without a search is one just installed.
* `CaseStepsInv` adds where the generator stands between cases and packets
  (`ReportInv`), that while a case is under way the file can only be of its own
  run or of a child left behind (`FreshInv`), and what a killed run can show
  when it is judged (`KilledInv`).

* `SuiteInv` says what has been reported at every turn of the loop (`ReportInv`:
  the cases passed so far that are not silent, ascending), where the claim
  speaks of its end only; and at which places the temporary file can exist
  (`FileInv`).
* `ComplexityInv` says that a verdict is that of the fitted slope.  That the slope
  of an exact power law is its exponent is an identity between sums
  (`FitFindsLine`), proved for any number of points; the medians are exact
  because any odd number of equal runs has their value.
* `WorkspaceInv` adds to its claims that each place holds a tree and the manifest
  names one of the places (`PlaceInv`), and what a run cannot hold yet
  (`RunInv`).  The work is in `CopyResult`: whatever the files, filter and earlier
  contents, the loop of an injection leaves every file that was selected in place
  or left out, takes nothing away, changes nothing unless it overwrites, and
  leaves a tree even when it raises halfway.
  It rests on the order of files being total, so that every file is met once
  (`FilesListed`), and on two files never landing on one path (`LandApart`).

* `CliInv` adds to its claims that instances are built of classes that passed their
  check, and have a block for every field that always emits one (`InstanceInv`).
  Without a clash, the slots no position resolves to are as many as the blocks
  without one, and the k-th of the first takes the k-th of the second
  (`GapsAreFilled`): this is a count of finite sets, and rules out both internal
  errors.  A class of the registry never clashes because its positions are
  `Anchored`: between a position and its end of the line there are only positions
  of fields that always emit.  Positions that blocks have one after another are
  not more than the blocks (`PositionsAreBlocks`), so each is in range, and one
  counted from the left stays left of one counted from the right.  That the
  registry is anchored, and no more of it, is the assumption TLC evaluates; the
  number of options set at once, which TLC bounds, is not bounded in the proof.
* A report is read by a loop over its elements; what holds after each of them
  (`ReadTo`) says which elements have been found first and which events listed so
  far, by their places.  The claim, written with sets of places, follows at the
  last one.
* A source check is a loop over files (`CheckedTo`), and a scorer's verdict a loop
  over packets: it pays when no packet is a violation and the step returned Ok
  (`PaysWhenClean`).
* `_function_defs` is a loop of assignments and `setdefault`s; after each node
  (`DefinedTo`) a name has the last function called so, and a method's full name
  the last method called so in its class.  These are what Python binds where a
  class has its name for itself: the last node of a name is then the last function
  so called, or the one class (`NamedAre`).
* `DocumentInv` says that a document is a list of its reader's items, however it
  grew or was edited; the theorems above, which hold for every such list, then
  give the invariants.

The readers' loops are recursive functions.  The lemmas at the head of
`Workspace_proofs` and of `Verdicts_proofs` state induction for sets of numbers in
place of predicates, which the provers can instantiate, and get from it that a
recursive function over 1..n exists and what it computes (`LoopsOf`); sums, loops
over lists and the comparison by depth are proved with these.

In each refinement proof the abstract state is a function of the concrete one;
every action is shown to map to an abstract step or to leave it as it is.

Only model-checked:

* all liveness (`CallEnds` of `Pipeline` and of `Executables`, `OthersEnd`,
  `StepEnds`), which needs fairness and ENABLED;
* `ArtifactsAreTargets` and `EagerIsLazy` of `Makefiles`, and the second part of
  `UsesAreCounted`, `AliasesAreFollowed`: their readers flatten sequences of
  sequences and fold over them, and what such a fold computes for every input is
  an induction over data;
* the first part of `UsesAreCounted`, `TokensAreCounted`: five substitutions, each
  by a recursion that jumps over its matches, against one reading of the text.

## Not modelled, and why

* The tokens of an option, layouts and renderers, the serialization of scores
  (`score.py:128-260`, `output/`): formatting; `Pipeline` models that a renderer
  may raise between two formats.
* `pipeline/metadata.py`: submission times and due dates are read into values no
  step of a pipeline depends on.
* `Manifest.from_toml` and the package classes no step uses: a TOML table is
  turned into the structure `Manifests` starts from.
* The walk over syntax trees (`check/source/_ast.py`, `source_check.py`): the
  trees are tree-sitter's, and a constraint counts nodes of a kind;
  `SourceChecks` has the choice of a language and of a preprocessor, the expansion
  of aliases and what is made of the counts.  `#undef` and `#if`, which that
  expansion drops, are in no document.
* `parsers/nm.py`: one pattern per line.
* `common/`: data types, represented by values of the models.
* Windows branches: the models follow POSIX, and `posix` in `Executables` only
  says whether install scripts are defined.
* The floating point of points and slopes.
* Several calls of a test step with one iterator of cases.

## Plan

What is left to prove, in this order:

1. `ArtifactsAreTargets`: with `_join_continuations` and `parse_makefile` as
   recursive functions, that the phony names are those of all `.PHONY` lines once
   the last line is read.
2. `AliasesAreFollowed`: that each round of `_naive_expand` takes one step along
   every chain.
