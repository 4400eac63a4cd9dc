---------------------------- MODULE MCExecutables ----------------------------
(* Bash, which nothing installs, and whose steps check first; valgrind,      *)
(* placed by its script, whose step runs the command itself; ctest, whose    *)
(* script puts it on PATH and whose step does not ask; and make, which its   *)
(* step just calls.                                                          *)
EXTENDS Executables

Registry == INSTANCE Registry

MCScript == [bash |-> Registry!BashExecutable.script, valgrind |-> Registry!ValgrindExecutable.script,
             ctest |-> Registry!CTestExecutable.script, make |-> Registry!MakefileExecutable.script]
MCTools == DOMAIN MCScript
MCPrelude == [bash |-> "checks", valgrind |-> "runs", ctest |-> "installs", make |-> "none"]
==============================================================================
