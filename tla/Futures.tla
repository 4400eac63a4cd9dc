------------------------------- MODULE Futures -------------------------------
(***************************************************************************)
(* What Executable.pool promises of the futures it returns: each one is    *)
(* pending, then running on one of at most MaxWorkers workers, then        *)
(* finished, once and for all.                                             *)
(***************************************************************************)
EXTENDS Integers, FiniteSets

CONSTANTS N, MaxWorkers

VARIABLE future

Running == {j \in 1..N : future[j] = "running"}

Init == future = [j \in 1..N |-> "pending"]

Take(j) ==
  /\ future[j] = "pending"
  /\ Cardinality(Running) < MaxWorkers
  /\ future' = [future EXCEPT ![j] = "running"]

Finish(j) ==
  /\ future[j] = "running"
  /\ future' = [future EXCEPT ![j] = "finished"]

Next == \E j \in 1..N : Take(j) \/ Finish(j)

Spec == Init /\ [][Next]_future
==============================================================================
