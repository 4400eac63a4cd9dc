-------------------------- MODULE Invocations_proofs --------------------------
(***************************************************************************)
(* Proofs about Invocations, for any number of inputs and workers and for  *)
(* programs that never exit or leave children behind.                      *)
(***************************************************************************)
EXTENDS Invocations, FiniteSetTheorems, TLAPS

\* The queue holds the last submitted inputs, in order, and the stages agree
\* with it: everything before them has been taken.
QueueInv ==
  /\ Len(queue) <= submitted
  /\ \A a \in 1..Len(queue) : queue[a] = submitted - Len(queue) + a
  /\ \A j \in Jobs :
       /\ stage[j] = "new" <=> j > submitted
       /\ stage[j] = "queued" <=> j > submitted - Len(queue) /\ j <= submitted

Unstarted == {"new", "queued", "starting"}

\* An invocation that has not started has no process to fork or to hold pipes.
UnstartedInv ==
  \A j \in Jobs : stage[j] \in Unstarted => process[j] = "none"

\* NothingLeftRunning and OutputWhole are inductive only with the queue's shape,
\* which says that a worker never takes an invocation that is already over.
InvocationsInv ==
  TypeOK /\ QueueInv /\ UnstartedInv /\ NothingLeftRunning /\ OutputWhole

USE InvocationsAssumption DEF Communicating, Working, Ended, Unstarted, Jobs, alive

LEMMA InitInv == Init => InvocationsInv
BY DEF Init, InvocationsInv, TypeOK, QueueInv, UnstartedInv, NothingLeftRunning,
       OutputWhole

\* The oldest queued invocation, as Take takes it.
LEMMA OldestQueued ==
  ASSUME InvocationsInv, queue # <<>>
  PROVE  /\ oldest \in Jobs
         /\ oldest = submitted - Len(queue) + 1
         /\ stage[oldest] = "queued"
         /\ Tail(queue) \in Seq(Jobs)
         /\ Len(Tail(queue)) = Len(queue) - 1
         /\ \A a \in 1..(Len(queue) - 1) : Tail(queue)[a] = queue[a + 1]
         /\ Len(queue) \in Nat \ {0}
<1>1. /\ queue \in Seq(Jobs)
      /\ Len(queue) \in Nat \ {0}
      /\ oldest = queue[1]
  BY DEF InvocationsInv, TypeOK, oldest
<1>2. oldest = submitted - Len(queue) + 1 /\ oldest \in Jobs
  BY <1>1 DEF InvocationsInv, QueueInv
<1>3. stage[oldest] = "queued"
  BY <1>1, <1>2 DEF InvocationsInv, QueueInv, TypeOK
<1>4. QED
  BY <1>1, <1>2, <1>3

\* Taking the oldest invocation keeps the queue.
LEMMA TakeKeepsQueue ==
  ASSUME InvocationsInv, Take
  PROVE  QueueInv'
<1>1. /\ stage \in [Jobs -> {"new", "queued"} \cup Working \cup Ended] /\ submitted \in 0..N
      /\ queue # <<>> /\ queue' = Tail(queue) /\ submitted' = submitted
      /\ stage' = [stage EXCEPT ![oldest] = "starting"]
  BY DEF InvocationsInv, TypeOK, Take
<1>2. Len(queue') = Len(queue) - 1
  BY <1>1, OldestQueued
<1>3. \A a \in 1..Len(queue') : queue'[a] = submitted' - Len(queue') + a
  <2>1. \A a \in 1..(Len(queue) - 1) : queue[a + 1] = submitted - Len(queue) + (a + 1)
    BY <1>1, OldestQueued DEF InvocationsInv, QueueInv
  <2>2. QED
    BY <1>1, <1>2, <2>1, OldestQueued
<1>4. \A j \in Jobs :
        /\ stage'[j] = "new" <=> j > submitted'
        /\ stage'[j] = "queued" <=> j > submitted' - Len(queue') /\ j <= submitted'
  BY <1>1, <1>2, OldestQueued DEF InvocationsInv, QueueInv
<1>5. QED
  BY <1>1, <1>2, <1>3, <1>4, OldestQueued DEF QueueInv, InvocationsInv

\* A step that leaves the queue and every unstarted invocation alone keeps them.
LEMMA LaterKeepsQueue ==
  ASSUME InvocationsInv, NEW j \in Jobs, stage[j] \notin {"new", "queued"},
         NEW s \in Working \cup Ended,
         stage' \in {stage, [stage EXCEPT ![j] = s]},
         UNCHANGED <<submitted, queue>>
  PROVE  QueueInv'
<1>1. stage \in [Jobs -> {"new", "queued"} \cup Working \cup Ended]
  BY DEF InvocationsInv, TypeOK
<1>2. \A i \in Jobs : /\ stage'[i] = "new" <=> stage[i] = "new"
                      /\ stage'[i] = "queued" <=> stage[i] = "queued"
  BY <1>1
<1>3. QED
  BY <1>2 DEF InvocationsInv, QueueInv

LEMMA WorkerKeepsInv ==
  ASSUME InvocationsInv, NEW j \in Jobs, Worker(j)
  PROVE  InvocationsInv'
<1> USE DEF InvocationsInv
<1>1. CASE Communicated(j)
  <2>1. TypeOK'
    BY <1>1 DEF Communicated, Deliver, TypeOK
  <2>2. QueueInv'
    BY <1>1, LaterKeepsQueue DEF Communicated, Deliver
  <2>3. UnstartedInv'
    BY <1>1 DEF Communicated, Deliver, UnstartedInv, TypeOK
  <2>4. NothingLeftRunning' /\ OutputWhole'
    BY <1>1 DEF Communicated, Deliver, CanFinish, eof, NothingLeftRunning,
                OutputWhole, TypeOK
  <2>5. QED
    BY <2>1, <2>2, <2>3, <2>4
<1>2. CASE TimedOut(j)
  <2>1. TypeOK'
    BY <1>2 DEF TimedOut, kill, TypeOK
  <2>2. QueueInv'
    BY <1>2, LaterKeepsQueue DEF TimedOut
  <2>3. UnstartedInv'
    BY <1>2 DEF TimedOut, kill, UnstartedInv, TypeOK
  <2>4. NothingLeftRunning' /\ OutputWhole'
    BY <1>2 DEF TimedOut, kill, NothingLeftRunning, OutputWhole, TypeOK
  <2>5. QED
    BY <2>1, <2>2, <2>3, <2>4
<1>3. CASE Interrupted(j)
  <2>1. TypeOK'
    BY <1>3 DEF Interrupted, kill, TypeOK
  <2>2. QueueInv'
    BY <1>3, LaterKeepsQueue DEF Interrupted
  <2>3. UnstartedInv'
    BY <1>3 DEF Interrupted, kill, UnstartedInv, TypeOK
  <2>4. NothingLeftRunning' /\ OutputWhole'
    BY <1>3 DEF Interrupted, kill, NothingLeftRunning, OutputWhole, TypeOK
  <2>5. QED
    BY <2>1, <2>2, <2>3, <2>4
<1>4. CASE Start(j)
  <2>1. TypeOK'
    BY <1>4 DEF Start, TypeOK
  <2>2. QueueInv'
    BY <1>4, LaterKeepsQueue DEF Start
  <2>3. UnstartedInv'
    BY <1>4 DEF Start, UnstartedInv, TypeOK
  <2>4. NothingLeftRunning' /\ OutputWhole'
    BY <1>4 DEF Start, NothingLeftRunning, OutputWhole, TypeOK
  <2>5. QED
    BY <2>1, <2>2, <2>3, <2>4
<1>5. CASE StartFails(j)
  <2>1. TypeOK'
    BY <1>5 DEF StartFails, TypeOK
  <2>2. QueueInv'
    BY <1>5, LaterKeepsQueue DEF StartFails
  <2>3. UnstartedInv'
    BY <1>5 DEF StartFails, UnstartedInv, TypeOK
  <2>4. NothingLeftRunning' /\ OutputWhole'
    BY <1>5 DEF StartFails, UnstartedInv, NothingLeftRunning, OutputWhole, TypeOK
  <2>5. QED
    BY <2>1, <2>2, <2>3, <2>4
<1>6. QED
  BY <1>1, <1>2, <1>3, <1>4, <1>5 DEF Worker

LEMMA ProgramKeepsInv ==
  ASSUME InvocationsInv, NEW j \in Jobs, Program(j)
  PROVE  InvocationsInv'
<1> USE DEF InvocationsInv
<1>1. UNCHANGED <<submitted, queue, stage>>
  BY DEF Program, Exits, ClosesPipes, Forks, ChildExits
<1>2. TypeOK'
  BY DEF Program, Exits, ClosesPipes, Forks, ChildExits, TypeOK
<1>3. QueueInv'
  BY <1>1 DEF QueueInv
<1>4. \A i \in Jobs : \/ process'[i] = process[i]
                      \/ process[i] = "running" /\ process'[i] = "exited"
  BY DEF Program, Exits, ClosesPipes, Forks, ChildExits, TypeOK
<1>5. UnstartedInv' /\ NothingLeftRunning'
  BY <1>1, <1>4 DEF UnstartedInv, NothingLeftRunning
<1>6. \A i \in Jobs :
        /\ holds'[i] => holds[i]
        /\ child'[i] = "holding" => child[i] = "holding" \/ alive(i)
  BY DEF Program, Exits, ClosesPipes, Forks, ChildExits, TypeOK
<1>7. OutputWhole'
  BY <1>1, <1>6 DEF OutputWhole, NothingLeftRunning, TypeOK
<1>8. QED
  BY <1>2, <1>3, <1>5, <1>7

LEMMA StepInv == ASSUME InvocationsInv, [Next]_vars PROVE InvocationsInv'
<1> USE DEF InvocationsInv
<1>1. CASE Submit
  <2> DEFINE j == submitted + 1
  <2>1. /\ j \in Jobs /\ stage[j] = "new"
        /\ stage' = [stage EXCEPT ![j] = "queued"]
        /\ queue' = Append(queue, j)
        /\ submitted' = j
        /\ UNCHANGED <<process, holds, child>>
    BY <1>1 DEF Submit, MoreInputs, TypeOK, QueueInv
  <2>2. /\ Len(queue') = Len(queue) + 1
        /\ queue' \in Seq(Jobs)
        /\ \A a \in 1..Len(queue) : queue'[a] = queue[a]
        /\ queue'[Len(queue) + 1] = j
        /\ Len(queue) \in Nat
    BY <2>1 DEF TypeOK
  <2>3. TypeOK'
    BY <2>1, <2>2 DEF TypeOK
  <2>4. QueueInv'
    <3> HIDE DEF j
    <3>1. /\ submitted \in Int /\ j \in Int /\ submitted' = submitted + 1
          /\ j = submitted + 1
          /\ Len(queue') <= submitted'
      BY <2>1, <2>2 DEF QueueInv, TypeOK, j
    <3>2. \A a \in 1..Len(queue') : queue'[a] = submitted' - Len(queue') + a
      <4>1. Len(queue') = Len(queue) + 1 /\ Len(queue) \in Nat
        BY <2>2
      <4>2. \A a \in 1..Len(queue) : queue'[a] = submitted - Len(queue) + a
        BY <2>2 DEF QueueInv
      <4>3. queue'[Len(queue')] = submitted'
        BY <2>2, <3>1, <4>1
      <4>4. \A a \in 1..Len(queue') : a \in 1..Len(queue) \/ a = Len(queue')
        BY <4>1
      <4>5. submitted' - Len(queue') = submitted - Len(queue)
        BY <3>1, <4>1
      <4>6. submitted' = submitted' - Len(queue') + Len(queue')
        BY <3>1, <4>1
      <4>7. QED
        BY <4>2, <4>3, <4>4, <4>5, <4>6
    <3>3. \A i \in Jobs :
            /\ stage'[i] = "new" <=> i > submitted'
            /\ stage'[i] = "queued" <=> i > submitted' - Len(queue') /\ i <= submitted'
      <4>1. /\ \A i \in Jobs : i # j => stage'[i] = stage[i]
            /\ stage'[j] = "queued"
        BY <2>1 DEF TypeOK
      <4>2. Len(queue') = Len(queue) + 1 /\ Len(queue) \in 0..submitted
        BY <2>2, <3>1 DEF QueueInv
      <4>3. \A i \in Jobs : i \in Int
        BY DEF Jobs
      <4>4. \A i \in Jobs :
              /\ stage[i] = "new" <=> i > submitted
              /\ stage[i] = "queued" <=> i > submitted - Len(queue) /\ i <= submitted
        BY DEF QueueInv
      <4>5. QED
        BY <3>1, <4>1, <4>2, <4>3, <4>4
    <3>4. QED
      BY <3>1, <3>2, <3>3 DEF QueueInv
  <2>5. UnstartedInv' /\ NothingLeftRunning' /\ OutputWhole'
    BY <2>1 DEF UnstartedInv, NothingLeftRunning, OutputWhole, TypeOK
  <2>6. QED
    BY <2>3, <2>4, <2>5
<1>2. CASE Take
  <2>1. queue # <<>>
    BY <1>2 DEF Take
  <2>2. oldest \in Jobs /\ stage[oldest] = "queued" /\ Tail(queue) \in Seq(Jobs)
    BY <2>1, OldestQueued
  <2>3. TypeOK'
    BY <1>2, <2>2 DEF Take, TypeOK
  <2>4. QueueInv'
    BY <1>2, TakeKeepsQueue
  <2>5. UnstartedInv' /\ NothingLeftRunning' /\ OutputWhole'
    BY <1>2, <2>2 DEF Take, UnstartedInv, NothingLeftRunning, OutputWhole, TypeOK
  <2>6. QED
    BY <2>3, <2>4, <2>5
<1>4. CASE \E j \in Jobs : Worker(j)
  BY <1>4, WorkerKeepsInv
<1>5. CASE \E j \in Jobs : Program(j)
  BY <1>5, ProgramKeepsInv
<1>6. CASE UNCHANGED vars
  BY <1>6 DEF vars, TypeOK, QueueInv, UnstartedInv, NothingLeftRunning, OutputWhole
<1>7. QED
  BY <1>1, <1>2, <1>4, <1>5, <1>6 DEF Next

LEMMA InvocationsInvariant == Spec => []InvocationsInv
<1>1. InvocationsInv /\ [Next]_vars => InvocationsInv'
  BY StepInv
<1>2. QED
  BY InitInv, <1>1, PTL DEF Spec

------------------------------------------------------------------------------
\* No invocation ends while its process runs, whatever the timing of exits,
\* timeouts, kills and exceptions.
THEOREM InvocationsReap == Spec => []NothingLeftRunning
<1>1. InvocationsInv => NothingLeftRunning
  BY DEF InvocationsInv
<1>2. QED
  BY InvocationsInvariant, <1>1, PTL

\* A delivered output has no writer left, its process's child included.
THEOREM InvocationsDeliverWhole == Spec => []OutputWhole
<1>1. InvocationsInv => OutputWhole
  BY DEF InvocationsInv
<1>2. QED
  BY InvocationsInvariant, <1>1, PTL

\* Those before j whose process has not started.
Waiting(j) == {i \in 1..(j - 1) : stage[i] \in Unstarted}

\* That a started invocation has overtaken few needs that no more workers are
\* busy than there are: those it overtakes have been taken.
OvertakeInv == Cardinality(Busy) <= MaxWorkers /\ OvertakesFew

LEMMA SetsAreFinite ==
  /\ IsFiniteSet(Busy) /\ Cardinality(Busy) \in Nat
  /\ \A j \in Jobs : IsFiniteSet(Waiting(j)) /\ Cardinality(Waiting(j)) \in Nat
<1>1. IsFiniteSet(Jobs)
  BY FS_Interval
<1>2. IsFiniteSet(Busy)
  BY <1>1, FS_Subset DEF Busy
<1>3. ASSUME NEW j \in Jobs PROVE IsFiniteSet(Waiting(j))
  <2>1. Waiting(j) \subseteq Jobs
    BY DEF Waiting
  <2>2. QED
    BY <1>1, <2>1, FS_Subset
<1>4. QED
  BY <1>2, <1>3, FS_CardinalityType

\* A step takes no more than one new worker, and lets nobody go back to waiting.
LEMMA OvertakeStep == ASSUME InvocationsInv, OvertakeInv, [Next]_vars PROVE OvertakeInv'
<1> USE DEF InvocationsInv
<1>1. \A j \in Jobs : OvertakesFew /\ process[j] # "none" => Cardinality(Waiting(j)) < MaxWorkers
  BY DEF OvertakesFew, Waiting
<1>2. ASSUME NEW j \in Jobs, \A i \in Jobs : stage'[i] \in Unstarted => stage[i] \in Unstarted
      PROVE  Cardinality(Waiting(j)') <= Cardinality(Waiting(j)) /\ Cardinality(Waiting(j)') \in Nat
  <2>1. Waiting(j)' \subseteq Waiting(j)
    BY <1>2 DEF Waiting
  <2>2. QED
    BY <2>1, SetsAreFinite, FS_Subset, FS_CardinalityType
<1>3. ASSUME \A i \in Jobs : stage'[i] \in Working => stage[i] \in Working
      PROVE  Cardinality(Busy') <= MaxWorkers
  <2>1. Busy' \subseteq Busy
    BY <1>3 DEF Busy
  <2>2. Cardinality(Busy') <= Cardinality(Busy) /\ Cardinality(Busy') \in Nat
    BY <2>1, SetsAreFinite, FS_Subset, FS_CardinalityType
  <2>3. QED
    BY <2>2, SetsAreFinite DEF OvertakeInv
<1>4. ASSUME \A i \in Jobs : stage'[i] \in Unstarted => stage[i] \in Unstarted,
             NEW j \in Jobs, process[j] # "none"
      PROVE  Cardinality(Waiting(j)') < MaxWorkers
  <2>1. Cardinality(Waiting(j)) < MaxWorkers
    BY <1>1, <1>4 DEF OvertakeInv
  <2>2. QED
    BY <1>2, <1>4, <2>1, SetsAreFinite
<1>5. ASSUME \A i \in Jobs : stage'[i] \in Unstarted => stage[i] \in Unstarted,
             \A i \in Jobs : process'[i] # "none" => process[i] # "none"
      PROVE  OvertakesFew'
  <2>1. \A j \in Jobs : process'[j] # "none" => Cardinality(Waiting(j)') < MaxWorkers
    BY <1>4, <1>5
  <2>2. QED
    BY <2>1 DEF OvertakesFew, Waiting
<1>6. CASE Submit
  <2>1. /\ submitted + 1 \in Jobs /\ stage[submitted + 1] = "new"
        /\ stage' = [stage EXCEPT ![submitted + 1] = "queued"] /\ process' = process
    BY <1>6 DEF Submit, MoreInputs, TypeOK, QueueInv
  <2>2. /\ \A i \in Jobs : stage'[i] \in Unstarted => stage[i] \in Unstarted
        /\ \A i \in Jobs : stage'[i] \in Working => stage[i] \in Working
    BY <2>1 DEF TypeOK
  <2>3. QED
    BY <1>3, <1>5, <2>1, <2>2 DEF OvertakeInv
<1>7. CASE Take
  <2>1. /\ oldest \in Jobs /\ stage[oldest] = "queued" /\ HasWorker
        /\ stage' = [stage EXCEPT ![oldest] = "starting"] /\ process' = process
    BY <1>7, OldestQueued DEF Take
  <2>2. \A i \in Jobs : stage'[i] \in Unstarted => stage[i] \in Unstarted
    BY <2>1 DEF TypeOK
  <2>3. Busy' = Busy \union {oldest}
    BY <2>1 DEF Busy, TypeOK
  <2>4. oldest \notin Busy
    BY <2>1 DEF Busy
  <2>5. Cardinality(Busy') = Cardinality(Busy) + 1
    BY <2>3, <2>4, SetsAreFinite, FS_AddElement
  <2>6. Cardinality(Busy') <= MaxWorkers
    BY <2>1, <2>5, SetsAreFinite DEF HasWorker
  <2>7. QED
    BY <1>5, <2>1, <2>2, <2>6 DEF OvertakeInv
<1>8. CASE \E j \in Jobs : Start(j)
  <2>1. PICK j \in Jobs : Start(j)
    BY <1>8
  <2>2. /\ stage[j] = "starting" /\ stage' = [stage EXCEPT ![j] = "communicating"]
        /\ process' = [process EXCEPT ![j] = "running"]
    BY <2>1 DEF Start
  <2>3. /\ \A i \in Jobs : stage'[i] \in Unstarted => stage[i] \in Unstarted
        /\ \A i \in Jobs : stage'[i] \in Working => stage[i] \in Working
        /\ \A i \in Jobs : i # j => process'[i] = process[i]
    BY <2>2 DEF TypeOK
  <2>4. Waiting(j) \subseteq Busy \ {j}
    <3>1. \A i \in 1..(j - 1) : i \in Jobs /\ i # j /\ stage[i] \notin {"new", "queued"}
      <4>1. j \in Int /\ submitted \in Int /\ Len(queue) \in Int
        BY DEF TypeOK
      <4>2. ~(j > submitted) /\ ~(j > submitted - Len(queue) /\ j <= submitted)
        BY <2>2 DEF QueueInv
      <4>3. j <= submitted - Len(queue)
        BY <4>1, <4>2
      <4>4. \A i \in 1..(j - 1) : i \in Jobs /\ i < j /\ i <= submitted - Len(queue)
        BY <4>1, <4>3
      <4>5. \A i \in Jobs : i <= submitted - Len(queue) => stage[i] \notin {"new", "queued"}
        BY <4>1 DEF QueueInv, TypeOK
      <4>6. QED
        BY <4>4, <4>5
    <3>2. QED
      BY <3>1 DEF Waiting, Busy
  <2>5. Cardinality(Busy \ {j}) = Cardinality(Busy) - 1 /\ IsFiniteSet(Busy \ {j})
    <3>1. j \in Busy
      BY <2>2 DEF Busy
    <3>2. QED
      BY <3>1, SetsAreFinite, FS_RemoveElement
  <2>6. Cardinality(Waiting(j)) <= Cardinality(Busy \ {j})
    BY <2>4, <2>5, FS_Subset
  <2>7. Cardinality(Waiting(j)') < MaxWorkers
    BY <1>2, <2>3, <2>5, <2>6, SetsAreFinite DEF OvertakeInv
  <2>8. \A i \in Jobs : process'[i] # "none" => Cardinality(Waiting(i)') < MaxWorkers
    BY <1>4, <2>3, <2>7
  <2>9. QED
    BY <1>3, <2>3, <2>8 DEF OvertakeInv, OvertakesFew, Waiting
<1>9. CASE \E j \in Jobs : Worker(j) /\ ~Start(j)
  <2>1. PICK j \in Jobs : Worker(j) /\ ~Start(j)
    BY <1>9
  <2>2. PICK s \in {"draining"} \cup Ended : stage' = [stage EXCEPT ![j] = s]
    BY <2>1 DEF Worker, StartFails, Communicated, Deliver, TimedOut, Interrupted
  <2>3. stage[j] \in Working
    BY <2>1 DEF Worker, StartFails, Communicated, TimedOut, Interrupted
  <2>4. \A i \in Jobs : process'[i] # "none" => process[i] # "none"
    BY <2>1 DEF Worker, StartFails, Communicated, TimedOut, Interrupted, kill, TypeOK
  <2>5. /\ \A i \in Jobs : stage'[i] \in Unstarted => stage[i] \in Unstarted
        /\ \A i \in Jobs : stage'[i] \in Working => stage[i] \in Working
    BY <2>2, <2>3 DEF TypeOK
  <2>6. QED
    BY <1>3, <1>5, <2>4, <2>5 DEF OvertakeInv
<1>10. CASE (\E j \in Jobs : Program(j)) \/ UNCHANGED vars
  <2>1. stage' = stage /\ \A i \in Jobs : process'[i] # "none" => process[i] # "none"
    BY <1>10 DEF Program, Exits, ClosesPipes, Forks, ChildExits, vars, TypeOK
  <2>2. QED
    BY <1>3, <1>5, <2>1 DEF OvertakeInv
<1>11. QED
  BY <1>6, <1>7, <1>8, <1>9, <1>10 DEF Next

\* Workers take the inputs in order, and whatever the timing a process is started
\* before those of fewer earlier inputs than there are workers.
THEOREM InvocationsOvertakeFew == Spec => []OvertakesFew
<1>1. Init => OvertakeInv
  <2> SUFFICES ASSUME Init PROVE OvertakeInv
    OBVIOUS
  <2>1. Busy = {} /\ \A j \in Jobs : process[j] = "none"
    BY DEF Init, Busy
  <2>2. Cardinality(Busy) = 0
    BY <2>1, FS_EmptySet
  <2>3. QED
    BY <2>1, <2>2 DEF OvertakeInv, OvertakesFew
<1>2. InvocationsInv /\ OvertakeInv /\ [Next]_vars => OvertakeInv'
  BY OvertakeStep
<1>3. OvertakeInv => OvertakesFew
  BY DEF OvertakeInv
<1>4. QED
  BY <1>1, <1>2, <1>3, InvocationsInvariant, PTL DEF Spec

------------------------------------------------------------------------------
(* The pool implements Futures. *)

phase(st) ==
  CASE st \in {"new", "queued"} -> "pending"
    [] st \in Working -> "running"
    [] st \in Ended -> "finished"

futures == [j \in Jobs |-> phase(stage[j])]

LEMMA PhaseOf ==
  ASSUME NEW st \in {"new", "queued"} \cup Working \cup Ended
  PROVE  /\ phase(st) = "pending" <=> st \in {"new", "queued"}
         /\ phase(st) = "running" <=> st \in Working
         /\ phase(st) = "finished" <=> st \in Ended
         /\ st \in {"new", "queued"} => phase(st) = "pending"
         /\ st \in Working => phase(st) = "running"
         /\ st \in Ended => phase(st) = "finished"
<1>1. CASE st \in {"new", "queued"}
  <2>1. st \notin Working /\ st \notin Ended
    BY <1>1 DEF Working, Ended
  <2>2. phase(st) = "pending"
    BY <1>1, <2>1 DEF phase
  <2>3. QED
    BY <1>1, <2>1, <2>2
<1>2. CASE st \in Working
  <2>1. st \notin {"new", "queued"} /\ st \notin Ended
    BY <1>2 DEF Working, Ended
  <2>2. phase(st) = "running"
    BY <1>2, <2>1 DEF phase
  <2>3. QED
    BY <1>2, <2>1, <2>2
<1>3. CASE st \in Ended
  <2>1. st \notin {"new", "queued"} /\ st \notin Working
    BY <1>3 DEF Working, Ended
  <2>2. phase(st) = "finished"
    BY <1>3, <2>1 DEF phase
  <2>3. QED
    BY <1>3, <2>1, <2>2
<1>4. QED
  BY <1>1, <1>2, <1>3

\* Moving one invocation's stage moves that one future.
LEMMA MovesOne ==
  ASSUME TypeOK, NEW j \in Jobs,
         NEW s \in {"queued"} \cup Working \cup Ended,
         stage' = [stage EXCEPT ![j] = s]
  PROVE  futures' = [futures EXCEPT ![j] = phase(s)]
  BY DEF futures, TypeOK

LEMMA FuturesStep ==
  ASSUME InvocationsInv, [Next]_vars
  PROVE  [Pool!Next]_futures
<1> USE DEF InvocationsInv
<1>1. \A j \in Jobs : stage[j] \in {"new", "queued"} \cup Working \cup Ended
  BY DEF TypeOK
<1>2. \A j \in Jobs : futures[j] = phase(stage[j])
  BY DEF futures
<1>3. Pool!Next <=> \E j \in Jobs : Pool!Take(j) \/ Pool!Finish(j)
  BY DEF Pool!Next, Jobs
<1>4. /\ futures = [j \in 1..N |-> CASE stage[j] \in {"new", "queued"} -> "pending"
                                     [] stage[j] \in Working -> "running"
                                     [] stage[j] \in Ended -> "finished"]
      /\ futures' = [j \in 1..N |-> CASE stage'[j] \in {"new", "queued"} -> "pending"
                                      [] stage'[j] \in Working -> "running"
                                      [] stage'[j] \in Ended -> "finished"]
  BY DEF futures, phase, Jobs
<1>5. Pool!Running = Busy
  <2>1. Pool!Running = {j \in Jobs : futures[j] = "running"}
    BY <1>4 DEF Pool!Running, Jobs
  <2>2. QED
    BY <1>1, <1>2, <2>1, PhaseOf DEF Busy
<1>6. ASSUME NEW j \in Jobs, NEW s \in {"queued"} \cup Working \cup Ended,
              stage' = [stage EXCEPT ![j] = s]
       PROVE  futures' = [futures EXCEPT ![j] = phase(s)]
  <2>1. TypeOK
    OBVIOUS
  <2>2. QED
    BY <1>6, <2>1, MovesOne
<1>7. ASSUME NEW j \in Jobs, stage[j] = "queued", HasWorker,
             NEW s \in Working, stage' = [stage EXCEPT ![j] = s]
      PROVE  Pool!Take(j)
  <2>1. phase(s) = "running" /\ phase("queued") = "pending"
    BY <1>7, PhaseOf
  <2>2. futures' = [futures EXCEPT ![j] = "running"]
    BY <1>7, <1>6, <2>1
  <2>3. futures[j] = "pending"
    BY <1>2, <1>7, <2>1
  <2>4. Pool!Cardinality(Pool!Running) < MaxWorkers
    <3>1. Pool!Cardinality(Busy) = Cardinality(Busy)
      BY Zenon DEF Pool!Cardinality, Cardinality
    <3>2. QED
      BY <1>5, <1>7, <3>1 DEF HasWorker
  <2>5. QED
    BY <1>4, <2>2, <2>3, <2>4 DEF Pool!Take
<1>8. ASSUME NEW j \in Jobs, stage[j] \in Working,
             NEW s \in Ended, stage' = [stage EXCEPT ![j] = s]
      PROVE  Pool!Finish(j)
  <2>1. phase(s) = "finished"
    BY <1>8, PhaseOf
  <2>2. futures' = [futures EXCEPT ![j] = "finished"]
    BY <1>8, <1>6, <2>1
  <2>3. futures[j] = "running"
    BY <1>1, <1>2, <1>8, PhaseOf
  <2>4. QED
    BY <1>4, <2>2, <2>3 DEF Pool!Finish
<1>9. ASSUME NEW j \in Jobs, NEW s \in {"queued"} \cup Working,
             stage' = [stage EXCEPT ![j] = s], phase(s) = phase(stage[j])
      PROVE  futures' = futures
  <2>1. futures' = [futures EXCEPT ![j] = futures[j]]
    BY <1>2, <1>9, <1>6
  <2>2. QED
    BY <2>1 DEF futures
<1>10. ASSUME stage' = stage PROVE futures' = futures
  BY <1>10 DEF futures
<1>11. CASE Submit
  <2>1. /\ submitted + 1 \in Jobs /\ stage[submitted + 1] = "new"
        /\ stage' = [stage EXCEPT ![submitted + 1] = "queued"]
    BY <1>11 DEF Submit, MoreInputs, TypeOK, QueueInv, Jobs
  <2>2. phase("queued") = phase("new")
    BY PhaseOf
  <2>3. futures' = futures
    BY <1>9, <2>1, <2>2
  <2>4. QED
    BY <1>4, <2>3
<1>12. CASE Take
  <2>1. PICK j \in Jobs : j = oldest /\ stage[j] = "queued"
    BY <1>12, OldestQueued DEF Take
  <2>2. "starting" \in Working
    BY DEF Working
  <2>3. Pool!Take(j)
    BY <1>7, <1>12, <2>1, <2>2 DEF Take
  <2>4. QED
    BY <1>3, <2>1, <2>3
<1>14. CASE \E j \in Jobs : Worker(j)
  <2>1. PICK j \in Jobs : Worker(j)
    BY <1>14
  <2>2. /\ \A st \in Working : st \notin Ended /\ phase(st) = "running"
        /\ "starting" \in Working /\ "communicating" \in Working /\ "draining" \in Working
        /\ "returned" \in Ended /\ "raised" \in Ended
    BY PhaseOf DEF Working, Ended
  <2>3. CASE Communicated(j)
    <3>1. stage[j] \in Working
      BY <2>3 DEF Communicated
    <3>2. PICK s \in Ended : stage' = [stage EXCEPT ![j] = s]
      BY <2>2, <2>3 DEF Communicated, Deliver
    <3>3. Pool!Finish(j)
      BY <1>8, <3>1, <3>2
    <3>4. QED
      BY <1>3, <3>3
  <2>4. CASE TimedOut(j)
    <3>1. /\ stage' = [stage EXCEPT ![j] = "draining"]
          /\ phase("draining") = phase(stage[j])
      BY <2>2, <2>4 DEF TimedOut
    <3>2. futures' = futures
      BY <1>9, <2>2, <3>1
    <3>3. QED
      BY <1>4, <3>2
  <2>5. CASE Interrupted(j)
    <3>1. Pool!Finish(j)
      BY <1>8, <2>2, <2>5 DEF Interrupted
    <3>2. QED
      BY <1>3, <3>1
  <2>7. CASE Start(j)
    <3>1. /\ stage' = [stage EXCEPT ![j] = "communicating"]
          /\ phase("communicating") = phase(stage[j])
      BY <2>2, <2>7 DEF Start
    <3>2. futures' = futures
      BY <1>9, <2>2, <3>1
    <3>3. QED
      BY <1>4, <3>2
  <2>8. CASE StartFails(j)
    <3>1. Pool!Finish(j)
      BY <1>8, <2>2, <2>8 DEF StartFails
    <3>2. QED
      BY <1>3, <3>1
  <2>6. QED
    BY <2>1, <2>3, <2>4, <2>5, <2>7, <2>8 DEF Worker
<1>15. CASE (\E j \in Jobs : Program(j)) \/ UNCHANGED vars
  <2>1. stage' = stage
    BY <1>15 DEF Program, Exits, ClosesPipes, Forks, ChildExits, vars
  <2>2. futures' = futures
    BY <1>10, <2>1
  <2>3. QED
    BY <1>4, <2>2
<1>16. QED
  BY <1>11, <1>12, <1>14, <1>15 DEF Next

LEMMA FuturesInit == Init => Pool!Init
<1> SUFFICES ASSUME Init PROVE Pool!Init
  OBVIOUS
<1>1. \A j \in Jobs : stage[j] = "new"
  BY DEF Init
<1>2. [j \in 1..N |-> CASE stage[j] \in {"new", "queued"} -> "pending"
                        [] stage[j] \in Working -> "running"
                        [] stage[j] \in Ended -> "finished"] = futures
  BY DEF futures, phase, Jobs
<1>3. phase("new") = "pending"
  BY PhaseOf
<1>4. futures = [j \in 1..N |-> "pending"]
  BY <1>1, <1>3 DEF futures, Jobs
<1>5. QED
  BY <1>2, <1>4 DEF Pool!Init, Jobs

\* An invocation's future is pending until a worker takes it, at most MaxWorkers
\* run at once, and a finished one stays finished, under any timing of exits,
\* timeouts, kills and failed starts.
THEOREM InvocationsImplementFutures == Spec => ImplementsFutures
<1> DEFINE mapped == [j \in Jobs |-> CASE stage[j] \in {"new", "queued"} -> "pending"
                                       [] stage[j] \in Working -> "running"
                                       [] stage[j] \in Ended -> "finished"]
<1>1. mapped = futures
  BY DEF futures, phase
<1>2. InvocationsInv /\ [Next]_vars => [Pool!Next]_mapped
  BY <1>1, FuturesStep DEF futures, phase
<1>3. QED
  BY FuturesInit, InvocationsInvariant, <1>2, PTL DEF Spec, ImplementsFutures, Pool!Spec
==============================================================================
