------------------------- MODULE RunControllerProofs -------------------------
(***************************************************************************)
(* For every set of requests, users, tasks and repositories, every number  *)
(* of slots, attempts and restarts: the exclusion discipline of            *)
(* RunController, from the inductive invariant IInv.                       *)
(***************************************************************************)
EXTENDS RunController, FiniteSetTheorems, TLAPS

USE ParametersAssumption DEF Actors, HoldsMutex, HoldsSlot, HoldsTask

(* A run that takes a slot adds one to the count of the slot holders.      *)
LEMMA SlotTaken ==
  ASSUME TypeOK, NEW q \in Requests,
         pc[q] \notin HoldsSlot,
         SlotHolders' = SlotHolders \cup {q}
  PROVE  Cardinality(SlotHolders)' = Cardinality(SlotHolders) + 1
<1>1. IsFiniteSet(SlotHolders)
  BY FS_Subset DEF SlotHolders
<1>2. q \notin SlotHolders
  BY DEF SlotHolders
<1> QED
  BY <1>1, <1>2, FS_AddElement

(* A run that gives its slot back takes one from it, and there was one.    *)
LEMMA SlotFreed ==
  ASSUME TypeOK, NEW q \in Requests,
         pc[q] \in HoldsSlot,
         SlotHolders' = SlotHolders \ {q}
  PROVE  /\ Cardinality(SlotHolders) \in Nat \ {0}
         /\ Cardinality(SlotHolders)' = Cardinality(SlotHolders) - 1
<1>1. IsFiniteSet(SlotHolders)
  BY FS_Subset DEF SlotHolders
<1>2. q \in SlotHolders
  BY DEF SlotHolders
<1>3. Cardinality(SlotHolders) \in Nat /\ Cardinality(SlotHolders) # 0
  BY <1>1, <1>2, FS_CardinalityType, FS_EmptySet
<1> QED
  BY <1>1, <1>2, <1>3, FS_RemoveElement

(* The initial state satisfies the invariant.                              *)
LEMMA InitIInv == Init => IInv
<1> SUFFICES ASSUME Init PROVE IInv
  OBVIOUS
<1>1. SlotHolders = {}
  BY DEF SlotHolders, Init
<1>2. Cardinality(SlotHolders) = 0
  BY <1>1, FS_EmptySet
<1> QED
  BY <1>2 DEF IInv, Init, TypeOK, LockHeld, MutexHeld, TaskHeld, OneRunPerTask,
     AttemptsLeft, Decided, RequestStates

(* One step keeps the types.  BackoffElapsed needs AttemptsLeft, FreeSlot  *)
(* needs that a run about to free a slot is counted.                       *)
LEMMA TypeStep ==
  ASSUME IInv, [Next]_vars
  PROVE  TypeOK'
<1> USE DEF IInv, TypeOK, RequestStates, Terminal, Goto
<1>1. ASSUME NEW q \in Requests, StartRun(q) PROVE TypeOK'
  BY <1>1 DEF StartRun
<1>2. ASSUME NEW q \in Requests, Admit(q) PROVE TypeOK'
  BY <1>2 DEF Admit
<1>3. ASSUME NEW q \in Requests, AcquireSlot(q) PROVE TypeOK'
  BY <1>3 DEF AcquireSlot
<1>4. ASSUME NEW q \in Requests, LockMutex(q) PROVE TypeOK'
  BY <1>4 DEF LockMutex
<1>5. ASSUME NEW q \in Requests, EnterRepository(q) PROVE TypeOK'
  BY <1>5 DEF EnterRepository, Acquire
<1>6. ASSUME NEW q \in Requests, GiveUp(q) PROVE TypeOK'
  BY <1>6 DEF GiveUp
<1>7. ASSUME NEW q \in Requests, Return(q) PROVE TypeOK'
  BY <1>7 DEF Return, Succeed, Abort, Retry, Release, Outcomes
<1>8. ASSUME NEW q \in Requests, BackoffElapsed(q) PROVE TypeOK'
  BY <1>8 DEF BackoffElapsed, AttemptsLeft
<1>9. ASSUME NEW q \in Requests, UnlockMutex(q) PROVE TypeOK'
  BY <1>9 DEF UnlockMutex
<1>10. ASSUME NEW q \in Requests, FreeSlot(q) PROVE TypeOK'
  <2>1. SlotHolders' = SlotHolders \ {q}
    BY <1>10 DEF FreeSlot, SlotHolders
  <2>2. global # 0
    BY <1>10, <2>1, SlotFreed DEF FreeSlot
  <2>3. global' = global - 1
    BY <1>10 DEF FreeSlot
  <2>4. global' \in 0..MaxParallel
    <3>1. global \in 0..MaxParallel /\ MaxParallel \in Nat
      OBVIOUS
    <3> HIDE DEF TypeOK, IInv
    <3> QED
      BY <2>2, <2>3, <3>1
  <2> QED
    BY <1>10, <2>4 DEF FreeSlot
<1>11. ASSUME NEW q \in Requests, ClearTask(q) PROVE TypeOK'
  BY <1>11 DEF ClearTask
<1>12. ASSUME NEW q \in Requests, FinishRun(q) PROVE TypeOK'
  BY <1>12 DEF FinishRun, Decided
<1>13. ASSUME NEW q \in Requests, Cancel(q) PROVE TypeOK'
  BY <1>13 DEF Cancel
<1>14. ASSUME NEW u \in Users, UserEnter(u) \/ UserLeave(u) PROVE TypeOK'
  BY <1>14 DEF UserEnter, UserLeave, Acquire, Release
<1>15. ASSUME Restart PROVE TypeOK'
  BY <1>15 DEF Restart, Recovered
<1>16. CASE UNCHANGED vars
  BY <1>16 DEF vars
<1> QED
  BY <1>1, <1>2, <1>3, <1>4, <1>5, <1>6, <1>7, <1>8, <1>9, <1>10, <1>11,
     <1>12, <1>13, <1>14, <1>15, <1>16 DEF Next, RequestStep

(* One step keeps the lock with the actor that operates.                   *)
LEMMA LockStep ==
  ASSUME IInv, [Next]_vars
  PROVE  LockHeld'
<1> USE DEF IInv, TypeOK, LockHeld, Goto
<1>1. ASSUME UNCHANGED lock,
             \A a \in Actors : pc'[a] = "operating" <=> pc[a] = "operating"
      PROVE  LockHeld'
  BY <1>1
<1>2. ASSUME NEW q \in Requests,
             \/ StartRun(q) \/ Admit(q) \/ AcquireSlot(q) \/ LockMutex(q)
             \/ GiveUp(q) \/ BackoffElapsed(q) \/ UnlockMutex(q) \/ FreeSlot(q)
             \/ ClearTask(q) \/ FinishRun(q) \/ Cancel(q)
      PROVE  LockHeld'
  BY <1>1, <1>2 DEF StartRun, Admit, AcquireSlot, LockMutex, GiveUp,
     BackoffElapsed, UnlockMutex, FreeSlot, ClearTask, FinishRun, Cancel
<1>3. ASSUME NEW a \in Actors, Goto(a, "idle", "operating") \/ Goto(a, "entering", "operating"),
             Acquire(a)
      PROVE  LockHeld'
  BY <1>3 DEF Acquire
<1>4. ASSUME NEW a \in Actors, NEW to \in RequestStates \ {"operating"},
             Goto(a, "operating", to), Release(a)
      PROVE  LockHeld'
  BY <1>4 DEF Release
<1>5. ASSUME NEW q \in Requests, EnterRepository(q) PROVE LockHeld'
  BY <1>3, <1>5 DEF EnterRepository
<1>6. ASSUME NEW q \in Requests, Return(q) PROVE LockHeld'
  BY <1>4, <1>6 DEF Return, Succeed, Abort, Retry, RequestStates
<1>7. ASSUME NEW u \in Users, UserEnter(u) PROVE LockHeld'
  BY <1>3, <1>7 DEF UserEnter
<1>8. ASSUME NEW u \in Users, UserLeave(u) PROVE LockHeld'
  BY <1>4, <1>8 DEF UserLeave, RequestStates
<1>9. ASSUME Restart PROVE LockHeld'
  BY <1>9 DEF Restart
<1>10. CASE UNCHANGED vars
  BY <1>1, <1>10 DEF vars
<1> QED
  BY <1>2, <1>5, <1>6, <1>7, <1>8, <1>9, <1>10 DEF Next, RequestStep

(* One step keeps the mutex with the run between LockMutex and UnlockMutex.*)
LEMMA MutexStep ==
  ASSUME IInv, [Next]_vars
  PROVE  MutexHeld'
<1> USE DEF IInv, TypeOK, MutexHeld, Goto
<1>1. ASSUME UNCHANGED mutex,
             \A q \in Requests : pc'[q] \in HoldsMutex <=> pc[q] \in HoldsMutex
      PROVE  MutexHeld'
  BY <1>1
<1>2. ASSUME NEW q \in Requests,
             \/ StartRun(q) \/ Admit(q) \/ AcquireSlot(q) \/ EnterRepository(q)
             \/ GiveUp(q) \/ BackoffElapsed(q) \/ FreeSlot(q)
             \/ ClearTask(q) \/ FinishRun(q) \/ Cancel(q)
      PROVE  MutexHeld'
  BY <1>1, <1>2 DEF StartRun, Admit, AcquireSlot, EnterRepository, GiveUp,
     BackoffElapsed, FreeSlot, ClearTask, FinishRun, Cancel
<1>3. ASSUME NEW q \in Requests, Return(q) PROVE MutexHeld'
  BY <1>1, <1>3 DEF Return, Succeed, Abort, Retry
<1>4. ASSUME NEW q \in Requests, LockMutex(q) PROVE MutexHeld'
  BY <1>4 DEF LockMutex
<1>5. ASSUME NEW q \in Requests, UnlockMutex(q) PROVE MutexHeld'
  BY <1>5 DEF UnlockMutex
<1>6. ASSUME NEW u \in Users, UserEnter(u) \/ UserLeave(u) PROVE MutexHeld'
  BY <1>1, <1>6 DEF UserEnter, UserLeave
<1>7. ASSUME Restart PROVE MutexHeld'
  BY <1>7 DEF Restart
<1>8. CASE UNCHANGED vars
  BY <1>1, <1>8 DEF vars
<1> QED
  BY <1>2, <1>3, <1>4, <1>5, <1>6, <1>7, <1>8 DEF Next, RequestStep

(* One step keeps the task flag set exactly while a run of the task is     *)
(* past the admission test, and never admits a second one.                 *)
LEMMA TaskStep ==
  ASSUME IInv, [Next]_vars
  PROVE  TaskHeld' /\ OneRunPerTask'
<1> USE DEF IInv, TypeOK, TaskHeld, OneRunPerTask, Goto
<1>1. ASSUME UNCHANGED runningTasks,
             \A q \in Requests : pc'[q] \in HoldsTask <=> pc[q] \in HoldsTask
      PROVE  TaskHeld' /\ OneRunPerTask'
  BY <1>1
<1>2. ASSUME NEW q \in Requests,
             \/ StartRun(q) \/ AcquireSlot(q) \/ LockMutex(q)
             \/ EnterRepository(q) \/ GiveUp(q) \/ BackoffElapsed(q)
             \/ UnlockMutex(q) \/ FreeSlot(q) \/ FinishRun(q) \/ Cancel(q)
      PROVE  TaskHeld' /\ OneRunPerTask'
  BY <1>1, <1>2 DEF StartRun, AcquireSlot, LockMutex, EnterRepository, GiveUp,
     BackoffElapsed, UnlockMutex, FreeSlot, FinishRun, Cancel
<1>3. ASSUME NEW q \in Requests, Return(q) PROVE TaskHeld' /\ OneRunPerTask'
  BY <1>1, <1>3 DEF Return, Succeed, Abort, Retry
<1>4. ASSUME NEW q \in Requests, Admit(q) PROVE TaskHeld' /\ OneRunPerTask'
  <2>1. CASE TaskOf[q] \in runningTasks
    BY <1>1, <1>4, <2>1 DEF Admit
  <2>2. CASE TaskOf[q] \notin runningTasks
    <3>1. /\ pc' = [pc EXCEPT ![q] = "queued"]
          /\ runningTasks' = runningTasks \cup {TaskOf[q]}
      BY <1>4, <2>2 DEF Admit
    <3>2. \A p \in Requests : TaskOf[p] = TaskOf[q] => pc[p] \notin HoldsTask
      BY <2>2
    <3> QED
      BY <3>1, <3>2
  <2> QED
    BY <2>1, <2>2
<1>5. ASSUME NEW q \in Requests, ClearTask(q) PROVE TaskHeld' /\ OneRunPerTask'
  <2>1. /\ pc[q] = "clearing"
        /\ pc' = [pc EXCEPT ![q] = "finishing"]
        /\ runningTasks' = runningTasks \ {TaskOf[q]}
    BY <1>5 DEF ClearTask
  <2> QED
    BY <2>1
<1>6. ASSUME NEW u \in Users, UserEnter(u) \/ UserLeave(u)
      PROVE  TaskHeld' /\ OneRunPerTask'
  BY <1>1, <1>6 DEF UserEnter, UserLeave
<1>7. ASSUME Restart PROVE TaskHeld' /\ OneRunPerTask'
  BY <1>7 DEF Restart
<1>8. CASE UNCHANGED vars
  BY <1>1, <1>8 DEF vars
<1> QED
  BY <1>2, <1>3, <1>4, <1>5, <1>6, <1>7, <1>8 DEF Next, RequestStep

(* One step keeps the count of tokens equal to the number of holders.      *)
LEMMA SlotStep ==
  ASSUME IInv, [Next]_vars
  PROVE  (global = Cardinality(SlotHolders))'
<1> USE DEF IInv, TypeOK, Goto
<1>1. ASSUME UNCHANGED global,
             \A q \in Requests : pc'[q] \in HoldsSlot <=> pc[q] \in HoldsSlot
      PROVE  (global = Cardinality(SlotHolders))'
  <2>1. SlotHolders' = SlotHolders
    BY <1>1 DEF SlotHolders
  <2> QED
    BY <1>1, <2>1
<1>2. ASSUME NEW q \in Requests,
             \/ StartRun(q) \/ Admit(q) \/ LockMutex(q) \/ EnterRepository(q)
             \/ GiveUp(q) \/ BackoffElapsed(q) \/ UnlockMutex(q)
             \/ ClearTask(q) \/ FinishRun(q) \/ Cancel(q)
      PROVE  (global = Cardinality(SlotHolders))'
  BY <1>1, <1>2 DEF StartRun, Admit, LockMutex, EnterRepository, GiveUp,
     BackoffElapsed, UnlockMutex, ClearTask, FinishRun, Cancel
<1>3. ASSUME NEW q \in Requests, Return(q)
      PROVE  (global = Cardinality(SlotHolders))'
  BY <1>1, <1>3 DEF Return, Succeed, Abort, Retry
<1>4. ASSUME NEW q \in Requests, AcquireSlot(q)
      PROVE  (global = Cardinality(SlotHolders))'
  <2>1. pc[q] \notin HoldsSlot /\ SlotHolders' = SlotHolders \cup {q}
    BY <1>4 DEF AcquireSlot, SlotHolders
  <2> QED
    BY <1>4, <2>1, SlotTaken DEF AcquireSlot
<1>5. ASSUME NEW q \in Requests, FreeSlot(q)
      PROVE  (global = Cardinality(SlotHolders))'
  <2>1. pc[q] \in HoldsSlot /\ SlotHolders' = SlotHolders \ {q}
    BY <1>5 DEF FreeSlot, SlotHolders
  <2> QED
    BY <1>5, <2>1, SlotFreed DEF FreeSlot
<1>6. ASSUME NEW u \in Users, UserEnter(u) \/ UserLeave(u)
      PROVE  (global = Cardinality(SlotHolders))'
  BY <1>1, <1>6 DEF UserEnter, UserLeave
<1>7. ASSUME Restart PROVE (global = Cardinality(SlotHolders))'
  <2>1. SlotHolders' = {}
    BY <1>7 DEF Restart, SlotHolders
  <2> QED
    BY <1>7, <2>1, FS_EmptySet DEF Restart
<1>8. CASE UNCHANGED vars
  BY <1>1, <1>8 DEF vars
<1> QED
  BY <1>2, <1>3, <1>4, <1>5, <1>6, <1>7, <1>8 DEF Next, RequestStep

(* One step keeps an attempt for a run in its retry delay, and a result    *)
(* decided from the moment the run starts to give things back.             *)
LEMMA ResultStep ==
  ASSUME IInv, [Next]_vars
  PROVE  AttemptsLeft' /\ Decided'
<1> USE DEF IInv, TypeOK, AttemptsLeft, Decided, Terminal, Goto
<1>1. ASSUME NEW q \in Requests,
             \/ StartRun(q) \/ Admit(q) \/ AcquireSlot(q) \/ LockMutex(q)
             \/ EnterRepository(q) \/ BackoffElapsed(q) \/ UnlockMutex(q)
             \/ FreeSlot(q) \/ ClearTask(q) \/ FinishRun(q) \/ Cancel(q)
      PROVE  AttemptsLeft' /\ Decided'
  BY <1>1 DEF StartRun, Admit, AcquireSlot, LockMutex, EnterRepository,
     BackoffElapsed, UnlockMutex, FreeSlot, ClearTask, FinishRun, Cancel
<1>2. ASSUME NEW q \in Requests, GiveUp(q) PROVE AttemptsLeft' /\ Decided'
  BY <1>2 DEF GiveUp
<1>3. ASSUME NEW q \in Requests, Return(q) PROVE AttemptsLeft' /\ Decided'
  BY <1>3 DEF Return, Succeed, Abort, Retry
<1>4. ASSUME NEW u \in Users, UserEnter(u) \/ UserLeave(u)
      PROVE  AttemptsLeft' /\ Decided'
  BY <1>4 DEF UserEnter, UserLeave
<1>5. ASSUME Restart PROVE AttemptsLeft' /\ Decided'
  BY <1>5 DEF Restart
<1>6. CASE UNCHANGED vars
  BY <1>6 DEF vars
<1> QED
  BY <1>1, <1>2, <1>3, <1>4, <1>5, <1>6 DEF Next, RequestStep

(* IInv is inductive, so it holds in every reachable state.                *)
THEOREM Inductive == Spec => []IInv
<1>1. IInv /\ [Next]_vars => IInv'
  <2> SUFFICES ASSUME IInv, [Next]_vars PROVE IInv'
    OBVIOUS
  <2> QED
    BY TypeStep, LockStep, MutexStep, TaskStep, SlotStep, ResultStep DEF IInv
<1> QED
  BY InitIInv, <1>1, PTL DEF Spec

(* Type correctness of the controller, the locks and the run rows.         *)
THEOREM TypeCorrect == Spec => []TypeOK
<1>1. IInv => TypeOK
  BY DEF IInv
<1> QED
  BY Inductive, <1>1, PTL

(* Operations of the control service on one repository never overlap       *)
(* (Registry.With), however many tasks, maintenance jobs and restores run. *)
THEOREM Exclusion == Spec => []MutualExclusion
<1>1. IInv => MutualExclusion
  BY DEF IInv, TypeOK, LockHeld, MutualExclusion
<1> QED
  BY Inductive, <1>1, PTL

(* Controller.Execute never lets two runs of one task past its admission.  *)
THEOREM SingleRun == Spec => []OneRunPerTask
<1>1. IInv => OneRunPerTask
  BY DEF IInv
<1> QED
  BY Inductive, <1>1, PTL

(* The semaphore of Controller.Execute counts exactly the runs inside, and *)
(* never more than its capacity.                                           *)
THEOREM BoundedParallelism == Spec => []SlotsAccounted
<1>1. IInv => SlotsAccounted
  BY DEF IInv, TypeOK, SlotsAccounted, SlotHolders
<1> QED
  BY Inductive, <1>1, PTL

(* When no run is inside the controller, it holds no flag, no slot, no     *)
(* mutex and no lock: the deferred releases cover every way out.           *)
THEOREM NoLeak == Spec => []NothingLeaks
<1>1. IInv => NothingLeaks
  <2> SUFFICES ASSUME IInv,
                      \A q \in Requests : pc[q] \in {"idle", "started", "finishing", "done"}
               PROVE  /\ runningTasks = {}
                      /\ global = 0
                      /\ \A r \in Repositories : mutex[r] = None /\ lock[r] \notin Requests
    BY DEF NothingLeaks
  <2> USE DEF IInv, TypeOK
  <2>1. runningTasks = {}
    BY DEF TaskHeld
  <2>2. SlotHolders = {}
    BY DEF SlotHolders
  <2>3. global = 0
    BY <2>2, FS_EmptySet
  <2>4. \A r \in Repositories : mutex[r] = None
    BY DEF MutexHeld
  <2>5. \A r \in Repositories : lock[r] \notin Requests
    BY DEF LockHeld
  <2> QED
    BY <2>1, <2>3, <2>4, <2>5
<1> QED
  BY Inductive, <1>1, PTL

(* A run row leaves the status running once, at FinishRun or at recovery,  *)
(* and keeps its terminal status afterwards.                               *)
THEOREM RecordsAreFinal == Spec => TerminalIsFinal
<1> DEFINE Kept == \A q \in Requests : record[q] \in Terminal => record'[q] = record[q]
           Open == \A q \in Requests : /\ pc[q] = "idle" => record[q] = "absent"
                                       /\ pc[q] \notin {"idle", "done"} => record[q] = "running"
<1>1. Init => Open
  BY DEF Init
<1>2. IInv /\ Open /\ [Next]_vars => Open' /\ Kept
  <2> SUFFICES ASSUME IInv, Open, [Next]_vars PROVE Open' /\ Kept
    OBVIOUS
  <2> USE DEF IInv, TypeOK, RequestStates, Terminal, Goto
  <2>1. ASSUME NEW q \in Requests,
               \/ Admit(q) \/ AcquireSlot(q) \/ LockMutex(q) \/ EnterRepository(q)
               \/ BackoffElapsed(q) \/ UnlockMutex(q) \/ FreeSlot(q)
               \/ ClearTask(q) \/ Cancel(q) \/ GiveUp(q)
        PROVE  Open' /\ Kept
    BY <2>1 DEF Admit, AcquireSlot, LockMutex, EnterRepository,
       BackoffElapsed, UnlockMutex, FreeSlot, ClearTask, Cancel, GiveUp
  <2>2. ASSUME NEW q \in Requests, Return(q) PROVE Open' /\ Kept
    BY <2>2 DEF Return, Succeed, Abort, Retry
  <2>3. ASSUME NEW q \in Requests, StartRun(q) PROVE Open' /\ Kept
    BY <2>3 DEF StartRun
  <2>4. ASSUME NEW q \in Requests, FinishRun(q) PROVE Open' /\ Kept
    BY <2>4 DEF FinishRun
  <2>5. ASSUME NEW u \in Users, UserEnter(u) \/ UserLeave(u) PROVE Open' /\ Kept
    BY <2>5 DEF UserEnter, UserLeave
  <2>6. ASSUME Restart PROVE Open' /\ Kept
    BY <2>6 DEF Restart, Recovered
  <2>7. CASE UNCHANGED vars
    BY <2>7 DEF vars
  <2> QED
    BY <2>1, <2>2, <2>3, <2>4, <2>5, <2>6, <2>7 DEF Next, RequestStep
<1>3. Kept => [Kept]_vars
  OBVIOUS
<1> HIDE DEF Open, Kept
<1>4. Spec => [][Kept]_vars
  BY <1>1, <1>2, Inductive, PTL DEF Spec
<1> QED
  BY <1>4 DEF Kept, TerminalIsFinal

(* The controller implements exclusive access: entering the lock is Enter, *)
(* leaving it is Leave, a restart is Stop, and every other step of runs,   *)
(* slots and mutexes is a stutter of the abstract specification.           *)
LEMMA AccessInit == Init => Access!Init
<1> SUFFICES ASSUME Init PROVE Access!Init
  OBVIOUS
<1>1. \A r \in Repositories : Operating(r) = {}
  BY DEF Operating, Init
<1> QED
  BY <1>1 DEF Access!Init

(* Every step of the controller is a step of ExclusiveAccess or leaves the *)
(* operations at work as they are.                                         *)
LEMMA AccessStep ==
  ASSUME IInv, [Next]_vars
  PROVE  Access!Next \/ UNCHANGED [r \in Repositories |-> Operating(r)]
<1> DEFINE working == [r \in Repositories |-> Operating(r)]
<1> USE DEF IInv, TypeOK, Goto
<1>1. ASSUME \A a \in Actors : pc'[a] = "operating" <=> pc[a] = "operating"
      PROVE  UNCHANGED working
  <2>1. \A r \in Repositories : Operating(r)' = Operating(r)
    BY <1>1 DEF Operating
  <2> QED
    BY <2>1
<1>2. ASSUME NEW q \in Requests,
             \/ StartRun(q) \/ Admit(q) \/ AcquireSlot(q) \/ LockMutex(q)
             \/ GiveUp(q) \/ BackoffElapsed(q) \/ UnlockMutex(q) \/ FreeSlot(q)
             \/ ClearTask(q) \/ FinishRun(q) \/ Cancel(q)
      PROVE  UNCHANGED working
  BY <1>1, <1>2 DEF StartRun, Admit, AcquireSlot, LockMutex, GiveUp,
     BackoffElapsed, UnlockMutex, FreeSlot, ClearTask, FinishRun, Cancel
<1>3. ASSUME NEW a \in Actors, pc[a] # "operating",
             pc' = [pc EXCEPT ![a] = "operating"], Acquire(a)
      PROVE  Access!Enter(a)
  <2>1. Operating(RepositoryOf[a]) = {}
    BY <1>3 DEF Acquire, LockHeld, Operating
  <2>2. \A r \in Repositories :
          Operating(r)' = IF r = RepositoryOf[a] THEN {a} ELSE Operating(r)
    BY <1>3, <2>1 DEF Operating
  <2>3. RepositoryOf[a] \in Repositories
    OBVIOUS
  <2> QED
    BY <2>1, <2>2, <2>3 DEF Access!Enter
<1>4. ASSUME NEW a \in Actors, NEW to, to # "operating", pc[a] = "operating",
             pc' = [pc EXCEPT ![a] = to]
      PROVE  Access!Leave(a)
  <2>1. \A r \in Repositories :
          Operating(r)' = IF r = RepositoryOf[a] THEN Operating(r) \ {a} ELSE Operating(r)
    BY <1>4 DEF Operating
  <2>2. a \in Operating(RepositoryOf[a]) /\ RepositoryOf[a] \in Repositories
    BY <1>4 DEF Operating
  <2> QED
    BY <2>1, <2>2 DEF Access!Leave
<1>5. ASSUME NEW q \in Requests, EnterRepository(q) PROVE Access!Enter(q)
  BY <1>3, <1>5 DEF EnterRepository
<1>6. ASSUME NEW q \in Requests, Return(q) PROVE Access!Leave(q)
  BY <1>4, <1>6 DEF Return, Succeed, Abort, Retry
<1>7. ASSUME NEW u \in Users, UserEnter(u) PROVE Access!Enter(u)
  BY <1>3, <1>7 DEF UserEnter
<1>8. ASSUME NEW u \in Users, UserLeave(u) PROVE Access!Leave(u)
  BY <1>4, <1>8 DEF UserLeave
<1>9. ASSUME Restart PROVE Access!Stop
  <2>1. \A r \in Repositories : Operating(r)' = {}
    BY <1>9 DEF Restart, Operating
  <2> QED
    BY <2>1 DEF Access!Stop
<1>10. CASE UNCHANGED vars
  BY <1>1, <1>10 DEF vars
<1> QED
  BY <1>2, <1>5, <1>6, <1>7, <1>8, <1>9, <1>10 DEF Next, RequestStep, Access!Next

(* The whole of Execute and With, with slots, mutexes, retries,            *)
(* cancellation and restarts, implements exclusive access to a repository  *)
(* (repolock.Registry.With as its callers see it).                         *)
THEOREM ImplementsExclusiveAccess == Spec => RefinesExclusiveAccess
<1>1. IInv /\ [Next]_vars => [Access!Next]_[r \in Repositories |-> Operating(r)]
  BY AccessStep
<1> QED
  BY AccessInit, Inductive, <1>1, PTL DEF Spec, RefinesExclusiveAccess, Access!Spec

=============================================================================
