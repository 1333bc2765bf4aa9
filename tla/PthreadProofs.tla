--------------------------- MODULE PthreadProofs ---------------------------
(***************************************************************************)
(* Safety of the thread life cycle for every set of tasks, blocks,         *)
(* creation attributes, application calls and failures.                    *)
(***************************************************************************)
EXTENDS Pthread, FiniteSetTheorems, TLAPS

USE PthreadAssumption DEF Goto, Lock, Unlock, Usable, Free, Found, Lookup,
  structVars, listVars, localVars, argVars, notifyVars,
  Critical, Location, DetachState, InitialState, JOINABLE, DETACHED, RUN,
  SUSPEND

\* The state after _pthread_init satisfies the inductive invariant.
LEMMA InitSafety == Init => Safety
  BY DEF Init, Safety, TypeOK, HolderOnly, MainIsNoThread, ListsSound,
    OneRunner, OwnStruct, Running

\* A step of _pthread_create, the only one that adds to the active list,
\* takes no lock: it rests on the block being fresh.
LEMMA CreateSafety ==
  ASSUME Safety, NEW t \in Task, Create(t)
  PROVE  Safety'
<1>. USE DEF Safety, TypeOK, HolderOnly, MainIsNoThread, ListsSound,
       OneRunner, OwnStruct, Running
<1>1. CASE \E a \in Addr, k \in Kinds : CreateAlloc(t, a, k)
  BY <1>1 DEF CreateAlloc, Kind
<1>2. CASE CreateListFull(t)
  BY <1>2 DEF CreateListFull
<1>3. CASE \E c \in Task : CreateTask(t, c)
  <2>1. TypeOK'
    BY <1>3 DEF CreateTask
  <2>2. HolderOnly'
    BY <1>3 DEF CreateTask
  <2>3. MainIsNoThread'
    BY <1>3 DEF CreateTask
  <2>4. ListsSound'
    BY <1>3 DEF CreateTask
  <2>5. OneRunner'
    BY <1>3 DEF CreateTask
  <2>6. OwnStruct'
    BY <1>3 DEF CreateTask
  <2>. QED  BY <2>1, <2>2, <2>3, <2>4, <2>5, <2>6
<1>4. CASE CreateTaskFail(t)
  BY <1>4 DEF CreateTaskFail
<1>5. CASE CreateReturn(t)
  <2>1. TypeOK'
    BY <1>5 DEF CreateReturn
  <2>2. HolderOnly'
    BY <1>5 DEF CreateReturn
  <2>3. MainIsNoThread'
    BY <1>5 DEF CreateReturn
  <2>4. ListsSound'
    BY <1>5 DEF CreateReturn
  <2>5. OneRunner'
    BY <1>5 DEF CreateReturn
  <2>6. OwnStruct'
    BY <1>5 DEF CreateReturn
  <2>. QED  BY <2>1, <2>2, <2>3, <2>4, <2>5, <2>6
<1>. QED  BY <1>1, <1>2, <1>3, <1>4, <1>5 DEF Create

\* A step of _pthread_join.
LEMMA JoinSafety ==
  ASSUME Safety, NEW t \in Task, Joining(t)
  PROVE  Safety'
<1>. USE DEF Safety, TypeOK, HolderOnly, MainIsNoThread, ListsSound,
       OneRunner, OwnStruct, Running
<1>1. CASE \E a \in Addr : Join(t, a)
  BY <1>1 DEF Join
<1>2. CASE JoinLock(t)
  BY <1>2 DEF JoinLock
<1>3. CASE JoinFind(t)
  <2>1. TypeOK'
    BY <1>3 DEF JoinFind
  <2>2. HolderOnly'
    BY <1>3 DEF JoinFind
  <2>3. MainIsNoThread'
    BY <1>3 DEF JoinFind
  <2>4. ListsSound'
    BY <1>3 DEF JoinFind
  <2>5. OneRunner'
    BY <1>3 DEF JoinFind
  <2>6. OwnStruct'
    BY <1>3 DEF JoinFind
  <2>. QED  BY <2>1, <2>2, <2>3, <2>4, <2>5, <2>6
<1>4. CASE JoinRefuse(t)
  BY <1>4 DEF JoinRefuse
<1>5. CASE JoinActive(t)
  <2>1. TypeOK'
    BY <1>5 DEF JoinActive
  <2>2. HolderOnly'
    BY <1>5 DEF JoinActive
  <2>3. MainIsNoThread'
    BY <1>5 DEF JoinActive
  <2>4. ListsSound'
    BY <1>5 DEF JoinActive
  <2>5. OneRunner'
    BY <1>5 DEF JoinActive
  <2>6. OwnStruct'
    BY <1>5 DEF JoinActive
  <2>. QED  BY <2>1, <2>2, <2>3, <2>4, <2>5, <2>6
<1>6. CASE JoinInactive(t)
  BY <1>6 DEF JoinInactive
<1>7. CASE JoinReturn(t)
  BY <1>7 DEF JoinReturn
<1>. QED  BY <1>1, <1>2, <1>3, <1>4, <1>5, <1>6, <1>7 DEF Joining

\* A step of _pthread_detach.
LEMMA DetachSafety ==
  ASSUME Safety, NEW t \in Task, Detaching(t)
  PROVE  Safety'
<1>. USE DEF Safety, TypeOK, HolderOnly, MainIsNoThread, ListsSound,
       OneRunner, OwnStruct, Running
<1>1. CASE \E a \in Addr : Detach(t, a)
  BY <1>1 DEF Detach
<1>2. CASE DetachLock(t)
  BY <1>2 DEF DetachLock
<1>3. CASE DetachFind(t)
  <2>1. TypeOK'
    BY <1>3 DEF DetachFind
  <2>2. HolderOnly'
    BY <1>3 DEF DetachFind
  <2>3. MainIsNoThread'
    BY <1>3 DEF DetachFind
  <2>4. ListsSound'
    BY <1>3 DEF DetachFind
  <2>5. OneRunner'
    BY <1>3 DEF DetachFind
  <2>6. OwnStruct'
    <3>1. /\ \A u \in Task : u # t => pc'[u] = pc[u]
          /\ pc[t] = "detach_find" /\ pc'[t] \in {"detach_act", "run"}
      BY <1>3 DEF DetachFind
    <3>2. UNCHANGED <<alloc, detachstate, joined_task, active_threads,
                      inactive_threads, id, thread>>
      BY <1>3 DEF DetachFind
    <3>. QED  BY <3>1, <3>2
  <2>. QED  BY <2>1, <2>2, <2>3, <2>4, <2>5, <2>6
<1>4. CASE DetachRefuse(t)
  BY <1>4 DEF DetachRefuse
<1>5. CASE DetachAct(t)
  <2>1. TypeOK'
    BY <1>5 DEF DetachAct
  <2>2. HolderOnly'
    BY <1>5 DEF DetachAct
  <2>3. MainIsNoThread'
    BY <1>5 DEF DetachAct
  <2>4. ListsSound'
    BY <1>5 DEF DetachAct
  <2>5. OneRunner'
    BY <1>5 DEF DetachAct
  <2>6. OwnStruct'
    BY <1>5 DEF DetachAct
  <2>. QED  BY <2>1, <2>2, <2>3, <2>4, <2>5, <2>6
<1>. QED  BY <1>1, <1>2, <1>3, <1>4, <1>5 DEF Detaching

\* A step of the end of pthreadTask.
LEMMA ExitSafety ==
  ASSUME Safety, NEW t \in Task, Exit(t)
  PROVE  Safety'
<1>. USE DEF Safety, TypeOK, HolderOnly, MainIsNoThread, ListsSound,
       OneRunner, OwnStruct, Running
<1>1. CASE TaskReturn(t)
  BY <1>1 DEF TaskReturn
<1>2. CASE ExitLock(t)
  BY <1>2 DEF ExitLock
<1>3. CASE ExitJoined(t)
  BY <1>3 DEF ExitJoined
<1>4. CASE ExitUnjoined(t)
  BY <1>4 DEF ExitUnjoined
<1>5. CASE ExitStore(t)
  <2>1. TypeOK'
    <3>1. thread[t] \in Addr
      BY <1>5 DEF ExitStore
    <3>2. active' \in [Addr -> BOOLEAN] /\ res' \in [Addr -> Task \cup {NULL}]
      BY <1>5, <3>1 DEF ExitStore
    <3>3. /\ inactive_threads' \subseteq inactive_threads \cup {thread[t]}
          /\ jammed' \subseteq jammed \cup {"inactive"}
      BY <1>5 DEF ExitStore
    <3>4. pc' \in [Task -> Location]
      BY <1>5 DEF ExitStore
    <3>. QED  BY <1>5, <3>1, <3>2, <3>3, <3>4 DEF ExitStore
  <2>2. HolderOnly'
    BY <1>5 DEF ExitStore
  <2>3. MainIsNoThread'
    BY <1>5 DEF ExitStore
  <2>4. ListsSound'
    BY <1>5 DEF ExitStore
  <2>5. OneRunner'
    BY <1>5 DEF ExitStore
  <2>6. OwnStruct'
    BY <1>5 DEF ExitStore
  <2>. QED  BY <2>1, <2>2, <2>3, <2>4, <2>5, <2>6
<1>6. CASE ExitDetached(t)
  BY <1>6 DEF ExitDetached
<1>7. CASE ExitUnlock(t)
  BY <1>7 DEF ExitUnlock
<1>. QED  BY <1>1, <1>2, <1>3, <1>4, <1>5, <1>6, <1>7 DEF Exit

\* The remaining steps: the start of pthreadTask, resume, a stray
\* notification.
LEMMA StartSafety ==
  ASSUME Safety, NEW t \in Task,
         \/ StartResume(t)
         \/ \E a \in Addr : Resume(t, a)
         \/ TaskStart(t)
         \/ TaskSuspend(t)
         \/ StrayNotify(t)
  PROVE  Safety'
<1>. USE DEF Safety, TypeOK, HolderOnly, MainIsNoThread, ListsSound,
       OneRunner, OwnStruct, Running
<1>1. CASE StartResume(t)
  BY <1>1 DEF StartResume, ResumeTask
<1>2. CASE \E a \in Addr : Resume(t, a)
  BY <1>2 DEF Resume, ResumeTask
<1>3. CASE TaskStart(t)
  BY <1>3 DEF TaskStart
<1>4. CASE TaskSuspend(t)
  BY <1>4 DEF TaskSuspend
<1>5. CASE StrayNotify(t)
  BY <1>5 DEF StrayNotify
<1>. QED  BY <1>1, <1>2, <1>3, <1>4, <1>5

\* A step that changes nothing of this module.
LEMMA StutterSafety == Safety /\ UNCHANGED vars => Safety'
  BY DEF Safety, TypeOK, HolderOnly, MainIsNoThread, ListsSound,
    OneRunner, OwnStruct, Running, vars

\* The invariant holds of every reachable state.
THEOREM SafetyInvariant == Spec => []Safety
<1>1. Init => Safety
  BY InitSafety
<1>2. Safety /\ [Next]_vars => Safety'
  <2>. SUFFICES ASSUME Safety, [Next]_vars  PROVE Safety'
    OBVIOUS
  <2>1. CASE Next
    BY <2>1, CreateSafety, JoinSafety, DetachSafety, ExitSafety, StartSafety
    DEF Next, TaskStep
  <2>2. CASE UNCHANGED vars
    BY <2>2, StutterSafety
  <2>. QED  BY <2>1, <2>2
<1>. QED  BY <1>1, <1>2, PTL DEF Spec

\* Type correctness of the thread life cycle.
THEOREM TypeCorrect == Spec => []TypeOK
<1>1. Safety => TypeOK
  BY DEF Safety
<1>. QED  BY <1>1, SafetyInvariant, PTL

\* Whatever the application calls and whatever fails, two tasks are never
\* both between _pthread_lock and _pthread_unlock.
THEOREM Exclusion == Spec => []MutualExclusion
<1>1. Safety => MutualExclusion
  BY DEF Safety, HolderOnly, MutualExclusion
<1>. QED  BY <1>1, SafetyInvariant, PTL

\* Whatever the application calls and whatever fails, the two lists hold
\* allocated structs only and share none.
THEOREM NoDanglingThread == Spec => []ListsSound
<1>1. Safety => ListsSound
  BY DEF Safety
<1>. QED  BY <1>1, SafetyInvariant, PTL

\* Whatever the application calls and whatever fails, no struct pthread is
\* run by two tasks.
THEOREM NoSharedThread == Spec => []OneRunner
<1>1. Safety => OneRunner
  BY DEF Safety
<1>. QED  BY <1>1, SafetyInvariant, PTL
-----------------------------------------------------------------------------
(* Nothing leaks, as long as lstadd can put an ended thread on its list.   *)

\* A struct that leaves the lists is freed, or is in the hands of its thread.
LEMMA LeakStep ==
  ASSUME Safety, NoLeak, "lstadd_inactive" \notin Faults, NEW t \in Task, TaskStep(t)
  PROVE  NoLeak'
<1>. USE DEF Safety, TypeOK, ListsSound, OneRunner, OwnStruct, Running, NoLeak
<1>1. CASE \E a \in Addr, k \in Kinds : CreateAlloc(t, a, k)
  BY <1>1 DEF CreateAlloc, Kind
<1>2. CASE CreateListFull(t)
  BY <1>2 DEF CreateListFull
<1>3. CASE \E c \in Task : CreateTask(t, c)
  BY <1>3 DEF CreateTask
<1>4. CASE CreateTaskFail(t)
  BY <1>4 DEF CreateTaskFail
<1>5. CASE CreateReturn(t)
  BY <1>5 DEF CreateReturn
<1>6. CASE StartResume(t)
  BY <1>6 DEF StartResume, ResumeTask
<1>7. CASE \E a \in Addr : Resume(t, a)
  BY <1>7 DEF Resume, ResumeTask
<1>8. CASE \E a \in Addr : Join(t, a)
  BY <1>8 DEF Join
<1>9. CASE JoinLock(t)
  BY <1>9 DEF JoinLock
<1>10. CASE JoinFind(t)
  BY <1>10 DEF JoinFind
<1>11. CASE JoinRefuse(t)
  BY <1>11 DEF JoinRefuse
<1>12. CASE JoinActive(t)
  BY <1>12 DEF JoinActive
<1>13. CASE JoinInactive(t)
  BY <1>13 DEF JoinInactive
<1>14. CASE JoinReturn(t)
  BY <1>14 DEF JoinReturn
<1>15. CASE \E a \in Addr : Detach(t, a)
  BY <1>15 DEF Detach
<1>16. CASE DetachLock(t)
  BY <1>16 DEF DetachLock
<1>17. CASE DetachFind(t)
  BY <1>17 DEF DetachFind
<1>18. CASE DetachRefuse(t)
  BY <1>18 DEF DetachRefuse
<1>19. CASE DetachAct(t)
  BY <1>19 DEF DetachAct
<1>20. CASE TaskStart(t)
  BY <1>20 DEF TaskStart
<1>21. CASE TaskSuspend(t)
  BY <1>21 DEF TaskSuspend
<1>22. CASE TaskReturn(t)
  BY <1>22 DEF TaskReturn
<1>23. CASE ExitLock(t)
  BY <1>23 DEF ExitLock
<1>24. CASE ExitJoined(t)
  BY <1>24 DEF ExitJoined
<1>25. CASE ExitUnjoined(t)
  BY <1>25 DEF ExitUnjoined
<1>26. CASE ExitStore(t)
  BY <1>26 DEF ExitStore
<1>27. CASE ExitDetached(t)
  BY <1>27 DEF ExitDetached
<1>28. CASE ExitUnlock(t)
  BY <1>28 DEF ExitUnlock
<1>29. CASE StrayNotify(t)
  BY <1>29 DEF StrayNotify
<1>. QED
  BY <1>1, <1>2, <1>3, <1>4, <1>5, <1>6, <1>7, <1>8, <1>9, <1>10, <1>11,
     <1>12, <1>13, <1>14, <1>15, <1>16, <1>17, <1>18, <1>19, <1>20,
     <1>21, <1>22, <1>23, <1>24, <1>25, <1>26, <1>27, <1>28, <1>29
  DEF TaskStep, Create, Joining, Detaching, Exit

\* Whatever the application calls, every struct pthread on the heap is on a
\* list or about to be put there by its ending thread, unless the inactive
\* list cannot grow.
THEOREM NothingLeaks ==
  ASSUME "lstadd_inactive" \notin Faults
  PROVE  Spec => []NoLeak
<1>1. Init => NoLeak
  BY DEF Init, NoLeak
<1>2. Safety /\ NoLeak /\ [Next]_vars => NoLeak'
  <2>. SUFFICES ASSUME Safety, NoLeak, [Next]_vars  PROVE NoLeak'
    OBVIOUS
  <2>1. CASE Next
    BY <2>1, LeakStep DEF Next
  <2>2. CASE UNCHANGED vars
    BY <2>2 DEF NoLeak, vars
  <2>. QED  BY <2>1, <2>2
<1>. QED  BY <1>1, <1>2, SafetyInvariant, PTL DEF Spec

-----------------------------------------------------------------------------
(* Without pthread_detach, which keeps thread_mtx when it refuses.         *)

\* Who leaves a critical part gives thread_mtx back.
LEMMA HeldStep ==
  ASSUME Safety, NobodyDetaches, HeldInsideOnly, "detach" \notin Calls, NEW t \in Task, TaskStep(t)
  PROVE  (NobodyDetaches /\ HeldInsideOnly)'
<1>. USE DEF Safety, TypeOK, HolderOnly, NobodyDetaches, HeldInsideOnly
<1>1. CASE \E a \in Addr, k \in Kinds : CreateAlloc(t, a, k)
  BY <1>1 DEF CreateAlloc, Kind
<1>2. CASE CreateListFull(t)
  BY <1>2 DEF CreateListFull
<1>3. CASE \E c \in Task : CreateTask(t, c)
  BY <1>3 DEF CreateTask
<1>4. CASE CreateTaskFail(t)
  BY <1>4 DEF CreateTaskFail
<1>5. CASE CreateReturn(t)
  BY <1>5 DEF CreateReturn
<1>6. CASE StartResume(t)
  BY <1>6 DEF StartResume, ResumeTask
<1>7. CASE \E a \in Addr : Resume(t, a)
  BY <1>7 DEF Resume, ResumeTask
<1>8. CASE \E a \in Addr : Join(t, a)
  BY <1>8 DEF Join
<1>9. CASE JoinLock(t)
  BY <1>9 DEF JoinLock
<1>10. CASE JoinFind(t)
  BY <1>10 DEF JoinFind
<1>11. CASE JoinRefuse(t)
  BY <1>11 DEF JoinRefuse
<1>12. CASE JoinActive(t)
  BY <1>12 DEF JoinActive
<1>13. CASE JoinInactive(t)
  BY <1>13 DEF JoinInactive
<1>14. CASE JoinReturn(t)
  BY <1>14 DEF JoinReturn
<1>15. CASE \E a \in Addr : Detach(t, a)
  BY <1>15 DEF Detach
<1>16. CASE DetachLock(t)
  BY <1>16 DEF DetachLock
<1>17. CASE DetachFind(t)
  BY <1>17 DEF DetachFind
<1>18. CASE DetachRefuse(t)
  BY <1>18 DEF DetachRefuse
<1>19. CASE DetachAct(t)
  BY <1>19 DEF DetachAct
<1>20. CASE TaskStart(t)
  BY <1>20 DEF TaskStart
<1>21. CASE TaskSuspend(t)
  BY <1>21 DEF TaskSuspend
<1>22. CASE TaskReturn(t)
  BY <1>22 DEF TaskReturn
<1>23. CASE ExitLock(t)
  BY <1>23 DEF ExitLock
<1>24. CASE ExitJoined(t)
  BY <1>24 DEF ExitJoined
<1>25. CASE ExitUnjoined(t)
  BY <1>25 DEF ExitUnjoined
<1>26. CASE ExitStore(t)
  BY <1>26 DEF ExitStore
<1>27. CASE ExitDetached(t)
  BY <1>27 DEF ExitDetached
<1>28. CASE ExitUnlock(t)
  BY <1>28 DEF ExitUnlock
<1>29. CASE StrayNotify(t)
  BY <1>29 DEF StrayNotify
<1>. QED
  BY <1>1, <1>2, <1>3, <1>4, <1>5, <1>6, <1>7, <1>8, <1>9, <1>10, <1>11,
     <1>12, <1>13, <1>14, <1>15, <1>16, <1>17, <1>18, <1>19, <1>20,
     <1>21, <1>22, <1>23, <1>24, <1>25, <1>26, <1>27, <1>28, <1>29
  DEF TaskStep, Create, Joining, Detaching, Exit

\* An application that never calls pthread_detach never leaves thread_mtx
\* taken outside of the critical parts, whatever fails.
THEOREM MutexGivenBack ==
  ASSUME "detach" \notin Calls
  PROVE  Spec => []HeldInsideOnly
<1>. DEFINE Inv == NobodyDetaches /\ HeldInsideOnly
<1>1. Init => Inv
  BY DEF Init, NobodyDetaches, HeldInsideOnly
<1>2. Safety /\ Inv /\ [Next]_vars => Inv'
  <2>. SUFFICES ASSUME Safety, NobodyDetaches, HeldInsideOnly, [Next]_vars
                PROVE  NobodyDetaches' /\ HeldInsideOnly'
    OBVIOUS
  <2>1. CASE Next
    BY <2>1, HeldStep DEF Next
  <2>2. CASE UNCHANGED vars
    BY <2>2 DEF NobodyDetaches, HeldInsideOnly, vars
  <2>. QED  BY <2>1, <2>2
<1>. QED  BY <1>1, <1>2, SafetyInvariant, PTL DEF Spec

\* A thread somebody waits for leaves the active list only by notifying.
LEMMA WaitStep ==
  ASSUME Safety, WaitSound, "detach" \notin Calls,
         "task_args" \notin Faults, NEW t \in Task, TaskStep(t)
  PROVE  WaitSound'
<1>. USE DEF Safety, TypeOK, HolderOnly, ListsSound, OwnStruct, Running,
       WaitSound, FoundListed, NobodyDetaches, WaitsForLiveThread
<1>1. CASE \E a \in Addr, k \in Kinds : CreateAlloc(t, a, k)
  BY <1>1 DEF CreateAlloc, Kind
<1>2. CASE CreateListFull(t)
  BY <1>2 DEF CreateListFull
<1>3. CASE \E c \in Task : CreateTask(t, c)
  BY <1>3 DEF CreateTask
<1>4. CASE CreateTaskFail(t)
  BY <1>4 DEF CreateTaskFail
<1>5. CASE CreateReturn(t)
  BY <1>5 DEF CreateReturn
<1>6. CASE StartResume(t)
  BY <1>6 DEF StartResume, ResumeTask
<1>7. CASE \E a \in Addr : Resume(t, a)
  BY <1>7 DEF Resume, ResumeTask
<1>8. CASE \E a \in Addr : Join(t, a)
  BY <1>8 DEF Join
<1>9. CASE JoinLock(t)
  BY <1>9 DEF JoinLock
<1>10. CASE JoinFind(t)
  BY <1>10 DEF JoinFind
<1>11. CASE JoinRefuse(t)
  BY <1>11 DEF JoinRefuse
<1>12. CASE JoinActive(t)
  BY <1>12 DEF JoinActive
<1>13. CASE JoinInactive(t)
  BY <1>13 DEF JoinInactive
<1>14. CASE JoinReturn(t)
  BY <1>14 DEF JoinReturn
<1>15. CASE \E a \in Addr : Detach(t, a)
  BY <1>15 DEF Detach
<1>16. CASE DetachLock(t)
  BY <1>16 DEF DetachLock
<1>17. CASE DetachFind(t)
  BY <1>17 DEF DetachFind
<1>18. CASE DetachRefuse(t)
  BY <1>18 DEF DetachRefuse
<1>19. CASE DetachAct(t)
  BY <1>19 DEF DetachAct
<1>20. CASE TaskStart(t)
  BY <1>20 DEF TaskStart
<1>21. CASE TaskSuspend(t)
  BY <1>21 DEF TaskSuspend
<1>22. CASE TaskReturn(t)
  BY <1>22 DEF TaskReturn
<1>23. CASE ExitLock(t)
  BY <1>23 DEF ExitLock
<1>24. CASE ExitJoined(t)
  BY <1>24 DEF ExitJoined
<1>25. CASE ExitUnjoined(t)
  BY <1>25 DEF ExitUnjoined
<1>26. CASE ExitStore(t)
  BY <1>26 DEF ExitStore
<1>27. CASE ExitDetached(t)
  BY <1>27 DEF ExitDetached
<1>28. CASE ExitUnlock(t)
  BY <1>28 DEF ExitUnlock
<1>29. CASE StrayNotify(t)
  BY <1>29 DEF StrayNotify
<1>. QED
  BY <1>1, <1>2, <1>3, <1>4, <1>5, <1>6, <1>7, <1>8, <1>9, <1>10, <1>11,
     <1>12, <1>13, <1>14, <1>15, <1>16, <1>17, <1>18, <1>19, <1>20,
     <1>21, <1>22, <1>23, <1>24, <1>25, <1>26, <1>27, <1>28, <1>29
  DEF TaskStep, Create, Joining, Detaching, Exit

\* With neither pthread_detach nor failing creations, a task that waits in
\* join has been notified, or waits for a thread that has not ended and that
\* will notify it.
THEOREM NobodyWaitsInVain ==
  ASSUME "detach" \notin Calls, "task_args" \notin Faults
  PROVE  Spec => []WaitsForLiveThread
<1>1. Init => WaitSound
  BY DEF Init, WaitSound, FoundListed, NobodyDetaches, WaitsForLiveThread
<1>2. Safety /\ WaitSound /\ [Next]_vars => WaitSound'
  <2>. SUFFICES ASSUME Safety, WaitSound, [Next]_vars  PROVE WaitSound'
    OBVIOUS
  <2>1. CASE Next
    BY <2>1, WaitStep DEF Next
  <2>2. CASE UNCHANGED vars
    BY <2>2 DEF WaitSound, FoundListed, NobodyDetaches, WaitsForLiveThread, vars
  <2>. QED  BY <2>1, <2>2
<1>3. WaitSound => WaitsForLiveThread
  BY DEF WaitSound
<1>. QED  BY <1>1, <1>2, <1>3, SafetyInvariant, PTL DEF Spec

-----------------------------------------------------------------------------
(* Without stray notifications: what join waits for and what it returns.   *)

\* A task is notified by the thread it waits for, once.
LEMMA JoinStep ==
  ASSUME Safety, JoinSound, "mqtt" \notin Faults, NEW t \in Task, TaskStep(t)
  PROVE  JoinSound'
<1>. USE DEF Safety, TypeOK, ListsSound, OwnStruct, Running, JoinSound,
       NotifiedWaits, JoinedIsWaiting, JoinValue
<1>1. CASE \E a \in Addr, k \in Kinds : CreateAlloc(t, a, k)
  BY <1>1 DEF CreateAlloc, Kind
<1>2. CASE CreateListFull(t)
  BY <1>2 DEF CreateListFull
<1>3. CASE \E c \in Task : CreateTask(t, c)
  BY <1>3 DEF CreateTask
<1>4. CASE CreateTaskFail(t)
  BY <1>4 DEF CreateTaskFail
<1>5. CASE CreateReturn(t)
  BY <1>5 DEF CreateReturn
<1>6. CASE StartResume(t)
  BY <1>6 DEF StartResume, ResumeTask
<1>7. CASE \E a \in Addr : Resume(t, a)
  BY <1>7 DEF Resume, ResumeTask
<1>8. CASE \E a \in Addr : Join(t, a)
  BY <1>8 DEF Join
<1>9. CASE JoinLock(t)
  BY <1>9 DEF JoinLock
<1>10. CASE JoinFind(t)
  BY <1>10 DEF JoinFind
<1>11. CASE JoinRefuse(t)
  BY <1>11 DEF JoinRefuse
<1>12. CASE JoinActive(t)
  BY <1>12 DEF JoinActive
<1>13. CASE JoinInactive(t)
  BY <1>13 DEF JoinInactive
<1>14. CASE JoinReturn(t)
  BY <1>14 DEF JoinReturn
<1>15. CASE \E a \in Addr : Detach(t, a)
  BY <1>15 DEF Detach
<1>16. CASE DetachLock(t)
  BY <1>16 DEF DetachLock
<1>17. CASE DetachFind(t)
  BY <1>17 DEF DetachFind
<1>18. CASE DetachRefuse(t)
  BY <1>18 DEF DetachRefuse
<1>19. CASE DetachAct(t)
  BY <1>19 DEF DetachAct
<1>20. CASE TaskStart(t)
  BY <1>20 DEF TaskStart
<1>21. CASE TaskSuspend(t)
  BY <1>21 DEF TaskSuspend
<1>22. CASE TaskReturn(t)
  BY <1>22 DEF TaskReturn
<1>23. CASE ExitLock(t)
  BY <1>23 DEF ExitLock
<1>24. CASE ExitJoined(t)
  <2>1. /\ thread[t] \in active_threads /\ thread[t] \in alloc
        /\ pc[t] = "exit_remove" /\ joined_task[thread[t]] # NULL
    <3>1. pc[t] = "exit_remove" /\ t # Main /\ joined_task[thread[t]] # NULL
      BY <1>24 DEF ExitJoined, MainIsNoThread
    <3>. QED  BY <3>1
  <2>. DEFINE j == joined_task[thread[t]]
  <2>2. j \in Task /\ pc[j] = "join_wait" /\ id[j] = thread[t] /\ j \notin pending
    BY <2>1
  <2>. HIDE DEF j
  <2>3. /\ pending' = pending \cup {j}
        /\ nvalue' = [nvalue EXCEPT ![j] = t]
        /\ pc' = [pc EXCEPT ![t] = "exit_unlock"]
        /\ joined_task' = [joined_task EXCEPT ![thread[t]] = NULL]
        /\ alloc' \subseteq alloc
        /\ UNCHANGED <<id, created, thread, parent>>
    BY <1>24 DEF ExitJoined, j
  <2>4. NotifiedWaits'
    BY <2>1, <2>2, <2>3
  <2>5. JoinedIsWaiting'
    BY <2>1, <2>2, <2>3 DEF j
  <2>6. JoinValue'
    BY <2>1, <2>2, <2>3
  <2>. QED  BY <2>4, <2>5, <2>6
<1>25. CASE ExitUnjoined(t)
  BY <1>25 DEF ExitUnjoined
<1>26. CASE ExitStore(t)
  BY <1>26 DEF ExitStore
<1>27. CASE ExitDetached(t)
  BY <1>27 DEF ExitDetached
<1>28. CASE ExitUnlock(t)
  BY <1>28 DEF ExitUnlock
<1>29. CASE StrayNotify(t)
  BY <1>29 DEF StrayNotify
<1>. QED
  BY <1>1, <1>2, <1>3, <1>4, <1>5, <1>6, <1>7, <1>8, <1>9, <1>10, <1>11,
     <1>12, <1>13, <1>14, <1>15, <1>16, <1>17, <1>18, <1>19, <1>20,
     <1>21, <1>22, <1>23, <1>24, <1>25, <1>26, <1>27, <1>28, <1>29
  DEF TaskStep, Create, Joining, Detaching, Exit

\* The notifications of create and of join do not get mixed up.
THEOREM JoinInvariant ==
  ASSUME "mqtt" \notin Faults
  PROVE  Spec => []JoinSound
<1>1. Init => JoinSound
  BY DEF Init, JoinSound, NotifiedWaits, JoinedIsWaiting, JoinValue
<1>2. Safety /\ JoinSound /\ [Next]_vars => JoinSound'
  <2>. SUFFICES ASSUME Safety, JoinSound, [Next]_vars  PROVE JoinSound'
    OBVIOUS
  <2>1. CASE Next
    BY <2>1, JoinStep DEF Next
  <2>2. CASE UNCHANGED vars
    BY <2>2 DEF JoinSound, NotifiedWaits, JoinedIsWaiting, JoinValue, vars
  <2>. QED  BY <2>1, <2>2
<1>. QED  BY <1>1, <1>2, SafetyInvariant, PTL DEF Spec

\* The joined_task of a thread waits in the join of that thread.
THEOREM JoinedTaskWaits ==
  ASSUME "mqtt" \notin Faults
  PROVE  Spec => []JoinedIsWaiting
<1>1. JoinSound => JoinedIsWaiting
  BY DEF JoinSound
<1>. QED  BY <1>1, JoinInvariant, PTL

\* What join returns was returned by the thread it waited for.
THEOREM JoinReturnsResult ==
  ASSUME "mqtt" \notin Faults
  PROVE  Spec => []JoinValue
<1>1. JoinSound => JoinValue
  BY DEF JoinSound
<1>. QED  BY <1>1, JoinInvariant, PTL

\* A step that touches neither the inactive list nor the notifications leaves
\* the results where they are.
LEMMA HeldKept ==
  ASSUME HeldOnce, TypeOK,
         UNCHANGED <<inactive_threads, res, pending, nvalue, reaped>>,
         \A u \in Task : pc'[u] = "join_wait" <=> pc[u] = "join_wait",
         \A u \in Task : Over(u)' <=> Over(u)
  PROVE  HeldOnce'
<1>1. \A c \in Task : Holders(c)' = Holders(c)
  BY DEF Holders, TypeOK
<1>. QED  BY <1>1 DEF HeldOnce, TypeOK

\* A result is put down in one place and taken up from there.
LEMMA ResultStep ==
  ASSUME Safety, ResultSound, "mqtt" \notin Faults,
         "lstadd_inactive" \notin Faults, NEW t \in Task, TaskStep(t)
  PROVE  (ResultKept /\ HeldOnce)'
<1>. USE DEF Safety, TypeOK, HolderOnly, ListsSound, OneRunner, OwnStruct,
       Running, ResultSound, ResultKept, JoinSound, NotifiedWaits,
       JoinedIsWaiting, JoinValue, HeldOnce, Holders, Over
<1>1. CASE \E a \in Addr, k \in Kinds : CreateAlloc(t, a, k)
  BY <1>1 DEF CreateAlloc, Kind
<1>2. CASE CreateListFull(t)
  BY <1>2 DEF CreateListFull
<1>3. CASE \E c \in Task : CreateTask(t, c)
  <2>1. PICK c \in Task : CreateTask(t, c)
    BY <1>3
  <2>2. /\ pc[t] = "create_spawn" /\ pc[c] = "unborn"
        /\ pc' = [pc EXCEPT ![t] = "create_wait", ![c] = "start"]
        /\ thread' = [thread EXCEPT ![c] = id[t]]
        /\ UNCHANGED <<active, res, inactive_threads, id, pending, nvalue,
                       reaped>>
    BY <2>1 DEF CreateTask
  <2>3. ResultKept'
    BY <2>2
  <2>4. HeldOnce'
    <3>1. \A u \in Task : pc'[u] = "join_wait" <=> pc[u] = "join_wait"
      BY <2>2
    <3>2. \A u \in Task : Over(u)' <=> Over(u)
      BY <2>2
    <3>. HIDE DEF Holders, Over
    <3>. QED  BY <2>2, <3>1, <3>2, HeldKept
  <2>. QED  BY <2>3, <2>4
<1>4. CASE CreateTaskFail(t)
  BY <1>4 DEF CreateTaskFail
<1>5. CASE CreateReturn(t)
  BY <1>5 DEF CreateReturn
<1>6. CASE StartResume(t)
  <2>1. /\ pc[t] = "resume" /\ pc'[t] = "run"
        /\ \A u \in Task \ {t} :
             pc'[u] = pc[u] \/ (pc[u] = "suspended" /\ pc'[u] = "run")
        /\ UNCHANGED <<active, res, inactive_threads, id, pending, nvalue,
                       reaped, thread>>
    BY <1>6 DEF StartResume, ResumeTask
  <2>2. ResultKept'
    BY <2>1
  <2>3. HeldOnce'
    BY <2>1
  <2>. QED  BY <2>2, <2>3
<1>7. CASE \E a \in Addr : Resume(t, a)
  BY <1>7 DEF Resume, ResumeTask
<1>8. CASE \E a \in Addr : Join(t, a)
  BY <1>8 DEF Join
<1>9. CASE JoinLock(t)
  BY <1>9 DEF JoinLock
<1>10. CASE JoinFind(t)
  <2>1. /\ pc[t] = "join_find" /\ pc'[t] \in {"join_act", "run"}
        /\ pc'[t] = "join_act" => Found(id[t])
        /\ \A u \in Task \ {t} : pc'[u] = pc[u]
        /\ UNCHANGED <<active, res, inactive_threads, id, pending, nvalue,
                       reaped, thread>>
    BY <1>10 DEF JoinFind
  <2>2. ResultKept'
    BY <2>1
  <2>3. HeldOnce'
    BY <2>1
  <2>. QED  BY <2>2, <2>3
<1>11. CASE JoinRefuse(t)
  BY <1>11 DEF JoinRefuse
<1>12. CASE JoinActive(t)
  BY <1>12 DEF JoinActive
<1>13. CASE JoinInactive(t)
  BY <1>13 DEF JoinInactive
<1>14. CASE JoinReturn(t)
  BY <1>14 DEF JoinReturn
<1>15. CASE \E a \in Addr : Detach(t, a)
  BY <1>15 DEF Detach
<1>16. CASE DetachLock(t)
  <2>1. ResultKept'
    BY <1>16 DEF DetachLock
  <2>2. HeldOnce'
    BY <1>16 DEF DetachLock
  <2>. QED  BY <2>1, <2>2
<1>17. CASE DetachFind(t)
  <2>1. /\ pc[t] = "detach_find" /\ pc'[t] \in {"detach_act", "run"}
        /\ \A u \in Task \ {t} : pc'[u] = pc[u]
        /\ UNCHANGED <<active, res, inactive_threads, id, pending, nvalue,
                       reaped, thread>>
    BY <1>17 DEF DetachFind
  <2>2. ResultKept'
    BY <2>1
  <2>3. HeldOnce'
    BY <2>1
  <2>. QED  BY <2>2, <2>3
<1>18. CASE DetachRefuse(t)
  BY <1>18 DEF DetachRefuse
<1>19. CASE DetachAct(t)
  BY <1>19 DEF DetachAct
<1>20. CASE TaskStart(t)
  BY <1>20 DEF TaskStart
<1>21. CASE TaskSuspend(t)
  BY <1>21 DEF TaskSuspend
<1>22. CASE TaskReturn(t)
  BY <1>22 DEF TaskReturn
<1>23. CASE ExitLock(t)
  <2>1. ResultKept'
    BY <1>23 DEF ExitLock
  <2>2. HeldOnce'
    <3>1. /\ UNCHANGED <<inactive_threads, res, pending, nvalue, reaped>>
          /\ pc[t] = "exit_lock" /\ pc' = [pc EXCEPT ![t] = "exit_remove"]
      BY <1>23 DEF ExitLock
    <3>. QED  BY <3>1, HeldKept
  <2>. QED  BY <2>1, <2>2
<1>24. CASE ExitJoined(t)
  <2>1. /\ thread[t] \in active_threads /\ thread[t] \in alloc
        /\ pc[t] = "exit_remove" /\ joined_task[thread[t]] # NULL
    <3>1. pc[t] = "exit_remove" /\ t # Main /\ joined_task[thread[t]] # NULL
      BY <1>24 DEF ExitJoined, MainIsNoThread
    <3>. QED  BY <3>1
  <2>. DEFINE j == joined_task[thread[t]]
  <2>2. j \in Task /\ pc[j] = "join_wait" /\ id[j] = thread[t] /\ j \notin pending
    BY <2>1
  <2>. HIDE DEF j
  <2>3. /\ pending' = pending \cup {j}
        /\ nvalue' = [nvalue EXCEPT ![j] = t]
        /\ pc' = [pc EXCEPT ![t] = "exit_unlock"]
        /\ inactive_threads' = inactive_threads
        /\ UNCHANGED <<active, res, id, reaped, thread>>
    BY <1>24, <2>1 DEF ExitJoined, j
  <2>4. ResultKept'
    BY <2>1, <2>2, <2>3
  <2>5. HeldOnce'
    <3>1. ~Over(t) /\ t \notin reaped /\ \A a \in inactive_threads : res[a] # t
      BY <2>1
    <3>2. \A u \in pending : pc[u] = "join_wait" => nvalue[u] # t
      BY <2>1
    <3>3. \A u \in Task : /\ pc'[u] = "join_wait" <=> pc[u] = "join_wait"
                          /\ Over(u)' <=> Over(u) \/ u = t
      BY <2>1, <2>3
    <3>4. \A c \in Task \ {t} : Holders(c)' = Holders(c)
      BY <2>2, <2>3, <3>3
    <3>5. j \in Holders(t)'
      BY <2>2, <2>3, <3>3
    <3>6. \A u \in pending' :
            \/ u \in pending /\ nvalue'[u] = nvalue[u]
            \/ u = j /\ nvalue'[u] = t
      BY <2>2, <2>3
    <3>. HIDE DEF Holders, Over
    <3>. QED  BY <2>3, <3>1, <3>2, <3>3, <3>4, <3>5, <3>6
  <2>. QED  BY <2>4, <2>5
<1>25. CASE ExitUnjoined(t)
  <2>1. ResultKept'
    BY <1>25 DEF ExitUnjoined
  <2>2. inactive_threads' = inactive_threads
    BY <1>25 DEF ExitUnjoined, MainIsNoThread
  <2>3. HeldOnce'
    BY <1>25, <2>2, HeldKept DEF ExitUnjoined
  <2>. QED  BY <2>1, <2>3
<1>26. CASE ExitStore(t)
  BY <1>26 DEF ExitStore
<1>27. CASE ExitDetached(t)
  BY <1>27 DEF ExitDetached
<1>28. CASE ExitUnlock(t)
  BY <1>28 DEF ExitUnlock
<1>29. CASE StrayNotify(t)
  BY <1>29 DEF StrayNotify
<1>. QED
  BY <1>1, <1>2, <1>3, <1>4, <1>5, <1>6, <1>7, <1>8, <1>9, <1>10, <1>11,
     <1>12, <1>13, <1>14, <1>15, <1>16, <1>17, <1>18, <1>19, <1>20,
     <1>21, <1>22, <1>23, <1>24, <1>25, <1>26, <1>27, <1>28, <1>29
  DEF TaskStep, Create, Joining, Detaching, Exit

\* The result of a thread that has ended is in exactly one place, on the
\* inactive list or on its way to a join, until it is handed over or dropped,
\* and nowhere from then on: no join returns it twice and none loses it.
THEOREM ResultHandedOverOnce ==
  ASSUME "mqtt" \notin Faults, "lstadd_inactive" \notin Faults
  PROVE  Spec => []ResultOnce
<1>1. Init => ResultKept /\ HeldOnce
  BY DEF Init, ResultKept, HeldOnce, Over
<1>2. Safety /\ JoinSound /\ ResultKept /\ HeldOnce /\ [Next]_vars
        => ResultKept' /\ HeldOnce'
  <2>. SUFFICES ASSUME Safety, JoinSound, ResultKept, HeldOnce, [Next]_vars
                PROVE  ResultKept' /\ HeldOnce'
    OBVIOUS
  <2>1. CASE Next
    BY <2>1, ResultStep DEF Next, ResultSound
  <2>2. CASE UNCHANGED vars
    <3>1. ResultKept'
      BY <2>2 DEF ResultKept, Over, vars
    <3>2. HeldOnce'
      BY <2>2, HeldKept DEF Safety, Over, vars
    <3>. QED  BY <3>1, <3>2
  <2>. QED  BY <2>1, <2>2
<1>3. Safety /\ JoinSound /\ ResultKept /\ HeldOnce => ResultOnce
  <2>. SUFFICES ASSUME Safety, JoinSound, ResultKept, HeldOnce,
                       NEW c \in Task, pc[c] = "dead"
                PROVE  Cardinality(Holders(c)) = IF c \in reaped THEN 0 ELSE 1
    BY DEF ResultOnce
  <2>1. CASE c \in reaped
    BY <2>1, FS_EmptySet DEF HeldOnce
  <2>2. CASE c \notin reaped
    <3>1. PICK h : h \in Holders(c)
      BY <2>2 DEF HeldOnce, Over
    <3>2. \A h2 \in Holders(c) : h2 = h
      BY <3>1 DEF Holders, HeldOnce, ResultKept
    <3>3. Holders(c) = {h}
      BY <3>1, <3>2
    <3>. QED  BY <2>2, <3>3, FS_Singleton
  <2>. QED  BY <2>1, <2>2
<1>. QED  BY <1>1, <1>2, <1>3, SafetyInvariant, JoinInvariant, PTL DEF Spec

-----------------------------------------------------------------------------
(* Threads that are created suspended, as those of the Lua module thread.  *)

\* A suspended thread waits for the creator that has yet to store its handle.
LEMMA CreateStep ==
  ASSUME Safety, CreateSound,
         Kinds \subseteq DetachState \X {SUSPEND} \X BOOLEAN, NEW t \in Task, TaskStep(t)
  PROVE  CreateSound'
<1>. USE DEF Safety, TypeOK, HolderOnly, MainIsNoThread, ListsSound, OneRunner,
       OwnStruct, Running, CreateSound
<1>1. CASE \E a \in Addr, k \in Kinds : CreateAlloc(t, a, k)
  BY <1>1 DEF CreateAlloc, Kind
<1>2. CASE CreateListFull(t)
  BY <1>2 DEF CreateListFull
<1>3. CASE \E c \in Task : CreateTask(t, c)
  <2>1. PICK c \in Task : CreateTask(t, c)
    BY <1>3
  <2>2. /\ pc[t] = "create_spawn" /\ pc[c] = "unborn" /\ c # t /\ c # Main
        /\ pc' = [pc EXCEPT ![t] = "create_wait", ![c] = "start"]
        /\ thread' = [thread EXCEPT ![c] = id[t]]
        /\ parent' = [parent EXCEPT ![c] = t]
        /\ created' = [created EXCEPT ![t] = c]
        /\ UNCHANGED <<id, task, initial_state, active_threads>>
    BY <2>1 DEF CreateTask
  <2>3. \A u \in Task : pc[u] = "create_wait" => created[u] # c
    BY <2>2
  <2>4. \A a \in active_threads : task[a] # c
    <3>1. c # NULL /\ ~Running(c)
      BY <2>2
    <3>2. \A a \in active_threads : task[a] # NULL => Running(task[a])
      BY DEF CreateSound
    <3>. HIDE DEF Running, Safety, CreateSound
    <3>. QED  BY <3>1, <3>2
  <2>. QED  BY <2>2, <2>3, <2>4
<1>4. CASE CreateTaskFail(t)
  BY <1>4 DEF CreateTaskFail
<1>5. CASE CreateReturn(t)
  BY <1>5 DEF CreateReturn
<1>6. CASE StartResume(t)
  BY <1>6 DEF StartResume, ResumeTask
<1>7. CASE \E a \in Addr : Resume(t, a)
  BY <1>7 DEF Resume, ResumeTask
<1>8. CASE \E a \in Addr : Join(t, a)
  BY <1>8 DEF Join
<1>9. CASE JoinLock(t)
  BY <1>9 DEF JoinLock
<1>10. CASE JoinFind(t)
  <2>1. /\ pc[t] = "join_find" /\ pc'[t] \in {"join_act", "run"}
        /\ \A u \in Task \ {t} : pc'[u] = pc[u]
        /\ UNCHANGED <<id, task, initial_state, active_threads, created, parent, thread>>
    BY <1>10 DEF JoinFind
  <2>. QED  BY <2>1
<1>11. CASE JoinRefuse(t)
  BY <1>11 DEF JoinRefuse
<1>12. CASE JoinActive(t)
  BY <1>12 DEF JoinActive
<1>13. CASE JoinInactive(t)
  BY <1>13 DEF JoinInactive
<1>14. CASE JoinReturn(t)
  BY <1>14 DEF JoinReturn
<1>15. CASE \E a \in Addr : Detach(t, a)
  BY <1>15 DEF Detach
<1>16. CASE DetachLock(t)
  BY <1>16 DEF DetachLock
<1>17. CASE DetachFind(t)
  BY <1>17 DEF DetachFind
<1>18. CASE DetachRefuse(t)
  BY <1>18 DEF DetachRefuse
<1>19. CASE DetachAct(t)
  BY <1>19 DEF DetachAct
<1>20. CASE TaskStart(t)
  BY <1>20 DEF TaskStart
<1>21. CASE TaskSuspend(t)
  BY <1>21 DEF TaskSuspend
<1>22. CASE TaskReturn(t)
  BY <1>22 DEF TaskReturn
<1>23. CASE ExitLock(t)
  BY <1>23 DEF ExitLock
<1>24. CASE ExitJoined(t)
  <2>1. /\ pc[t] = "exit_remove" /\ t # Main /\ thread[t] \in active_threads
        /\ pc' = [pc EXCEPT ![t] = "exit_unlock"]
        /\ active_threads' = active_threads \ {thread[t]}
        /\ UNCHANGED <<id, created, thread, parent, task, initial_state>>
    BY <1>24 DEF ExitJoined
  <2>. QED  BY <2>1
<1>25. CASE ExitUnjoined(t)
  BY <1>25 DEF ExitUnjoined
<1>26. CASE ExitStore(t)
  BY <1>26 DEF ExitStore
<1>27. CASE ExitDetached(t)
  BY <1>27 DEF ExitDetached
<1>28. CASE ExitUnlock(t)
  BY <1>28 DEF ExitUnlock
<1>29. CASE StrayNotify(t)
  BY <1>29 DEF StrayNotify
<1>. QED
  BY <1>1, <1>2, <1>3, <1>4, <1>5, <1>6, <1>7, <1>8, <1>9, <1>10, <1>11,
     <1>12, <1>13, <1>14, <1>15, <1>16, <1>17, <1>18, <1>19, <1>20,
     <1>21, <1>22, <1>23, <1>24, <1>25, <1>26, <1>27, <1>28, <1>29
  DEF TaskStep, Create, Joining, Detaching, Exit

\* The invariant of applications that create their threads suspended,
\* whatever they call and whatever fails.
THEOREM SuspendedInvariant ==
  ASSUME Kinds \subseteq DetachState \X {SUSPEND} \X BOOLEAN
  PROVE  Spec => []CreateSound
<1>1. Init => CreateSound
  BY DEF Init, CreateSound, Running
<1>2. Safety /\ CreateSound /\ [Next]_vars => CreateSound'
  <2>. SUFFICES ASSUME Safety, CreateSound, [Next]_vars  PROVE CreateSound'
    OBVIOUS
  <2>1. CASE Next
    BY <2>1, CreateStep DEF Next
  <2>2. CASE UNCHANGED vars
    BY <2>2 DEF CreateSound, Running, vars
  <2>. QED  BY <2>1, <2>2
<1>. QED  BY <1>1, <1>2, SafetyInvariant, PTL DEF Spec

\* When the creator comes to store the task handle, the thread is there.
THEOREM HandleStoredInTime ==
  ASSUME Kinds \subseteq DetachState \X {SUSPEND} \X BOOLEAN
  PROVE  Spec => []CreatedStillThere
<1>1. CreateSound => CreatedStillThere
  BY DEF CreateSound, CreatedStillThere
<1>. QED  BY <1>1, SuspendedInvariant, PTL

\* resume by a stored handle reaches the thread it is stored in.
THEOREM ResumeReachesItsThread ==
  ASSUME Kinds \subseteq DetachState \X {SUSPEND} \X BOOLEAN
  PROVE  Spec => []TaskIsRunner
<1>1. CreateSound => TaskIsRunner
  BY DEF CreateSound, TaskIsRunner, Running
<1>. QED  BY <1>1, SuspendedInvariant, PTL
=============================================================================
