------------------------------ MODULE Pthread ------------------------------
(***************************************************************************)
(* The life of a POSIX thread in Lua RTOS: pthread/_pthread.c, and the     *)
(* calls lua/modules/sys/thread.c makes to it.                             *)
(*                                                                         *)
(* A thread is a `struct pthread' on the heap; its address is the          *)
(* pthread_t.  It is run by a FreeRTOS task.  The structs are kept in the  *)
(* lists active_threads and inactive_threads; thread_mtx is taken by join, *)
(* detach and the exit of a thread, and is NOT taken by create.            *)
(*                                                                         *)
(* Tasks run preemptively on two cores: an action is what one task does    *)
(* between two points where the others can see or disturb it.  A list      *)
(* operation runs under the list's own mutex and is one such step.         *)
(*                                                                         *)
(* A task handle stands for the value its start routine returns, so that   *)
(* the results of different threads are told apart.                        *)
(***************************************************************************)
EXTENDS Naturals, FiniteSets

CONSTANTS
  Task,     \* FreeRTOS task handles; one is used up by each thread created
  Main,     \* the task that runs from boot, and is not a pthread
  Addr,     \* heap blocks a struct pthread may occupy, reused once freed
  NULL,     \* the NULL task handle and the NULL pthread_t
  Kinds,    \* the creation attributes in use: see Kind
  Calls,    \* the calls the application makes: see CallName
  Faults    \* the failures that may happen: see Fault

DETACHED == "DETACHED"
JOINABLE == "JOINABLE"
DetachState == {DETACHED, JOINABLE}

RUN == "RUN"
SUSPEND == "SUSPEND"
InitialState == {RUN, SUSPEND}

\* The detach state, the initial state, and whether the creator resumes the
\* new thread at once (the argument `run' of new_thread, set by thread.start).
Kind == DetachState \X InitialState \X BOOLEAN

CallName == {"join", "detach", "resume"}

\* A failed allocation at each of the places of _pthread_create and
\* pthreadTask that changes state, and a task notification sent by the MQTT
\* callbacks to a task that no longer waits for one.
Fault == {"lstadd_active", "task_args", "lstadd_inactive", "mqtt"}

ASSUME PthreadAssumption ==
  /\ Main \in Task
  /\ NULL \notin Task \cup Addr
  /\ Kinds \subseteq Kind
  /\ Calls \subseteq CallName
  /\ Faults \subseteq Fault

VARIABLES
  alloc,            \* the blocks of Addr that are allocated
  active,           \* field `active' of the struct in each block
  detachstate,      \* field attr.detachstate
  initial_state,    \* field attr.schedparam.initial_state
  joined_task,      \* field joined_task
  res,              \* field res
  task,             \* field task
  active_threads,   \* the list of that name, as the set of its items
  inactive_threads, \* the list of that name
  jammed,           \* the lists whose own mutex was never given back
  thread_mtx,       \* the task that took thread_mtx last, or NULL
  pc,               \* where each task is
  id,               \* the pthread_t the call in progress is about
  created,          \* xCreatedTask of a create in progress
  run,              \* argument `run' of a create in progress
  thread,           \* taskArgs->thread of each thread's task
  parent,           \* taskArgs->parent_task
  pending,          \* the tasks with a pending notification
  nvalue,           \* the notification value of each task
  reaped            \* the threads whose result was handed over or dropped

structVars == <<active, detachstate, initial_state, joined_task, res, task>>
listVars == <<active_threads, inactive_threads, jammed>>
localVars == <<id, created, run>>
argVars == <<thread, parent>>
notifyVars == <<pending, nvalue>>
vars == <<alloc, structVars, listVars, thread_mtx, pc, localVars, argVars,
          notifyVars, reaped>>

\* The code between _pthread_lock and _pthread_unlock.
Critical == {"join_find", "join_act", "detach_find", "detach_act",
             "exit_remove", "exit_store", "exit_unlock"}

Location == Critical \cup
  {"unborn", "start", "suspend", "suspended", "run", "create_spawn",
   "create_wait", "resume", "join_lock", "join_wait", "detach_lock",
   "exit_lock", "dead"}

TypeOK ==
  /\ alloc \subseteq Addr
  /\ active \in [Addr -> BOOLEAN]
  /\ detachstate \in [Addr -> DetachState]
  /\ initial_state \in [Addr -> InitialState]
  /\ joined_task \in [Addr -> Task \cup {NULL}]
  /\ res \in [Addr -> Task \cup {NULL}]
  /\ task \in [Addr -> Task \cup {NULL}]
  /\ active_threads \subseteq Addr
  /\ inactive_threads \subseteq Addr
  /\ jammed \subseteq {"active", "inactive"}
  /\ thread_mtx \in Task \cup {NULL}
  /\ pc \in [Task -> Location]
  /\ id \in [Task -> Addr \cup {NULL}]
  /\ created \in [Task -> Task \cup {NULL}]
  /\ run \in [Task -> BOOLEAN]
  /\ thread \in [Task -> Addr \cup {NULL}]
  /\ parent \in [Task -> Task \cup {NULL}]
  /\ pending \subseteq Task
  /\ nvalue \in [Task -> Task \cup {NULL}]
  /\ reaped \subseteq Task

\* After _pthread_init, with the first task running.
Init ==
  /\ alloc = {}
  /\ active = [a \in Addr |-> FALSE]
  /\ detachstate = [a \in Addr |-> JOINABLE]
  /\ initial_state = [a \in Addr |-> RUN]
  /\ joined_task = [a \in Addr |-> NULL]
  /\ res = [a \in Addr |-> NULL]
  /\ task = [a \in Addr |-> NULL]
  /\ active_threads = {}
  /\ inactive_threads = {}
  /\ jammed = {}
  /\ thread_mtx = NULL
  /\ pc = [t \in Task |-> IF t = Main THEN "run" ELSE "unborn"]
  /\ id = [t \in Task |-> NULL]
  /\ created = [t \in Task |-> NULL]
  /\ run = [t \in Task |-> FALSE]
  /\ thread = [t \in Task |-> NULL]
  /\ parent = [t \in Task |-> NULL]
  /\ pending = {}
  /\ nvalue = [t \in Task |-> NULL]
  /\ reaped = {}

-----------------------------------------------------------------------------
(* Helpers.                                                                *)

Goto(t, l) == pc' = [pc EXCEPT ![t] = l]

\* Mutant: the semaphore is taken without waiting for it.
LockUnguarded(t) == thread_mtx' = t

Lock(t) == thread_mtx = NULL /\ thread_mtx' = t

Unlock == thread_mtx' = NULL

\* lstget, lstadd and lstremove take the list's mutex: they never return
\* from a list whose mutex was not given back.
Usable(lists) == lists \cap jammed = {}

\* _pthread_free(a, 1): the block leaves both lists and is freed.  The two calls
\* of lstremove are one step; once the inactive list is unusable the code has
\* left the active one before it blocks.
Free(a) ==
  /\ Usable({"active", "inactive"})
  /\ active_threads' = active_threads \ {a}
  /\ inactive_threads' = inactive_threads \ {a}
  /\ alloc' = alloc \ ({a} \cap (active_threads \cup inactive_threads))

\* lstget on the active list, then on the inactive one.
Found(a) == a \in active_threads \cup inactive_threads

Lookup(a) ==
  /\ Usable({"active"})
  /\ a \notin active_threads => Usable({"inactive"})

-----------------------------------------------------------------------------
(* _pthread_create, by task t.                                             *)

\* calloc, the fields, lstadd.  (A failing calloc returns EAGAIN and changes
\* nothing.)  malloc may return any free block.
CreateAlloc(t, a, k) ==
  /\ pc[t] = "run"
  /\ a \notin alloc
  /\ Usable({"active"})
  /\ alloc' = alloc \cup {a}
  /\ active' = [active EXCEPT ![a] = TRUE]
  /\ detachstate' = [detachstate EXCEPT ![a] = k[1]]
  /\ initial_state' = [initial_state EXCEPT ![a] = k[2]]
  /\ joined_task' = [joined_task EXCEPT ![a] = NULL]
  /\ res' = [res EXCEPT ![a] = NULL]
  /\ task' = [task EXCEPT ![a] = NULL]
  /\ active_threads' = active_threads \cup {a}
  /\ id' = [id EXCEPT ![t] = a]
  /\ run' = [run EXCEPT ![t] = k[3]]
  /\ Goto(t, "create_spawn")
  /\ UNCHANGED <<inactive_threads, jammed, thread_mtx, created, argVars,
                 notifyVars, reaped>>

\* The calloc inside lstadd fails: lstadd returns ENOMEM with the mutex of
\* the list taken; _pthread_create frees the struct and returns EAGAIN.
CreateListFull(t) ==
  /\ "lstadd_active" \in Faults
  /\ pc[t] = "run"
  /\ Usable({"active"})
  /\ jammed' = jammed \cup {"active"}
  /\ UNCHANGED <<alloc, structVars, active_threads, inactive_threads,
                 thread_mtx, pc, localVars, argVars, notifyVars, reaped>>

\* taskArgs and xTaskCreate: task c starts in pthreadTask.
CreateTask(t, c) ==
  /\ pc[t] = "create_spawn"
  /\ pc[c] = "unborn"
  /\ pc' = [pc EXCEPT ![t] = "create_wait", ![c] = "start"]
  /\ thread' = [thread EXCEPT ![c] = id[t]]
  /\ parent' = [parent EXCEPT ![c] = t]
  /\ created' = [created EXCEPT ![t] = c]
  /\ UNCHANGED <<alloc, structVars, listVars, thread_mtx, id, run,
                 notifyVars, reaped>>

\* taskArgs or the task cannot be allocated: the struct is removed and freed.
CreateTaskFail(t) ==
  /\ "task_args" \in Faults
  /\ pc[t] = "create_spawn"
  /\ Usable({"active"})
  /\ active_threads' = active_threads \ {id[t]}
  /\ alloc' = alloc \ ({id[t]} \cap active_threads)
  /\ Goto(t, "run")
  /\ UNCHANGED <<structVars, inactive_threads, jammed, thread_mtx,
                 localVars, argVars, notifyVars, reaped>>

\* xTaskNotifyWait returns; threadd->task is written, whatever has become of
\* threadd; thread.start goes on to resume the thread.
CreateReturn(t) ==
  /\ pc[t] = "create_wait"
  /\ t \in pending
  /\ pending' = pending \ {t}
  /\ task' = [task EXCEPT ![id[t]] = created[t]]
  /\ Goto(t, IF run[t] THEN "resume" ELSE "run")
  /\ UNCHANGED <<alloc, active, detachstate, initial_state, joined_task, res,
                 listVars, thread_mtx, localVars, argVars, nvalue, reaped>>

-----------------------------------------------------------------------------
(* _pthread_resume.                                                        *)

\* vTaskResume has an effect on a suspended task only; with a NULL handle it is
\* taken to have none.  The lookup and the use of the struct that it finds, both
\* without thread_mtx, are one step: that the struct is freed in between is left
\* out.
ResumeTask(t, a, l) ==
  LET target == task[a] IN
  /\ Usable({"active"})
  /\ pc' = IF a \in active_threads /\ target \in Task /\ target # t
                                   /\ pc[target] = "suspended"
           THEN [pc EXCEPT ![t] = l, ![target] = "run"]
           ELSE [pc EXCEPT ![t] = l]
  /\ UNCHANGED <<alloc, structVars, listVars, thread_mtx, localVars, argVars,
                 notifyVars, reaped>>

\* The end of new_thread, for thread.start.
StartResume(t) == pc[t] = "resume" /\ ResumeTask(t, id[t], "run")

\* A call from elsewhere (thread.resume), with any id.
Resume(t, a) ==
  /\ "resume" \in Calls
  /\ pc[t] = "run"
  /\ ResumeTask(t, a, "run")

-----------------------------------------------------------------------------
(* _pthread_join, by task t.                                               *)

Join(t, a) ==
  /\ "join" \in Calls
  /\ pc[t] = "run"
  /\ id' = [id EXCEPT ![t] = a]
  /\ Goto(t, "join_lock")
  /\ UNCHANGED <<alloc, structVars, listVars, thread_mtx, created, run,
                 argVars, notifyVars, reaped>>

JoinLock(t) ==
  /\ pc[t] = "join_lock"
  /\ Lock(t)
  /\ Goto(t, "join_find")
  /\ UNCHANGED <<alloc, structVars, listVars, localVars, argVars, notifyVars,
                 reaped>>

\* Not found: unlock, ESRCH.
JoinFind(t) ==
  /\ pc[t] = "join_find"
  /\ Lookup(id[t])
  /\ IF Found(id[t])
     THEN Goto(t, "join_act") /\ UNCHANGED thread_mtx
     ELSE Goto(t, "run") /\ Unlock
  /\ UNCHANGED <<alloc, structVars, listVars, localVars, argVars, notifyVars,
                 reaped>>

\* Mutant: a refused join returns without unlocking.
JoinRefuseKeeps(t) ==
  /\ pc[t] = "join_act"
  /\ \/ detachstate[id[t]] = DETACHED
     \/ active[id[t]] /\ joined_task[id[t]] # NULL
  /\ Goto(t, "run")
  /\ UNCHANGED <<alloc, structVars, listVars, thread_mtx, localVars, argVars,
                 notifyVars, reaped>>

\* A detached thread, or one that another task waits for: unlock, EINVAL.
JoinRefuse(t) ==
  /\ pc[t] = "join_act"
  /\ \/ detachstate[id[t]] = DETACHED
     \/ active[id[t]] /\ joined_task[id[t]] # NULL
  /\ Unlock
  /\ Goto(t, "run")
  /\ UNCHANGED <<alloc, structVars, listVars, localVars, argVars, notifyVars,
                 reaped>>

\* Mutant: join does not test for another joined_task.
JoinActiveTwice(t) ==
  /\ pc[t] = "join_act"
  /\ detachstate[id[t]] = JOINABLE
  /\ active[id[t]]
  /\ joined_task' = [joined_task EXCEPT ![id[t]] = t]
  /\ Unlock
  /\ Goto(t, "join_wait")
  /\ UNCHANGED <<alloc, active, detachstate, initial_state, res, task,
                 listVars, localVars, argVars, notifyVars, reaped>>

\* The thread has not ended: become its joined_task, unlock, wait.
JoinActive(t) ==
  /\ pc[t] = "join_act"
  /\ detachstate[id[t]] = JOINABLE
  /\ active[id[t]]
  /\ joined_task[id[t]] = NULL
  /\ joined_task' = [joined_task EXCEPT ![id[t]] = t]
  /\ Unlock
  /\ Goto(t, "join_wait")
  /\ UNCHANGED <<alloc, active, detachstate, initial_state, res, task,
                 listVars, localVars, argVars, notifyVars, reaped>>

\* Mutant: join does not free the struct it took the result from.
JoinInactiveKeeps(t) ==
  /\ pc[t] = "join_act"
  /\ detachstate[id[t]] = JOINABLE
  /\ ~active[id[t]]
  /\ reaped' = reaped \cup ({res[id[t]]} \cap Task)
  /\ Unlock
  /\ Goto(t, "run")
  /\ UNCHANGED <<alloc, structVars, listVars, localVars, argVars, notifyVars>>

\* The thread has ended: take its result, free it, unlock.
JoinInactive(t) ==
  /\ pc[t] = "join_act"
  /\ detachstate[id[t]] = JOINABLE
  /\ ~active[id[t]]
  /\ reaped' = reaped \cup ({res[id[t]]} \cap Task)
  /\ Free(id[t])
  /\ Unlock
  /\ Goto(t, "run")
  /\ UNCHANGED <<structVars, jammed, localVars, argVars, notifyVars>>

\* xTaskNotifyWait returns with the notification value, the result of join.
JoinReturn(t) ==
  /\ pc[t] = "join_wait"
  /\ t \in pending
  /\ pending' = pending \ {t}
  /\ reaped' = reaped \cup ({nvalue[t]} \cap Task)
  /\ Goto(t, "run")
  /\ UNCHANGED <<alloc, structVars, listVars, thread_mtx, localVars, argVars,
                 nvalue>>

-----------------------------------------------------------------------------
(* _pthread_detach, by task t.                                             *)

Detach(t, a) ==
  /\ "detach" \in Calls
  /\ pc[t] = "run"
  /\ id' = [id EXCEPT ![t] = a]
  /\ Goto(t, "detach_lock")
  /\ UNCHANGED <<alloc, structVars, listVars, thread_mtx, created, run,
                 argVars, notifyVars, reaped>>

DetachLock(t) ==
  /\ pc[t] = "detach_lock"
  /\ Lock(t)
  /\ Goto(t, "detach_find")
  /\ UNCHANGED <<alloc, structVars, listVars, localVars, argVars, notifyVars,
                 reaped>>

DetachFind(t) ==
  /\ pc[t] = "detach_find"
  /\ Lookup(id[t])
  /\ IF Found(id[t])
     THEN Goto(t, "detach_act") /\ UNCHANGED thread_mtx
     ELSE Goto(t, "run") /\ Unlock
  /\ UNCHANGED <<alloc, structVars, listVars, localVars, argVars, notifyVars,
                 reaped>>

\* Already detached: EINVAL, without unlocking thread_mtx.
DetachRefuse(t) ==
  /\ pc[t] = "detach_act"
  /\ detachstate[id[t]] = DETACHED
  /\ Goto(t, "run")
  /\ UNCHANGED <<alloc, structVars, listVars, thread_mtx, localVars, argVars,
                 notifyVars, reaped>>

\* Mutant: detach frees the struct also of a thread that still runs.
DetachActFrees(t) ==
  /\ pc[t] = "detach_act"
  /\ detachstate[id[t]] = JOINABLE
  /\ Free(id[t])
  /\ Unlock
  /\ Goto(t, "run")
  /\ UNCHANGED <<structVars, jammed, localVars, argVars, notifyVars, reaped>>

\* A thread that has ended is freed, and its result dropped.
DetachAct(t) ==
  /\ pc[t] = "detach_act"
  /\ detachstate[id[t]] = JOINABLE
  /\ Usable({"inactive"})
  /\ detachstate' = [detachstate EXCEPT ![id[t]] = DETACHED]
  /\ inactive_threads' = inactive_threads \ {id[t]}
  /\ alloc' = alloc \ ({id[t]} \cap inactive_threads)
  /\ reaped' = IF id[t] \in inactive_threads
               THEN reaped \cup ({res[id[t]]} \cap Task) ELSE reaped
  /\ Unlock
  /\ Goto(t, "run")
  /\ UNCHANGED <<active, initial_state, joined_task, res, task,
                 active_threads, jammed, localVars, argVars, notifyVars>>

-----------------------------------------------------------------------------
(* pthreadTask, by the task c of a thread.                                 *)

\* Mutant: the new thread does not suspend itself.
TaskStartRuns(c) ==
  /\ pc[c] = "start"
  /\ pending' = pending \cup ({parent[c]} \cap Task)
  /\ Goto(c, "run")
  /\ UNCHANGED <<alloc, structVars, listVars, thread_mtx, localVars, argVars,
                 nvalue, reaped>>

\* The TCB parts are set (not modelled), then the parent is notified with
\* eNoAction: the notification value stays as it is.
TaskStart(c) ==
  /\ pc[c] = "start"
  /\ pending' = pending \cup ({parent[c]} \cap Task)
  /\ Goto(c, IF initial_state[thread[c]] = SUSPEND THEN "suspend" ELSE "run")
  /\ UNCHANGED <<alloc, structVars, listVars, thread_mtx, localVars, argVars,
                 nvalue, reaped>>

\* vTaskSuspend(NULL).
TaskSuspend(c) ==
  /\ pc[c] = "suspend"
  /\ Goto(c, "suspended")
  /\ UNCHANGED <<alloc, structVars, listVars, thread_mtx, localVars, argVars,
                 notifyVars, reaped>>

\* The start routine returns.
TaskReturn(c) ==
  /\ c # Main
  /\ pc[c] = "run"
  /\ Goto(c, "exit_lock")
  /\ UNCHANGED <<alloc, structVars, listVars, thread_mtx, localVars, argVars,
                 notifyVars, reaped>>

ExitLock(c) ==
  /\ pc[c] = "exit_lock"
  /\ Lock(c)
  /\ Goto(c, "exit_remove")
  /\ UNCHANGED <<alloc, structVars, listVars, localVars, argVars, notifyVars,
                 reaped>>

\* Mutants: the joined task is notified but the struct is not given up; it is
\* notified with eNoAction, without a value; it is not notified.
ExitJoinedKeeps(c) ==
  LET a == thread[c] IN
  /\ pc[c] = "exit_remove"
  /\ detachstate[a] = JOINABLE
  /\ joined_task[a] # NULL
  /\ pending' = pending \cup {joined_task[a]}
  /\ nvalue' = [nvalue EXCEPT ![joined_task[a]] = c]
  /\ Goto(c, "exit_unlock")
  /\ UNCHANGED <<alloc, structVars, listVars, thread_mtx, localVars, argVars,
                 reaped>>

ExitJoinedNoValue(c) ==
  LET a == thread[c] IN
  /\ pc[c] = "exit_remove"
  /\ detachstate[a] = JOINABLE
  /\ joined_task[a] # NULL
  /\ pending' = pending \cup {joined_task[a]}
  /\ joined_task' = [joined_task EXCEPT ![a] = NULL]
  /\ Free(a)
  /\ Goto(c, "exit_unlock")
  /\ UNCHANGED <<active, detachstate, initial_state, res, task, jammed,
                 thread_mtx, localVars, argVars, nvalue, reaped>>

ExitJoinedSilent(c) ==
  LET a == thread[c] IN
  /\ pc[c] = "exit_remove"
  /\ detachstate[a] = JOINABLE
  /\ joined_task[a] # NULL
  /\ joined_task' = [joined_task EXCEPT ![a] = NULL]
  /\ Free(a)
  /\ Goto(c, "exit_unlock")
  /\ UNCHANGED <<active, detachstate, initial_state, res, task, jammed,
                 thread_mtx, localVars, argVars, notifyVars, reaped>>

\* Joinable, and a task waits: hand it the result, free the struct.
ExitJoined(c) ==
  LET a == thread[c] IN
  /\ pc[c] = "exit_remove"
  /\ detachstate[a] = JOINABLE
  /\ joined_task[a] # NULL
  /\ pending' = pending \cup {joined_task[a]}
  /\ nvalue' = [nvalue EXCEPT ![joined_task[a]] = c]
  /\ joined_task' = [joined_task EXCEPT ![a] = NULL]
  /\ Free(a)
  /\ Goto(c, "exit_unlock")
  /\ UNCHANGED <<active, detachstate, initial_state, res, task, jammed,
                 thread_mtx, localVars, argVars, reaped>>

\* Mutant: the thread is not taken off the active list.
ExitUnjoinedStays(c) ==
  /\ pc[c] = "exit_remove"
  /\ detachstate[thread[c]] = JOINABLE
  /\ joined_task[thread[c]] = NULL
  /\ Goto(c, "exit_store")
  /\ UNCHANGED <<alloc, structVars, listVars, thread_mtx, localVars, argVars,
                 notifyVars, reaped>>

\* Joinable, and no task waits: _pthread_free(thread, 0) ...
ExitUnjoined(c) ==
  LET a == thread[c] IN
  /\ pc[c] = "exit_remove"
  /\ detachstate[a] = JOINABLE
  /\ joined_task[a] = NULL
  /\ Usable({"active", "inactive"})
  /\ active_threads' = active_threads \ {a}
  /\ inactive_threads' = inactive_threads \ {a}
  /\ Goto(c, "exit_store")
  /\ UNCHANGED <<alloc, structVars, jammed, thread_mtx, localVars, argVars,
                 notifyVars, reaped>>

\* Mutant: the struct is not put on the inactive list.
ExitStoreUnlisted(c) ==
  /\ pc[c] = "exit_store"
  /\ active' = [active EXCEPT ![thread[c]] = FALSE]
  /\ res' = [res EXCEPT ![thread[c]] = c]
  /\ Goto(c, "exit_unlock")
  /\ UNCHANGED <<alloc, detachstate, initial_state, joined_task, task,
                 listVars, thread_mtx, localVars, argVars, notifyVars, reaped>>

\* ... then the result is kept and the struct put on the inactive list.  If
\* lstadd cannot allocate it returns with the mutex of the list taken.
ExitStore(c) ==
  LET a == thread[c] IN
  /\ pc[c] = "exit_store"
  /\ Usable({"inactive"})
  /\ active' = [active EXCEPT ![a] = FALSE]
  /\ res' = [res EXCEPT ![a] = c]
  /\ \/ /\ inactive_threads' = inactive_threads \cup {a}
        /\ UNCHANGED jammed
     \/ /\ "lstadd_inactive" \in Faults
        /\ jammed' = jammed \cup {"inactive"}
        /\ UNCHANGED inactive_threads
  /\ Goto(c, "exit_unlock")
  /\ UNCHANGED <<alloc, detachstate, initial_state, joined_task, task,
                 active_threads, thread_mtx, localVars, argVars, notifyVars,
                 reaped>>

\* Detached: free the struct, drop the result.
ExitDetached(c) ==
  /\ pc[c] = "exit_remove"
  /\ detachstate[thread[c]] = DETACHED
  /\ Free(thread[c])
  /\ reaped' = reaped \cup {c}
  /\ Goto(c, "exit_unlock")
  /\ UNCHANGED <<structVars, jammed, thread_mtx, localVars, argVars,
                 notifyVars>>

\* free(taskArgs), unlock, vTaskDelete(NULL).
ExitUnlock(c) ==
  /\ pc[c] = "exit_unlock"
  /\ Unlock
  /\ Goto(c, "dead")
  /\ UNCHANGED <<alloc, structVars, listVars, localVars, argVars, notifyVars,
                 reaped>>

-----------------------------------------------------------------------------
(* The MQTT callbacks of lua/modules/middleware/mqtt.c notify the task that *)
(* called connect or disconnect; after its timeout, or when disconnect did  *)
(* not wait, the task is no longer waiting and the notification stays.      *)
StrayNotify(t) ==
  /\ "mqtt" \in Faults
  /\ pc[t] = "run"
  /\ pending' = pending \cup {t}
  /\ nvalue' = [nvalue EXCEPT ![t] = NULL]
  /\ UNCHANGED <<alloc, structVars, listVars, thread_mtx, pc, localVars,
                 argVars, reaped>>

-----------------------------------------------------------------------------
Create(t) ==
  \/ \E a \in Addr, k \in Kinds : CreateAlloc(t, a, k)
  \/ CreateListFull(t)
  \/ \E c \in Task : CreateTask(t, c)
  \/ CreateTaskFail(t)
  \/ CreateReturn(t)

Joining(t) ==
  \/ \E a \in Addr : Join(t, a)
  \/ JoinLock(t)
  \/ JoinFind(t)
  \/ JoinRefuse(t)
  \/ JoinActive(t)
  \/ JoinInactive(t)
  \/ JoinReturn(t)

Detaching(t) ==
  \/ \E a \in Addr : Detach(t, a)
  \/ DetachLock(t)
  \/ DetachFind(t)
  \/ DetachRefuse(t)
  \/ DetachAct(t)

Exit(t) ==
  \/ TaskReturn(t)
  \/ ExitLock(t)
  \/ ExitJoined(t)
  \/ ExitUnjoined(t)
  \/ ExitStore(t)
  \/ ExitDetached(t)
  \/ ExitUnlock(t)

TaskStep(t) ==
  \/ Create(t)
  \/ StartResume(t)
  \/ \E a \in Addr : Resume(t, a)
  \/ Joining(t)
  \/ Detaching(t)
  \/ TaskStart(t)
  \/ TaskSuspend(t)
  \/ Exit(t)
  \/ StrayNotify(t)

Next == \E t \in Task : TaskStep(t)

Spec == Init /\ [][Next]_vars

\* Each task keeps running, and the semaphore serves its waiters in turn; an
\* application need not call anything, nor a start routine return.
Obliged(t) ==
  \/ \E c \in Task : CreateTask(t, c)
  \/ CreateReturn(t)
  \/ StartResume(t)
  \/ JoinFind(t) \/ JoinRefuse(t) \/ JoinActive(t) \/ JoinInactive(t)
  \/ JoinReturn(t)
  \/ DetachFind(t) \/ DetachRefuse(t) \/ DetachAct(t)
  \/ TaskStart(t) \/ TaskSuspend(t)
  \/ ExitJoined(t) \/ ExitUnjoined(t) \/ ExitStore(t) \/ ExitDetached(t)
  \/ ExitUnlock(t)

Locking(t) == JoinLock(t) \/ DetachLock(t) \/ ExitLock(t)

Fairness == \A t \in Task : WF_vars(Obliged(t)) /\ SF_vars(Locking(t))

FairSpec == Spec /\ Fairness

-----------------------------------------------------------------------------
(* Properties.                                                             *)

\* The task of a thread that has not yet left the lists.
Running(c) == pc[c] \notin {"unborn", "dead", "exit_unlock"} /\ c # Main

\* _pthread_lock makes the bodies of join, detach and of the exit of a thread
\* exclude each other, also after an error return that keeps the mutex.
MutualExclusion ==
  \A t1, t2 \in Task :
    pc[t1] \in Critical /\ pc[t2] \in Critical => t1 = t2

\* "A mutex to sync with critical parts": outside of the critical parts
\* nobody holds thread_mtx.
HeldInsideOnly == thread_mtx # NULL => pc[thread_mtx] \in Critical

\* Neither list holds a freed struct, no struct is on both (so no block is
\* freed twice), a struct on the active list is marked active, and one on
\* the inactive list is an ended, joinable thread nobody waits for.
ListsSound ==
  /\ active_threads \cup inactive_threads \subseteq alloc
  /\ active_threads \cap inactive_threads = {}
  /\ \A a \in active_threads : active[a]
  /\ \A a \in inactive_threads :
       /\ ~active[a]
       /\ detachstate[a] = JOINABLE
       /\ joined_task[a] = NULL

\* Every struct on the heap can still be reached: it is on a list or its
\* thread is about to put it there.
NoLeak ==
  \A a \in alloc :
    \/ a \in active_threads \cup inactive_threads
    \/ \E c \in Task : pc[c] = "exit_store" /\ thread[c] = a

\* Two tasks never run the same struct: a block is not given to a new thread
\* while the one it belonged to still uses it.
OneRunner ==
  \A c1, c2 \in Task :
    Running(c1) /\ Running(c2) /\ c1 # c2 => thread[c1] # thread[c2]

\* joined_task is a task that waits, without a notification yet, in the join
\* of this very thread.
JoinedIsWaiting ==
  \A a \in alloc : joined_task[a] # NULL =>
    /\ pc[joined_task[a]] = "join_wait"
    /\ id[joined_task[a]] = a
    /\ joined_task[a] \notin pending

\* "Wait until the thread ends": a task that waits in join has been notified
\* or is the joined_task of a thread that has not ended.
WaitsForLiveThread ==
  \A t \in Task : pc[t] = "join_wait" =>
    \/ t \in pending
    \/ id[t] \in active_threads /\ joined_task[id[t]] = t

\* The value join is about to return was returned by the thread it waited
\* for, which is over.
JoinValue ==
  \A t \in Task : pc[t] = "join_wait" /\ t \in pending =>
    /\ nvalue[t] \in Task
    /\ thread[nvalue[t]] = id[t]
    /\ pc[nvalue[t]] \in {"exit_unlock", "dead"}

\* Where the result of thread c can be had from.
Holders(c) ==
  {a \in inactive_threads : res[a] = c}
    \cup {t \in Task : pc[t] = "join_wait" /\ t \in pending /\ nvalue[t] = c}

\* "We must to store this threads in a list to allow joins after the thread
\* termination": the result of an ended thread is in exactly one place until
\* it is handed over or dropped by detach, and nowhere afterwards.
ResultOnce ==
  \A c \in Task : pc[c] = "dead" =>
    Cardinality(Holders(c)) = IF c \in reaped THEN 0 ELSE 1

\* What the proofs need besides: the struct of a create in progress is listed
\* and nobody else's, and the struct an ending thread has taken off the
\* active list is still on the heap, unlisted, joinable and unjoined.
OwnStruct ==
  /\ \A t \in Task : pc[t] = "create_spawn" =>
       /\ id[t] \in active_threads
       /\ \A c \in Task : Running(c) => thread[c] # id[t]
       /\ \A t2 \in Task : pc[t2] = "create_spawn" /\ t2 # t
                             => id[t2] # id[t]
  /\ \A c \in Task : Running(c) /\ pc[c] # "exit_store"
                       => thread[c] \in active_threads
  /\ \A c \in Task : pc[c] = "exit_store" =>
       /\ thread[c] \in alloc \ (active_threads \cup inactive_threads)
       /\ detachstate[thread[c]] = JOINABLE
       /\ joined_task[thread[c]] = NULL

\* The task in a critical part is the one that took thread_mtx.
HolderOnly == \A t \in Task : pc[t] \in Critical => thread_mtx = t

\* The first task does not run pthreadTask.
MainIsNoThread ==
  pc[Main] \in Location \ {"unborn", "start", "suspend", "suspended",
                           "exit_lock", "exit_remove", "exit_store",
                           "exit_unlock", "dead"}

\* The inductive invariant behind the safety theorems.
Safety ==
  /\ TypeOK
  /\ HolderOnly
  /\ MainIsNoThread
  /\ ListsSound
  /\ OneRunner
  /\ OwnStruct

\* When the creator is woken to write threadd->task, the thread is still
\* there, run by the task the creator created: its self-suspension keeps it
\* from ending before its creator has stored the handle it is resumed by.
CreatedStillThere ==
  \A t \in Task : pc[t] = "create_wait" =>
    /\ id[t] \in active_threads
    /\ created[t] \in Task
    /\ thread[created[t]] = id[t]
    /\ pc[created[t]] \in {"start", "suspend", "suspended"}

\* A handle stored in a listed thread is that of the task that runs it: what
\* resume finds under an id is the task of that thread.
TaskIsRunner ==
  \A a \in active_threads : task[a] # NULL =>
    thread[task[a]] = a /\ pc[task[a]] \notin {"unborn", "dead"}

\* No task is in _pthread_detach.
NobodyDetaches ==
  \A t \in Task : pc[t] \notin {"detach_lock", "detach_find", "detach_act"}

\* Without stray notifications a task is notified only while it waits, and a
\* thread that has not yet notified its creator has a creator that waits for
\* it.
NotifiedWaits ==
  /\ \A t \in pending : pc[t] \in {"create_wait", "join_wait"}
  /\ \A c \in Task : pc[c] = "start" =>
       /\ parent[c] \in Task \ pending
       /\ pc[parent[c]] = "create_wait"
       /\ created[parent[c]] = c

\* The inductive invariant of the notifications.
JoinSound == NotifiedWaits /\ JoinedIsWaiting /\ JoinValue

\* Without detach and failing creations: what join has found stays listed,
\* and a thread with a joined_task is joinable.
FoundListed ==
  /\ NobodyDetaches
  /\ \A t \in Task : pc[t] = "join_act" => Found(id[t])
  /\ \A a \in active_threads : joined_task[a] # NULL => detachstate[a] = JOINABLE

\* The inductive invariant of the waits for a thread.
WaitSound == FoundListed /\ WaitsForLiveThread

\* A thread that has left the lists.
Over(c) == pc[c] \in {"exit_unlock", "dead"}

\* A struct on the inactive list keeps the result of the thread it belonged
\* to; the struct a join or a detach works on is such a struct, or active.
ResultKept ==
  /\ \A a \in inactive_threads :
       /\ res[a] \in Task
       /\ thread[res[a]] = a
       /\ Over(res[a])
  /\ \A t \in Task : pc[t] = "join_act" =>
       active[id[t]] \/ id[t] \in inactive_threads

\* The result of a thread that is over is held once, until it is reaped.
HeldOnce ==
  /\ \A t1, t2 \in pending :
       /\ pc[t1] = "join_wait" /\ pc[t2] = "join_wait"
       /\ nvalue[t1] = nvalue[t2]
       => t1 = t2
  /\ \A a \in inactive_threads, t \in pending :
       pc[t] = "join_wait" => res[a] # nvalue[t]
  /\ \A c \in reaped : Over(c) /\ Holders(c) = {}
  /\ \A c \in Task : Over(c) /\ c \notin reaped => Holders(c) # {}

\* The inductive invariant of the results.
ResultSound == JoinSound /\ ResultKept /\ HeldOnce

\* Threads created suspended: the struct of a create in progress has no task
\* handle yet, the thread waits to be resumed by it, and a handle in a listed
\* struct is that of the task that runs it.
CreateSound ==
  /\ \A t \in Task : pc[t] \in {"create_spawn", "create_wait"} =>
       /\ id[t] \in active_threads
       /\ task[id[t]] = NULL
       /\ initial_state[id[t]] = SUSPEND
  /\ \A t \in Task : pc[t] = "create_wait" =>
       /\ created[t] \in Task
       /\ parent[created[t]] = t
       /\ thread[created[t]] = id[t]
       /\ pc[created[t]] \in {"start", "suspend", "suspended"}
  /\ \A c \in Task : Running(c) => initial_state[thread[c]] = SUSPEND
  /\ \A a \in active_threads : task[a] # NULL =>
       thread[task[a]] = a /\ Running(task[a])

\* "Create a new thread and run it": a thread that thread.start created is
\* not left suspended once thread.start has returned.
StartedRuns ==
  \A c \in Task : pc[c] = "suspended" =>
    pc[parent[c]] \in {"create_wait", "resume"}

\* "Wait for the initialization of Lua RTOS specific TCB parts": when create
\* has returned, the new thread has done it.
InitBeforeReturn ==
  \A t \in Task : pc[t] # "create_wait" /\ created[t] # NULL
                    => pc[created[t]] # "start"

\* A thread whose start routine returned ends: nobody keeps thread_mtx.
ExitCompletes ==
  \A c \in Task : pc[c] = "exit_lock" ~> pc[c] = "dead"

\* A join of a thread whose start routine returned comes back.
JoinCompletes ==
  \A t, c \in Task :
    (pc[t] = "join_wait" /\ pc[c] = "exit_lock" /\ thread[c] = id[t])
      ~> pc[t] # "join_wait"
=============================================================================
