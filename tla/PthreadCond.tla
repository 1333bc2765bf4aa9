---------------------------- MODULE PthreadCond ----------------------------
(***************************************************************************)
(* Condition variables: pthread/cond.c over one FreeRTOS event group, used *)
(* with one pthread mutex (pthread/mutex.c, already initialised).          *)
(*                                                                         *)
(* Each waiter takes a bit of `referenced' and waits for that bit of the   *)
(* event group.  scond->mutex protects the taking of a bit and the loop of *)
(* signal; a waiter that timed out clears its bit under the user's mutex   *)
(* instead, so `referenced &= ~bit' is a read and a write that the other   *)
(* core can come between.                                                  *)
(***************************************************************************)
EXTENDS Naturals, FiniteSets, FiniteSetsExt

CONSTANTS
  Thread,   \* the threads that use the condition variable
  Waiters,  \* those of them that wait on it; the others signal
  NULL,     \* no thread
  NBits,    \* BITS_PER_EVENT_GROUP
  Timed     \* whether threads wait with an absolute time

ASSUME CondAssumption ==
  /\ NULL \notin Thread
  /\ Waiters \subseteq Thread
  /\ NBits \in Nat \ {0}
  /\ Timed \in BOOLEAN

Bits == 0 .. NBits - 1

VARIABLES
  referenced,   \* the bits in use
  ev,           \* the event group
  destroyed,    \* whether cond_destroy deleted scond->mutex
  smutex,       \* the thread that holds scond->mutex
  mutex,        \* the thread that holds the user's mutex
  pc, bit,      \* where each thread is, its local variable `bit' (else 0)
  tmp,          \* the value of `referenced' a thread has read (else {})
  late          \* history: who took a bit behind the back of a destroy

vars == <<referenced, ev, destroyed, smutex, mutex, pc, bit, tmp, late>>

\* Inside cond_timedwait, with a bit taken and its event not yet seen.
Waiting == {"armed", "released", "blocked"}

Location == Waiting \cup
  {"out", "holding", "taking", "relock", "timedout", "clear_read",
   "clear_write", "sig_test", "sig_read", "sig_write",
   "destroy_give", "destroy_delete"}

TypeOK ==
  /\ referenced \subseteq Bits
  /\ ev \subseteq Bits
  /\ destroyed \in BOOLEAN
  /\ smutex \in Thread \cup {NULL}
  /\ mutex \in Thread \cup {NULL}
  /\ pc \in [Thread -> Location]
  /\ bit \in [Thread -> 0 .. NBits]
  /\ tmp \in [Thread -> SUBSET Bits]
  /\ late \subseteq Thread

\* After cond_init and mutex_init.
Init ==
  /\ referenced = {}
  /\ ev = {}
  /\ destroyed = FALSE
  /\ smutex = NULL
  /\ mutex = NULL
  /\ pc = [t \in Thread |-> "out"]
  /\ bit = [t \in Thread |-> 0]
  /\ tmp = [t \in Thread |-> {}]
  /\ late = {}

Goto(t, l) == pc' = [pc EXCEPT ![t] = l]

-----------------------------------------------------------------------------
(* pthread_mutex_lock and pthread_mutex_unlock by the application.         *)

Lock(t) ==
  /\ pc[t] = "out"
  /\ mutex = NULL
  /\ mutex' = t
  /\ Goto(t, "holding")
  /\ UNCHANGED <<referenced, ev, destroyed, smutex, bit, tmp, late>>

Unlock(t) ==
  /\ pc[t] = "holding"
  /\ mutex' = NULL
  /\ Goto(t, "out")
  /\ UNCHANGED <<referenced, ev, destroyed, smutex, bit, tmp, late>>

-----------------------------------------------------------------------------
(* pthread_cond_timedwait.                                                 *)

\* mtx_lock(&scond->mutex).
WaitLock(t) ==
  /\ t \in Waiters
  /\ pc[t] = "holding"
  /\ ~destroyed
  /\ smutex = NULL
  /\ smutex' = t
  /\ Goto(t, "taking")
  /\ UNCHANGED <<referenced, ev, destroyed, mutex, bit, tmp, late>>

\* A destroy has given scond->mutex and is about to delete it.
Deleting == \E u \in Thread : pc[u] = "destroy_delete"

\* The first unused bit is taken and scond->mutex given.  If there is no bit,
\* wait returns EINVAL with the user's mutex still held.  The semaphore may have
\* been deleted meanwhile: giving it is undefined, and the thread stops here.
WaitBit(t) ==
  /\ pc[t] = "taking"
  /\ ~destroyed
  /\ smutex' = NULL
  /\ IF referenced = Bits
     THEN Goto(t, "holding") /\ UNCHANGED <<referenced, bit, late>>
     ELSE LET b == Min(Bits \ referenced) IN
          /\ referenced' = referenced \cup {b}
          /\ bit' = [bit EXCEPT ![t] = b]
          /\ late' = IF Deleting THEN late \cup {t} ELSE late
          /\ Goto(t, "armed")
  /\ UNCHANGED <<ev, destroyed, mutex, tmp>>

\* The absolute time is already past: ETIMEDOUT, with the bit still taken.
PastTime(t) ==
  /\ Timed
  /\ pc[t] = "armed"
  /\ bit' = [bit EXCEPT ![t] = 0]
  /\ Goto(t, "holding")
  /\ UNCHANGED <<referenced, ev, destroyed, smutex, mutex, tmp, late>>

\* pthread_mutex_unlock(mutex).
Release(t) ==
  /\ pc[t] = "armed"
  /\ mutex' = NULL
  /\ Goto(t, "released")
  /\ UNCHANGED <<referenced, ev, destroyed, smutex, bit, tmp, late>>

\* xEventGroupWaitBits, clearing on exit: returns at once if the bit is set.
WaitBits(t) ==
  /\ pc[t] = "released"
  /\ IF bit[t] \in ev
     THEN ev' = ev \ {bit[t]} /\ Goto(t, "relock")
     ELSE Goto(t, "blocked") /\ UNCHANGED ev
  /\ UNCHANGED <<referenced, destroyed, smutex, mutex, bit, tmp, late>>

\* The wait for the bit times out.
Timeout(t) ==
  /\ Timed
  /\ pc[t] = "blocked"
  /\ Goto(t, "timedout")
  /\ UNCHANGED <<referenced, ev, destroyed, smutex, mutex, bit, tmp, late>>

\* pthread_mutex_lock(mutex), then return 0, or go on to clear the bit.
Relock(t) ==
  /\ pc[t] \in {"relock", "timedout"}
  /\ mutex = NULL
  /\ mutex' = t
  /\ IF pc[t] = "relock"
     THEN Goto(t, "holding") /\ bit' = [bit EXCEPT ![t] = 0]
     ELSE Goto(t, "clear_read") /\ UNCHANGED bit
  /\ UNCHANGED <<referenced, ev, destroyed, smutex, tmp, late>>

\* referenced &= ~(1 << bit), not under scond->mutex ...
ClearRead(t) ==
  /\ pc[t] = "clear_read"
  /\ tmp' = [tmp EXCEPT ![t] = referenced]
  /\ Goto(t, "clear_write")
  /\ UNCHANGED <<referenced, ev, destroyed, smutex, mutex, bit, late>>

\* ... then pthread_mutex_unlock(mutex) and ETIMEDOUT: the caller is back
\* without the mutex.
ClearWrite(t) ==
  /\ pc[t] = "clear_write"
  /\ referenced' = tmp[t] \ {bit[t]}
  /\ tmp' = [tmp EXCEPT ![t] = {}]
  /\ bit' = [bit EXCEPT ![t] = 0]
  /\ mutex' = NULL
  /\ Goto(t, "out")
  /\ UNCHANGED <<ev, destroyed, smutex, late>>

-----------------------------------------------------------------------------
(* pthread_cond_signal, with or without the user's mutex.                  *)

SignalLock(t) ==
  /\ pc[t] \in {"out", "holding"}
  /\ ~destroyed
  /\ smutex = NULL
  /\ smutex' = t
  /\ bit' = [bit EXCEPT ![t] = 0]
  /\ Goto(t, "sig_test")
  /\ UNCHANGED <<referenced, ev, destroyed, mutex, tmp, late>>

\* The threads blocked on bit b.  xEventGroupSetBits unblocks them and, if
\* there is one, clears the bit on its behalf.
Blocked(b) == {u \in Thread : pc[u] = "blocked" /\ bit[u] = b}

\* Mutant: the bit is given up without setting the event.
SignalBitSilent(t) ==
  /\ pc[t] = "sig_test"
  /\ bit[t] \in referenced
  /\ Goto(t, "sig_read")
  /\ UNCHANGED <<referenced, ev, destroyed, smutex, mutex, bit, tmp, late>>

SignalBit(t) ==
  /\ pc[t] = "sig_test"
  /\ bit[t] \in referenced
  /\ LET woken == Blocked(bit[t]) IN
     /\ ev' = IF woken = {} THEN ev \cup {bit[t]} ELSE ev \ {bit[t]}
     /\ pc' = [u \in Thread |-> IF u \in woken THEN "relock"
                                ELSE IF u = t THEN "sig_read" ELSE pc[u]]
  /\ UNCHANGED <<referenced, destroyed, smutex, mutex, bit, tmp, late>>

SignalRead(t) ==
  /\ pc[t] = "sig_read"
  /\ tmp' = [tmp EXCEPT ![t] = referenced]
  /\ Goto(t, "sig_write")
  /\ UNCHANGED <<referenced, ev, destroyed, smutex, mutex, bit, late>>

SignalWrite(t) ==
  /\ pc[t] = "sig_write"
  /\ referenced' = tmp[t] \ {bit[t]}
  /\ tmp' = [tmp EXCEPT ![t] = {}]
  /\ bit' = [bit EXCEPT ![t] = @ + 1]
  /\ Goto(t, "sig_test")
  /\ UNCHANGED <<ev, destroyed, smutex, mutex, late>>

SignalSkip(t) ==
  /\ pc[t] = "sig_test"
  /\ bit[t] \in Bits \ referenced
  /\ bit' = [bit EXCEPT ![t] = @ + 1]
  /\ UNCHANGED <<referenced, ev, destroyed, smutex, mutex, pc, tmp, late>>

\* mtx_unlock.  As in wait, a semaphore deleted meanwhile stops the thread.
SignalUnlock(t) ==
  /\ pc[t] = "sig_test"
  /\ bit[t] = NBits
  /\ ~destroyed
  /\ smutex' = NULL
  /\ bit' = [bit EXCEPT ![t] = 0]
  /\ Goto(t, IF mutex = t THEN "holding" ELSE "out")
  /\ UNCHANGED <<referenced, ev, destroyed, mutex, tmp, late>>

-----------------------------------------------------------------------------
(* pthread_cond_destroy.                                                   *)

\* Mutant: no EBUSY.
DestroyUnchecked(t) ==
  /\ pc[t] \in {"out", "holding"}
  /\ ~destroyed
  /\ smutex = NULL
  /\ smutex' = t
  /\ Goto(t, "destroy_give")
  /\ UNCHANGED <<referenced, ev, destroyed, mutex, bit, tmp, late>>

\* mtx_lock and the test.  While a bit is referenced the call gives the mutex
\* and returns EBUSY: nothing has changed.
DestroyTest(t) ==
  /\ pc[t] \in {"out", "holding"}
  /\ ~destroyed
  /\ smutex = NULL
  /\ referenced = {}
  /\ smutex' = t
  /\ Goto(t, "destroy_give")
  /\ UNCHANGED <<referenced, ev, destroyed, mutex, bit, tmp, late>>

\* mtx_destroy returns at once if there is no lock any more, and otherwise
\* gives the semaphore before it deletes it: who waits for it comes in.
DestroyGive(t) ==
  /\ pc[t] = "destroy_give"
  /\ IF destroyed
     THEN Goto(t, IF mutex = t THEN "holding" ELSE "out") /\ UNCHANGED smutex
     ELSE Goto(t, "destroy_delete") /\ smutex' = NULL
  /\ UNCHANGED <<referenced, ev, destroyed, mutex, bit, tmp, late>>

\* vSemaphoreDelete and lock = 0.  The semaphore another destroy has deleted
\* cannot be deleted again: the thread stops here.
DestroyDelete(t) ==
  /\ pc[t] = "destroy_delete"
  /\ ~destroyed
  /\ destroyed' = TRUE
  /\ Goto(t, IF mutex = t THEN "holding" ELSE "out")
  /\ UNCHANGED <<referenced, ev, smutex, mutex, bit, tmp, late>>

Destroyer(t) == DestroyTest(t) \/ DestroyGive(t) \/ DestroyDelete(t)

Waiter(t) ==
  \/ WaitLock(t) \/ WaitBit(t) \/ PastTime(t) \/ Release(t) \/ WaitBits(t)
  \/ Timeout(t) \/ Relock(t) \/ ClearRead(t) \/ ClearWrite(t)

Signaller(t) ==
  \/ SignalLock(t) \/ SignalBit(t) \/ SignalRead(t) \/ SignalWrite(t)
  \/ SignalSkip(t) \/ SignalUnlock(t)

Next == \E t \in Thread :
  Lock(t) \/ Unlock(t) \/ Waiter(t) \/ Signaller(t) \/ Destroyer(t)

Spec == Init /\ [][Next]_vars

\* Calls in progress go on; a semaphore serves its waiters in turn; nobody
\* need call wait, signal or destroy, nor give up waiting.
Fairness == \A t \in Thread :
  /\ WF_vars(WaitBit(t) \/ Release(t) \/ WaitBits(t) \/ ClearRead(t)
             \/ ClearWrite(t))
  /\ WF_vars(SignalBit(t) \/ SignalRead(t) \/ SignalWrite(t) \/ SignalSkip(t)
             \/ SignalUnlock(t))
  /\ WF_vars(DestroyGive(t) \/ DestroyDelete(t))
  /\ WF_vars(Unlock(t))
  /\ SF_vars(Relock(t))

FairSpec == Spec /\ Fairness

-----------------------------------------------------------------------------
(* Properties.                                                             *)

\* A thread that waits can be woken: the next signal will see its bit, or
\* its event is already set.  (And the types are kept.)
NoLostWaiter ==
  /\ TypeOK
  /\ \A t \in Thread : pc[t] \in Waiting => bit[t] \in referenced \cup ev

\* EBUSY protects the waiters it sees: once a destroy has passed its test, no
\* thread that took its bit before needs another signal.  Who takes a bit in
\* the window that mtx_destroy opens (`late') is not protected: when the
\* semaphore is gone nobody can signal it.
SafeDestroy ==
  destroyed \/ (\E u \in Thread : pc[u] \in {"destroy_give", "destroy_delete"})
    => \A t \in Thread \ late : pc[t] \in Waiting => bit[t] \in ev

\* A wait has nothing but a signal of its own to fear: one thread waits.
OneWaiter == \A t, u \in Waiters : t = u

\* What the proofs need besides.  A thread inside signal, taking a bit or past
\* the test of destroy holds scond->mutex, and before the mutex is given no bit
\* is referenced; threads inside wait are waiters; and what a signal is about to
\* write back to `referenced', its own bit apart, keeps the bit of a thread that
\* waits and was not signalled.
SignalSound ==
  /\ \A t \in Thread :
       pc[t] \in {"sig_test", "sig_read", "sig_write", "taking", "destroy_give"}
         => smutex = t
  /\ \A t \in Thread :
       pc[t] \in Waiting \cup
                {"taking", "timedout", "clear_read", "clear_write"}
         => t \in Waiters
  /\ \A u \in Thread : pc[u] \in {"sig_read", "sig_write"} => bit[u] \in Bits
  /\ \A t, u \in Thread : pc[t] \in Waiting =>
       /\ pc[u] = "sig_read" => bit[t] \in (referenced \ {bit[u]}) \cup ev
       /\ pc[u] = "sig_write" => bit[t] \in (tmp[u] \ {bit[u]}) \cup ev

\* The inductive invariant for one waiter.
CondSound == NoLostWaiter /\ SafeDestroy /\ SignalSound

\* "Find an unused bit in the event group to sync the condition": the bits of
\* the threads that wait are different.
BitsUnique ==
  \A t, u \in Thread :
    pc[t] \in Waiting /\ pc[u] \in Waiting /\ t # u => bit[t] # bit[u]

\* "24 conditions (or 24 threads) can be handled for each condition
\* variable": a bit in use belongs to a thread inside a call.
BitsOwned ==
  \A b \in referenced : \E t \in Thread :
    pc[t] \notin {"out", "holding"} /\ bit[t] = b

\* A thread whose bit is referenced when a signal begins wakes up.
SignalWakes ==
  \A t, u \in Thread :
    (pc[t] \in Waiting /\ bit[t] \in referenced /\ pc[u] = "sig_test"
       /\ bit[u] = 0)
      ~> pc[t] \notin Waiting
=============================================================================
