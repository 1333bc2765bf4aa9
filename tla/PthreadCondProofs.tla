------------------------- MODULE PthreadCondProofs -------------------------
(***************************************************************************)
(* No wait on a condition variable is lost, for any number of threads that *)
(* signal and destroy, any number of bits, with time limits or without, as *)
(* long as one thread waits.                                               *)
(***************************************************************************)
EXTENDS PthreadCond, WellFoundedInduction, TLAPS

USE CondAssumption DEF Goto, Location, Waiting, Bits

\* The loop of wait finds a bit that is not in use, if there is one.
LEMMA UnusedBit ==
  ASSUME referenced \subseteq Bits, referenced # Bits
  PROVE  Min(Bits \ referenced) \in Bits \ referenced
<1>1. Bits \ referenced \subseteq Nat
  OBVIOUS
<1>. HIDE DEF Bits
<1>2. Bits \ referenced # {}
  OBVIOUS
<1>3. PICK b \in Bits \ referenced :
        \A c \in Bits \ referenced : <<c, b>> \notin OpToRel(<, Nat)
  BY <1>1, <1>2, NatLessThanWellFounded, WFMin
<1>4. \A c \in Bits \ referenced : ~ (c < b)
  BY <1>1, <1>3, Zenon DEF OpToRel
<1>5. \A c \in Bits \ referenced : b <= c
  BY <1>1, <1>4
<1>. QED  BY <1>5 DEF Min

\* After cond_init nobody waits.
LEMMA InitSound == Init => CondSound
<1>1. 0 \in 0 .. NBits
  OBVIOUS
<1>2. Init => TypeOK
  <2>. HIDE DEF Bits
  <2>. QED  BY <1>1 DEF Init, TypeOK
<1>. QED  BY <1>2 DEF Init, CondSound, NoLostWaiter, SafeDestroy, SignalSound

\* A step of a thread that waits.
LEMMA WaiterSound ==
  ASSUME OneWaiter, CondSound, NEW t \in Thread, Waiter(t)
  PROVE  CondSound'
<1>. USE DEF OneWaiter, CondSound, NoLostWaiter, SafeDestroy, SignalSound, TypeOK
<1>0. CASE WaitLock(t)
  BY <1>0 DEF WaitLock
<1>1. CASE WaitBit(t)
  <2>1. CASE referenced = Bits
    <3>. HIDE DEF Bits
    <3>. QED  BY <1>1, <2>1 DEF WaitBit
  <2>2. CASE referenced # Bits
    <3>. DEFINE b == Min(Bits \ referenced)
    <3>1. b \in Bits \ referenced
      BY <2>2, UnusedBit
    <3>2. /\ referenced' = referenced \cup {b}
          /\ bit' = [bit EXCEPT ![t] = b]
          /\ late' = IF Deleting THEN late \cup {t} ELSE late
          /\ pc' = [pc EXCEPT ![t] = "armed"]
          /\ pc[t] = "taking" /\ smutex' = NULL /\ ~destroyed
          /\ UNCHANGED <<ev, destroyed, mutex, tmp>>
      BY <1>1, <2>2 DEF WaitBit
    <3>. HIDE DEF b
    <3>3. TypeOK'
      <4>1. b \in 0 .. NBits
        BY <3>1
      <4>2. referenced' \subseteq Bits
        BY <3>1, <3>2
      <4>3. bit' \in [Thread -> 0 .. NBits]
        BY <3>2, <4>1
      <4>4. late' \subseteq Thread
        BY <3>2
      <4>. HIDE DEF Bits
      <4>. QED  BY <3>2, <4>2, <4>3, <4>4
    <3>4. NoLostWaiter'
      BY <3>1, <3>2, <3>3
    <3>5. SafeDestroy'
      BY <3>1, <3>2 DEF Deleting
    <3>6. SignalSound'
      BY <3>1, <3>2
    <3>. QED  BY <3>3, <3>4, <3>5, <3>6
  <2>. QED  BY <2>1, <2>2
<1>2. CASE PastTime(t)
  BY <1>2 DEF PastTime
<1>3. CASE Release(t)
  BY <1>3 DEF Release
<1>4. CASE WaitBits(t)
  <2>1. TypeOK'
    BY <1>4 DEF WaitBits
  <2>2. NoLostWaiter'
    BY <1>4, <2>1 DEF WaitBits
  <2>3. SafeDestroy'
    BY <1>4 DEF WaitBits
  <2>4. SignalSound'
    BY <1>4 DEF WaitBits
  <2>. QED  BY <2>1, <2>2, <2>3, <2>4
<1>5. CASE Timeout(t)
  BY <1>5 DEF Timeout
<1>6. CASE Relock(t)
  BY <1>6 DEF Relock
<1>7. CASE ClearRead(t)
  BY <1>7 DEF ClearRead
<1>8. CASE ClearWrite(t)
  BY <1>8 DEF ClearWrite
<1>. QED  BY <1>0, <1>1, <1>2, <1>3, <1>4, <1>5, <1>6, <1>7, <1>8 DEF Waiter

\* A step of a thread that signals.
LEMMA SignallerSound ==
  ASSUME OneWaiter, CondSound, NEW t \in Thread, Signaller(t)
  PROVE  CondSound'
<1>. USE DEF OneWaiter, CondSound, NoLostWaiter, SafeDestroy, SignalSound, TypeOK
<1>1. CASE SignalLock(t)
  BY <1>1 DEF SignalLock
<1>2. CASE SignalBit(t)
  <2>1. TypeOK'
    BY <1>2 DEF SignalBit, Blocked
  <2>2. NoLostWaiter'
    BY <1>2, <2>1 DEF SignalBit, Blocked
  <2>3. SafeDestroy'
    BY <1>2 DEF SignalBit, Blocked
  <2>4. SignalSound'
    BY <1>2 DEF SignalBit, Blocked
  <2>. QED  BY <2>1, <2>2, <2>3, <2>4
<1>3. CASE SignalRead(t)
  BY <1>3 DEF SignalRead
<1>4. CASE SignalWrite(t)
  BY <1>4 DEF SignalWrite
<1>5. CASE SignalSkip(t)
  BY <1>5 DEF SignalSkip
<1>6. CASE SignalUnlock(t)
  BY <1>6 DEF SignalUnlock
<1>. QED  BY <1>1, <1>2, <1>3, <1>4, <1>5, <1>6 DEF Signaller

\* A step of a thread that destroys.  No bit is referenced when the test
\* passes, so a thread that waits has its event.
LEMMA DestroyerSound ==
  ASSUME OneWaiter, CondSound, NEW t \in Thread, Destroyer(t)
  PROVE  CondSound'
<1>. USE DEF OneWaiter, CondSound, NoLostWaiter, SafeDestroy, SignalSound, TypeOK
<1>1. CASE DestroyTest(t)
  BY <1>1 DEF DestroyTest
<1>2. CASE DestroyGive(t)
  BY <1>2 DEF DestroyGive
<1>3. CASE DestroyDelete(t)
  BY <1>3 DEF DestroyDelete
<1>. QED  BY <1>1, <1>2, <1>3 DEF Destroyer

\* The application's own use of the mutex, and steps elsewhere.
LEMMA OtherSound ==
  ASSUME CondSound,
         \/ UNCHANGED vars
         \/ \E t \in Thread : Lock(t) \/ Unlock(t)
  PROVE  CondSound'
<1>. USE DEF CondSound, NoLostWaiter, SafeDestroy, SignalSound, TypeOK
<1>1. CASE UNCHANGED vars
  BY <1>1 DEF vars
<1>2. ASSUME NEW t \in Thread, Lock(t)  PROVE CondSound'
  BY <1>2 DEF Lock
<1>3. ASSUME NEW t \in Thread, Unlock(t)  PROVE CondSound'
  BY <1>3 DEF Unlock
<1>. QED  BY <1>1, <1>2, <1>3

\* CondSound is an invariant of a condition variable with one waiter.
THEOREM CondInvariant ==
  ASSUME OneWaiter
  PROVE  Spec => []CondSound
<1>1. CondSound /\ [Next]_vars => CondSound'
  BY WaiterSound, SignallerSound, DestroyerSound, OtherSound DEF Next
<1>. QED  BY InitSound, <1>1, PTL DEF Spec

\* Whatever the threads that signal do between the test of a bit and the write
\* of `referenced', and whatever times out: the thread that waits keeps its bit
\* or has its event.
THEOREM WaiterNeverLost ==
  ASSUME OneWaiter
  PROVE  Spec => []NoLostWaiter
  BY CondInvariant, PTL DEF CondSound

\* pthread_cond_destroy gets past EBUSY only when the thread that waits needs
\* no signal any more, and from then on it never will: only a wait that takes
\* its bit after the test, while mtx_destroy gives the semaphore away, is lost.
THEOREM DestroySparesWaiters ==
  ASSUME OneWaiter
  PROVE  Spec => []SafeDestroy
  BY CondInvariant, PTL DEF CondSound
=============================================================================
