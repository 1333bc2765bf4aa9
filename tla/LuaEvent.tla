------------------------------ MODULE LuaEvent ------------------------------
(***************************************************************************)
(* One event object of the Lua module event (lua/modules/sys/event.c):     *)
(* listeners loop over wait, work, done; casters call broadcast, with or   *)
(* without waiting for the listeners to be done.                           *)
(*                                                                         *)
(* udata->mtx is held through the loop of broadcast, also while it sends   *)
(* to a listener's queue, and through done while it sends to udata->q.     *)
(***************************************************************************)
EXTENDS Naturals, Sequences, FiniteSets, SequencesExt

CONSTANTS
  Listener,   \* threads that wait for the event
  Caster,     \* threads that broadcast it
  NULL,       \* no thread
  Waits,      \* the values of the argument of broadcast in use
  QLen,       \* length of a listener's queue: 1
  DoneLen     \* length of udata->q: 10

Thread == Listener \cup Caster

ASSUME EventAssumption ==
  /\ Listener \cap Caster = {}
  /\ NULL \notin Thread
  /\ Waits \subseteq BOOLEAN
  /\ QLen \in Nat \ {0}
  /\ DoneLen \in Nat \ {0}

VARIABLES
  mtx,          \* the thread that holds udata->mtx
  listeners,    \* udata->listeners, in the order of their indexes
  is_waiting,   \* field is_waiting of each listener
  q,            \* number of messages in the queue of each listener
  pending,      \* udata->pending
  done_q,       \* number of messages in udata->q
  pc,           \* where each thread is
  wait,         \* argument of the broadcast in progress
  idx           \* position of a broadcast in the list of listeners

vars == <<mtx, listeners, is_waiting, q, pending, done_q, pc, wait, idx>>

Location == {"idle", "receive", "work", "send_done",
             "cast", "check", "receive_done", "count"}

TypeOK ==
  /\ mtx \in Thread \cup {NULL}
  /\ listeners \in Seq(Listener)
  /\ is_waiting \in [Listener -> BOOLEAN]
  /\ q \in [Listener -> 0 .. QLen]
  /\ pending \in 0 .. 255
  /\ done_q \in 0 .. DoneLen
  /\ pc \in [Thread -> Location]
  /\ wait \in [Caster -> BOOLEAN]
  /\ idx \in [Caster -> Nat]

\* levent_create.
Init ==
  /\ mtx = NULL
  /\ listeners = <<>>
  /\ is_waiting = [l \in Listener |-> FALSE]
  /\ q = [l \in Listener |-> 0]
  /\ pending = 0
  /\ done_q = 0
  /\ pc = [t \in Thread |-> "idle"]
  /\ wait = [c \in Caster |-> FALSE]
  /\ idx = [c \in Caster |-> 1]

Goto(t, loc) == pc' = [pc EXCEPT ![t] = loc]

Registered == ToSet(listeners)

-----------------------------------------------------------------------------
(* A listener.                                                             *)

\* wait: get_listener, under the mutex, adds the thread to the list if it is
\* not there.
Wait(l) ==
  /\ pc[l] = "idle"
  /\ mtx = NULL
  /\ listeners' = IF l \in Registered THEN listeners ELSE Append(listeners, l)
  /\ Goto(l, "receive")
  /\ UNCHANGED <<mtx, is_waiting, q, pending, done_q, wait, idx>>

\* ... then xQueueReceive on its queue.
Receive(l) ==
  /\ pc[l] = "receive"
  /\ q[l] > 0
  /\ q' = [q EXCEPT ![l] = @ - 1]
  /\ Goto(l, "work")
  /\ UNCHANGED <<mtx, listeners, is_waiting, pending, done_q, wait, idx>>

\* done: get_listener, then the mutex.  With no caller waiting that is all.
Done(l) ==
  /\ pc[l] = "work"
  /\ mtx = NULL
  /\ IF is_waiting[l]
     THEN mtx' = l /\ Goto(l, "send_done")
     ELSE Goto(l, "idle") /\ UNCHANGED mtx
  /\ UNCHANGED <<listeners, is_waiting, q, pending, done_q, wait, idx>>

\* Mutant: nothing is sent to udata->q.
SendDoneSilent(l) ==
  /\ pc[l] = "send_done"
  /\ mtx' = NULL
  /\ Goto(l, "idle")
  /\ UNCHANGED <<listeners, is_waiting, q, pending, done_q, wait, idx>>

\* xQueueSend on udata->q, which blocks on a full queue with the mutex held;
\* unlock.
SendDone(l) ==
  /\ pc[l] = "send_done"
  /\ done_q < DoneLen
  /\ done_q' = done_q + 1
  /\ mtx' = NULL
  /\ Goto(l, "idle")
  /\ UNCHANGED <<listeners, is_waiting, q, pending, wait, idx>>

-----------------------------------------------------------------------------
(* A caster.                                                               *)

Broadcast(c, w) ==
  /\ pc[c] = "idle"
  /\ mtx = NULL
  /\ mtx' = c
  /\ wait' = [wait EXCEPT ![c] = w]
  /\ idx' = [idx EXCEPT ![c] = 1]
  /\ Goto(c, "cast")
  /\ UNCHANGED <<listeners, is_waiting, q, pending, done_q>>

\* One turn of the loop: is_waiting and pending are set, then xQueueSend
\* blocks, with the mutex held, as long as the listener's queue is full.
CastOne(c) ==
  /\ pc[c] = "cast"
  /\ idx[c] <= Len(listeners)
  /\ LET l == listeners[idx[c]] IN
     /\ q[l] < QLen
     /\ q' = [q EXCEPT ![l] = @ + 1]
     /\ is_waiting' = [is_waiting EXCEPT ![l] = wait[c]]
  /\ pending' = IF wait[c] THEN (pending + 1) % 256 ELSE pending
  /\ idx' = [idx EXCEPT ![c] = @ + 1]
  /\ UNCHANGED <<mtx, listeners, done_q, pc, wait>>

CastEnd(c) ==
  /\ pc[c] = "cast"
  /\ idx[c] > Len(listeners)
  /\ mtx' = NULL
  /\ Goto(c, IF wait[c] THEN "check" ELSE "idle")
  /\ UNCHANGED <<listeners, is_waiting, q, pending, done_q, wait, idx>>

\* Mutant: the last listener is not waited for.
CheckShort(c) ==
  /\ pc[c] = "check"
  /\ mtx = NULL
  /\ Goto(c, IF pending > 1 THEN "receive_done" ELSE "idle")
  /\ UNCHANGED <<mtx, listeners, is_waiting, q, pending, done_q, wait, idx>>

\* while (has_pending_events(udata)) ...
Check(c) ==
  /\ pc[c] = "check"
  /\ mtx = NULL
  /\ Goto(c, IF pending > 0 THEN "receive_done" ELSE "idle")
  /\ UNCHANGED <<mtx, listeners, is_waiting, q, pending, done_q, wait, idx>>

ReceiveDone(c) ==
  /\ pc[c] = "receive_done"
  /\ done_q > 0
  /\ done_q' = done_q - 1
  /\ Goto(c, "count")
  /\ UNCHANGED <<mtx, listeners, is_waiting, q, pending, wait, idx>>

\* Mutant: the message is not counted.
CountMissing(c) ==
  /\ pc[c] = "count"
  /\ mtx = NULL
  /\ Goto(c, "check")
  /\ UNCHANGED <<mtx, listeners, is_waiting, q, pending, done_q, wait, idx>>

Count(c) ==
  /\ pc[c] = "count"
  /\ mtx = NULL
  /\ pending' = (pending + 255) % 256
  /\ Goto(c, "check")
  /\ UNCHANGED <<mtx, listeners, is_waiting, q, done_q, wait, idx>>

-----------------------------------------------------------------------------
ListenerStep(l) == Wait(l) \/ Receive(l) \/ Done(l) \/ SendDone(l)

CasterStep(c) ==
  \/ \E w \in Waits : Broadcast(c, w)
  \/ CastOne(c)
  \/ CastEnd(c)
  \/ Check(c)
  \/ ReceiveDone(c)
  \/ Count(c)

Next ==
  \/ \E l \in Listener : ListenerStep(l)
  \/ \E c \in Caster : CasterStep(c)

Spec == Init /\ [][Next]_vars

\* Calls in progress go on, listeners finish their work and come back to
\* wait, and the semaphore and the queues serve their waiters in turn; a
\* caster need not broadcast.
Fairness ==
  /\ \A l \in Listener : SF_vars(ListenerStep(l))
  /\ \A c \in Caster :
       /\ SF_vars(CastOne(c) \/ CastEnd(c))
       /\ SF_vars(Check(c) \/ ReceiveDone(c) \/ Count(c))

FairSpec == Spec /\ Fairness

-----------------------------------------------------------------------------
(* Properties.                                                             *)

\* A listener that has an event to take, to work on or to report.
Busy(l) == q[l] > 0 \/ pc[l] \in {"work", "send_done"}

\* udata->pending counts the listeners of a broadcast that waits: those that
\* are busy, those whose message is in udata->q, and the message in hand.
PendingCounts ==
  /\ TypeOK
  /\ pending = Cardinality({l \in Listener : Busy(l)}) + done_q
               + Cardinality({c \in Caster : pc[c] = "count"})

\* "If broadcast with waiting, wait for the termination of all threads": when
\* the broadcast is over no listener is busy with it.
AllDone ==
  \A c \in Caster : pc[c] = "idle" /\ wait[c] =>
    \A l \in Listener : ~Busy(l)

\* One thread broadcasts, always waiting, to listeners a uint8_t can count.
SingleCaster ==
  /\ \A c, d \in Caster : c = d
  /\ Waits \subseteq {TRUE}
  /\ IsFiniteSet(Listener)
  /\ Cardinality(Listener) <= 255

\* What the proofs need besides.  The holder of the mutex is where it should
\* be; a listener has one event at a time, and its caster waits for it; ...
ListenerSound ==
  \A l \in Listener :
    /\ pc[l] \in {"idle", "receive", "work", "send_done"}
    /\ pc[l] = "send_done" => mtx = l
    /\ q[l] \in {0, 1}
    /\ pc[l] \in {"work", "send_done"} => q[l] = 0
    /\ Busy(l) => is_waiting[l]

\* ... a broadcast has counted the listeners it has passed, and those ahead of
\* it are free; nothing is pending between two broadcasts.
CasterSound ==
  /\ \A i, j \in 1 .. Len(listeners) : listeners[i] = listeners[j] => i = j
  /\ \A c \in Caster :
       /\ pc[c] \in {"idle", "cast", "check", "receive_done", "count"}
       /\ pc[c] = "idle" => pending = 0
       /\ pc[c] # "idle" => wait[c]
       /\ pc[c] = "receive_done" => pending > 0
       /\ pc[c] = "cast" =>
            /\ mtx = c
            /\ idx[c] \in 1 .. Len(listeners) + 1
            /\ pending = idx[c] - 1
            /\ \A i \in idx[c] .. Len(listeners) : ~Busy(listeners[i])

\* The inductive invariant for a single caster.
EventSound == PendingCounts /\ ListenerSound /\ CasterSound

\* A caster that waits for a message waits for one that will be sent.
WaitsForSomeone ==
  \A c \in Caster : pc[c] = "receive_done" =>
    \/ done_q > 0
    \/ \E l \in Listener : Busy(l)

\* "Unblock threads that are waiting for this event": a broadcast does not
\* wait, holding the mutex, for a listener that waits for the mutex.
CastNotStuck ==
  \A c \in Caster : pc[c] = "cast" /\ idx[c] <= Len(listeners) =>
    ~ LET l == listeners[idx[c]] IN
        q[l] = QLen /\ pc[l] \in {"idle", "work"}

\* A broadcast comes to its end.
BroadcastReturns ==
  \A c \in Caster : pc[c] # "idle" ~> pc[c] = "idle"
=============================================================================
