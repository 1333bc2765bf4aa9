-------------------------- MODULE LuaEventProofs --------------------------
(***************************************************************************)
(* broadcast(true) of the Lua module event returns when every listener it  *)
(* has reached is done, for one caster, any queue lengths and any set of   *)
(* listeners that udata->pending can count.                                *)
(***************************************************************************)
EXTENDS LuaEvent, FiniteSetTheorems, TLAPS

USE EventAssumption DEF Goto, Thread, Location

\* The listeners that have something to do, and the casters with a message in
\* their hands.
BusyListeners == {l \in Listener : Busy(l)}
Counting == {c \in Caster : pc[c] = "count"}

\* The sets that pending counts are finite.
LEMMA FiniteCounts ==
  ASSUME SingleCaster
  PROVE  /\ IsFiniteSet(BusyListeners) /\ Cardinality(BusyListeners) \in Nat
         /\ IsFiniteSet(Counting) /\ Cardinality(Counting) \in Nat
<1>1. BusyListeners \subseteq Listener /\ IsFiniteSet(Listener)
  BY DEF BusyListeners, SingleCaster
<1>2. IsFiniteSet(Counting)
  <2>1. CASE Counting = {}
    BY <2>1, FS_EmptySet
  <2>2. CASE Counting # {}
    <3>1. PICK c : Counting = {c}
      BY <2>2 DEF Counting, SingleCaster
    <3>. QED  BY <3>1, FS_Singleton
  <2>. QED  BY <2>1, <2>2
<1>. QED  BY <1>1, <1>2, FS_Subset, FS_CardinalityType

\* No listener is on the list twice, so that the list is no longer than there
\* are listeners.
LEMMA ListenersFit ==
  ASSUME SingleCaster, listeners \in Seq(Listener), CasterSound
  PROVE  Len(listeners) <= Cardinality(Listener)
<1>. DEFINE n == Len(listeners)
<1>1. n \in Nat /\ listeners \in [1 .. n -> Listener]
  OBVIOUS
<1>2. listeners \in Injection(1 .. n, Listener)
  BY <1>1 DEF Injection, IsInjective, CasterSound
<1>3. Cardinality(1 .. n) <= Cardinality(Listener)
  BY <1>2, FS_Injection DEF SingleCaster
<1>4. Cardinality(1 .. n) = n
  BY <1>1, FS_Interval
<1>. QED  BY <1>3, <1>4

\* What is counted, in terms of the two sets.
LEMMA CountForm ==
  PendingCounts <=> /\ TypeOK
                    /\ pending = Cardinality(BusyListeners) + done_q
                                   + Cardinality(Counting)
  BY DEF PendingCounts, BusyListeners, Counting

\* A step that leaves the two sets and the numbers alone keeps the count.
LEMMA CountKept ==
  ASSUME PendingCounts, TypeOK', UNCHANGED <<pending, done_q>>,
         \A l \in Listener : Busy(l)' <=> Busy(l),
         \A c \in Caster : pc'[c] = "count" <=> pc[c] = "count"
  PROVE  PendingCounts'
<1>1. BusyListeners' = BusyListeners
  BY DEF BusyListeners
<1>2. Counting' = Counting
  BY DEF Counting
<1>. QED  BY <1>1, <1>2 DEF PendingCounts, BusyListeners, Counting

\* After levent_create nothing is pending.
LEMMA InitSound ==
  ASSUME Init
  PROVE  EventSound
<1>1. TypeOK
  BY DEF Init, TypeOK
<1>2. BusyListeners = {} /\ Counting = {}
  BY DEF Init, Busy, BusyListeners, Counting
<1>3. PendingCounts
  <2>1. pending = 0 /\ done_q = 0
    BY DEF Init
  <2>. QED  BY <1>1, <1>2, <2>1, CountForm, FS_EmptySet
<1>4. ListenerSound
  BY DEF Init, ListenerSound, Busy
<1>5. CasterSound
  BY DEF Init, CasterSound
<1>. QED  BY <1>3, <1>4, <1>5 DEF EventSound

\* wait, and taking an event: who is busy does not change.
LEMMA ReceiveSound ==
  ASSUME EventSound, NEW l \in Listener, Wait(l) \/ Receive(l)
  PROVE  EventSound'
<1>0. TypeOK /\ PendingCounts /\ ListenerSound /\ CasterSound
  BY DEF EventSound, PendingCounts
<1>1. CASE Wait(l)
  <2>1. TypeOK'
    BY <1>0, <1>1 DEF Wait, TypeOK
  <2>2. \A m \in Listener : Busy(m)' <=> Busy(m)
    BY <1>0, <1>1 DEF Wait, Busy, TypeOK
  <2>3. \A c \in Caster : pc'[c] = pc[c]
    BY <1>0, <1>1 DEF Wait, TypeOK
  <2>4. PendingCounts'
    BY <1>0, <1>1, <2>1, <2>2, <2>3, CountKept DEF Wait
  <2>5. ListenerSound'
    BY <1>0, <1>1, <2>2 DEF Wait, ListenerSound, TypeOK
  <2>6. CasterSound'
    <3>1. \A i, j \in 1 .. Len(listeners') : listeners'[i] = listeners'[j] => i = j
      <4>. DEFINE n == Len(listeners)
      <4>0. /\ n \in Nat /\ listeners \in Seq(Listener)
            /\ \A i, j \in 1 .. n : listeners[i] = listeners[j] => i = j
        BY <1>0 DEF CasterSound, TypeOK
      <4>1. CASE l \in Registered
        BY <1>1, <4>0, <4>1 DEF Wait
      <4>2. CASE l \notin Registered
        <5>1. \A i \in 1 .. n : listeners[i] # l
          BY <4>0, <4>2 DEF Registered, ToSet
        <5>2. listeners' = Append(listeners, l)
          BY <1>1, <4>2 DEF Wait
        <5>3. /\ Len(listeners') = n + 1
              /\ \A i \in 1 .. n : listeners'[i] = listeners[i]
              /\ listeners'[n + 1] = l
          BY <4>0, <5>2
        <5>. HIDE DEF n
        <5>. QED  BY <4>0, <5>1, <5>3
      <4>. QED  BY <4>1, <4>2
    <3>2. \A c \in Caster : pc[c] # "cast"
      BY <1>0, <1>1 DEF Wait, CasterSound
    <3>. QED  BY <1>0, <1>1, <2>3, <3>1, <3>2 DEF Wait, CasterSound
  <2>. QED  BY <2>4, <2>5, <2>6 DEF EventSound
<1>2. CASE Receive(l)
  <2>0. /\ q[l] = 1 /\ pc[l] = "receive"
        /\ q' = [q EXCEPT ![l] = 0]
    <3>1. q[l] = 1 /\ pc[l] = "receive"
      BY <1>0, <1>2 DEF Receive, ListenerSound
    <3>. QED  BY <1>2, <3>1 DEF Receive
  <2>1. TypeOK'
    BY <1>0, <1>2, <2>0 DEF Receive, TypeOK
  <2>2. \A m \in Listener : Busy(m)' <=> Busy(m)
    BY <1>0, <1>2, <2>0 DEF Receive, Busy, TypeOK
  <2>3. \A c \in Caster : pc'[c] = pc[c]
    BY <1>0, <1>2 DEF Receive, TypeOK
  <2>4. PendingCounts'
    BY <1>0, <1>2, <2>1, <2>2, <2>3, CountKept DEF Receive
  <2>5. ListenerSound'
    BY <1>0, <1>2, <2>0, <2>2 DEF Receive, ListenerSound, TypeOK
  <2>6. CasterSound'
    <3>1. \A i \in 1 .. Len(listeners) : listeners[i] \in Listener
      BY <1>0 DEF TypeOK
    <3>. QED  BY <1>0, <1>2, <2>2, <2>3, <3>1 DEF Receive, CasterSound, TypeOK
  <2>. QED  BY <2>4, <2>5, <2>6 DEF EventSound
<1>. QED  BY <1>1, <1>2

\* done: a busy listener reports, since its caster waits, and is free then.
LEMMA DoneSound ==
  ASSUME SingleCaster, EventSound, NEW l \in Listener, Done(l) \/ SendDone(l)
  PROVE  EventSound'
<1>0. TypeOK /\ PendingCounts /\ ListenerSound /\ CasterSound
  BY DEF EventSound, PendingCounts
<1>1. CASE Done(l)
  <2>0. /\ pc[l] = "work" /\ mtx = NULL /\ mtx' = l
        /\ pc' = [pc EXCEPT ![l] = "send_done"]
    BY <1>0, <1>1 DEF Done, ListenerSound, Busy
  <2>1. TypeOK'
    BY <1>0, <1>1, <2>0 DEF Done, TypeOK
  <2>2. \A m \in Listener : Busy(m)' <=> Busy(m)
    BY <1>0, <1>1, <2>0 DEF Done, Busy, TypeOK
  <2>3. \A c \in Caster : pc'[c] = pc[c]
    BY <1>0, <2>0 DEF TypeOK
  <2>4. PendingCounts'
    BY <1>0, <1>1, <2>1, <2>2, <2>3, CountKept DEF Done
  <2>5. ListenerSound'
    BY <1>0, <1>1, <2>0, <2>2 DEF Done, ListenerSound, TypeOK
  <2>6. CasterSound'
    <3>1. \A c \in Caster : pc[c] # "cast"
      BY <1>0, <2>0 DEF CasterSound
    <3>. QED  BY <1>0, <1>1, <2>3, <3>1 DEF Done, CasterSound
  <2>. QED  BY <2>4, <2>5, <2>6 DEF EventSound
<1>2. CASE SendDone(l)
  <2>0. /\ pc[l] = "send_done" /\ q[l] = 0 /\ mtx = l /\ mtx' = NULL
        /\ done_q' = done_q + 1 /\ done_q < DoneLen
        /\ pc' = [pc EXCEPT ![l] = "idle"]
        /\ UNCHANGED <<listeners, is_waiting, q, pending, wait, idx>>
    BY <1>0, <1>2 DEF SendDone, ListenerSound
  <2>1. TypeOK'
    BY <1>0, <2>0 DEF TypeOK
  <2>2. Busy(l) /\ ~Busy(l)' /\ \A m \in Listener \ {l} : Busy(m)' <=> Busy(m)
    BY <1>0, <2>0 DEF Busy, TypeOK
  <2>3. \A c \in Caster : pc'[c] = pc[c]
    BY <1>0, <2>0 DEF TypeOK
  <2>4. PendingCounts'
    <3>1. BusyListeners' = BusyListeners \ {l} /\ l \in BusyListeners
      BY <2>2 DEF BusyListeners
    <3>2. Cardinality(BusyListeners') = Cardinality(BusyListeners) - 1
      BY <3>1, FiniteCounts, FS_RemoveElement
    <3>3. Counting' = Counting
      BY <2>3 DEF Counting
    <3>4. pending = Cardinality(BusyListeners) + done_q + Cardinality(Counting)
      BY <1>0, CountForm
    <3>5. pending' = Cardinality(BusyListeners') + done_q' + Cardinality(Counting')
      BY <1>0, <2>0, <3>2, <3>3, <3>4, FiniteCounts DEF TypeOK
    <3>. QED  BY <2>1, <3>5 DEF PendingCounts, BusyListeners, Counting
  <2>5. ListenerSound'
    BY <1>0, <2>0, <2>2 DEF ListenerSound, TypeOK
  <2>6. CasterSound'
    <3>1. \A c \in Caster : pc[c] # "cast"
      BY <1>0, <2>0 DEF CasterSound
    <3>. QED  BY <1>0, <2>0, <2>3, <3>1 DEF CasterSound
  <2>. QED  BY <2>4, <2>5, <2>6 DEF EventSound
<1>. QED  BY <1>1, <1>2

\* A broadcast begins: nothing is pending and nobody is busy.
LEMMA BroadcastSound ==
  ASSUME SingleCaster, EventSound, NEW c \in Caster, NEW w \in Waits,
         Broadcast(c, w)
  PROVE  EventSound'
<1>0. TypeOK /\ PendingCounts /\ ListenerSound /\ CasterSound
  BY DEF EventSound, PendingCounts
<1>1. /\ w = TRUE /\ pc[c] = "idle" /\ mtx = NULL /\ mtx' = c
      /\ pc' = [pc EXCEPT ![c] = "cast"]
      /\ wait' = [wait EXCEPT ![c] = TRUE]
      /\ idx' = [idx EXCEPT ![c] = 1]
      /\ UNCHANGED <<listeners, is_waiting, q, pending, done_q>>
  BY DEF Broadcast, SingleCaster
<1>2. TypeOK'
  BY <1>0, <1>1 DEF TypeOK
<1>3. \A m \in Listener : pc'[m] = pc[m] /\ (Busy(m)' <=> Busy(m))
  BY <1>0, <1>1 DEF Busy, TypeOK
<1>4. \A d \in Caster : d = c /\ pc'[d] = "cast"
  BY <1>0, <1>1 DEF SingleCaster, TypeOK
<1>5. PendingCounts'
  BY <1>0, <1>1, <1>2, <1>3, <1>4, CountKept
<1>6. \A m \in Listener : ~Busy(m)
  <2>1. pending = 0
    BY <1>0, <1>1 DEF CasterSound
  <2>2. Cardinality(BusyListeners) = 0
    BY <1>0, <2>1, CountForm, FiniteCounts DEF TypeOK
  <2>3. BusyListeners = {}
    BY <2>2, FiniteCounts, FS_EmptySet
  <2>. QED  BY <2>3 DEF BusyListeners
<1>7. ListenerSound'
  BY <1>0, <1>1, <1>3 DEF ListenerSound
<1>8. CasterSound'
  <2>1. \A i \in 1 .. Len(listeners) : listeners[i] \in Listener
    BY <1>0 DEF TypeOK
  <2>2. Len(listeners) \in Nat /\ pending = 0 /\ idx'[c] = 1 /\ wait'[c]
    BY <1>0, <1>1 DEF TypeOK, CasterSound
  <2>. QED  BY <1>0, <1>1, <1>3, <1>4, <1>6, <2>1, <2>2 DEF CasterSound
<1>. QED  BY <1>5, <1>7, <1>8 DEF EventSound

\* One turn of the loop of broadcast: the listener was free, is busy now, and
\* is counted without overflow.
LEMMA CastSound ==
  ASSUME SingleCaster, EventSound, NEW c \in Caster, CastOne(c)
  PROVE  EventSound'
<1>0. TypeOK /\ PendingCounts /\ ListenerSound /\ CasterSound
  BY DEF EventSound, PendingCounts
<1>. DEFINE n == Len(listeners)
            k == idx[c]
            l == listeners[k]
<1>1. /\ pc[c] = "cast" /\ mtx = c /\ wait[c] /\ pending = k - 1
      /\ k \in 1 .. n + 1 /\ k <= n
      /\ \A i \in k .. n : ~Busy(listeners[i])
      /\ \A i, j \in 1 .. n : listeners[i] = listeners[j] => i = j
  BY <1>0 DEF CastOne, CasterSound
<1>2. n \in Nat /\ \A i \in 1 .. n : listeners[i] \in Listener
  BY <1>0 DEF TypeOK
<1>. HIDE DEF n
<1>3. k \in 1 .. n /\ k \in k .. n
  BY <1>1, <1>2
<1>4. l \in Listener /\ ~Busy(l)
  BY <1>1, <1>2, <1>3
<1>5. q[l] = 0 /\ pc[l] \notin {"work", "send_done"} /\ 1 \in 0 .. QLen
  <2>1. q[l] \in {0, 1} /\ ~(q[l] > 0)
    BY <1>0, <1>4 DEF Busy, ListenerSound
  <2>. QED  BY <1>4, <2>1 DEF Busy
<1>6. pending + 1 \in 0 .. 255 /\ (pending + 1) % 256 = pending + 1
  <2>1. n <= Cardinality(Listener) /\ Cardinality(Listener) \in Nat
    BY <1>0, ListenersFit, FS_CardinalityType DEF TypeOK, SingleCaster, n
  <2>2. Cardinality(Listener) <= 255
    BY DEF SingleCaster
  <2>3. k <= 255 /\ k \in Nat /\ pending + 1 = k
    BY <1>1, <1>2, <2>1, <2>2
  <2>. HIDE DEF k
  <2>4. k % 256 = k /\ k \in 0 .. 255
    BY <2>3
  <2>. QED  BY <2>3, <2>4
<1>. HIDE DEF l
<1>7. /\ q' = [q EXCEPT ![l] = 1]
      /\ is_waiting' = [is_waiting EXCEPT ![l] = TRUE]
      /\ pending' = pending + 1
      /\ idx' = [idx EXCEPT ![c] = k + 1]
      /\ UNCHANGED <<mtx, listeners, done_q, pc, wait>>
  <2>1. /\ q' = [q EXCEPT ![l] = q[l] + 1]
        /\ is_waiting' = [is_waiting EXCEPT ![l] = wait[c]]
        /\ pending' = IF wait[c] THEN (pending + 1) % 256 ELSE pending
        /\ idx' = [idx EXCEPT ![c] = k + 1]
        /\ UNCHANGED <<mtx, listeners, done_q, pc, wait>>
    BY DEF CastOne, l
  <2>2. wait[c] = TRUE
    BY <1>0, <1>1 DEF TypeOK
  <2>3. q[l] + 1 = 1
    BY <1>5
  <2>4. pending' = pending + 1
    BY <1>6, <2>1, <2>2
  <2>. HIDE DEF k
  <2>. QED  BY <2>1, <2>2, <2>3, <2>4
<1>. HIDE DEF k
<1>8. TypeOK'
  <2>1. k + 1 \in Nat
    BY <1>2, <1>3
  <2>. QED  BY <1>0, <1>4, <1>5, <1>6, <1>7, <2>1 DEF TypeOK
<1>9. \A m \in Listener : Busy(m)' <=> Busy(m) \/ m = l
  BY <1>0, <1>4, <1>7 DEF Busy, TypeOK
<1>10. PendingCounts'
  <2>1. BusyListeners' = BusyListeners \cup {l} /\ l \notin BusyListeners
    BY <1>4, <1>9 DEF BusyListeners
  <2>2. Cardinality(BusyListeners') = Cardinality(BusyListeners) + 1
    BY <2>1, FiniteCounts, FS_AddElement
  <2>3. Counting' = Counting
    BY <1>7 DEF Counting
  <2>4. pending = Cardinality(BusyListeners) + done_q + Cardinality(Counting)
    BY <1>0, CountForm
  <2>5. pending' = Cardinality(BusyListeners') + done_q' + Cardinality(Counting')
    BY <1>0, <1>7, <2>2, <2>3, <2>4, FiniteCounts DEF TypeOK
  <2>. QED  BY <1>8, <2>5 DEF PendingCounts, BusyListeners, Counting
<1>11. ListenerSound'
  BY <1>0, <1>4, <1>5, <1>7, <1>9 DEF ListenerSound, TypeOK
<1>12. CasterSound'
  <2>1. \A d \in Caster : d = c
    BY DEF SingleCaster
  <2>2. idx'[c] = k + 1
    BY <1>0, <1>7 DEF TypeOK
  <2>3. \A i \in k + 1 .. n : i \in 1 .. n /\ i \in k .. n /\ i # k
    BY <1>2, <1>3
  <2>4. \A i \in k + 1 .. n : listeners[i] \in Listener \ {l}
    BY <1>1, <1>2, <1>3, <2>3 DEF l
  <2>5. \A i \in k + 1 .. n : ~Busy(listeners[i])
    BY <1>1, <2>3
  <2>6. \A i \in k + 1 .. n : ~Busy(listeners[i])'
    BY <1>7, <1>9, <2>4, <2>5 DEF Busy
  <2>7. k + 1 \in 1 .. n + 1 /\ pending' = (k + 1) - 1
    BY <1>1, <1>2, <1>3, <1>7 DEF k
  <2>8. Len(listeners') = n /\ listeners' = listeners
    BY <1>7 DEF n
  <2>9. \A i \in idx'[c] .. Len(listeners') : ~Busy(listeners[i])'
    BY <2>2, <2>6, <2>8
  <2>. QED  BY <1>0, <1>1, <1>7, <2>1, <2>2, <2>7, <2>8, <2>9 DEF CasterSound
<1>. QED  BY <1>10, <1>11, <1>12 DEF EventSound

\* The rest of broadcast: waiting for the listeners and counting them off.
LEMMA AwaitSound ==
  ASSUME SingleCaster, EventSound, NEW c \in Caster,
         CastEnd(c) \/ Check(c) \/ ReceiveDone(c) \/ Count(c)
  PROVE  EventSound'
<1>0. /\ TypeOK /\ PendingCounts /\ ListenerSound /\ CasterSound
      /\ \A d \in Caster : d = c
  BY DEF EventSound, PendingCounts, SingleCaster
<1>1. CASE CastEnd(c)
  <2>1. TypeOK'
    BY <1>0, <1>1 DEF CastEnd, TypeOK
  <2>2. \A m \in Listener : pc'[m] = pc[m] /\ (Busy(m)' <=> Busy(m))
    BY <1>0, <1>1 DEF CastEnd, Busy, TypeOK
  <2>3. pc[c] = "cast" /\ pc'[c] = "check" /\ mtx = c
    BY <1>0, <1>1 DEF CastEnd, CasterSound, TypeOK
  <2>4. PendingCounts'
    BY <1>0, <1>1, <2>1, <2>2, <2>3, CountKept DEF CastEnd
  <2>5. ListenerSound'
    BY <1>0, <1>1, <2>2, <2>3 DEF CastEnd, ListenerSound
  <2>6. CasterSound'
    BY <1>0, <1>1, <2>3 DEF CastEnd, CasterSound
  <2>. QED  BY <2>4, <2>5, <2>6 DEF EventSound
<1>2. CASE Check(c)
  <2>1. TypeOK'
    BY <1>0, <1>2 DEF Check, TypeOK
  <2>2. \A m \in Listener : pc'[m] = pc[m] /\ (Busy(m)' <=> Busy(m))
    BY <1>0, <1>2 DEF Check, Busy, TypeOK
  <2>3. pc[c] = "check" /\ pc'[c] = IF pending > 0 THEN "receive_done" ELSE "idle"
    BY <1>0, <1>2 DEF Check, TypeOK
  <2>4. PendingCounts'
    BY <1>0, <1>2, <2>1, <2>2, <2>3, CountKept DEF Check
  <2>5. ListenerSound'
    BY <1>0, <1>2, <2>2 DEF Check, ListenerSound
  <2>6. CasterSound'
    BY <1>0, <1>2, <2>3 DEF Check, CasterSound, TypeOK
  <2>. QED  BY <2>4, <2>5, <2>6 DEF EventSound
<1>3. CASE ReceiveDone(c)
  <2>1. TypeOK'
    BY <1>0, <1>3 DEF ReceiveDone, TypeOK
  <2>2. \A m \in Listener : pc'[m] = pc[m] /\ (Busy(m)' <=> Busy(m))
    BY <1>0, <1>3 DEF ReceiveDone, Busy, TypeOK
  <2>3. pc[c] = "receive_done" /\ pc'[c] = "count" /\ done_q' = done_q - 1
    BY <1>0, <1>3 DEF ReceiveDone, TypeOK
  <2>4. PendingCounts'
    <3>1. BusyListeners' = BusyListeners
      BY <2>2 DEF BusyListeners
    <3>2. Counting' = Counting \cup {c} /\ c \notin Counting
      BY <1>0, <2>3 DEF Counting
    <3>3. Cardinality(Counting') = Cardinality(Counting) + 1
      BY <3>2, FiniteCounts, FS_AddElement
    <3>4. pending = Cardinality(BusyListeners) + done_q + Cardinality(Counting)
      BY <1>0, CountForm
    <3>5. pending' = Cardinality(BusyListeners') + done_q' + Cardinality(Counting')
      BY <1>0, <1>3, <2>3, <3>1, <3>3, <3>4, FiniteCounts DEF ReceiveDone, TypeOK
    <3>. QED  BY <2>1, <3>5 DEF PendingCounts, BusyListeners, Counting
  <2>5. ListenerSound'
    BY <1>0, <1>3, <2>2 DEF ReceiveDone, ListenerSound
  <2>6. CasterSound'
    BY <1>0, <1>3, <2>3 DEF ReceiveDone, CasterSound
  <2>. QED  BY <2>4, <2>5, <2>6 DEF EventSound
<1>4. CASE Count(c)
  <2>1. c \in Counting /\ Counting' = Counting \ {c}
    BY <1>0, <1>4 DEF Count, Counting, TypeOK
  <2>2. /\ Cardinality(Counting') = Cardinality(Counting) - 1
        /\ Cardinality(Counting') \in Nat
    BY <2>1, FiniteCounts, FS_RemoveElement, FS_CardinalityType
  <2>3. pending = Cardinality(BusyListeners) + done_q + Cardinality(Counting)
    BY <1>0, CountForm
  <2>4. pending' = pending - 1 /\ pending' \in 0 .. 255
    <3>1. pending \in 0 .. 255 /\ done_q \in Nat
      BY <1>0 DEF TypeOK
    <3>2. pending \in 1 .. 255
      BY <2>2, <2>3, <3>1, FiniteCounts
    <3>3. (pending + 255) % 256 = pending - 1
      BY <3>2
    <3>. QED  BY <1>4, <3>2, <3>3 DEF Count
  <2>5. TypeOK'
    BY <1>0, <1>4, <2>4 DEF Count, TypeOK
  <2>6. \A m \in Listener : pc'[m] = pc[m] /\ (Busy(m)' <=> Busy(m))
    BY <1>0, <1>4 DEF Count, Busy, TypeOK
  <2>7. pc[c] = "count" /\ pc'[c] = "check"
    BY <1>0, <1>4 DEF Count, TypeOK
  <2>8. PendingCounts'
    <3>1. BusyListeners' = BusyListeners
      BY <2>6 DEF BusyListeners
    <3>2. pending' = Cardinality(BusyListeners') + done_q' + Cardinality(Counting')
      BY <1>0, <1>4, <2>2, <2>3, <2>4, <3>1, FiniteCounts DEF Count, TypeOK
    <3>. QED  BY <2>5, <3>2 DEF PendingCounts, BusyListeners, Counting
  <2>9. ListenerSound'
    BY <1>0, <1>4, <2>6 DEF Count, ListenerSound
  <2>10. CasterSound'
    BY <1>0, <1>4, <2>7 DEF Count, CasterSound
  <2>. QED  BY <2>8, <2>9, <2>10 DEF EventSound
<1>. QED  BY <1>1, <1>2, <1>3, <1>4

\* A step that changes nothing of this module.
LEMMA StutterSound == EventSound /\ UNCHANGED vars => EventSound'
<1>. SUFFICES ASSUME EventSound, UNCHANGED vars  PROVE EventSound'
  OBVIOUS
<1>1. TypeOK'
  BY DEF EventSound, PendingCounts, TypeOK, vars
<1>2. \A l \in Listener : Busy(l)' <=> Busy(l)
  BY DEF Busy, vars
<1>3. PendingCounts'
  BY <1>1, <1>2, CountKept DEF EventSound, vars
<1>4. ListenerSound'
  BY <1>2 DEF EventSound, ListenerSound, vars
<1>5. CasterSound'
  BY DEF EventSound, CasterSound, Busy, vars
<1>. QED  BY <1>3, <1>4, <1>5 DEF EventSound

\* EventSound is an invariant of an event with a single caster.
THEOREM EventInvariant ==
  ASSUME SingleCaster
  PROVE  Spec => []EventSound
<1>1. EventSound /\ [Next]_vars => EventSound'
  BY ReceiveSound, DoneSound, BroadcastSound, CastSound, AwaitSound,
    StutterSound DEF Next, ListenerStep, CasterStep
<1>. QED  BY InitSound, <1>1, PTL DEF Spec

\* udata->pending is exact, and never wraps around.
THEOREM PendingIsExact ==
  ASSUME SingleCaster
  PROVE  Spec => []PendingCounts
  BY EventInvariant, PTL DEF EventSound

\* When broadcast(true) has returned, every listener it reached has called
\* done.
THEOREM BroadcastWaitsForAll ==
  ASSUME SingleCaster
  PROVE  Spec => []AllDone
<1>1. EventSound => AllDone
  <2>. SUFFICES ASSUME EventSound, NEW c \in Caster, pc[c] = "idle"
                PROVE  \A l \in Listener : ~Busy(l)
    BY DEF AllDone
  <2>1. pending = 0 /\ PendingCounts /\ done_q \in Nat
    <3>1. TypeOK /\ PendingCounts /\ CasterSound
      BY DEF EventSound, PendingCounts
    <3>. QED  BY <3>1 DEF CasterSound, TypeOK
  <2>2. Cardinality(BusyListeners) = 0
    BY <2>1, CountForm, FiniteCounts
  <2>. QED  BY <2>2, FiniteCounts, FS_EmptySet DEF BusyListeners
<1>. QED  BY <1>1, EventInvariant, PTL

\* A caster that waits for a message of done waits for one that is there or
\* will be sent: it is not left waiting for nobody.
THEOREM NeverWaitsForNobody ==
  ASSUME SingleCaster
  PROVE  Spec => []WaitsForSomeone
<1>1. EventSound => WaitsForSomeone
  <2>. SUFFICES ASSUME EventSound, NEW c \in Caster, pc[c] = "receive_done",
                       done_q = 0, \A l \in Listener : ~Busy(l)
                PROVE  FALSE
    BY SMTT(30) DEF WaitsForSomeone, EventSound, PendingCounts, TypeOK
  <2>1. BusyListeners = {} /\ Counting = {}
    BY DEF BusyListeners, Counting, SingleCaster
  <2>2. pending = 0
    BY <2>1, CountForm, FS_EmptySet DEF EventSound
  <2>. QED  BY <2>2 DEF EventSound, CasterSound
<1>. QED  BY <1>1, EventInvariant, PTL
=============================================================================
