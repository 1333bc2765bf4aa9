--------------------------- MODULE SpiLockProofs ---------------------------
(***************************************************************************)
(* The hardware locks protect the SPI devices, and are given back, for any *)
(* number of tasks, units, pins and pin maps, shared pins among them, when *)
(* the units are in private use.                                           *)
(***************************************************************************)
EXTENDS SpiLock, FiniteSetTheorems, TLAPS

USE SpiAssumption DEF Goto, args, Signal, BusSignal

\* A sequence q is r with x put at its end.
LEMMA PutAtEnd ==
  ASSUME NEW S, NEW r \in Seq(S), NEW x \in S, NEW q \in Seq(S),
         Len(q) = Len(r) + 1, \A i \in 1 .. Len(r) : q[i] = r[i],
         q[Len(r) + 1] = x
  PROVE  r \o <<x>> = q
<1>. DEFINE p == r \o <<x>>
<1>1. <<x>> \in Seq(S) /\ Len(<<x>>) = 1 /\ <<x>>[1] = x
  OBVIOUS
<1>2. p \in Seq(S) /\ Len(p) = Len(r) + 1
  BY <1>1
<1>3. \A i \in 1 .. Len(r) : p[i] = r[i]
  BY <1>1
<1>4. p[Len(r) + 1] = x
  BY <1>1
<1>. HIDE DEF p
<1>5. p = q
  BY <1>2, <1>3, <1>4
<1>. QED  BY <1>5 DEF p

\* What a device that reads and writes needs of the bus.
LEMMA FullBus ==
  /\ BusFor(Flag) = <<"MISO", "MOSI", "CLK">>
  /\ BusFor(Flag) \o <<"CS">> = <<"MISO", "MOSI", "CLK", "CS">>
  /\ <<>> \o <<"CS">> = <<"CS">>
<1>. DEFINE b == "MOSI"
            c == "CLK"
            d == "CS"
            q1 == <<"MISO">>
            q2 == <<"MISO", "MOSI">>
            q3 == <<"MISO", "MOSI", "CLK">>
            q4 == <<"MISO", "MOSI", "CLK", "CS">>
<1>1. BusFor(Flag) = (q1 \o <<b>>) \o <<c>>
  BY DEF BusFor, Flag
<1>2. b \in Signal /\ c \in Signal /\ d \in Signal
  OBVIOUS
<1>3. /\ q1 \in Seq(Signal) /\ q2 \in Seq(Signal)
      /\ q3 \in Seq(Signal) /\ q4 \in Seq(Signal)
  OBVIOUS
<1>4. Len(q1) = 1 /\ Len(q2) = 2 /\ Len(q3) = 3 /\ Len(q4) = 4
  OBVIOUS
<1>5. /\ \A i \in 1 .. 1 : q2[i] = q1[i]
      /\ \A i \in 1 .. 2 : q3[i] = q2[i]
      /\ \A i \in 1 .. 3 : q4[i] = q3[i]
  OBVIOUS
<1>6. q2[2] = b /\ q3[3] = c /\ q4[4] = d
  OBVIOUS
<1>7. <<>> \o <<"CS">> = <<"CS">>
  OBVIOUS
<1>. HIDE DEF b, c, d, q1, q2, q3, q4
<1>8. /\ Len(q2) = Len(q1) + 1 /\ q2[Len(q1) + 1] = b
      /\ Len(q3) = Len(q2) + 1 /\ q3[Len(q2) + 1] = c
      /\ Len(q4) = Len(q3) + 1 /\ q4[Len(q3) + 1] = d
  BY <1>4, <1>6
<1>9. /\ \A i \in 1 .. Len(q1) : q2[i] = q1[i]
      /\ \A i \in 1 .. Len(q2) : q3[i] = q2[i]
      /\ \A i \in 1 .. Len(q3) : q4[i] = q3[i]
  BY <1>4, <1>5
<1>10. q1 \o <<b>> = q2
  BY <1>2, <1>3, <1>8, <1>9, PutAtEnd
<1>11. q2 \o <<c>> = q3
  BY <1>2, <1>3, <1>8, <1>9, PutAtEnd
<1>12. q3 \o <<d>> = q4
  BY <1>2, <1>3, <1>8, <1>9, PutAtEnd
<1>13. BusFor(Flag) = q3 /\ BusFor(Flag) \o <<d>> = q4
  BY <1>1, <1>10, <1>11, <1>12
<1>. QED  BY <1>7, <1>13 DEF d, q3, q4

\* The signals a call has before it, and the one it does next.
LEMMA NextSignal ==
  ASSUME NEW t \in Task, todo[t] \in LockTodo \cup UnlockTodo, todo[t] # <<>>
  PROVE  /\ todo[t] \in Seq(Signal) /\ Tail(todo[t]) \in Seq(Signal)
         /\ Head(todo[t]) \in Left(t)
         /\ {Tail(todo[t])[i] : i \in 1 .. Len(Tail(todo[t]))}
              = Left(t) \ {Head(todo[t])}
<1>1. CASE todo[t] = <<"MISO", "MOSI", "CLK", "CS">>
  BY <1>1 DEF Left
<1>2. CASE todo[t] = <<"MOSI", "CLK", "CS">>
  BY <1>2 DEF Left
<1>3. CASE todo[t] = <<"CLK", "CS">>
  BY <1>3 DEF Left
<1>4. CASE todo[t] = <<"CS">>
  BY <1>4 DEF Left
<1>5. CASE todo[t] = <<"MISO", "MOSI", "CLK">>
  BY <1>5 DEF Left
<1>6. CASE todo[t] = <<"MOSI", "CLK">>
  BY <1>6 DEF Left
<1>7. CASE todo[t] = <<"CLK">>
  BY <1>7 DEF Left
<1>. QED  BY <1>1, <1>2, <1>3, <1>4, <1>5, <1>6, <1>7 DEF LockTodo, UnlockTodo

\* What is left to lock, and whether it is the last pin.
LEMMA LockNext ==
  ASSUME NEW t \in Task, todo[t] \in LockTodo
  PROVE  /\ todo[t] # <<>>
         /\ Len(todo[t]) = 1 => Left(t) = {"CS"} /\ Head(todo[t]) = "CS"
         /\ Len(todo[t]) # 1 => Tail(todo[t]) \in LockTodo /\ todo[t] # <<"CS">>
<1>1. CASE todo[t] = <<"MISO", "MOSI", "CLK", "CS">>
  BY <1>1 DEF Left, LockTodo
<1>2. CASE todo[t] = <<"MOSI", "CLK", "CS">>
  BY <1>2 DEF Left, LockTodo
<1>3. CASE todo[t] = <<"CLK", "CS">>
  BY <1>3 DEF Left, LockTodo
<1>4. CASE todo[t] = <<"CS">>
  BY <1>4 DEF Left, LockTodo
<1>. QED  BY <1>1, <1>2, <1>3, <1>4 DEF LockTodo

\* What is left to unlock.
LEMMA UnlockNext ==
  ASSUME NEW t \in Task, todo[t] \in UnlockTodo
  PROVE  /\ todo[t] = <<>> => Left(t) = {}
         /\ todo[t] # <<>> => Tail(todo[t]) \in UnlockTodo /\ Head(todo[t]) \in BusSignal
<1>1. CASE todo[t] = <<"MISO", "MOSI", "CLK">>
  BY <1>1 DEF UnlockTodo
<1>2. CASE todo[t] = <<"MOSI", "CLK">>
  BY <1>2 DEF UnlockTodo
<1>3. CASE todo[t] = <<"CLK">>
  BY <1>3 DEF UnlockTodo
<1>4. CASE todo[t] = <<>>
  BY <1>4 DEF Left
<1>. QED  BY <1>1, <1>2, <1>3, <1>4 DEF UnlockTodo

\* Nothing is locked, and nothing is going on, after _spi_init.
LEMMA InitSound == Init => SpiSound
<1>. SUFFICES ASSUME Init  PROVE SpiSound
  OBVIOUS
<1>1. TypeOK
  <2>1. (CHOOSE u \in Unit : TRUE) \in Unit
    OBVIOUS
  <2>2. Pin # {}
    <3>1. PICK u \in Unit : TRUE
      OBVIOUS
    <3>2. map[u] \in [BusSignal -> Pin]
      BY <3>1 DEF Init
    <3>. QED  BY <3>2
  <2>3. (CHOOSE p \in Pin : TRUE) \in Pin
    BY <2>2
  <2>4. todo \in [Task -> Seq(Signal)]
    BY DEF Init
  <2>5. device \in [Unit -> [Pin -> (SUBSET Flag) \cup {NULL}]]
    <3>. DEFINE none == [p \in Pin |-> NULL]
    <3>1. none \in [Pin -> (SUBSET Flag) \cup {NULL}]
      OBVIOUS
    <3>2. device = [u \in Unit |-> none]
      BY DEF Init
    <3>. HIDE DEF none
    <3>. QED  BY <3>1, <3>2
  <2>6. unit \in [Task -> Unit] /\ cs \in [Task -> Pin]
    BY <2>1, <2>3 DEF Init
  <2>. QED  BY <2>4, <2>5, <2>6 DEF Init, TypeOK
<1>2. UnitSound
  BY DEF Init, UnitSound, Configured
<1>3. BusSound
  BY DEF Init, BusSound
<1>4. CallSound
  BY DEF Init, CallSound
<1>. QED  BY <1>1, <1>2, <1>3, <1>4 DEF SpiSound

\* A unit has one call in progress, that of the task it serves.
LEMMA OneCall ==
  ASSUME PrivateUse, CallSound, NEW t \in Task, NEW u \in Serves[t]
  PROVE  \A t2 \in Task : t2 # t /\ pc[t2] # "idle" => unit[t2] # u
  BY DEF PrivateUse, CallSound, CallOf

\* A pin that a unit needs is not a chip select of another unit.
LEMMA CSOwner ==
  ASSUME PrivateUse, SpiSound, NEW u \in Unit, NEW p \in CSPins[u]
  PROVE  /\ p \in Pin
         /\ owner[p] \in {NULL, u}
         /\ \A v \in Unit : p \notin Pins(v)
<1>1. p \in Pin
  OBVIOUS
<1>2. \A v \in Unit : p \notin Pins(v)
  BY DEF PrivateUse, SpiSound, UnitSound, Pins
<1>3. owner[p] \in Unit \cup {NULL}
  BY <1>1 DEF SpiSound, TypeOK
<1>4. owner[p] # NULL => p \in CSPins[owner[p]]
  BY <1>1, <1>2, <1>3 DEF SpiSound, UnitSound
<1>. QED  BY <1>1, <1>2, <1>3, <1>4 DEF PrivateUse

\* A step that leaves alone what a call is about leaves the call alone.
LEMMA CallKept ==
  ASSUME TypeOK, NEW t \in Task, NEW u \in Unit, unit[t] = u, CallOf(t, u),
         unit'[t] = u, pc'[t] = pc[t], cs'[t] = cs[t], flags'[t] = flags[t],
         todo'[t] = todo[t], map'[u] = map[u], setup'[u] = setup[u],
         device'[u] = device[u],
         \A p \in Pin : owner'[p] = u <=> owner[p] = u
  PROVE  CallOf(t, unit[t])'
<1>1. cs[t] \in Pin /\ \A s \in BusSignal : map[u][s] \in Pin
  BY DEF TypeOK
<1>2. Left(t)' = Left(t)
  BY DEF Left
<1>3. Configured(unit[t])' = Configured(u)
  BY DEF Configured
<1>. QED  BY <1>1, <1>2, <1>3 DEF CallOf, Unique

\* The beginning of spi_setup.
LEMMA SetupSound ==
  ASSUME PrivateUse, SpiSound, NEW t \in Task, NEW u \in Serves[t],
         NEW p \in CSPins[u], NEW f \in Flags[u], Setup(t, u, p, f)
  PROVE  SpiSound'
<1>0. TypeOK /\ UnitSound /\ BusSound /\ CallSound /\ u \in Unit /\ p \in Pin
  BY DEF SpiSound
<1>1. f = Flag /\ f \subseteq Flag
  BY <1>0 DEF PrivateUse
<1>2. /\ pc[t] = "idle" /\ Unique(map[u])
      /\ pc' = [pc EXCEPT ![t] = "lock"]
      /\ unit' = [unit EXCEPT ![t] = u]
      /\ cs' = [cs EXCEPT ![t] = p]
      /\ flags' = [flags EXCEPT ![t] = f]
      /\ UNCHANGED <<owner, map, setup, device, spi_mtx>>
  BY DEF Setup
<1>3. todo' = [todo EXCEPT ![t] = IF setup[u] THEN <<"CS">>
                                  ELSE <<"MISO", "MOSI", "CLK", "CS">>]
  BY <1>1, FullBus DEF Setup
<1>4. TypeOK'
  <2>1. <<"CS">> \in Seq(Signal) /\ <<"MISO", "MOSI", "CLK", "CS">> \in Seq(Signal)
    OBVIOUS
  <2>2. todo' \in [Task -> Seq(Signal)]
    BY <1>0, <1>3, <2>1 DEF TypeOK
  <2>. QED  BY <1>0, <1>1, <1>2, <2>2 DEF TypeOK
<1>5. UnitSound'
  BY <1>0, <1>2 DEF UnitSound, Configured, Pins
<1>6. \A t2 \in Task : t2 # t => pc'[t2] = pc[t2] /\ unit'[t2] = unit[t2]
  BY <1>0, <1>2 DEF TypeOK
<1>7. pc'[t] = "lock" /\ unit'[t] = u /\ cs'[t] = p /\ flags'[t] = f
  BY <1>0, <1>2 DEF TypeOK
<1>8. BusSound'
  <2>1. \A v \in Unit : Busy(v) => Busy(v)'
    BY <1>2, <1>6, <1>7 DEF Busy
  <2>. QED  BY <1>0, <1>2, <1>6, <1>7, <2>1 DEF BusSound
<1>9. CallSound'
  <2>1. todo'[t] \in LockTodo /\ (setup[u] => todo'[t] = <<"CS">>)
    BY <1>0, <1>3 DEF TypeOK, LockTodo
  <2>2. \A s \in BusSignal \ Left(t)' : owner[map[u][s]] = u
    <3>1. CASE setup[u]
      <4>1. \A t2 \in Task : unit[t2] = u => pc[t2] # "unlock"
        BY <1>0, <1>2, OneCall
      <4>. QED  BY <1>0, <3>1, <4>1 DEF BusSound
    <3>2. CASE ~setup[u]
      <4>1. todo'[t] = <<"MISO", "MOSI", "CLK", "CS">>
        BY <1>0, <1>3, <3>2 DEF TypeOK
      <4>2. BusSignal \subseteq Left(t)'
        BY <4>1 DEF Left
      <4>. QED  BY <4>2
    <3>. QED  BY <3>1, <3>2
  <2>3. \A t2 \in Task : t2 # t =>
          /\ cs'[t2] = cs[t2] /\ flags'[t2] = flags[t2] /\ todo'[t2] = todo[t2]
          /\ Left(t2)' = Left(t2)
    BY <1>0, <1>2, <1>3 DEF TypeOK, Left
  <2>. QED  BY <1>0, <1>1, <1>2, <1>6, <1>7, <2>1, <2>2, <2>3
    DEF CallSound, CallOf, Configured, Unique
<1>. QED  BY <1>4, <1>5, <1>8, <1>9 DEF SpiSound

\* driver_lock, granted: only free pins and pins of the unit itself change
\* hands.
LEMMA GrantSound ==
  ASSUME PrivateUse, SpiSound, NEW t \in Task, LockGrant(t)
  PROVE  SpiSound'
<1>. DEFINE u == unit[t]
            P == PinOf(t)
            h == Head(todo[t])
<1>0. TypeOK /\ UnitSound /\ BusSound /\ CallSound /\ u \in Unit
  BY DEF SpiSound, TypeOK
<1>1. /\ pc[t] = "lock" /\ owner[P] \in {NULL, u}
      /\ owner' = [owner EXCEPT ![P] = u]
      /\ todo' = [todo EXCEPT ![t] = Tail(todo[t])]
      /\ pc' = [pc EXCEPT ![t] = IF Len(todo[t]) = 1 THEN "ll_setup" ELSE "lock"]
      /\ UNCHANGED <<map, setup, device, spi_mtx, unit, cs, flags>>
  BY DEF LockGrant
<1>2. /\ u \in Serves[t] /\ Unique(map[u]) /\ cs[t] \in CSPins[u]
      /\ flags[t] = Flag /\ todo[t] \in LockTodo
      /\ setup[u] => todo[t] = <<"CS">>
      /\ \A s \in BusSignal \ Left(t) : owner[map[u][s]] = u
  BY <1>0, <1>1 DEF CallSound, CallOf
<1>3. /\ todo[t] # <<>>
      /\ Len(todo[t]) = 1 => Left(t) = {"CS"} /\ h = "CS"
      /\ Len(todo[t]) # 1 => Tail(todo[t]) \in LockTodo /\ ~setup[u]
  BY <1>2, LockNext
<1>4. /\ Tail(todo[t]) \in Seq(Signal) /\ h \in Signal /\ h \in Left(t)
      /\ Left(t)' = Left(t) \ {h}
  <2>1. todo'[t] = Tail(todo[t])
    BY <1>0, <1>1 DEF TypeOK
  <2>2. todo[t] \in Seq(Signal)
    BY <1>0 DEF TypeOK
  <2>3. /\ Tail(todo[t]) \in Seq(Signal) /\ h \in Left(t)
        /\ {Tail(todo[t])[i] : i \in 1 .. Len(Tail(todo[t]))} = Left(t) \ {h}
    BY <1>2, <1>3, NextSignal
  <2>4. Left(t) \subseteq Signal
    BY <2>2 DEF Left
  <2>5. Left(t)' = Left(t) \ {h}
    BY <2>1, <2>3 DEF Left
  <2>. QED  BY <2>3, <2>4, <2>5
<1>5. /\ h = "CS" => P = cs[t]
      /\ h # "CS" => P = map[u][h] /\ h \in BusSignal
  BY <1>4 DEF PinOf
<1>6. P \in Pin /\ (P \in CSPins[u] \/ P \in Pins(u))
  BY <1>0, <1>2, <1>5 DEF TypeOK, Pins
<1>. HIDE DEF u, P, h
<1>8. /\ owner'[P] = u
      /\ \A p \in Pin : p # P => owner'[p] = owner[p]
      /\ \A p \in Pin, v \in Unit : v # u => (owner'[p] = v <=> owner[p] = v)
      /\ \A p \in Pin : owner[p] = u => owner'[p] = u
  BY <1>0, <1>1, <1>6 DEF TypeOK
<1>9. TypeOK'
  <2>1. todo' \in [Task -> Seq(Signal)]
    BY <1>0, <1>1, <1>4 DEF TypeOK
  <2>2. owner' \in [Pin -> Unit \cup {NULL}]
    BY <1>0, <1>1, <1>6 DEF TypeOK
  <2>. QED  BY <1>0, <1>1, <2>1, <2>2 DEF TypeOK
<1>10. UnitSound'
  <2>1. \A v \in Unit : Configured(v)' = Configured(v) /\ Pins(v)' = Pins(v)
    BY <1>1 DEF Configured, Pins
  <2>2. \A v \in Unit : \A p \in Configured(v) : p \in Pin
    BY DEF Configured
  <2>3. \A v \in Unit : \A p \in Configured(v) : owner'[p] = v
    BY <1>0, <1>8, <2>2 DEF UnitSound
  <2>4. \A p \in Pin : owner'[p] # NULL => p \in CSPins[owner'[p]] \cup Pins(owner'[p])
    BY <1>0, <1>6, <1>8 DEF UnitSound
  <2>5. owner' \in [Pin -> Unit \cup {NULL}]
    BY <1>9 DEF TypeOK
  <2>. QED  BY <1>0, <1>1, <2>1, <2>3, <2>4, <2>5 DEF UnitSound
<1>11. \A t2 \in Task : t2 # t =>
         pc'[t2] = pc[t2] /\ todo'[t2] = todo[t2] /\ Left(t2)' = Left(t2)
  BY <1>0, <1>1 DEF TypeOK, Left
<1>12. pc'[t] = (IF Len(todo[t]) = 1 THEN "ll_setup" ELSE "lock")
  BY <1>0, <1>1 DEF TypeOK
<1>13. BusSound'
  <2>1. \A v \in Unit : Busy(v)' <=> Busy(v)
    BY <1>1, <1>11, <1>12 DEF Busy
  <2>2. unit[t] = u /\ Busy(u)
    BY <1>1 DEF u, Busy
  <2>3. \A v \in Unit, s \in BusSignal : map[v][s] \in Pin
    BY <1>0 DEF TypeOK
  <2>. QED  BY <1>0, <1>1, <1>8, <1>11, <1>12, <2>1, <2>2, <2>3 DEF BusSound
<1>14. CallSound'
  <2>. SUFFICES ASSUME NEW t2 \in Task, pc'[t2] # "idle"
                PROVE  CallOf(t2, unit[t2])'
    BY DEF CallSound
  <2>1. \A v \in Unit, s \in BusSignal : map[v][s] \in Pin
    BY <1>0 DEF TypeOK
  <2>2. CASE t2 # t
    <3>1. PICK v \in Unit : v = unit[t2]
      BY <1>0 DEF TypeOK
    <3>2. pc[t2] # "idle" /\ v # u /\ CallOf(t2, v)
      BY <1>0, <1>2, <1>11, <2>2, <3>1, OneCall DEF CallSound
    <3>3. \A p \in Pin : owner'[p] = v <=> owner[p] = v
      BY <1>8, <3>2
    <3>. QED  BY <1>0, <1>1, <1>11, <2>2, <3>1, <3>2, <3>3, CallKept
  <2>3. CASE t2 = t
    <3>1. unit'[t] = u /\ todo'[t] = Tail(todo[t]) /\ cs[t] \in Pin
      BY <1>0, <1>1 DEF u, TypeOK
    <3>2. CASE Len(todo[t]) = 1
      <4>1. owner'[cs[t]] = u /\ \A s \in BusSignal : owner'[map[u][s]] = u
        BY <1>0, <1>2, <1>3, <1>5, <1>8, <2>1, <3>2
      <4>2. pc'[t] = "ll_setup"
        BY <1>12, <3>2
      <4>. QED  BY <1>1, <1>2, <2>3, <3>1, <4>1, <4>2 DEF CallOf, Unique
    <3>3. CASE Len(todo[t]) # 1
      <4>1. \A s \in BusSignal \ Left(t)' : owner'[map[u][s]] = u
        BY <1>0, <1>2, <1>4, <1>5, <1>8, <2>1
      <4>2. pc'[t] = "lock" /\ todo'[t] \in LockTodo /\ ~setup[u]
        BY <1>3, <1>12, <3>1, <3>3
      <4>. QED  BY <1>1, <1>2, <2>3, <3>1, <4>1, <4>2 DEF CallOf, Unique
    <3>. QED  BY <3>2, <3>3
  <2>. QED  BY <2>2, <2>3
<1>. QED  BY <1>9, <1>10, <1>13, <1>14 DEF SpiSound

\* driver_lock, revoked: a unit that is set up has only its chip select to
\* lock, and that is never another unit's.
LEMMA RevokeSound ==
  ASSUME PrivateUse, SpiSound, NEW t \in Task, LockRevoke(t)
  PROVE  SpiSound'
<1>0. TypeOK /\ UnitSound /\ BusSound /\ CallSound /\ unit[t] \in Unit
  BY DEF SpiSound, TypeOK
<1>1. /\ pc[t] = "lock" /\ owner[PinOf(t)] \notin {NULL, unit[t]}
      /\ pc' = [pc EXCEPT ![t] = "revoke"]
      /\ UNCHANGED <<owner, map, setup, device, spi_mtx, unit, cs, flags, todo>>
  BY DEF LockRevoke
<1>2. CallOf(t, unit[t])
  BY <1>0, <1>1 DEF CallSound
<1>3. ~setup[unit[t]]
  <2>. SUFFICES ASSUME setup[unit[t]]  PROVE FALSE
    OBVIOUS
  <2>1. todo[t] = <<"CS">> /\ cs[t] \in CSPins[unit[t]]
    BY <1>1, <1>2 DEF CallOf
  <2>2. PinOf(t) = cs[t]
    BY <2>1 DEF PinOf
  <2>. QED  BY <1>0, <1>1, <2>1, <2>2, CSOwner
<1>4. TypeOK'
  BY <1>0, <1>1 DEF TypeOK
<1>5. UnitSound'
  BY <1>0, <1>1 DEF UnitSound, Configured, Pins
<1>6. pc'[t] = "revoke" /\ \A t2 \in Task : t2 # t => pc'[t2] = pc[t2]
  BY <1>0, <1>1 DEF TypeOK
<1>7. BusSound'
  <2>1. \A v \in Unit : Busy(v)' <=> Busy(v)
    BY <1>1, <1>6 DEF Busy
  <2>. QED  BY <1>0, <1>1, <1>6, <2>1 DEF BusSound
<1>8. CallSound'
  <2>. SUFFICES ASSUME NEW t2 \in Task, pc'[t2] # "idle"
                PROVE  CallOf(t2, unit[t2])'
    BY DEF CallSound
  <2>1. CASE t2 # t
    BY <1>0, <1>1, <1>6, <2>1, CallKept DEF CallSound, TypeOK
  <2>2. CASE t2 = t
    BY <1>1, <1>2, <1>3, <1>6, <2>2 DEF CallOf, Unique
  <2>. QED  BY <2>1, <2>2
<1>. QED  BY <1>4, <1>5, <1>7, <1>8 DEF SpiSound

\* driver_unlock_all, for a unit that is not set up.
LEMMA UnlockAllSound ==
  ASSUME PrivateUse, SpiSound, NEW t \in Task, UnlockAll(t)
  PROVE  SpiSound'
<1>0. TypeOK /\ UnitSound /\ BusSound /\ CallSound
  BY DEF SpiSound
<1>1. PICK u \in Unit : u = unit[t]
  BY <1>0 DEF TypeOK
<1>2. /\ pc[t] \in {"revoke", "lock_error"}
      /\ owner' = [p \in Pin |-> IF owner[p] = u THEN NULL ELSE owner[p]]
      /\ pc' = [pc EXCEPT ![t] = IF pc[t] = "revoke" THEN "lock_error" ELSE "idle"]
      /\ UNCHANGED <<map, setup, device, spi_mtx, unit, cs, flags, todo>>
  BY <1>1 DEF UnlockAll
<1>3. CallOf(t, u) /\ ~setup[u] /\ u \in Serves[t] /\ Unique(map[u])
  BY <1>0, <1>1, <1>2 DEF CallSound, CallOf
<1>4. /\ \A p \in Pin : owner'[p] # u
      /\ \A p \in Pin, v \in Unit : v # u => (owner'[p] = v <=> owner[p] = v)
      /\ \A p \in Pin : owner'[p] # NULL => owner'[p] = owner[p]
  BY <1>0, <1>2 DEF TypeOK
<1>5. TypeOK'
  BY <1>0, <1>2 DEF TypeOK
<1>6. UnitSound'
  <2>1. \A v \in Unit : Configured(v)' = Configured(v) /\ Pins(v)' = Pins(v)
    BY <1>2 DEF Configured, Pins
  <2>2. Configured(u) = {}
    BY <1>0, <1>3 DEF UnitSound
  <2>3. \A v \in Unit : \A p \in Configured(v) : p \in Pin /\ owner'[p] = v
    BY <1>0, <1>4, <2>2 DEF UnitSound, Configured
  <2>4. owner' \in [Pin -> Unit \cup {NULL}]
    BY <1>5 DEF TypeOK
  <2>5. \A p \in Pin : owner'[p] # NULL =>
          p \in CSPins[owner'[p]] \cup Pins(owner[p])'
    BY <1>0, <1>4, <2>1, <2>4 DEF UnitSound
  <2>6. \A v \in Unit : /\ map'[v] \in Maps[v]
                        /\ ~setup'[v] => Configured(v)' = {}
                        /\ \A p \in Configured(v)' :
                             p \in CSPins[v] /\ device'[v][p] = Flag
    BY <1>0, <1>2, <2>1 DEF UnitSound
  <2>. QED  BY <2>1, <2>3, <2>5, <2>6 DEF UnitSound
<1>7. /\ pc'[t] \in {"lock_error", "idle"}
      /\ \A t2 \in Task : t2 # t => pc'[t2] = pc[t2]
  BY <1>0, <1>2 DEF TypeOK
<1>8. BusSound'
  <2>1. \A v \in Unit : v # u => (Busy(v)' <=> Busy(v))
    BY <1>1, <1>2, <1>7 DEF Busy
  <2>2. \A v \in Unit, s \in BusSignal : map[v][s] \in Pin
    BY <1>0 DEF TypeOK
  <2>. QED  BY <1>0, <1>1, <1>2, <1>3, <1>4, <1>7, <2>1, <2>2 DEF BusSound
<1>9. CallSound'
  <2>. SUFFICES ASSUME NEW t2 \in Task, pc'[t2] # "idle"
                PROVE  CallOf(t2, unit[t2])'
    BY DEF CallSound
  <2>1. CASE t2 # t
    <3>1. PICK v \in Unit : v = unit[t2]
      BY <1>0 DEF TypeOK
    <3>2. pc[t2] # "idle" /\ v # u /\ CallOf(t2, v)
      BY <1>0, <1>3, <1>7, <2>1, <3>1, OneCall DEF CallSound
    <3>. QED  BY <1>0, <1>2, <1>4, <1>7, <2>1, <3>1, <3>2, CallKept
  <2>2. CASE t2 = t
    BY <1>1, <1>2, <1>3, <1>7, <2>2 DEF CallOf, Unique
  <2>. QED  BY <2>1, <2>2
<1>. QED  BY <1>5, <1>6, <1>8, <1>9 DEF SpiSound

\* spi_ll_setup.  A device is refused only if the unit has others, and is set
\* up then.
LEMMA LLSetupSound ==
  ASSUME PrivateUse, SpiSound, NEW t \in Task, LLSetup(t)
  PROVE  SpiSound'
<1>0. TypeOK /\ UnitSound /\ BusSound /\ CallSound
  BY DEF SpiSound
<1>1. PICK u \in Unit : u = unit[t]
  BY <1>0 DEF TypeOK
<1>2. /\ pc[t] = "ll_setup"
      /\ pc' = [pc EXCEPT ![t] = "idle"]
      /\ \/ /\ device' = [device EXCEPT ![u][cs[t]] = flags[t]]
            /\ setup' = [setup EXCEPT ![u] = TRUE]
         \/ /\ cs[t] \notin Configured(u)
            /\ Cardinality(Configured(u)) >= NDevices
            /\ UNCHANGED <<device, setup>>
      /\ UNCHANGED <<owner, map, spi_mtx, unit, cs, flags, todo>>
  BY <1>1 DEF LLSetup
<1>3. /\ CallOf(t, u) /\ u \in Serves[t] /\ Unique(map[u])
      /\ cs[t] \in CSPins[u] /\ flags[t] = Flag /\ owner[cs[t]] = u
      /\ \A s \in BusSignal : owner[map[u][s]] = u
      /\ cs[t] \in Pin
  BY <1>0, <1>1, <1>2 DEF CallSound, CallOf, TypeOK
<1>4. setup' = [setup EXCEPT ![u] = TRUE]
  <2>1. CASE Cardinality(Configured(u)) >= NDevices /\ UNCHANGED <<device, setup>>
    <3>1. Configured(u) # {}
      <4>1. Cardinality({}) = 0 /\ ~(0 >= NDevices)
        BY FS_EmptySet
      <4>. QED  BY <2>1, <4>1
    <3>2. setup[u] = TRUE
      BY <1>0, <3>1 DEF UnitSound, TypeOK
    <3>. QED  BY <1>0, <2>1, <3>2 DEF TypeOK
  <2>. QED  BY <1>2, <2>1
<1>5. /\ \A v \in Unit, p \in Pin : v # u \/ p # cs[t] => device'[v][p] = device[v][p]
      /\ device'[u][cs[t]] \in {device[u][cs[t]], Flag}
      /\ device' \in [Unit -> [Pin -> (SUBSET Flag) \cup {NULL}]]
      /\ \A v \in Unit : v # u => device'[v] = device[v]
  <2>1. CASE UNCHANGED device
    BY <1>0, <2>1 DEF TypeOK
  <2>2. CASE device' = [device EXCEPT ![u][cs[t]] = flags[t]]
    BY <1>0, <1>3, <2>2 DEF TypeOK
  <2>. QED  BY <1>2, <2>1, <2>2
<1>6. TypeOK'
  BY <1>0, <1>2, <1>4, <1>5 DEF TypeOK
<1>7. pc'[t] = "idle" /\ \A t2 \in Task : t2 # t => pc'[t2] = pc[t2]
  BY <1>0, <1>2 DEF TypeOK
<1>8. UnitSound'
  <2>1. \A v \in Unit : Pins(v)' = Pins(v)
    BY <1>2 DEF Pins
  <2>2. \A v \in Unit : v # u => Configured(v)' = Configured(v)
    BY <1>5 DEF Configured
  <2>3. Configured(u)' \subseteq Configured(u) \cup {cs[t]}
    BY <1>5 DEF Configured
  <2>4. setup'[u] /\ \A v \in Unit : v # u => setup'[v] = setup[v]
    BY <1>0, <1>4 DEF TypeOK
  <2>5. \A v \in Unit : /\ map'[v] \in Maps[v]
                        /\ ~setup'[v] => Configured(v)' = {}
    BY <1>0, <1>2, <2>2, <2>4 DEF UnitSound
  <2>6. \A v \in Unit : \A p \in Configured(v)' :
          p \in Pin /\ p \in CSPins[v] /\ device'[v][p] = Flag /\ owner'[p] = v
    <3>. SUFFICES ASSUME NEW v \in Unit, NEW p \in Configured(v)'
                  PROVE  p \in Pin /\ p \in CSPins[v] /\ device'[v][p] = Flag
                           /\ owner'[p] = v
      OBVIOUS
    <3>1. p \in Pin /\ device'[v][p] # NULL
      BY DEF Configured
    <3>2. CASE v = u /\ p = cs[t] /\ device'[u][p] # device[u][p]
      BY <1>2, <1>3, <1>5, <3>1, <3>2
    <3>3. CASE device'[v][p] = device[v][p]
      <4>1. p \in Configured(v)
        BY <3>1, <3>3 DEF Configured
      <4>. QED  BY <1>0, <1>2, <3>1, <3>3, <4>1 DEF UnitSound
    <3>. QED  BY <1>5, <3>1, <3>2, <3>3
  <2>7. \A p \in Pin : owner'[p] # NULL =>
          p \in CSPins[owner'[p]] \cup Pins(owner[p])'
    BY <1>0, <1>2, <2>1 DEF UnitSound, TypeOK
  <2>. QED  BY <2>5, <2>6, <2>7 DEF UnitSound
<1>9. BusSound'
  <2>1. \A v \in Unit : v # u => (Busy(v)' <=> Busy(v))
    BY <1>1, <1>2, <1>7 DEF Busy
  <2>2. setup'[u] /\ \A v \in Unit : v # u => setup'[v] = setup[v]
    BY <1>0, <1>4 DEF TypeOK
  <2>. QED  BY <1>0, <1>1, <1>2, <1>3, <1>7, <2>1, <2>2 DEF BusSound
<1>10. CallSound'
  <2>. SUFFICES ASSUME NEW t2 \in Task, pc'[t2] # "idle"
                PROVE  CallOf(t2, unit[t2])'
    BY DEF CallSound
  <2>1. CASE t2 # t
    <3>1. PICK v \in Unit : v = unit[t2]
      BY <1>0 DEF TypeOK
    <3>2. pc[t2] # "idle" /\ v # u /\ CallOf(t2, v)
      BY <1>0, <1>3, <1>7, <2>1, <3>1, OneCall DEF CallSound
    <3>3. \A p \in Pin : owner'[p] = v <=> owner[p] = v
      BY <1>2
    <3>4. map'[v] = map[v] /\ setup'[v] = setup[v] /\ device'[v] = device[v]
      BY <1>0, <1>2, <1>4, <1>5, <3>2 DEF TypeOK
    <3>5. /\ cs'[t2] = cs[t2] /\ flags'[t2] = flags[t2] /\ todo'[t2] = todo[t2]
          /\ unit'[t2] = v
      BY <1>0, <1>2, <2>1, <3>1 DEF TypeOK
    <3>. QED  BY <1>0, <1>7, <2>1, <3>1, <3>2, <3>3, <3>4, <3>5, CallKept
  <2>. QED  BY <1>7, <2>1
<1>. QED  BY <1>6, <1>8, <1>9, <1>10 DEF SpiSound

\* driver_unlock on a pin of the bus of a unit that is given up: the pin is
\* the unit's own.
LEMMA UnlockBusSound ==
  ASSUME PrivateUse, SpiSound, NEW t \in Task, UnlockBus(t)
  PROVE  SpiSound'
<1>. DEFINE h == Head(todo[t])
<1>0. TypeOK /\ UnitSound /\ BusSound /\ CallSound
  BY DEF SpiSound
<1>1. PICK u \in Unit : u = unit[t]
  BY <1>0 DEF TypeOK
<1>2. /\ pc[t] = "unlock" /\ todo[t] # <<>>
      /\ owner' = [owner EXCEPT ![PinOf(t)] = NULL]
      /\ todo' = [todo EXCEPT ![t] = Tail(todo[t])]
      /\ UNCHANGED <<map, setup, device, spi_mtx, pc, unit, cs, flags>>
  BY DEF UnlockBus
<1>3. /\ CallOf(t, u) /\ u \in Serves[t] /\ Unique(map[u]) /\ setup[u]
      /\ Configured(u) = {} /\ todo[t] \in UnlockTodo
      /\ \A s \in BusSignal : owner[map[u][s]] = u <=> s \in Left(t)
  BY <1>0, <1>1, <1>2 DEF CallSound, CallOf
<1>4. PICK P \in Pin : P = PinOf(t) /\ P = map[u][h] /\ owner[P] = u
  <2>1. h \in BusSignal /\ h \in Left(t)
    BY <1>2, <1>3, UnlockNext, NextSignal
  <2>2. PinOf(t) = map[u][h]
    BY <1>1, <2>1 DEF PinOf
  <2>. QED  BY <1>0, <1>3, <2>1, <2>2 DEF TypeOK
<1>5. /\ owner'[P] = NULL
      /\ \A p \in Pin : p # P => owner'[p] = owner[p]
      /\ \A p \in Pin, v \in Unit : v # u => (owner'[p] = v <=> owner[p] = v)
  BY <1>0, <1>2, <1>4 DEF TypeOK
<1>6. /\ todo'[t] = Tail(todo[t]) /\ Tail(todo[t]) \in UnlockTodo
      /\ Tail(todo[t]) \in Seq(Signal) /\ h \in BusSignal
      /\ Left(t)' = Left(t) \ {h}
  <2>1. todo'[t] = Tail(todo[t])
    BY <1>0, <1>2 DEF TypeOK
  <2>2. Tail(todo[t]) \in UnlockTodo /\ h \in BusSignal
    BY <1>2, <1>3, UnlockNext
  <2>3. /\ Tail(todo[t]) \in Seq(Signal)
        /\ {Tail(todo[t])[i] : i \in 1 .. Len(Tail(todo[t]))} = Left(t) \ {h}
    BY <1>2, <1>3, NextSignal
  <2>4. Left(t)' = Left(t) \ {h}
    BY <2>1, <2>3 DEF Left
  <2>. QED  BY <2>1, <2>2, <2>3, <2>4
<1>. HIDE DEF h
<1>7. \A t2 \in Task : pc'[t2] = pc[t2]
  BY <1>2
<1>8. TypeOK'
  <2>1. owner' \in [Pin -> Unit \cup {NULL}] /\ todo' \in [Task -> Seq(Signal)]
    BY <1>0, <1>2, <1>4, <1>6 DEF TypeOK
  <2>. QED  BY <1>0, <1>2, <2>1 DEF TypeOK
<1>9. UnitSound'
  <2>1. \A v \in Unit : Configured(v)' = Configured(v) /\ Pins(v)' = Pins(v)
    BY <1>2 DEF Configured, Pins
  <2>2. \A v \in Unit : \A p \in Configured(v) : p \in Pin /\ owner'[p] = v
    BY <1>0, <1>3, <1>5 DEF UnitSound, Configured
  <2>3. \A p \in Pin : owner'[p] # NULL =>
          p \in CSPins[owner'[p]] \cup Pins(owner[p])'
    <3>1. \A p \in Pin : owner'[p] # NULL => owner'[p] = owner[p] /\ owner[p] \in Unit
      BY <1>0, <1>5 DEF TypeOK
    <3>. QED  BY <1>0, <2>1, <3>1 DEF UnitSound
  <2>4. \A v \in Unit : /\ map'[v] \in Maps[v]
                        /\ ~setup'[v] => Configured(v)' = {}
                        /\ \A p \in Configured(v)' :
                             p \in CSPins[v] /\ device'[v][p] = Flag
    BY <1>0, <1>2, <2>1 DEF UnitSound
  <2>. QED  BY <2>1, <2>2, <2>3, <2>4 DEF UnitSound
<1>10. BusSound'
  <2>1. \A v \in Unit : Busy(v)' <=> Busy(v)
    BY <1>2 DEF Busy
  <2>2. \A v \in Unit, s \in BusSignal : map[v][s] \in Pin
    BY <1>0 DEF TypeOK
  <2>. QED  BY <1>0, <1>1, <1>2, <1>3, <1>5, <2>1, <2>2 DEF BusSound
<1>11. CallSound'
  <2>. SUFFICES ASSUME NEW t2 \in Task, pc'[t2] # "idle"
                PROVE  CallOf(t2, unit[t2])'
    BY DEF CallSound
  <2>1. CASE t2 # t
    <3>1. PICK v \in Unit : v = unit[t2]
      BY <1>0 DEF TypeOK
    <3>2. pc[t2] # "idle" /\ v # u /\ CallOf(t2, v)
      BY <1>0, <1>3, <1>7, <2>1, <3>1, OneCall DEF CallSound
    <3>3. \A p \in Pin : owner'[p] = v <=> owner[p] = v
      BY <1>5, <3>2
    <3>4. map'[v] = map[v] /\ setup'[v] = setup[v] /\ device'[v] = device[v]
      BY <1>0, <1>2, <3>2 DEF TypeOK
    <3>5. /\ cs'[t2] = cs[t2] /\ flags'[t2] = flags[t2] /\ todo'[t2] = todo[t2]
          /\ unit'[t2] = v
      BY <1>0, <1>2, <2>1, <3>1 DEF TypeOK
    <3>. QED  BY <1>0, <1>7, <2>1, <3>1, <3>2, <3>3, <3>4, <3>5, CallKept
  <2>2. CASE t2 = t
    <3>1. \A s \in BusSignal : map[u][s] \in Pin /\ (map[u][s] = P <=> s = h)
      BY <1>0, <1>3, <1>4, <1>6 DEF TypeOK, Unique
    <3>2. \A s \in BusSignal : owner'[map[u][s]] = u <=> s \in Left(t)'
      BY <1>3, <1>5, <1>6, <3>1
    <3>3. Configured(unit[t])' = {} /\ unit'[t] = u
      BY <1>1, <1>2, <1>3 DEF Configured
    <3>. QED  BY <1>2, <1>3, <1>6, <2>2, <3>2, <3>3 DEF Unique, CallOf
  <2>. QED  BY <2>1, <2>2
<1>. QED  BY <1>8, <1>9, <1>10, <1>11 DEF SpiSound

\* The end of spi_ll_unsetup: nothing of the bus is locked any more.
LEMMA DetachBusSound ==
  ASSUME PrivateUse, SpiSound, NEW t \in Task, DetachBus(t)
  PROVE  SpiSound'
<1>0. TypeOK /\ UnitSound /\ BusSound /\ CallSound
  BY DEF SpiSound
<1>1. PICK u \in Unit : u = unit[t]
  BY <1>0 DEF TypeOK
<1>2. /\ pc[t] = "unlock" /\ todo[t] = <<>>
      /\ setup' = [setup EXCEPT ![u] = FALSE]
      /\ spi_mtx' = [spi_mtx EXCEPT ![u] = NULL]
      /\ pc' = [pc EXCEPT ![t] = "idle"]
      /\ UNCHANGED <<owner, map, device, unit, cs, flags, todo>>
  BY <1>1 DEF DetachBus
<1>3. /\ u \in Serves[t] /\ Configured(u) = {}
      /\ \A s \in BusSignal : owner[map[u][s]] # u
  <2>1. CallOf(t, u)
    BY <1>0, <1>1, <1>2 DEF CallSound
  <2>2. todo[t] \in UnlockTodo
    BY <1>2, <2>1 DEF CallOf
  <2>3. Left(t) = {}
    BY <1>2, <2>2, UnlockNext
  <2>. QED  BY <1>2, <2>1, <2>3 DEF CallOf
<1>4. TypeOK'
  BY <1>0, <1>2 DEF TypeOK
<1>5. \A p \in Pin : owner'[p] = owner[p]
  BY <1>2
<1>6. UnitSound'
  <2>1. \A v \in Unit : Configured(v)' = Configured(v) /\ Pins(v)' = Pins(v)
    BY <1>2 DEF Configured, Pins
  <2>2. \A v \in Unit : v # u => setup'[v] = setup[v]
    BY <1>0, <1>2 DEF TypeOK
  <2>3. owner \in [Pin -> Unit \cup {NULL}]
    BY <1>0 DEF TypeOK
  <2>. QED  BY <1>0, <1>2, <1>3, <2>1, <2>2, <2>3 DEF UnitSound
<1>7. pc'[t] = "idle" /\ \A t2 \in Task : t2 # t => pc'[t2] = pc[t2]
  BY <1>0, <1>2 DEF TypeOK
<1>8. BusSound'
  <2>1. \A v \in Unit : v # u => (Busy(v)' <=> Busy(v)) /\ setup'[v] = setup[v]
    BY <1>0, <1>1, <1>2, <1>7 DEF Busy, TypeOK
  <2>2. ~setup'[u]
    BY <1>0, <1>2 DEF TypeOK
  <2>3. \A p \in Pin : owner[p] = u => p \in CSPins[u]
    BY <1>0, <1>3 DEF UnitSound, Pins
  <2>. QED  BY <1>0, <1>1, <1>2, <1>7, <2>1, <2>2, <2>3 DEF BusSound
<1>9. CallSound'
  <2>. SUFFICES ASSUME NEW t2 \in Task, pc'[t2] # "idle"
                PROVE  CallOf(t2, unit[t2])'
    BY DEF CallSound
  <2>1. CASE t2 # t
    <3>1. PICK v \in Unit : v = unit[t2]
      BY <1>0 DEF TypeOK
    <3>2. pc[t2] # "idle" /\ v # u /\ CallOf(t2, v)
      BY <1>0, <1>3, <1>7, <2>1, <3>1, OneCall DEF CallSound
    <3>3. \A p \in Pin : owner'[p] = v <=> owner[p] = v
      BY <1>5, <3>2
    <3>4. map'[v] = map[v] /\ setup'[v] = setup[v] /\ device'[v] = device[v]
      BY <1>0, <1>2, <3>2 DEF TypeOK
    <3>5. /\ cs'[t2] = cs[t2] /\ flags'[t2] = flags[t2] /\ todo'[t2] = todo[t2]
          /\ unit'[t2] = v
      BY <1>0, <1>2, <2>1, <3>1 DEF TypeOK
    <3>. QED  BY <1>0, <1>7, <2>1, <3>1, <3>2, <3>3, <3>4, <3>5, CallKept
  <2>. QED  BY <1>7, <2>1
<1>. QED  BY <1>4, <1>6, <1>8, <1>9 DEF SpiSound

\* spi_unsetup and the beginning of spi_ll_unsetup.
LEMMA UnsetupSound ==
  ASSUME PrivateUse, SpiSound, NEW t \in Task, NEW u \in Serves[t],
         NEW p \in CSPins[u], Unsetup(t, u, p)
  PROVE  SpiSound'
<1>0. TypeOK /\ UnitSound /\ BusSound /\ CallSound /\ u \in Unit /\ p \in Pin
  BY DEF SpiSound
<1>1. /\ pc[t] = "idle" /\ device[u][p] # NULL
      /\ owner' = [owner EXCEPT ![p] = NULL]
      /\ device' = [device EXCEPT ![u][p] = NULL]
      /\ unit' = [unit EXCEPT ![t] = u]
      /\ UNCHANGED <<map, setup, cs, flags>>
  BY DEF Unsetup
<1>2. \/ /\ Configured(u) = {p}
         /\ spi_mtx' = [spi_mtx EXCEPT ![u] = t]
         /\ todo' = [todo EXCEPT ![t] = <<"MISO", "MOSI", "CLK">>]
         /\ pc' = [pc EXCEPT ![t] = "unlock"]
      \/ UNCHANGED <<spi_mtx, todo, pc>>
  BY DEF Unsetup
<1>3. /\ p \in Configured(u) /\ setup[u] /\ Unique(map[u]) /\ owner[p] = u
      /\ \A s \in BusSignal : owner[map[u][s]] = u
  <2>1. p \in Configured(u)
    BY <1>0, <1>1 DEF Configured
  <2>2. setup[u] /\ Unique(map[u]) /\ owner[p] = u
    BY <1>0, <2>1 DEF UnitSound, BusSound
  <2>3. \A t2 \in Task : unit[t2] = u => pc[t2] # "unlock"
    BY <1>0, <1>1, OneCall
  <2>. QED  BY <1>0, <2>1, <2>2, <2>3 DEF BusSound
<1>4. \A v \in Unit : p \notin Pins(v)
  BY <1>0, CSOwner
<1>5. /\ owner'[p] = NULL
      /\ \A r \in Pin : r # p => owner'[r] = owner[r]
      /\ \A r \in Pin, v \in Unit : v # u => (owner'[r] = v <=> owner[r] = v)
      /\ \A v \in Unit, s \in BusSignal : owner'[map[v][s]] = owner[map[v][s]]
  BY <1>0, <1>1, <1>3, <1>4 DEF TypeOK, Pins
<1>6. TypeOK'
  <2>1. <<"MISO", "MOSI", "CLK">> \in Seq(Signal)
    OBVIOUS
  <2>2. owner' \in [Pin -> Unit \cup {NULL}] /\ unit' \in [Task -> Unit]
    BY <1>0, <1>1 DEF TypeOK
  <2>3. device' \in [Unit -> [Pin -> (SUBSET Flag) \cup {NULL}]]
    BY <1>0, <1>1 DEF TypeOK
  <2>4. /\ todo' \in [Task -> Seq(Signal)]
        /\ spi_mtx' \in [Unit -> Task \cup {NULL}]
        /\ pc' \in [Task -> {"idle", "lock", "revoke", "lock_error",
                             "ll_setup", "unlock"}]
    <3>1. CASE UNCHANGED <<spi_mtx, todo, pc>>
      BY <1>0, <3>1 DEF TypeOK
    <3>2. CASE /\ spi_mtx' = [spi_mtx EXCEPT ![u] = t]
               /\ todo' = [todo EXCEPT ![t] = <<"MISO", "MOSI", "CLK">>]
               /\ pc' = [pc EXCEPT ![t] = "unlock"]
      BY <1>0, <2>1, <3>2 DEF TypeOK
    <3>. QED  BY <1>2, <3>1, <3>2
  <2>. QED  BY <1>0, <1>1, <2>2, <2>3, <2>4 DEF TypeOK
<1>7. /\ unit'[t] = u /\ pc'[t] \in {"idle", "unlock"}
      /\ \A t2 \in Task : t2 # t =>
           /\ pc'[t2] = pc[t2] /\ unit'[t2] = unit[t2] /\ todo'[t2] = todo[t2]
  BY <1>0, <1>1, <1>2 DEF TypeOK
<1>8. /\ \A v \in Unit : v # u => device'[v] = device[v]
      /\ \A r \in Pin : r # p => device'[u][r] = device[u][r]
      /\ device'[u][p] = NULL
  BY <1>0, <1>1 DEF TypeOK
<1>9. /\ Configured(u)' = Configured(u) \ {p}
      /\ \A v \in Unit : v # u => Configured(v)' = Configured(v)
  BY <1>8 DEF Configured
<1>10. UnitSound'
  <2>1. \A v \in Unit : Pins(v)' = Pins(v)
    BY <1>1 DEF Pins
  <2>2. \A v \in Unit : /\ map'[v] \in Maps[v]
                        /\ ~setup'[v] => Configured(v)' = {}
    BY <1>0, <1>1, <1>3, <1>9 DEF UnitSound
  <2>3. \A v \in Unit : \A r \in Configured(v)' :
          r \in CSPins[v] /\ device'[v][r] = Flag /\ owner'[r] = v
    <3>. SUFFICES ASSUME NEW v \in Unit, NEW r \in Configured(v)'
                  PROVE  r \in CSPins[v] /\ device'[v][r] = Flag /\ owner'[r] = v
      OBVIOUS
    <3>1. r \in Configured(v) /\ (v = u => r # p)
      BY <1>9
    <3>2. r \in Pin /\ r \in CSPins[v] /\ device[v][r] = Flag /\ owner[r] = v
      BY <1>0, <3>1 DEF UnitSound, Configured
    <3>. QED  BY <1>5, <1>8, <3>1, <3>2
  <2>4. \A r \in Pin : owner'[r] # NULL =>
          r \in CSPins[owner'[r]] \cup Pins(owner[r])'
    <3>1. \A r \in Pin : owner'[r] # NULL => owner'[r] = owner[r] /\ owner[r] \in Unit
      BY <1>0, <1>5 DEF TypeOK
    <3>. QED  BY <1>0, <2>1, <3>1 DEF UnitSound
  <2>. QED  BY <2>2, <2>3, <2>4 DEF UnitSound
<1>11. BusSound'
  <2>1. \A v \in Unit : Busy(v) => Busy(v)'
    BY <1>1, <1>7 DEF Busy
  <2>2. \A v \in Unit : setup[v] /\ (\A t2 \in Task : unit'[t2] = v => pc'[t2] # "unlock")
          => \A s \in BusSignal : owner'[map[v][s]] = v
    BY <1>0, <1>1, <1>5, <1>7, SMTT(30) DEF BusSound
  <2>3. \A v \in Unit : ~setup[v] /\ ~Busy(v) => \A r \in Pin : owner'[r] = v => r \in CSPins[v]
    BY <1>0, <1>3, <1>5 DEF BusSound
  <2>. QED  BY <1>0, <1>1, <2>1, <2>2, <2>3 DEF BusSound
<1>12. CallSound'
  <2>. SUFFICES ASSUME NEW t2 \in Task, pc'[t2] # "idle"
                PROVE  CallOf(t2, unit[t2])'
    BY DEF CallSound
  <2>1. CASE t2 # t
    <3>1. PICK v \in Unit : v = unit[t2]
      BY <1>0 DEF TypeOK
    <3>2. pc[t2] # "idle" /\ v # u /\ CallOf(t2, v)
      BY <1>0, <1>7, <2>1, <3>1, OneCall DEF CallSound
    <3>3. \A r \in Pin : owner'[r] = v <=> owner[r] = v
      BY <1>5, <3>2
    <3>. QED  BY <1>0, <1>1, <1>7, <1>8, <2>1, <3>1, <3>2, <3>3, CallKept
  <2>2. CASE t2 = t
    <3>1. /\ Configured(u) = {p}
          /\ todo' = [todo EXCEPT ![t] = <<"MISO", "MOSI", "CLK">>]
          /\ pc' = [pc EXCEPT ![t] = "unlock"]
      BY <1>1, <1>2, <2>2
    <3>2. pc'[t] = "unlock" /\ todo'[t] = <<"MISO", "MOSI", "CLK">>
      BY <1>0, <3>1 DEF TypeOK
    <3>3. Left(t)' = BusSignal
      BY <3>2 DEF Left
    <3>4. Configured(unit[t])' = {}
      <4>1. Configured(u)' = {}
        BY <1>9, <3>1
      <4>. QED  BY <1>7, <4>1 DEF Configured
    <3>5. todo'[t] \in UnlockTodo
      BY <3>2 DEF UnlockTodo
    <3>. QED  BY <1>1, <1>3, <1>5, <1>7, <2>2, <3>2, <3>3, <3>4, <3>5
      DEF CallOf, Unique
  <2>. QED  BY <2>1, <2>2
<1>. QED  BY <1>6, <1>10, <1>11, <1>12 DEF SpiSound

\* spi_pin_map: the bus is not set up, and holds no lock.
LEMMA PinMapSound ==
  ASSUME PrivateUse, SpiSound, NEW t \in Task, NEW u \in Serves[t],
         NEW m \in Maps[u], PinMap(t, u, m)
  PROVE  SpiSound'
<1>0. /\ TypeOK /\ UnitSound /\ BusSound /\ CallSound
      /\ u \in Unit /\ m \in [BusSignal -> Pin]
  BY DEF SpiSound
<1>1. /\ pc[t] = "idle" /\ ~setup[u]
      /\ map' = [map EXCEPT ![u] = m]
      /\ UNCHANGED <<owner, setup, device, spi_mtx, pc, unit, cs, flags, todo>>
  BY DEF PinMap
<1>2. /\ \A p \in Pin : owner[p] = u => p \in CSPins[u]
      /\ ~Busy(u)
  BY <1>0, <1>1, OneCall DEF BusSound, Busy
<1>3. map'[u] = m /\ \A v \in Unit : v # u => map'[v] = map[v]
  BY <1>0, <1>1 DEF TypeOK
<1>4. TypeOK'
  BY <1>0, <1>1 DEF TypeOK
<1>5. UnitSound'
  <2>1. \A v \in Unit : Configured(v)' = Configured(v)
    BY <1>1 DEF Configured
  <2>2. \A v \in Unit : v # u => Pins(v)' = Pins(v)
    BY <1>3 DEF Pins
  <2>3. \A p \in Pin : owner'[p] # NULL =>
          p \in CSPins[owner'[p]] \cup Pins(owner[p])'
    <3>1. \A p \in Pin : owner'[p] = owner[p] /\ owner[p] \in Unit \cup {NULL}
      BY <1>0, <1>1 DEF TypeOK
    <3>. QED  BY <1>0, <1>2, <2>2, <3>1 DEF UnitSound
  <2>. QED  BY <1>0, <1>1, <1>3, <2>1, <2>3 DEF UnitSound
<1>6. BusSound'
  <2>1. \A v \in Unit : Busy(v)' <=> Busy(v)
    BY <1>1 DEF Busy
  <2>. QED  BY <1>0, <1>1, <1>2, <1>3, <2>1 DEF BusSound
<1>7. CallSound'
  <2>. SUFFICES ASSUME NEW t2 \in Task, pc'[t2] # "idle"
                PROVE  CallOf(t2, unit[t2])'
    BY DEF CallSound
  <2>1. PICK v \in Unit : v = unit[t2]
    BY <1>0 DEF TypeOK
  <2>2. pc[t2] # "idle" /\ v # u /\ CallOf(t2, v)
    BY <1>0, <1>1, <1>2, <2>1 DEF CallSound, Busy
  <2>. QED  BY <1>0, <1>1, <1>3, <2>1, <2>2, CallKept
<1>. QED  BY <1>4, <1>5, <1>6, <1>7 DEF SpiSound

\* A step that changes nothing of this module.
LEMMA StutterSound == SpiSound /\ UNCHANGED vars => SpiSound'
<1>. SUFFICES ASSUME SpiSound, UNCHANGED vars  PROVE SpiSound'
  OBVIOUS
<1>1. TypeOK'
  BY DEF SpiSound, TypeOK, vars
<1>2. UnitSound'
  BY DEF SpiSound, UnitSound, Configured, Pins, vars
<1>3. BusSound'
  BY DEF SpiSound, BusSound, Busy, Unique, vars
<1>4. CallSound'
  BY DEF SpiSound, CallSound, CallOf, Configured, Unique, Left, vars
<1>. QED  BY <1>1, <1>2, <1>3, <1>4 DEF SpiSound

\* SpiSound is an invariant of units in private use.
THEOREM SpiInvariant ==
  ASSUME PrivateUse
  PROVE  Spec => []SpiSound
<1>1. SpiSound /\ [Next]_vars => SpiSound'
  <2>. SUFFICES ASSUME SpiSound, [Next]_vars  PROVE SpiSound'
    OBVIOUS
  <2>1. CASE Next
    BY <2>1, SetupSound, GrantSound, RevokeSound, UnlockAllSound, LLSetupSound,
      UnsetupSound, UnlockBusSound, DetachBusSound, PinMapSound DEF Next
  <2>2. CASE UNCHANGED vars
    BY <2>2, StutterSound
  <2>. QED  BY <2>1, <2>2
<1>. QED  BY InitSound, <1>1, PTL DEF Spec

\* The pins of the devices that are set up are locked by their unit, although
\* driver_unlock asks nobody's leave: no unit takes or gives back the pins of
\* another, even where their buses share pins.
THEOREM DevicesKeepTheirPins ==
  ASSUME PrivateUse
  PROVE  Spec => []InUseLocked
<1>1. SpiSound => InUseLocked
  <2>. SUFFICES ASSUME SpiSound, NEW u \in Unit, NEW p \in InUse(u)
                PROVE  owner[p] = u
    BY DEF InUseLocked, SpiSound
  <2>1. CASE p \in Configured(u)
    BY <2>1 DEF SpiSound, UnitSound
  <2>2. CASE p \notin Configured(u)
    <3>1. PICK r \in Configured(u) :
            p \in {map[u][s] : s \in {BusFor(device[u][r])[i] :
                                       i \in 1 .. Len(BusFor(device[u][r]))}}
      BY <2>2 DEF InUse
    <3>2. device[u][r] = Flag
      BY <3>1 DEF SpiSound, UnitSound
    <3>3. {BusFor(Flag)[i] : i \in 1 .. Len(BusFor(Flag))} \subseteq BusSignal
      BY FullBus
    <3>4. PICK s \in BusSignal : p = map[u][s]
      BY <3>1, <3>2, <3>3
    <3>5. setup[u] /\ \A t \in Task : unit[t] = u => pc[t] # "unlock"
      BY <3>1 DEF SpiSound, UnitSound, CallSound, CallOf
    <3>. QED  BY <3>4, <3>5 DEF SpiSound, BusSound
  <2>. QED  BY <2>1, <2>2
<1>. QED  BY <1>1, SpiInvariant, PTL

\* Outside of its calls a unit keeps no lock on a bus it does not use.
THEOREM LocksGivenBack ==
  ASSUME PrivateUse
  PROVE  Spec => []NoLockLeft
<1>1. SpiSound => NoLockLeft
  BY DEF SpiSound, UnitSound, BusSound, NoLockLeft
<1>. QED  BY <1>1, SpiInvariant, PTL
=============================================================================
