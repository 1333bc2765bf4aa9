------------------------------ MODULE SpiLock ------------------------------
(***************************************************************************)
(* Hardware locks (sys/sys/driver.c) as the SPI driver uses them           *)
(* (sys/drivers/spi.c).  Before a device is set up, its unit locks the     *)
(* pins of the bus and the chip select; a pin locked by another unit       *)
(* revokes the call, and everything the unit has locked is given back.     *)
(*                                                                         *)
(* driver_mtx covers one call of driver_lock, driver_unlock or             *)
(* driver_unlock_all; spi_lock covers spi_ll_setup, spi_ll_unsetup and     *)
(* spi_pin_map, but not the locking in spi_setup.                          *)
(***************************************************************************)
EXTENDS Naturals, Sequences, FiniteSets

CONSTANTS
  Task,         \* the tasks that use SPI
  Unit,         \* SPI units
  Pin,          \* GPIOs
  NULL,         \* no owner, no task, no device
  Serves,       \* the units each task uses
  CSPins,       \* the chip selects used with each unit
  Flags,        \* the flags used with each unit: sets of Flag
  Maps,         \* the pin maps used with each unit; see PinMap
  NDevices      \* SPI_BUS_DEVICES

Flag == {"READ", "WRITE"}
BusSignal == {"MISO", "MOSI", "CLK"}
Signal == BusSignal \cup {"CS"}

ASSUME SpiAssumption ==
  /\ Unit # {}
  /\ NULL \notin Unit \cup Task
  /\ Serves \in [Task -> SUBSET Unit]
  /\ CSPins \in [Unit -> SUBSET Pin]
  /\ Flags \in [Unit -> SUBSET SUBSET Flag]
  /\ Maps \in [Unit -> SUBSET [BusSignal -> Pin]]
  /\ \A u \in Unit : Maps[u] # {}
  /\ NDevices \in Nat \ {0}

VARIABLES
  owner,      \* gpio_locks: the unit that owns the lock on each pin
  map,        \* the pins of each unit's bus
  setup,      \* whether each unit's bus is set up
  device,     \* for each unit, the flags of the device at each chip select
  spi_mtx,    \* the task inside spi_ll_unsetup of each unit
  pc,         \* where each task is
  unit, cs, flags,  \* the arguments of the call in progress
  todo        \* the signals it has still to lock or to unlock

vars == <<owner, map, setup, device, spi_mtx, pc, unit, cs, flags, todo>>
args == <<unit, cs, flags>>

TypeOK ==
  /\ owner \in [Pin -> Unit \cup {NULL}]
  /\ map \in [Unit -> [BusSignal -> Pin]]
  /\ setup \in [Unit -> BOOLEAN]
  /\ device \in [Unit -> [Pin -> (SUBSET Flag) \cup {NULL}]]
  /\ spi_mtx \in [Unit -> Task \cup {NULL}]
  /\ pc \in [Task -> {"idle", "lock", "revoke", "lock_error", "ll_setup",
                      "unlock"}]
  /\ unit \in [Task -> Unit]
  /\ cs \in [Task -> Pin]
  /\ flags \in [Task -> SUBSET Flag]
  /\ todo \in [Task -> Seq(Signal)]

\* _driver_init and _spi_init, with some pin map.
Init ==
  /\ owner = [p \in Pin |-> NULL]
  /\ map \in [Unit -> [BusSignal -> Pin]]
  /\ \A u \in Unit : map[u] \in Maps[u]
  /\ setup = [u \in Unit |-> FALSE]
  /\ device = [u \in Unit |-> [p \in Pin |-> NULL]]
  /\ spi_mtx = [u \in Unit |-> NULL]
  /\ pc = [t \in Task |-> "idle"]
  /\ unit = [t \in Task |-> CHOOSE u \in Unit : TRUE]
  /\ cs = [t \in Task |-> CHOOSE p \in Pin : TRUE]
  /\ flags = [t \in Task |-> {}]
  /\ todo = [t \in Task |-> <<>>]

Goto(t, l) == pc' = [pc EXCEPT ![t] = l]

\* The pin a task is to lock or unlock next.
PinOf(t) == IF Head(todo[t]) = "CS" THEN cs[t] ELSE map[unit[t]][Head(todo[t])]

\* The pins of a bus that a device with flags f needs.
BusFor(f) == (IF "READ" \in f THEN <<"MISO">> ELSE <<>>)
               \o (IF "WRITE" \in f THEN <<"MOSI">> ELSE <<>>) \o <<"CLK">>

\* The pins of a unit's bus; the pins of a map differ.
Pins(u) == {map[u][s] : s \in BusSignal}
Unique(m) == \A s1, s2 \in BusSignal : m[s1] = m[s2] => s1 = s2

Configured(u) == {p \in Pin : device[u][p] # NULL}

-----------------------------------------------------------------------------
(* spi_setup.                                                              *)

\* TEST_UNIQUE4, and the test whether the bus is already set up.
Setup(t, u, p, f) ==
  /\ pc[t] = "idle"
  /\ Unique(map[u]) /\ p \notin Pins(u)
  /\ unit' = [unit EXCEPT ![t] = u]
  /\ cs' = [cs EXCEPT ![t] = p]
  /\ flags' = [flags EXCEPT ![t] = f]
  /\ todo' = [todo EXCEPT ![t] = (IF setup[u] THEN <<>> ELSE BusFor(f))
                                   \o <<"CS">>]
  /\ Goto(t, "lock")
  /\ UNCHANGED <<owner, map, setup, device, spi_mtx>>

\* driver_lock on the next pin: free, or locked by this unit.
LockGrant(t) ==
  /\ pc[t] = "lock"
  /\ owner[PinOf(t)] \in {NULL, unit[t]}
  /\ owner' = [owner EXCEPT ![PinOf(t)] = unit[t]]
  /\ todo' = [todo EXCEPT ![t] = Tail(@)]
  /\ Goto(t, IF Len(todo[t]) = 1 THEN "ll_setup" ELSE "lock")
  /\ UNCHANGED <<map, setup, device, spi_mtx, args>>

\* driver_lock: another unit has the pin.
LockRevoke(t) ==
  /\ pc[t] = "lock"
  /\ owner[PinOf(t)] \notin {NULL, unit[t]}
  /\ Goto(t, "revoke")
  /\ UNCHANGED <<owner, map, setup, device, spi_mtx, args, todo>>

\* Mutants: the locks of all units are given back; none are.
UnlockAllOwners(t) ==
  /\ pc[t] \in {"revoke", "lock_error"}
  /\ owner' = [p \in Pin |-> NULL]
  /\ Goto(t, IF pc[t] = "revoke" THEN "lock_error" ELSE "idle")
  /\ UNCHANGED <<map, setup, device, spi_mtx, args, todo>>

UnlockNone(t) ==
  /\ pc[t] \in {"revoke", "lock_error"}
  /\ Goto(t, IF pc[t] = "revoke" THEN "lock_error" ELSE "idle")
  /\ UNCHANGED <<owner, map, setup, device, spi_mtx, args, todo>>

\* driver_unlock_all, called by driver_lock once driver_mtx is released, and
\* again by driver_lock_error.
UnlockAll(t) ==
  /\ pc[t] \in {"revoke", "lock_error"}
  /\ owner' = [p \in Pin |-> IF owner[p] = unit[t] THEN NULL ELSE owner[p]]
  /\ Goto(t, IF pc[t] = "revoke" THEN "lock_error" ELSE "idle")
  /\ UNCHANGED <<map, setup, device, spi_mtx, args, todo>>

\* spi_ll_setup: a device with the same chip select is configured again;
\* otherwise a free one is taken, if there is one.
LLSetup(t) ==
  LET u == unit[t] IN
  /\ pc[t] = "ll_setup"
  /\ spi_mtx[u] = NULL
  /\ \/ /\ cs[t] \in Configured(u) \/ Cardinality(Configured(u)) < NDevices
        /\ device' = [device EXCEPT ![u][cs[t]] = flags[t]]
        /\ setup' = [setup EXCEPT ![u] = TRUE]
     \/ /\ cs[t] \notin Configured(u)
        /\ Cardinality(Configured(u)) >= NDevices
        /\ UNCHANGED <<device, setup>>
  /\ Goto(t, "idle")
  /\ UNCHANGED <<owner, map, spi_mtx, args, todo>>

-----------------------------------------------------------------------------
(* spi_unsetup and spi_pin_map.                                            *)

\* The chip select is unlocked and the device is no longer set up; without a
\* device left the bus is given up, spi_lock being held.  (The unlock and the
\* reset of the device are two statements; nobody else wants the chip select.)
Unsetup(t, u, p) ==
  /\ pc[t] = "idle"
  /\ device[u][p] # NULL
  /\ spi_mtx[u] = NULL
  /\ owner' = [owner EXCEPT ![p] = NULL]
  /\ device' = [device EXCEPT ![u][p] = NULL]
  /\ unit' = [unit EXCEPT ![t] = u]
  /\ IF Configured(u) = {p}
     THEN /\ spi_mtx' = [spi_mtx EXCEPT ![u] = t]
          /\ todo' = [todo EXCEPT ![t] = <<"MISO", "MOSI", "CLK">>]
          /\ Goto(t, "unlock")
     ELSE UNCHANGED <<spi_mtx, todo, pc>>
  /\ UNCHANGED <<map, setup, cs, flags>>

\* driver_unlock on a pin of the bus, whoever has locked it.
UnlockBus(t) ==
  /\ pc[t] = "unlock"
  /\ todo[t] # <<>>
  /\ owner' = [owner EXCEPT ![PinOf(t)] = NULL]
  /\ todo' = [todo EXCEPT ![t] = Tail(@)]
  /\ UNCHANGED <<map, setup, device, spi_mtx, pc, args>>

\* The bus is detached.
DetachBus(t) ==
  /\ pc[t] = "unlock"
  /\ todo[t] = <<>>
  /\ setup' = [setup EXCEPT ![unit[t]] = FALSE]
  /\ spi_mtx' = [spi_mtx EXCEPT ![unit[t]] = NULL]
  /\ Goto(t, "idle")
  /\ UNCHANGED <<owner, map, device, args, todo>>

\* Refused once the bus is set up.  The other tests, which look at the map in
\* force, and arguments of -1, which keep a pin, are left out: any map of Maps
\* may follow.
PinMap(t, u, m) ==
  /\ pc[t] = "idle"
  /\ spi_mtx[u] = NULL
  /\ ~setup[u]
  /\ map' = [map EXCEPT ![u] = m]
  /\ UNCHANGED <<owner, setup, device, spi_mtx, pc, args, todo>>

Next == \E t \in Task :
  \/ \E u \in Serves[t] :
       \/ \E p \in CSPins[u], f \in Flags[u] : Setup(t, u, p, f)
       \/ \E p \in CSPins[u] : Unsetup(t, u, p)
       \/ \E m \in Maps[u] : PinMap(t, u, m)
  \/ LockGrant(t)
  \/ LockRevoke(t)
  \/ UnlockAll(t)
  \/ LLSetup(t)
  \/ UnlockBus(t)
  \/ DetachBus(t)

Spec == Init /\ [][Next]_vars

-----------------------------------------------------------------------------
(* Properties.                                                             *)

\* The pins that the devices of unit u use.
InUse(u) ==
  Configured(u) \cup
    UNION {{map[u][s] : s \in {BusFor(device[u][p])[i] :
                                 i \in 1 .. Len(BusFor(device[u][p]))}} :
             p \in Configured(u)}

\* "each array entry keep the driver unit that owns the lock": the pins of a
\* device that is set up are locked by its unit, so that no other unit is
\* granted them.
InUseLocked == TypeOK /\ \A u \in Unit : \A p \in InUse(u) : owner[p] = u

Busy(u) == \E t \in Task : pc[t] # "idle" /\ unit[t] = u

\* A unit keeps no lock on a bus it has no use for: when none of its calls is
\* in progress, the pins it has locked, chip selects apart, are those of its
\* bus, and none if it is not set up, be it because a call was revoked
\* half-way.  (The chip select of a device that was refused for want of a
\* free one stays locked.)
NoLockLeft ==
  \A u \in Unit : ~Busy(u) =>
    \A p \in Pin \ CSPins[u] : owner[p] = u =>
      setup[u] /\ p \in Pins(u)

\* Each unit is used by one task only and always to read and to write, and
\* chip selects are shared neither with another unit nor with a bus.
PrivateUse ==
  /\ \A t1, t2 \in Task : t1 # t2 => Serves[t1] \cap Serves[t2] = {}
  /\ \A u \in Unit : Flags[u] \subseteq {Flag}
  /\ \A u, v \in Unit :
       /\ u # v => CSPins[u] \cap CSPins[v] = {}
       /\ \A m \in Maps[v], s \in BusSignal : m[s] \notin CSPins[u]

\* What the proofs need besides.  A unit owns pins of its bus and its chip
\* selects only, and has locked those of its devices; ...
UnitSound ==
  /\ \A u \in Unit :
       /\ map[u] \in Maps[u]
       /\ ~setup[u] => Configured(u) = {}
       /\ \A p \in Configured(u) :
            p \in CSPins[u] /\ device[u][p] = Flag /\ owner[p] = u
  /\ \A p \in Pin : owner[p] # NULL => p \in CSPins[owner[p]] \cup Pins(owner[p])

\* ... a bus that is set up is locked until it is given up, and one that is
\* not is free of locks, unless a call is about to change that; ...
BusSound ==
  \A u \in Unit :
    /\ setup[u] => Unique(map[u])
    /\ setup[u] /\ (\A t \in Task : unit[t] = u => pc[t] # "unlock")
         => \A s \in BusSignal : owner[map[u][s]] = u
    /\ ~setup[u] /\ ~Busy(u) => \A p \in Pin : owner[p] = u => p \in CSPins[u]

\* ... and a call has locked, or unlocked, the pins it has passed.
LockTodo == {<<"MISO", "MOSI", "CLK", "CS">>, <<"MOSI", "CLK", "CS">>,
             <<"CLK", "CS">>, <<"CS">>}
UnlockTodo == {<<"MISO", "MOSI", "CLK">>, <<"MOSI", "CLK">>, <<"CLK">>, <<>>}
Left(t) == {todo[t][i] : i \in 1 .. Len(todo[t])}

CallOf(t, u) ==
  /\ u \in Serves[t]
  /\ Unique(map[u])
  /\ pc[t] \in {"lock", "ll_setup"} => cs[t] \in CSPins[u] /\ flags[t] = Flag
  /\ pc[t] = "lock" =>
       /\ todo[t] \in LockTodo
       /\ setup[u] => todo[t] = <<"CS">>
       /\ \A s \in BusSignal \ Left(t) : owner[map[u][s]] = u
  /\ pc[t] \in {"revoke", "lock_error"} => ~setup[u]
  /\ pc[t] = "ll_setup" =>
       owner[cs[t]] = u /\ \A s \in BusSignal : owner[map[u][s]] = u
  /\ pc[t] = "unlock" =>
       /\ setup[u]
       /\ Configured(u) = {}
       /\ todo[t] \in UnlockTodo
       /\ \A s \in BusSignal : owner[map[u][s]] = u <=> s \in Left(t)

CallSound == \A t \in Task : pc[t] # "idle" => CallOf(t, unit[t])

\* The inductive invariant of units in private use.
SpiSound == TypeOK /\ UnitSound /\ BusSound /\ CallSound
=============================================================================
