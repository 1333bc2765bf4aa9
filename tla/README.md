# A verification project for Lua RTOS (ESP32)

Lua RTOS runs a Lua virtual machine on FreeRTOS. Between the two lies the code
this project is about: a POSIX layer (`components/pthread`), a small kernel
library (`components/sys/sys`), drivers with a scheme of hardware locks
(`components/sys/drivers`), a file system in RAM (`components/ramfs`), and what
was added to Lua: modules that start threads and synchronise them
(`components/lua/modules/sys`), and tables that live in flash
(`components/lua/common`). Tasks run preemptively on two cores, so
almost every error worth finding here is an order of steps that no test
produces on purpose.

Paths in this file are relative to `src/components` unless they start with
`src/`.

## 1. Inventory

### 1.1 Threads (`pthread/_pthread.c`, `create.c`, `join.c`)

*State.* A `struct pthread` on the heap for each thread (its address is the
`pthread_t`), with the fields `active`, `attr.detachstate`,
`attr.schedparam.initial_state`, `joined_task`, `res`, `task`; the lists
`active_threads` and `inactive_threads`; the mutex `thread_mtx`; for each
FreeRTOS task one notification slot (pending or not, and a value).

*Operations.* `_pthread_create`, `_pthread_join`, `_pthread_detach`,
`_pthread_resume`, the task body `pthreadTask` from start to exit, and
`_pthread_free`; further `_pthread_stop`, `_pthread_suspend`, signals.

*Interaction.* A creator waits for a notification of the new task; a joiner for
one of the ending task. The slot that carries them is shared with every other
user of task notifications, among them the MQTT callbacks
(`lua/modules/middleware/mqtt.c`). Threads of Lua (`lua/modules/sys/thread.c`)
are created detached and suspended and are then resumed.

*Hard.* `_pthread_create` adds to the active list without `thread_mtx`; a
freed block is reused while its old address is still around; a resume can come
before the suspension it is meant to end; error returns that skip an unlock.

*Correct means.* Critical parts exclude each other; lists hold allocated
structs, each on one list; no block has two runners; a join returns the value
of the thread it waited for; every result is had exactly once; threads that end
do end, joins come back.

### 1.2 Cleanup handlers (`_pthread_cleanup_push`, `_pop`, `_pthread_cleanup`)

A list per thread, pushed with `lstadd` (which reuses free slots) and popped at
`lstlast` (the highest slot in use). It is a stack only if the slot reused is
always the lowest one above those in use.

### 1.3 Condition variables and mutexes (`pthread/cond.c`, `mutex.c`)

*State.* `referenced`, a mask of bits in use; a FreeRTOS event group with an
event for each bit; `scond->mutex`; the user's mutex. *Operations.* wait and
timedwait, signal (which wakes everyone, like a broadcast), init, destroy.
*Hard.* The bit is given up by signal before its waiter has consumed the event,
and by a timed-out waiter under the wrong mutex; destroy gives the mutex before
it deletes it (`mtx_destroy`, `sys/sys/mutex.c:138`). *Correct means.* No waiter
is out of reach of the next signal, no event is left behind, the mutex excludes.

### 1.4 Lists (`sys/sys/list.c`)

*State.* An array of slots, its size `indexes` (a `uint8_t`), and the chain of
free slots; or, for kind `LIST_NOT_INDEXED`, a linked list of items. It is the
table of open files of the file systems, the table of pthread keys, of event
listeners and of much more. *Correct means.* A handle is given out to one
client at a time and leads to its item until it is removed; slots are reused.
*Hard.* Failing allocations halfway, a handle removed twice, the index tests.

### 1.5 Hardware locks and the SPI driver (`sys/sys/driver.c`, `sys/drivers/spi.c`)

*State.* For each GPIO the unit that has locked it; for each SPI unit its pins,
whether the bus is set up, and its devices. *Operations.* `spi_setup` (locks
the bus pins, then the chip select, then sets up the device), `spi_unsetup`,
`spi_pin_map`; `driver_lock`, `driver_unlock`, `driver_unlock_all`. *Hard.*
The calls are made of many small critical sections; a refused lock gives back
all locks of the unit. *Correct means.* A pin in use is locked by the unit that
uses it, and no lock outlives its use.

### 1.6 Events (`lua/modules/sys/event.c`)

*State.* The mutex of an event, its list of listeners, each with a queue of one
message and a flag `is_waiting`, the counter `pending` and the queue `q` of
"done" messages (ten places). *Operations.* `wait`, `done`, `broadcast(wait)`,
`pending`. *Hard.* Both `broadcast` and `done` send to a bounded queue with the
mutex taken. *Correct means.* `broadcast(true)` returns, and not before all
listeners are done.

### 1.7 The cache of read-only tables (`lua/common/cache.c`, `lrotable.c`)

The tables of the Lua libraries are arrays in flash that are searched from the
start. *State.* A doubly linked list of entries, each with a table and a pointer
to the pair found there, the last one used first. *Operations.* `luaR_auxfind`
and `luaR_findglobal` ask the cache (`rotable_cache_get`, which moves a hit to
the front), search the table on a miss and put what they find into the entry
at the end of the list (`rotable_cache_put`). *Interaction.* All Lua threads
share one cache; get and put are critical sections. *Hard.* Relinking with four
pointers, one of which is not updated; between a miss and the put, and between
a hit and the reading of its value, other tasks change the list. *Correct
means.* The list stays one list of all entries, so that a walk ends; it holds
what the tables hold; it forgets the least recently used; a lookup returns the
entry it was asked for.

### 1.8 The RAM file system (`ramfs/ramfs.c`)

*State.* Entries (files and directories) on the heap, linked by `next` to their
sibling and by `child` to their first child; for each file a header with its
size and a chain of blocks; a list of references that counts the open handles of
an entry; `current_size`, compared with a fixed limit. A file handle has an
offset and a pointer to the byte at that offset, a directory handle a pointer
to the next entry to read. *Operations.* mkdir, rmdir, unlink, rename, opendir,
readdir, closedir, open, close, read, write, seek, truncate, mount, umount.
*Interaction.* The calls come from all tasks through the virtual file system;
each takes `fs->lock`, but for readdir. *Hard.* Entries removed while they are
open; two representations of one position in a file; arithmetic at the edges
of blocks; a write that runs out of space halfway; the tree changed under a
directory handle; a rename that shares, moves and frees. *Correct means.* Seen
through its paths it is a tree of files and directories, seen through a handle
a file is a sequence of bytes; nothing is freed that is in use, and what is
in use is what is counted.

### 1.9 The rest

Signals, timers, debouncing, sensors, UART/I2C/ADC/PWM/RMT/CAN drivers,
pseudo terminals, path handling, the LoRa and MQTT wrappers, boot and console.
`PROJECT.json` lists each with its state of modelling and the reason; its
`hazards` list says at which line the modelled parts are exposed. In the parts
that are not modelled these lines deserve the same attention:

- `pthread/_pthread.c:498`: stop deletes a task wherever it is, also while it
  holds a mutex; `:388`: cleanup handlers run with `thread_mtx` taken; `:418`:
  `s > PTHREAD_NSIG` accepts one signal number too many;
- `pthread/once.c:59`: a second caller returns while the first is still in the
  routine; `mutex.c:122`: two first users of a static mutex both initialise it;
  `cond.c:174`: after `ETIMEDOUT` the caller is back without the mutex;
- `sys/sys/list.c:92`: the 256th slot makes `indexes` zero;
- `sys/sys/signal.c:81`: the queue of signals has ten places and drops more;
- `sys/drivers/spi.c:832`: `spi_pin_map` tests the old pins in place of the new
  ones; `i2c.c:412`: `i2c_attach` without a free device returns with the mutex
  taken; `timer.c:98`: `tmr_unlock` gives a recursive mutex back entirely;
- `lua/modules/sys/thread.c:266`: stop and suspend work on a snapshot of the
  threads;
- `sys/vfs/ramfs.c:542`: when a truncation by path fails the file stays open,
  so that its entry is never freed.

Vendored code (Lua itself, curl, dropbear, Paho, LMIC, spiffs, zlib)
and ESP-IDF are outside the project.

## 2. Modules

| module | models | composed with |
|---|---|---|
| `Pthread` | the life of threads, 1.1 | the lists as sets, `thread.c`'s `new_thread`, MQTT's notifications |
| `PthreadProofs` | theorems about `Pthread` | |
| `List` | a list of kind `LIST_DEFAULT`, 1.4 | |
| `HandleTable` | what such a list promises (abstract) | implemented by `List` |
| `CleanupStack` | cleanup handlers, 1.2 | extends `List` |
| `Stack` | what cleanup handlers promise (abstract) | implemented by `CleanupStack` |
| `ListProofs` | theorems about `List` and about `CleanupStack` | |
| `PthreadCondProofs`, `LuaEventProofs`, `SpiLockProofs`, `RamFileProofs`, `RamFsProofs` | theorems about the module of that name | |
| `PthreadCond` | condition variables, 1.3 | event group and mutex |
| `LuaEvent` | one event object, 1.6 | FreeRTOS queues |
| `SpiLock` | hardware locks and SPI setup, 1.5 | |
| `RotableCache` | the cache of read-only tables and its lookups, 1.7 | |
| `LruCache` | what such a cache promises (abstract) | implemented by `RotableCache` |
| `RotableCacheProofs` | theorems about `RotableCache` | |
| `RamFile` | the blocks of one file and the handles on it, 1.8 | |
| `ByteFile` | what a file promises (abstract) | implemented by `RamFile` |
| `RamFs` | entries, references, space and unmounting, 1.8 | a file's blocks as a set: their contents are `RamFile`'s |
| `Namespace` | what paths promise (abstract) | implemented by `RamFs` |
| `MC...` | model values and small instances for TLC | |

Operators with a comment that starts with "Mutant" are variants of the
definition below them with one plausible slip; they are in no specification and
show that the properties can fail.

### How the code is cut into actions

An action is what one task does between two points where another task can see
or disturb it: a stretch under a mutex that all its readers take, one list
operation (each runs under the list's own mutex), or one FreeRTOS call.

**`Pthread`.** `pc[t]` says where a task is; the fields of the struct in each
heap block are functions on `Addr`. `CreateAlloc` is the part of
`_pthread_create` up to `lstadd`, `CreateTask` the start of the task,
`CreateReturn` the end of the wait and the write of `threadd->task`, which the
code makes whatever has become of the block. `JoinFind`/`JoinActive`/
`JoinInactive`/`JoinRefuse`/`JoinReturn` and the `Detach...` and `Exit...`
actions follow the branches of the functions of that name; an exit that stores
a result is two actions because `_pthread_free` and `lstadd` are two list
operations. A failed `lstadd` to a list that is not indexed returns with the
list's mutex taken (`list.c:131`); `jammed` remembers such lists and every
operation on them blocks. A start routine may return at any time while its
thread runs, and a thread may create, join and detach as long as it runs. A
task handle stands for the value its start routine returns, so results of
different threads are distinct. Handles are not reused: `Task` bounds the
number of threads ever created, while `Addr` bounds the number alive, and
blocks are reused in any order.

**`PthreadCond`.** `referenced &= ~(1 << bit)` is a read and a write where the
other writer uses another mutex, so the two halves are actions of their own.
`xEventGroupWaitBits` and `xEventGroupSetBits` are modelled from their use:
a thread that blocks is woken by the setting of its bit, which is cleared on
its behalf; a bit that is already set is consumed at once. Wait takes the mutex
(`WaitLock`) and then its bit (`WaitBit`); destroy tests (`DestroyTest`), gives
the mutex (`DestroyGive`) and deletes it (`DestroyDelete`), so that a wait, a
signal or a second destroy can come in between. A thread that would use the
semaphore after its deletion stops. The history variable `late` holds the
threads that took a bit between the give and the deletion.

**`LuaEvent`.** `CastOne` is one turn of the loop in `broadcast`. In the code
`is_waiting` and `pending` are assigned before the send blocks; both are only
read under the mutex that the caster holds, so assigning them with the send
cannot be told apart. A listener is registered by its first `wait` and is never
removed (the code removes none).

**`List`.** The three ways through the growing part of `lstadd` are `AddGrow`,
`AddNoMem` (after which `indexes` is ahead of the array) and `AddGrowStale`
(the growth after that, which copies slots the old array does not have: what
they contain is a nondeterministic choice). `lstget`, `lstfirst`, `lstlast` and
`lstnext` change nothing and appear as the operators `GetReads` and `Listed`.
The constant offset `first_index` is left out. `Careful` says whether clients
remove only handles they hold; `pthread/key.c:109` is a client that does not.

**`SpiLock`.** Each call of `driver_lock`, `driver_unlock` and
`driver_unlock_all` is an action (they are critical sections of `driver_mtx`),
in the order in which `spi_setup` and `spi_unsetup` make them; `spi_mtx` is the
unit's own lock, which `spi_setup` takes only in `spi_ll_setup`. Which pins a
unit is given, its chip selects and its flags are parameters.

**`RotableCache`.** The walk along the list is one action for each entry, with
the critical section taken; `Hit` is the promotion up to its end, `Read` the
`return &entry->entry->value` after it, `Miss` and `Found` the search of the
table and the second critical section. `entry` is the pair an entry of the
cache points to. Two history variables serve the properties: `order`, the
entries in list order, and `moved`, the number of times the order has changed
since a task's hit (counted up to `Length`).

**`RamFile`.** A block pointer is the number of the block in the chain, since
blocks come and go at its end only; a number beyond the chain is a pointer to a
freed block. Each turn of the loops of read and write is an action, under
`fs->lock`. Integer division rounds towards zero as in C, which matters for a
size of zero. `Slips` names what the callers may do beyond a discipline the
code needs: several handles on a file that is written (`share`), writing beyond
the end (`beyond`), growing by truncation a file without blocks or by more than
one block (`grow`), writing through a handle opened to append that was moved away
from the end (`append`: `ramfs.h:176` says "Move to end of file on every write",
the code moves there once, at open, and `ByteFile` says what the header says).

**`RamFs`.** Every call runs under `fs->lock` and is one action; `ramfs_umount`
is a loop with a stack of its own and has one action for each turn. `links` has
the pointers of all entries, with NULL as the root directory. The loops that
walk along `next` end in a set: `ChainFrom` is the least set that holds the first
entry and what comes next to what it holds, and `Find`, `Prev` and `Linked` pick
from it the entry at which the walk stops. `traverse` is an operator that
gives the result, the entry and its parent, with a `Step` for each component of
the path; with `creat` it is `AddEntry`. Freed entries are
those without `info`; addresses are reused. `lost` counts the headers and
blocks that rename leaves behind: they stay counted in `current_size` and
nothing leads to them. An entry counts one unit and so do a header and a block,
in place of their sizes in bytes. `FileOpenFails` is the open of a directory to
write with `O_TRUNC`, which fails after `add_reference`; the history variable
`leaked` remembers the references that such calls leave, one for each element of
`Leak`. The count of references is a `uint8_t`, so there are at most 255 handles
and leaked references (`HandlesAssumption`). `ramfs_umount` may begin at any time,
whatever the tree and whatever is open. Where it comes back to a directory whose
entries it has freed, what the code reads is undefined and the model stops.
`Slips` again names what callers may do beyond the discipline.

## 3. Runs

### 3.1 What holds

| run | instance | shows |
|---|---|---|
| `pthread_detach` | main task, 3 threads, 2 blocks, joinable and detached, join and detach (3.4 million states) | `OneRunner`, `NoLeak`, `JoinedIsWaiting`, `JoinValue`, `ResultOnce`: joins and detaches pair up with exits in every order, with a block reused in between |
| `pthread_suspended` | main task, 3 threads that start suspended, 2 blocks, resumed by anyone, every failure and stray notifications (1.2 million) | the inductive invariant `Safety` survives all of them; `CreatedStillThere` and `TaskIsRunner`: because a Lua thread suspends itself first, the late write of `threadd->task` never meets a freed struct |
| `pthread_live` | main task, 2 joinable threads, 2 blocks, fair (38 thousand) | `MutualExclusion`, `ListsSound`, `HeldInsideOnly`, `WaitsForLiveThread`, and the liveness properties `ExitCompletes`, `JoinCompletes` |
| `cond_timed` | 1 waiter with time limits, 2 other threads, fair (9 thousand) | `NoLostWaiter` and `SignalWakes`, although `referenced` is written under two mutexes; `SafeDestroy`: the test for `EBUSY` protects every thread that has its bit when it is made |
| `event_wait` | 3 listeners, 1 caster that waits, fair (9 thousand) | `PendingCounts`, `AllDone`, `BroadcastReturns` |
| `list_table` | 4 slots, 2 items, failing allocations (2.5 thousand) | `Sound`, `NoSlotLost`, and `ImplementsTable`: the list is a `HandleTable` |
| `cleanup_stack` | 5 slots, 2 handlers (321) | `ImplementsStack`: the list is a `Stack` |
| `spi_shared` | 2 units with overlapping pin maps, one task each, 2 devices per unit and up to 3 chip selects (16 thousand) | `InUseLocked`, `NoLockLeft` |
| `rotable_cache` | 2 tasks, 2 tables (one with keys a and b, one with key a only), 3 entries, fair (103 thousand) | `ListSound`, `CachedHeld`, `RightUntilOverrun`, `ImplementsLru`, and `LookupReturns`: no walk goes round in circles |
| `ramfs_file` | 2 handles, blocks of 2 bytes, space for 3 blocks, offsets up to 6, transfers of up to 2 bytes (1 million) | `BlocksFitSize`, `HandleSound`, and `ImplementsFile`: the chain of blocks is a `ByteFile` |
| `ramfs_tree` | 3 entries, 2 names, paths of up to 3 components, 2 blocks, 1 file handle, 1 directory handle, 1 failed open, 5 units of space (46 thousand, up to symmetry) | `TreeSound`, `HandlesSound`, `SpaceCounted`, `UmountLive`, and `ImplementsNamespace`: the linked entries are a `Namespace`, and each call changes it at its own path |

The type invariant of a module is checked with one of its other invariants, of
which it is the first conjunct: `Safety` (`Pthread`), `Sound` (`List`),
`NoLostWaiter`, `PendingCounts`, `InUseLocked`, `BlocksFitSize`, `HandlesSound`.
That of `RotableCache` is proved (4.3).

### 3.2 Where code and comment disagree

One run, `pthread_lost_resume`, checks a property that a comment of the source
states (`StartedRuns`: `thread.start` is to "create a new thread and run it"),
and TLC shows how the code breaks it: the resume of `thread.start` comes before
the thread suspends itself, and the thread never runs. `PROJECT.json` quotes the
lines.

The same modules show the following when an instance is widened. They mark how
far the properties of 3.1 reach. The instance is that of the run named, with
the changes given.

| property | instance | what happens |
|---|---|---|
| `HeldInsideOnly` | `pthread_live` with detach | a second detach returns `EINVAL` with `thread_mtx` taken (`_pthread.c:309`) |
| `WaitsForLiveThread` | `pthread_live` with detach | a thread detached while a task waits for it ends without notifying the task (`_pthread.c:312`) |
| `ResultOnce` | `pthread_detach` with the failure `lstadd_inactive` | the result of a thread is gone when `lstadd` fails in its exit (`_pthread.c:672`, `list.c:131`) |
| `InitBeforeReturn` | `pthread_suspended` | a leftover MQTT notification ends the wait in `_pthread_create` (`_pthread.c:228`) |
| `BitsOwned` | `cond_timed` | a wait whose time is past keeps its bit (`cond.c:162`) |
| `BroadcastReturns` | `event_wait` with `DoneLen = 2` | more listeners than places in `udata->q`: `done` blocks with the mutex (`event.c:217`) |
| `CastNotStuck` | `event_wait` with `Waits = {FALSE}` | `broadcast` blocks, with the mutex, on a full queue (`event.c:271`) |
| `SafeDestroy`, with `Thread` in place of `Thread \ late` | `cond_timed` | `mtx_destroy` gives the mutex before it deletes it (`sys/sys/mutex.c:138`): a wait blocked at `cond.c:125` takes a bit in between, and nobody can signal it any more |
| `BitsUnique` | `cond_timed` with `Waiters = {t1, t2}`, `NBits = 3`, `Timed = FALSE` | signal gives up the bit of a thread that still waits for it (`cond.c:197`); a second waiter gets the same bit, though `cond.c:124` is to "find an unused bit" |
| `AllDone` | `event_wait` with `Waits = {TRUE, FALSE}` | a listener busy with a `broadcast(false)` reports done for the `broadcast(true)` that follows, which returns early (`event.c:215`) |
| `WaitsForSomeone` | `event_wait` with two casters | one caster takes the message the other waits for (`event.c:282`) |
| `IndexTested` | `list_table` | `lstget` accepts an index one past the array (`list.c:181`) |
| `FreeIsFree` | `list_table` with `Careful = FALSE` | a handle removed twice makes the free chain a loop (`list.c:251`) |
| `WalkFindsItems` | `list_table` | after a failed growth a walk meets a slot that was never filled (`list.c:92`) |
| `InUseLocked` | `spi_shared` with `SharedCS` and `PrivateMaps` | a refused chip select takes away the locks of the working bus (`driver.c:379`) |
| `InUseLocked` | `spi_shared` with a unit that only writes, whose MISO pin is another unit's | `spi_unsetup` unlocks the other unit's pin (`driver.c:411`) |
| `InUseLocked` | `spi_shared` with two tasks for one unit | the test of `setup` is stale when the bus is set up (`spi.c:912`) |
| `ReturnsWanted` | `rotable_cache` | a hit is read after the critical section (`cache.c:158`); when other tasks have meanwhile looked up as many other keys as the cache has entries, the value of another key is returned |
| `HandleSound` | `ramfs_file` with the slip `share` | a handle opened on the empty file stays without a block when another writes the first one, and the blocks a truncation frees stay in the other handles (`ramfs.c:175`) |
| `HandleSound` | `ramfs_file` with `beyond` | what is written beyond the end lands in the next new block, not at the offset (`ramfs.c:924`) |
| `BlocksFitSize` | `ramfs_file` with `grow` | a file without blocks gets one too few when a truncation makes it longer (`ramfs.c:525`) |
| `ImplementsFile` | `ramfs_file` with `append` | open to append, write, seek to the beginning, write: the byte lands at the beginning, though `ramfs.h:176` says "Move to end of file on every write" |
| `TreeSound` | `ramfs_tree` with `into` | a directory renamed to a path below itself becomes a loop that nothing leads to (`ramfs.c:1013`) |
| `TreeSound` | `ramfs_tree` with `onfile` | a directory renamed to the path of a file overwrites its header pointer (`ramfs.c:1015`) |
| `SpaceCounted` | `ramfs_tree` with `open` | a file renamed while it is open shares its blocks with the removed entry, whose close frees them (`ramfs.c:1017`) |
| `HandlesSound` | `ramfs_tree` with `ahead` | an entry is removed that a directory handle points to, and the next readdir reads freed memory (`ramfs.c:710`) |
| `HandlesSound` | `ramfs_tree` with `late` | a directory handle that is read while the file system is unmounted leads to freed entries (`ramfs.c:588`) |

The following are inside the instance of `ramfs_tree`: the properties say what the
code does, and it is not what its documentation or its tests lead one to expect.

- *Umount of nested directories.* With a directory that is not empty inside
  another one, `ramfs_umount` comes back to a directory whose entries it has
  freed and follows their pointers (`ramfs.c:581`); its loop does not come to an
  end in order. `UmountLive` promises only for trees of two levels, and says that
  with more (`Nested`) the end is not reached.
- *Open of a directory with `O_TRUNC`.* It fails with `RAMFS_ERR_ISDIR` after it
  has added a reference (`ramfs.c:823`, `838`), which nothing removes: the
  directory, once removed, stays on the heap, and 256 such calls wrap the
  `uint8_t`, so that the next close frees an open entry. `HandlesSound` counts
  these references (`leaked`).
- *A path on an empty file system.* `mkdir("/a/b")` makes `/a`, as a directory,
  and reports success, and `open("/a/b", O_CREAT)` makes the file `/a`
  (`ramfs.c:382`), where the test `sys/test/fs.c:175-178` expects `ENOENT` for a
  missing directory. `CallEffects` has `MadeAt(p)` for this.
- *`rename(p, p)`* removes `p`. `CallEffects` has a case for it.
- *`rename` leaks*: the header of the old file, and the blocks of a file it
  replaces, stay counted until the file system is full (`lost` in `RamFs`), and on
  the heap for good, also after umount.

So `ResultOnce` holds without failures of `lstadd`, `HeldInsideOnly` and
`WaitsForLiveThread` without detach, `AllDone` for broadcasts that all wait,
`BroadcastReturns` with a place in `udata->q` for each listener, `InUseLocked`
for units that read and write, whose chip selects are their own and which one
task uses. The properties of the file system hold for the disciplined callers
described by `Slips = {}`: a file that is written is open once and is written
up to its end, and at its end by a handle opened to append; it is renamed only
when closed; a directory that is being read loses only what has been read, and is
not read during umount.

### 3.3 Bounds

*Threads.* Three threads besides the main task are what it takes for one to
join, one to be joined and a third to be created in a block that has just been
freed; two blocks let one thread live while the other block changes hands. The
liveness run has two threads, since a cycle of waiting needs a holder, a waiter
and the main task. Symmetry over threads and over blocks is used for invariants
only. Joins and detaches are left out of `pthread_suspended` to keep it small;
`Safety` is proved for them in 4.1.

*Condition variable.* Two or three bits in place of 24: bits are only compared
with each other and searched in order, and one more bit than waiters makes the
search pass used and unused ones. With two waiters the code breaks `BitsUnique`
(3.2) and what depends on it; the positive run therefore has one waiter, with
two threads that signal, lock and destroy.

*Event.* `QLen` is 1 as in the code, `DoneLen` stands for 10 and is taken equal
to the number of listeners. `pending` is counted modulo 256, as a
`uint8_t` is.

*List.* Four or five slots give free chains of every shape that matters: empty,
one element, and several in an order other than that of the array.
`MaxIndexes` is at most 255; the 256th slot would make `indexes` zero.

*SPI.* Two units with two devices each; three chip selects for one unit, so that
it can run out of devices, and one for the other. A pin that is free, one's own or another's is all that
`driver_lock` tells apart.

*Cache.* Three entries give a first, a middle and a last one, the three cases of
the promotion. Three pairs exist and two tasks that miss together insert the
same one twice, so entries are pushed out; the key the second table lacks is
always a miss. The proofs of 4.3 are for every length from two on.

*File.* Blocks of two bytes have a first, an inner and a last position; three
blocks let a truncation take away the middle of a file and a write cross two
boundaries; the space ends at the fourth block. Transfers of two bytes start
and end on either side of a boundary. Bytes are 0 and 1: the file only copies
them.

*Tree.* Three entries make every shape that the relinking tells apart: first,
middle and last of a chain, a directory with two children, a chain of three
directories. A directory handle and the reference of a failed open on one entry
let a close not be the last one to hold it. Five units of space are less than
three files, or two with their blocks, take, so that calls fail for want of
space. Three entries in a row are what umount needs to come back to a directory.
Symmetry over entries, blocks and names. (More handles are a matter of the
proofs, which have any number of them.)

Deadlock checking is off where a bounded supply of threads or slots ends the
run, where an application may stop calling, or where the run shows a deadlock
by a property of its own.

### 3.4 Fairness

*Weak fairness* for steps of a call in progress: FreeRTOS runs every ready task
of a priority in turn, and a preempted task is resumed. Tasks of one priority
are assumed; a busy task of higher priority could starve the others on any
RTOS. *Strong fairness* for taking a mutex and for queue operations: the
waiters of a FreeRTOS semaphore or queue are kept in a list, ordered by
priority and then by arrival, so a waiter is not overtaken for ever. *No
fairness* for what an application may leave undone: calling create, join,
detach, signal, wait or broadcast, and returning from a start routine. In
`LuaEvent` listeners are assumed to finish their work and to come back to
`wait`; that is what the loop of an event listener is for, and a broadcast that
waits can only return if they do.

In `PthreadCond` a wait, a signal and a destroy in progress go on, and nobody need
call one; a thread at a deleted semaphore is not assumed to go on.

In `RotableCache` strong fairness for each task's steps: critical sections are
short, with interrupts disabled, and a spinlock is handed on.

## 4. Theorems

The proofs hold for every set of tasks, blocks, items and slots and for every
choice of attributes, calls and failures the constants allow. Each inductive
invariant was an invariant of a TLC run on the instance of its component before
it was proved. Hypotheses that restrict the use of a component stand in the
theorem that needs them (`ASSUME ... PROVE`), and are conditions on constants
only.

### 4.1 `PthreadProofs`

Assumption: `PthreadAssumption` (the main task is a task, `NULL` is none, the
parameters are of their types). The failures are part of the specification, so
the theorems hold with failed allocations, stray notifications, double detach
and all the disagreements of 3.2.

`Safety` is the inductive invariant. `ListsSound` (lists hold allocated
structs, each on one list, in the state the list stands for) is not inductive:
an exit would put a struct on the inactive list that might already be there or
be freed. `OwnStruct` adds that the struct of an ending thread, once it is off
the active list, is on the heap, unlisted, joinable and not waited for, and that
the struct of a create in progress is listed and has no runner. `HolderOnly`
ties critical parts to the mutex, `MainIsNoThread` keeps the first task out of
`pthreadTask`. One lemma for each function of the code shows that its steps
preserve `Safety`.

- `SafetyInvariant`: `Spec => []Safety`;
- `TypeCorrect`: types;
- `Exclusion`: `MutualExclusion` — also after an error return that keeps the
  mutex, since then nobody gets in;
- `NoDanglingThread`: `ListsSound` — no freed struct is on a list and no struct
  is freed twice;
- `NoSharedThread`: `OneRunner` — a block is not reused while a task runs on it.

The other properties of threads hold for some applications and failures only; 3.2
tells what happens otherwise. Each theorem has its condition as a hypothesis, and
`Safety` beside an invariant of its own:

- `NothingLeaks` (the inactive list can grow, `"lstadd_inactive" \notin Faults`):
  `NoLeak`, which is inductive together with `Safety`;
- `MutexGivenBack` (no detach): `HeldInsideOnly`; the error returns of
  `_pthread_detach` are the only ones that keep the mutex;
- `NobodyWaitsInVain` (no detach, no failing creation): `WaitsForLiveThread`. The
  invariant `WaitSound` adds that what join has found is still listed when join
  acts on it, and that a thread somebody waits for is joinable;
- `JoinInvariant` (no notification from elsewhere, `"mqtt" \notin Faults`): create
  and join wait for the same kind of notification on the same task. `JoinSound`
  says that a task is notified only while it waits for one, and that a thread
  that has not notified its creator has a creator that waits for it. Its parts
  are `JoinedTaskWaits` (`JoinedIsWaiting`) and `JoinReturnsResult` (`JoinValue`);
- `ResultHandedOverOnce` (the same, and the inactive list can grow): `ResultOnce`
  counts the places a result is in. `ResultSound` says it with the two halves of a
  count, no two places and at least one, and follows the result from the struct
  to the notification;
- `SuspendedInvariant` (every thread is created suspended): `CreateSound`, with
  `HandleStoredInTime` (`CreatedStillThere`) and `ResumeReachesItsThread`
  (`TaskIsRunner`): a thread that suspends itself cannot end before its creator
  has stored its handle. For threads that run at once it can. The theorem is about
  the handle stored in an allocated struct; a `_pthread_resume` uses it without
  `thread_mtx` after its lookup (5).

### 4.2 `ListProofs`

Assumptions: `ListAssumption`; for the list, `Careful` (clients remove what they
hold) as a hypothesis of each theorem, while allocations may fail. For the
cleanup handlers neither is needed: `CleanupSpec` only removes what `lstlast`
returns, and leaves out the pushes for which an allocation fails (after one,
`lstlast` can return a slot that was never filled). 3.2 shows that this matters.

- `ListSound`: `Spec => []Sound`. The heart is `ChainSound`: the free chain
  holds deleted slots only, no two of its slots lead to the same one and none
  leads back to the head. That is enough to see that taking the head and
  putting a new head keep it a chain, without an induction along it. Slots that
  a failed growth skipped are on no chain, because a slot the array does not
  have yet holds nothing.
- `ListImplementsTable`: `Spec => ImplementsTable`, with the refinement mapping
  `table <- [s \in Live |-> item[s]]`, where `Live` are the slots given out and
  not removed.
- `RemovedSlotsAreReused`: `Spec => []NoSlotLost`. That nothing is lost to the
  free chain speaks of reachability. `ChainComplete` says it without an induction
  along the chain: there are ranks such that every removed slot but the head is
  the successor of a removed slot of smaller rank. Remove gives its slot rank 0
  and adds one to the others; when the chain is empty, the removed slot of the
  least rank, which well-foundedness gives, would need a predecessor.
- `CleanupSound`: `CleanupSpec => []StackSound`: the slots in use are the
  lowest ones and the free chain goes up through the others in order.
- `CleanupImplementsStack`: `CleanupSpec => ImplementsStack`, with
  `stack <- [i \in 1 .. Depth |-> item[i - 1]]`.

### 4.3 `RotableCacheProofs`

Assumption: `CacheAssumption` (at least two entries, as the code needs: with one,
`rotable_cache_put` would follow a NULL pointer).

`CacheSound` is the inductive invariant: types, `ListSound`, `CachedHeld`,
`RightUntilOverrun`, and `Recency`, which says that a task walks inside the
critical section only and that an entry that was hit has sunk no further in the
list than the order has changed since. `ListSound` speaks of the history
variable `order`: a promotion is a rotation of it, so that the four pointer
assignments are compared with one permutation, without an induction along the
list. `PromoteMiddle` leaves a wrong `previous` pointer in the new first entry;
the invariant says nothing about that pointer, and the proof shows that nothing
needs it.

- `CacheInvariant`: `Spec => []CacheSound`;
- `TypesKept`, `ListStaysSound`, `CacheHoldsTableEntries`,
  `HitRightUntilOverrun`: its parts;
- `CacheImplementsLru`: `Spec => ImplementsLru`, with the refinement mapping
  `cache <- [i \in Slot |-> entry[order[i]]]`: a hit and a put move one pair to
  the front, every other step leaves the cache alone.

### 4.4 `PthreadCondProofs`

Hypothesis: `OneWaiter`, one thread calls wait, with any number of threads that
signal, broadcast and destroy. With two waiters the bits get mixed up (3.2).
`CondSound` adds to `NoLostWaiter` and `SafeDestroy` what a call in progress knows.
`SignalSound` says that the copy of `referenced` a signal is about to write back
keeps the bit of a waiter that was not signalled, and that a thread inside signal,
taking a bit or about to give the mutex in destroy is the one that holds
`scond->mutex`. `SafeDestroy` is about the time from the test on, and not only
about the destroyed condition variable, because that is what is kept by the steps:
while the destroyer holds the mutex nobody takes a bit, and after it has given it
who takes one is in `late`.

- `CondInvariant`, `WaiterNeverLost` (`NoLostWaiter`), `DestroySparesWaiters`
  (`SafeDestroy`). Whoever is in `late` is not protected, as 3.2 shows.

### 4.5 `LuaEventProofs`

Hypothesis: `SingleCaster`, one thread broadcasts, waiting, to at most 255
listeners, for `pending` is a `uint8_t`. `EventSound` adds to `PendingCounts` where
each listener and the broadcast in progress are: `ListenerSound` (one event at a
time, its broadcaster waits for it) and `CasterSound` (the loop of the broadcast
has called the listeners before its index and none after it). The cardinality in
`PendingCounts` changes by one when a listener becomes busy, and when it is done
moves to `done_q`.

- `EventInvariant`, `PendingIsExact` (`PendingCounts`), `BroadcastWaitsForAll`
  (`AllDone`), and `NeverWaitsForNobody` (`WaitsForSomeone`), the safety part of
  `BroadcastReturns`.

### 4.6 `SpiLockProofs`

Hypothesis: `PrivateUse`, each unit is used by one task, always to read and to
write, and chip selects are shared neither with another unit nor with a bus. Buses
may share pins. `SpiSound` says what each unit owns (`UnitSound`), that a bus that
is set up is locked until it is given up (`BusSound`), and that a call in progress
has locked, or unlocked, exactly the pins it has passed (`CallSound`): the point
of the proof is that `driver_unlock_all`, which a revoked call makes, and
`driver_unlock`, which asks nobody's leave, never take a pin from another unit.

- `SpiInvariant`, `DevicesKeepTheirPins` (`InUseLocked`), `LocksGivenBack`
  (`NoLockLeft`).

### 4.7 `RamFileProofs`

Hypothesis: `Disciplined`, that is `Slips = {}`. The theorems hold for blocks of
any size, one byte included. `FileSound` adds to `BlocksFitSize` and `HandleSound`
that a file has one writer or readers (so that nobody else's pointer leads into a
block that a truncation frees), that a call in progress has a handle that is open
the right way, and that a write in progress is at most at the end of the file:
without that, a new block could be the wrong one. A write through a handle opened
to append is at the end. With blocks of one byte
`(0 - 1) / block_size` is -1 and not 0, and an emptied file keeps no block; the
invariant needs that case for itself.

The proofs state everything in terms of `Begin(k)`, the offset at which block `k`
begins. Division and remainder are the only decomposition of an offset into a
block and a place (`Divided`, `DividedOnce`), the test on the size is the same as
`Begin(l - 1) < size <= Begin(l)` (`Needed`), and `Kept` is `FileSound` in these
terms (`KeptIsSound`), so that the steps are linear arithmetic.

- `FileInvariant`, `BlocksAlwaysFit` (`BlocksFitSize`), `PointersFollowOffsets`
  (`HandleSound`);
- `FileImplementsBytes`: `Spec => ImplementsFile`, with `content <- Content`, the
  bytes of the chain up to the size: a turn of the read loop is a `Get` and one of
  the write loop a `Put` at the handle's place, which for one that appends is the
  end of the file, whichever block they are in, a truncation cuts or extends, and everything else leaves the content alone.

### 4.8 `RamFsProofs`

Hypothesis: `Slips = {}`. The theorems hold for any number of entries, blocks,
names and handles, any size, and paths of any length.

The invariant `Inv` has four parts.

- *Tree* (`TreeInv`). The tree is described by what nobody stores: for each entry
  in it, its parent `P`, its place `s` among its siblings and its depth `D`
  (`Shape`). A first child has the directory as its parent (`Firsts`); `next` leads
  to a sibling with a higher place, and never to a first child (`Nexts`); no two
  entries have the same `next` (`OnePrev`); every entry is a first child or
  somebody's `next` (`Reached`); siblings have different names (`Named`). These are
  local, so that linking, unlinking and relinking an entry can be seen to keep
  them, and they are enough to know where the walks lead: the chain of a directory
  is the set of entries whose parent it is (`ChainIs`, from the least place that
  it would miss), and `traverse` follows the routes down `P` (`TraverseOk`,
  `TraverseFinds`, `TraverseNoent`). That every entry has a route (`RouteExists`),
  and only one (`OneRoute`), is by least counterexample on the depth or on the
  number of components. Well-founded minima take the place of an induction
  along chains and paths.
- *Handles* (`HandleInv`). Besides the counts, of open handles and of the
  references that failed opens left: the next entry that a directory handle is to
  read is in the tree, and not only allocated, which is what makes its `next` safe
  to follow later.
- *Space* (`SpaceInv`). Only files have blocks, and the sets that are counted are
  finite; a change of one entry, or of the set a turn of `ramfs_umount` frees, is
  a difference of sets (`FreeSpace`).
- *Unmounting* (`UmountInv`). After the first turn the tree is no longer one:
  freed entries are still linked. What is left is then described by the stack: it
  holds entries, each once, and every entry that is allocated and not in use is on it
  or in a directory on it, those directories are apart and hold no full one. For a
  nested tree it says instead (`Returning`) that some directory on the stack holds
  one that is not empty, or was not: it is popped only by a turn that finds none,
  so that the end is out of reach.

The hard step is `ramfs_rename`, for which the whole subtree below the old entry
moves to another depth (`Moved`, `MovedShape`): the entries below it are those
whose routes begin with that to the old entry (`UnderBelow`), the discipline that
nothing is renamed to a path below itself says that the new parent is not among
them (`NotInto`), and the new entry is linked before the old one is taken out
(`RenameNewTree`).

- `RamFsInv` (the inductive invariant), `TreeCorrect` (`TreeSound`),
  `HandlesCorrect` (`HandlesSound`), `SpaceCorrect` (`SpaceCounted`),
  `UmountCorrect` (`UmountLive`).
- `ImplementsNamespaceCorrect`: `Spec => ImplementsNamespace`, with the refinement
  mapping `tree <- Tree`, the function from paths to what is there. The argument
  goes through `Paths(P, F)`: `F` gives each entry the path of its parent and its
  own name. There is such an `F` (`PathsExist`), it gives different entries
  different paths (`PathsDiffer`), and `Tree` has exactly the entries of the tree
  at the paths that `F` gives (`RoutesAre`, for the recursive function in
  `Routes`, and `TreeIs`). A call is then a change of the entries and of `F`:
  `MakeStep`, `DeleteStep`, `WriteStep` and `SameStep` for the calls that leave the
  parents alone; for `ramfs_rename` the entries below the old one are those whose
  paths begin with its path (`BelowPaths`), and the new `F` puts the new path in
  its place (`MovedPath`, `RenamedPathsAre`, `RenameStep`). One lemma for each
  kind of call (`AddEntryNs`, `RemoveEntryNs`, `SetBlocksNs`, `RenameOntoNs`, ...)
  brings this and the shapes that the proof of `Inv` exhibits together, and says at
  which path the change is: `Namespace` alone allows any step of a tree, and
  `CallEffects`, the other half of the statement (`CallsNs`), ties each call to its
  path, or to the path of the file its handle is open on. There is no file left at
  any path for a handle of a removed entry, and its writes change nothing. That
  what is made in an empty file system is the first component, and that a rename of
  a path to itself is a `Delete`, are cases of `CallEffects`.

### 4.9 Only model-checked

- Liveness (`ExitCompletes`, `JoinCompletes`, `SignalWakes`, `BroadcastReturns`,
  `LookupReturns`) is beyond the prover, which has no rules for fairness. Every
  other property of the passing runs is stated by a theorem.

## 5. Not modelled

- `_pthread_stop`, `_pthread_suspend` and the suspension of all threads stop a
  task anywhere, also inside a critical part of any module.
- The signal table, once, keys, and lazy initialisation of mutexes.
- What a caller of `timedwait` does with a mutex it believes to hold after
  `ETIMEDOUT` (the code returns without it): in the model it goes on as a
  thread that does not hold the mutex.
- `lstremovec` with compaction (no caller), `lstdestroy`, the finalizer of an
  event, and FreeRTOS priorities.
- In the file system: a directory opened as a file without `O_TRUNC`, whose first
  child the code takes for a file header, and a file created in, or renamed to, a
  directory that does not exist, where it follows a NULL pointer (`ramfs.c:423`);
  the guards of the model exclude both. The races of readdir, which takes no lock,
  with a call in progress. Calls that wait for `fs->lock` while `ramfs_umount`
  destroys it, handles of the old file system used after the umount, and the heap
  that umount leaves behind: the model goes on with the next mount, at other
  addresses.
- `_pthread_resume` looks the thread up and then reads `task` and resumes it without
  a mutex (`_pthread.c:580-587`); the model does so in one step, so that a struct
  freed in between is not seen. A struct without a task is resumed to no effect.
- `_pthread_free` makes two list operations that the model takes as one: with the
  inactive list jammed the code has already changed the active one.
- A cleanup handler for which `lstadd` finds no memory: `_pthread.c:340` ignores the
  result, and the handler is not run.
- In the SPI driver: the tests of `spi_pin_map` on the pins it is given
  (`spi.c:811-837`; the model accepts more pin maps) and pins that are absent (-1);
  the gap between the unlocking of a chip select and the marking of its device in
  `spi_unsetup` (`spi.c:1236`); the branch of `driver_lock` for resources without
  a lock array (`driver.c:285-334`), which GPIOs do not take.
- SPI transfers and everything that only writes device registers.
- A task suspended in a wait and resumed there: `vTaskResume` acts here on a
  task that suspended itself, the only suspension that is modelled.

## 6. Plan

1. `PthreadOnce`, `PthreadKey`, `PthreadMutex`: the rest of the POSIX layer;
   `PthreadKey` as a client of `List` with the handle it removes.
2. `Signal`: `kill`, the queue of ten and the interrupted delay.
3. `LuaThread`: list, suspend, resume and stop on a snapshot of the threads,
   composed with `Pthread`.
4. `Timer` and the Lua module tmr: the recursive mutex and callbacks after
   unsetup; `Debouncing`; `Pty`; `Sensor`.
5. Path normalisation as an algorithm with a reference definition; the mount
   points above the file systems.
