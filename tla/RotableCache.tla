--------------------------- MODULE RotableCache ---------------------------
(***************************************************************************)
(* The cache of read-only tables (lua/common/cache.c) and its clients,     *)
(* luaR_auxfind and luaR_findglobal (lua/common/lrotable.c).  The entries  *)
(* of the cache are a doubly linked list, the last one used first.         *)
(*                                                                         *)
(* A lookup walks the list inside a critical section.  On a hit it         *)
(* promotes the entry and leaves, and only then reads entry->entry; on a   *)
(* miss it leaves, searches the table itself and puts what it finds into   *)
(* the cache in a second critical section.  The counters hit, miss and     *)
(* used are only printed and are left out.                                 *)
(***************************************************************************)
EXTENDS Integers, FiniteSets

CONSTANTS
  Task,       \* the tasks that run Lua code
  Table,      \* the read-only tables; lua_rotable, of the globals, is one
  Key,        \* the string keys
  Holds,      \* the keys of each table
  Length,     \* ROTABLE_CACHE_LENGTH
  NULL

ASSUME CacheAssumption ==
  /\ Length \in Nat /\ Length >= 2
  /\ Holds \in [Table -> SUBSET Key]
  /\ NULL \notin Int
  /\ NULL \notin Table \cup Task \cup (Table \X Key)

Slot == 1 .. Length
Pair == Table \X Key      \* a luaR_entry: the table it is in and its key

VARIABLES
  first, last, next, previous,    \* the linked list
  rotable, entry,                 \* the table and the luaR_entry of a place
  lock,                           \* who is in the critical section
  pc, want, cursor,               \* of each task: its lookup, its place
  order,                          \* history: the places, in list order
  moved       \* history: the changes of order since the task's last hit

links == <<first, last, next, previous>>
vars == <<first, last, next, previous, rotable, entry, lock, pc, want, cursor,
          order, moved>>

TypeOK ==
  /\ first \in Slot /\ last \in Slot
  /\ next \in [Slot -> Slot \cup {NULL}]
  /\ previous \in [Slot -> Slot \cup {NULL}]
  /\ rotable \in [Slot -> Table \cup {NULL}]
  /\ entry \in [Slot -> Pair \cup {NULL}]
  /\ lock \in Task \cup {NULL}
  /\ pc \in [Task -> {"idle", "walk", "read", "search"}]
  /\ want \in [Task -> Pair \cup {NULL}]
  /\ cursor \in [Task -> Slot \cup {NULL}]
  /\ order \in [Slot -> Slot]
  /\ moved \in [Task -> 0 .. Length]

\* rotable_cache_init.
Init ==
  /\ first = 1
  /\ last = Length
  /\ next = [s \in Slot |-> IF s = Length THEN NULL ELSE s + 1]
  /\ previous = [s \in Slot |-> IF s = 1 THEN NULL ELSE s - 1]
  /\ rotable = [s \in Slot |-> NULL]
  /\ entry = [s \in Slot |-> NULL]
  /\ lock = NULL
  /\ pc = [t \in Task |-> "idle"]
  /\ want = [t \in Task |-> NULL]
  /\ cursor = [t \in Task |-> NULL]
  /\ order = [i \in Slot |-> i]
  /\ moved = [t \in Task |-> 0]

\* The history variables: the place at position i has come to the front.
ToFront(i) ==
  order' = [j \in Slot |-> CASE j = 1 -> order[i]
                             [] j \in 2 .. i -> order[j - 1]
                             [] OTHER -> order[j]]

Counted(t) == IF pc[t] = "read" /\ moved[t] < Length THEN moved[t] + 1
              ELSE moved[t]

\* The lookup of task t is over.
Return(t) ==
  /\ pc' = [pc EXCEPT ![t] = "idle"]
  /\ want' = [want EXCEPT ![t] = NULL]
  /\ cursor' = [cursor EXCEPT ![t] = NULL]

\* rotable_cache_get: into the critical section.
Enter(t, p) ==
  /\ pc[t] = "idle"
  /\ lock = NULL
  /\ lock' = t
  /\ pc' = [pc EXCEPT ![t] = "walk"]
  /\ want' = [want EXCEPT ![t] = p]
  /\ cursor' = [cursor EXCEPT ![t] = first]
  /\ UNCHANGED <<links, rotable, entry, order, moved>>

\* Mutant: the table is not compared.
AnyTable(s, p) == entry[s] # NULL /\ entry[s][2] = p[2]

\* The test of the loop: the same table and the same key.
Matches(s, p) == rotable[s] = p[1] /\ entry[s][2] = p[2]

\* The loop of rotable_cache_get goes on to the next entry.
Walk(t) ==
  /\ pc[t] = "walk"
  /\ cursor[t] # NULL
  /\ ~Matches(cursor[t], want[t])
  /\ cursor' = [cursor EXCEPT ![t] = next[cursor[t]]]
  /\ UNCHANGED <<links, rotable, entry, lock, pc, want, order, moved>>

\* Mutant: the successor keeps the promoted entry as its predecessor.
UnlinkOneWay(s) ==
  /\ s # last
  /\ next' = [next EXCEPT ![previous[s]] = next[s], ![s] = first]
  /\ previous' = [previous EXCEPT ![first] = s]
  /\ UNCHANGED last

\* The promotion of an entry from the middle of the list; its own previous
\* pointer stays as it was.
PromoteMiddle(s) ==
  /\ s # last
  /\ next' = [next EXCEPT ![previous[s]] = next[s], ![s] = first]
  /\ previous' = [previous EXCEPT ![next[s]] = previous[s], ![first] = s]
  /\ UNCHANGED last

\* Mutant: the new last entry still leads to the promoted one.
PromoteLastUncut(s) ==
  /\ s = last
  /\ last' = previous[s]
  /\ next' = [next EXCEPT ![s] = first]
  /\ previous' = [previous EXCEPT ![s] = NULL, ![first] = s]

\* The promotion of the last entry.
PromoteLast(s) ==
  /\ s = last
  /\ last' = previous[s]
  /\ next' = [next EXCEPT ![previous[s]] = NULL, ![s] = first]
  /\ previous' = [previous EXCEPT ![s] = NULL, ![first] = s]

\* Mutant: a hit does not promote.
NoPromotion(s) == UNCHANGED links

\* "Promote this entry to the head".
Promote(s) ==
  \/ s = first /\ UNCHANGED links
  \/ s # first /\ (PromoteMiddle(s) \/ PromoteLast(s)) /\ first' = s

\* rotable_cache_get, a hit, up to the end of the critical section.
Hit(t) ==
  /\ pc[t] = "walk"
  /\ cursor[t] # NULL
  /\ Matches(cursor[t], want[t])
  /\ Promote(cursor[t])
  /\ lock' = NULL
  /\ pc' = [pc EXCEPT ![t] = "read"]
  /\ \E i \in Slot : order[i] = cursor[t] /\ ToFront(i)
  /\ moved' = [u \in Task |-> IF u = t THEN 0 ELSE Counted(u)]
  /\ UNCHANGED <<rotable, entry, want, cursor>>

\* The return of rotable_cache_get: &entry->entry->value is read outside of
\* the critical section.
Read(t) ==
  /\ pc[t] = "read"
  /\ Return(t)
  /\ moved' = [moved EXCEPT ![t] = 0]
  /\ UNCHANGED <<links, rotable, entry, lock, order>>

\* rotable_cache_get, a miss.
Miss(t) ==
  /\ pc[t] = "walk"
  /\ cursor[t] = NULL
  /\ lock' = NULL
  /\ pc' = [pc EXCEPT ![t] = "search"]
  /\ UNCHANGED <<links, rotable, entry, want, cursor, order, moved>>

\* luaR_auxfind and luaR_findglobal find no such key in the table.
NotFound(t) ==
  /\ pc[t] = "search"
  /\ want[t][2] \notin Holds[want[t][1]]
  /\ Return(t)
  /\ UNCHANGED <<links, rotable, entry, lock, order, moved>>

\* Mutant: the table of the recycled entry is not set.
PutKeepsTable(p) ==
  /\ first' = last
  /\ last' = previous[last]
  /\ next' = [next EXCEPT ![previous[last]] = NULL, ![last] = first]
  /\ previous' = [previous EXCEPT ![last] = NULL, ![first] = last]
  /\ entry' = [entry EXCEPT ![last] = p]
  /\ ToFront(Length)
  /\ UNCHANGED rotable

\* rotable_cache_put: the last entry is recycled as the first.
Put(p) ==
  /\ first' = last
  /\ last' = previous[last]
  /\ next' = [next EXCEPT ![previous[last]] = NULL, ![last] = first]
  /\ previous' = [previous EXCEPT ![last] = NULL, ![first] = last]
  /\ rotable' = [rotable EXCEPT ![last] = p[1]]
  /\ entry' = [entry EXCEPT ![last] = p]
  /\ ToFront(Length)

\* luaR_auxfind and luaR_findglobal find the key in the table, "Put in cache"
\* and return it.
Found(t) ==
  /\ pc[t] = "search"
  /\ want[t][2] \in Holds[want[t][1]]
  /\ lock = NULL
  /\ Put(want[t])
  /\ Return(t)
  /\ moved' = [u \in Task |-> Counted(u)]
  /\ UNCHANGED lock

Step(t) == Walk(t) \/ Hit(t) \/ Read(t) \/ Miss(t) \/ NotFound(t) \/ Found(t)

Next == \E t \in Task : Step(t) \/ \E p \in Pair : Enter(t, p)

Spec == Init /\ [][Next]_vars

\* A critical section is short and with interrupts disabled: a task that is
\* in one leaves it, one that waits for one gets in.
FairSpec == Spec /\ \A t \in Task : SF_vars(Step(t))

-----------------------------------------------------------------------------
(* Properties.                                                             *)

\* The list is one list, forwards from first and backwards from last, of all
\* the entries, although a promoted entry keeps its old previous pointer: the
\* pointer is wrong only while the entry is first, and is never followed then.
ListSound ==
  /\ \A i, j \in Slot : order[i] = order[j] => i = j
  /\ first = order[1] /\ last = order[Length]
  /\ \A i \in Slot : next[order[i]] = IF i = Length THEN NULL ELSE order[i + 1]
  /\ \A i \in 2 .. Length : previous[order[i]] = order[i - 1]

\* What is cached for a table is a pair of that table which the table holds.
CachedHeld ==
  \A s \in Slot :
    \/ rotable[s] = NULL /\ entry[s] = NULL
    \/ /\ entry[s] \in Pair
       /\ rotable[s] = entry[s][1]
       /\ entry[s][2] \in Holds[entry[s][1]]

\* A hit is read after the critical section.  The entry read is still the one
\* asked for as long as fewer than Length lookups of other tasks have changed
\* the order meanwhile: the promoted entry has to sink to the end of the list
\* before it can be recycled.
RightUntilOverrun ==
  \A t \in Task :
    pc[t] = "read" /\ moved[t] < Length => entry[cursor[t]] = want[t]

\* "Find an entry in a rotable and return it": whenever a hit is read, it is
\* the entry that was asked for.
ReturnsWanted == \A t \in Task : pc[t] = "read" => entry[cursor[t]] = want[t]

\* The cached pairs, the last one used first.
Cached == [i \in Slot |-> entry[order[i]]]

Lru == INSTANCE LruCache WITH Empty <- NULL, cache <- Cached

\* The cache forgets the pair that was looked up longest ago.
ImplementsLru == Lru!Spec

\* Every lookup comes to an end: no walk goes round in circles.
LookupReturns == \A t \in Task : pc[t] # "idle" ~> pc[t] = "idle"

\* The inductive invariant behind the theorems.  A task walks inside the
\* critical section, and the entry of a hit that is not read yet has sunk no
\* further than the order has changed.
Recency ==
  /\ lock \in {NULL} \cup {t \in Task : pc[t] = "walk"}
  /\ \A t \in Task : pc[t] = "walk" => lock = t
  /\ \A t \in Task : pc[t] # "idle" => want[t] \in Pair
  /\ \A t \in Task :
       pc[t] = "read" /\ moved[t] < Length =>
         \E i \in 1 .. moved[t] + 1 : order[i] = cursor[t]
  /\ \A t \in Task : pc[t] = "read" => cursor[t] \in Slot

CacheSound ==
  /\ TypeOK
  /\ ListSound
  /\ CachedHeld
  /\ RightUntilOverrun
  /\ Recency
=============================================================================
