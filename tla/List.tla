------------------------------- MODULE List -------------------------------
(***************************************************************************)
(* A list of kind LIST_DEFAULT (sys/sys/list.c): an array of slots, the    *)
(* removed ones chained from list->free, that grows when the chain is      *)
(* empty.  A handle is the number of a slot; the offset first_index that   *)
(* is added to it is left out.                                             *)
(*                                                                         *)
(* Every operation runs under list->mutex and is one action.  lstget,      *)
(* lstfirst, lstlast and lstnext change nothing: they are operators.       *)
(***************************************************************************)
EXTENDS Integers, FiniteSets

CONSTANTS
  Item,         \* what the clients store
  NULL,         \* the NULL pointer
  MaxIndexes,   \* the most slots a list has: indexes is a uint8_t
  NoMemory,     \* whether malloc may fail in lstadd
  Careful       \* whether a client only removes a handle it holds

ASSUME ListAssumption ==
  /\ MaxIndexes \in 1 .. 255
  /\ NULL \notin Item
  /\ NULL \notin Int
  /\ NoMemory \in BOOLEAN
  /\ Careful \in BOOLEAN

Slot == 0 .. MaxIndexes - 1

VARIABLES
  indexes,    \* list->indexes
  size,       \* the number of slots the array at list->index was given
  free,       \* list->free
  item, deleted, next   \* the fields of each slot

vars == <<indexes, size, free, item, deleted, next>>

TypeOK ==
  /\ indexes \in 0 .. MaxIndexes
  /\ size \in 0 .. indexes
  /\ free \in Slot \cup {NULL}
  /\ item \in [Slot -> Item \cup {NULL}]
  /\ deleted \in [Slot -> BOOLEAN]
  /\ next \in [Slot -> Slot \cup {NULL}]

\* lstinit.
Init ==
  /\ indexes = 0
  /\ size = 0
  /\ free = NULL
  /\ item = [s \in Slot |-> NULL]
  /\ deleted = [s \in Slot |-> FALSE]
  /\ next = [s \in Slot |-> NULL]

Store(s, x) ==
  /\ item' = [item EXCEPT ![s] = x]
  /\ deleted' = [deleted EXCEPT ![s] = FALSE]
  /\ next' = [next EXCEPT ![s] = NULL]

\* Mutant: the slot is not taken off the free chain.
AddFreeStays(x) ==
  /\ free # NULL
  /\ Store(free, x)
  /\ UNCHANGED <<indexes, size, free>>

\* lstadd, with a free slot.
AddFree(x) ==
  /\ free # NULL
  /\ free' = next[free]
  /\ Store(free, x)
  /\ UNCHANGED <<indexes, size>>

\* lstadd, growing: the old slots are copied to a new, larger array.
AddGrow(x) ==
  /\ free = NULL
  /\ indexes = size
  /\ indexes < MaxIndexes
  /\ indexes' = indexes + 1
  /\ size' = indexes + 1
  /\ Store(indexes, x)
  /\ UNCHANGED free

\* The same after a failed growth: indexes is ahead of the array, so that
\* slots are copied that the old array does not have; what they hold, and
\* whether they look deleted, is left to chance.  NULL is no client's item.
AddGrowStale(x) ==
  /\ free = NULL
  /\ indexes > size
  /\ indexes < MaxIndexes
  /\ indexes' = indexes + 1
  /\ size' = indexes + 1
  /\ item' = [item EXCEPT ![indexes] = x]
  /\ \E junk \in BOOLEAN :
       deleted' = [s \in Slot |-> IF s \in size .. indexes - 1
                                  THEN junk ELSE s # indexes /\ deleted[s]]
  /\ next' = [next EXCEPT ![indexes] = NULL]
  /\ UNCHANGED free

\* lstadd, malloc fails: ENOMEM, and indexes stays incremented.
AddNoMem ==
  /\ NoMemory
  /\ free = NULL
  /\ indexes < MaxIndexes
  /\ indexes' = indexes + 1
  /\ UNCHANGED <<size, free, item, deleted, next>>

\* Mutant: the slot does not lead on to the rest of the chain.
RemoveUnlinked(s) ==
  /\ s < size
  /\ Careful => ~deleted[s] /\ item[s] # NULL
  /\ next' = [next EXCEPT ![s] = NULL]
  /\ deleted' = [deleted EXCEPT ![s] = TRUE]
  /\ free' = s
  /\ UNCHANGED <<indexes, size, item>>

\* lstremove: the slot goes to the head of the free chain, whether it was
\* already deleted or not.
Remove(s) ==
  /\ s < size
  /\ Careful => ~deleted[s] /\ item[s] # NULL
  /\ next' = [next EXCEPT ![s] = free]
  /\ deleted' = [deleted EXCEPT ![s] = TRUE]
  /\ free' = s
  /\ UNCHANGED <<indexes, size, item>>

Next ==
  \/ \E x \in Item : AddFree(x) \/ AddGrow(x) \/ AddGrowStale(x)
  \/ AddNoMem
  \/ \E s \in Slot : Remove(s)

Spec == Init /\ [][Next]_vars

-----------------------------------------------------------------------------
(* The operations that only read.                                          *)

\* lstget goes on to read slot s, after its two tests of the index.
GetReads(s) == indexes # 0 /\ s <= indexes

\* The slots lstfirst, lstlast and lstnext can return.
Listed == {s \in 0 .. indexes - 1 : ~deleted[s]}

-----------------------------------------------------------------------------
(* Properties.                                                             *)

\* The slots that lstadd has given out and that are not removed.
Live == {s \in 0 .. size - 1 : ~deleted[s] /\ item[s] # NULL}

\* The free chain: it holds deleted slots only, it branches nowhere and no
\* slot leads back to its head, so no slot is on it twice.
ChainSound ==
  /\ free # NULL => free < size /\ deleted[free]
  /\ \A s \in 0 .. size - 1 : deleted[s] =>
       /\ next[s] # free \/ free = NULL
       /\ next[s] # NULL => next[s] < size /\ deleted[next[s]]
       /\ \A r \in 0 .. size - 1 :
            deleted[r] /\ next[r] = next[s] /\ next[s] # NULL => r = s

\* A slot that was removed is used again before the array grows: with no
\* free slot to be had, every slot that was ever given out is in use.
NoSlotLost ==
  free = NULL => \A s \in 0 .. size - 1 : item[s] # NULL => s \in Live

\* What the clients see: the handles given out and the items behind them.
Table == INSTANCE HandleTable
           WITH Handle <- Slot, table <- [s \in Live |-> item[s]]

\* A list is a table of handles: a handle is given out once, and adding or
\* removing one leaves what the others lead to alone, also when memory runs
\* out in between.
ImplementsTable == Table!Spec

\* "Test for a valid index": an index that passes lstget's test is in the
\* array.
IndexTested == \A s \in 0 .. MaxIndexes : GetReads(s) => s < size

\* "Get first free element": the slot at the head of the free chain is free.
FreeIsFree == free # NULL => deleted[free]

\* "Get next non deleted item on list": an index that a walk over the list
\* returns leads to an item that was added.
WalkFindsItems == \A s \in Listed : s < size => item[s] # NULL

\* The inductive invariant behind the theorems: besides the free chain, a
\* slot the array does not have yet holds nothing.
Sound ==
  /\ TypeOK
  /\ ChainSound
  /\ \A s \in Slot : s >= size => item[s] = NULL /\ next[s] = NULL
=============================================================================
