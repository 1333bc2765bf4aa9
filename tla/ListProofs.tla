---------------------------- MODULE ListProofs ----------------------------
(***************************************************************************)
(* For clients that remove only handles they hold, the lists of kind       *)
(* LIST_DEFAULT implement HandleTable, for any number of items and of      *)
(* slots up to 255, whether allocations fail or not, and no slot that was  *)
(* removed is ever lost to the free chain.  As long as malloc succeeds,    *)
(* the list of the cleanup handlers of a thread implements Stack.          *)
(***************************************************************************)
EXTENDS CleanupStack, WellFoundedInduction, TLAPS

\* The empty list is sound.
LEMMA InitSound == Init => Sound
  BY ListAssumption DEF Init, Sound, TypeOK, ChainSound, Live, Slot

\* Reusing the head of the chain: nothing else on it leads to that slot.
LEMMA AddFreeSound ==
  ASSUME Sound, NEW x \in Item, AddFree(x)
  PROVE  Sound'
<1> USE ListAssumption
<1>1. TypeOK'
  BY DEF Sound, TypeOK, AddFree, Store, Slot
<1>2. ChainSound'
  BY DEF Sound, TypeOK, ChainSound, AddFree, Store, Slot
<1>3. \A r \in Slot : r >= size' => item'[r] = NULL /\ next'[r] = NULL
  BY DEF Sound, TypeOK, ChainSound, AddFree, Store, Slot
<1> QED
  BY <1>1, <1>2, <1>3 DEF Sound, AddFree

\* A new slot at the end of the array is on no chain.
LEMMA AddGrowSound ==
  ASSUME Sound, NEW x \in Item, AddGrow(x)
  PROVE  Sound'
<1> USE ListAssumption
<1>1. TypeOK'
  BY DEF Sound, TypeOK, AddGrow, Store, Slot
<1>2. ChainSound'
  BY DEF Sound, TypeOK, ChainSound, AddGrow, Store, Slot
<1>3. \A r \in Slot : r >= size' => item'[r] = NULL /\ next'[r] = NULL
  BY DEF Sound, TypeOK, ChainSound, AddGrow, Store, Slot
<1> QED
  BY <1>1, <1>2, <1>3 DEF Sound, AddGrow

\* The slots skipped by a failed growth are on no chain either.
LEMMA AddGrowStaleSound ==
  ASSUME Sound, NEW x \in Item, AddGrowStale(x)
  PROVE  Sound'
<1> USE ListAssumption
<1>1. TypeOK'
  BY DEF Sound, TypeOK, AddGrowStale, Slot
<1>2. ChainSound'
  BY DEF Sound, TypeOK, ChainSound, AddGrowStale, Slot
<1>3. \A r \in Slot : r >= size' => item'[r] = NULL /\ next'[r] = NULL
  BY DEF Sound, TypeOK, AddGrowStale, Slot
<1> QED
  BY <1>1, <1>2, <1>3 DEF Sound

\* A slot in use is on no chain, so putting it at the head makes no loop.
LEMMA RemoveSound ==
  ASSUME Sound, NEW s \in Slot, Remove(s), Careful
  PROVE  Sound'
<1> USE ListAssumption
<1>1. TypeOK'
  BY DEF Sound, TypeOK, Remove, Slot
<1>2. ChainSound'
  BY DEF Sound, TypeOK, ChainSound, Remove, Slot
<1>3. \A r \in Slot : r >= size' => item'[r] = NULL /\ next'[r] = NULL
  BY DEF Sound, TypeOK, ChainSound, Remove, Slot
<1> QED
  BY <1>1, <1>2, <1>3 DEF Sound, Remove

\* The free chain stays sound, so that every slot lstadd reuses was free.
THEOREM ListSound ==
  ASSUME Careful
  PROVE  Spec => []Sound
<1>1. Sound /\ [Next]_vars => Sound'
  <2> SUFFICES ASSUME Sound, [Next]_vars
               PROVE  Sound'
    OBVIOUS
  <2>1. CASE \E x \in Item : AddFree(x) \/ AddGrow(x)
    BY <2>1, AddFreeSound, AddGrowSound
  <2>2. CASE \E x \in Item : AddGrowStale(x)
    BY <2>2, AddGrowStaleSound
  <2>3. CASE \E s \in Slot : Remove(s)
    BY <2>3, RemoveSound
  <2>4. CASE AddNoMem
    BY <2>4, ListAssumption DEF AddNoMem, Sound, TypeOK, ChainSound, Slot
  <2>5. CASE UNCHANGED vars
    BY <2>5 DEF vars, Sound, TypeOK, ChainSound
  <2> QED
    BY <2>1, <2>2, <2>3, <2>4, <2>5 DEF Next
<1> QED
  BY <1>1, InitSound, PTL DEF Spec

-----------------------------------------------------------------------------

\* lstinit gives out no handle.
LEMMA InitTable == Init => Table!Init
  BY DEF Init, Table!Init, Live

\* Reusing a slot gives out a handle that leads nowhere yet.
LEMMA AddFreeTable ==
  ASSUME Sound, NEW x \in Item, AddFree(x)
  PROVE  Table!Next
<1> USE ListAssumption
<1>1. free \in Slot /\ free \notin Live
  BY DEF Sound, TypeOK, ChainSound, AddFree, Live
<1>2. Live' = Live \cup {free}
  BY DEF Sound, TypeOK, ChainSound, AddFree, Store, Live, Slot
<1>3. item' = [item EXCEPT ![free] = x] /\ item \in [Slot -> Item \cup {NULL}]
  BY DEF Sound, TypeOK, AddFree, Store
<1>4. Live \subseteq Slot
  BY DEF Sound, TypeOK, Live, Slot
<1>5. Table!Add(free, x)
  BY <1>1, <1>2, <1>3, <1>4 DEF Table!Add
<1> QED
  BY <1>1, <1>5 DEF Table!Next

\* The slot the array grows by is a handle nobody holds.
LEMMA AddGrowTable ==
  ASSUME Sound, NEW x \in Item, AddGrow(x)
  PROVE  Table!Next
<1> USE ListAssumption
<1>1. indexes \in Slot /\ indexes \notin Live
  BY DEF Sound, TypeOK, AddGrow, Live, Slot
<1>2. Live' = Live \cup {indexes}
  BY DEF Sound, TypeOK, AddGrow, Store, Live, Slot
<1>3. item' = [item EXCEPT ![indexes] = x]
      /\ item \in [Slot -> Item \cup {NULL}]
  BY DEF Sound, TypeOK, AddGrow, Store
<1>4. Live \subseteq Slot
  BY DEF Sound, TypeOK, Live, Slot
<1>5. Table!Add(indexes, x)
  BY <1>1, <1>2, <1>3, <1>4 DEF Table!Add
<1> QED
  BY <1>1, <1>5 DEF Table!Next

\* The same after failed growths: the slots skipped are given to nobody.
LEMMA AddGrowStaleTable ==
  ASSUME Sound, NEW x \in Item, AddGrowStale(x)
  PROVE  Table!Next
<1> USE ListAssumption
<1>1. indexes \in Slot /\ indexes \notin Live
  BY DEF Sound, TypeOK, AddGrowStale, Live, Slot
<1>2. Live' = Live \cup {indexes}
  <2>1. ASSUME NEW s \in Slot, s # indexes
        PROVE  s \in Live' <=> s \in Live
    <3>1. item'[s] = item[s]
      BY <2>1 DEF Sound, TypeOK, AddGrowStale
    <3>2. CASE s < size
      BY <2>1, <3>1, <3>2 DEF Sound, TypeOK, AddGrowStale, Live, Slot
    <3>3. CASE s >= size
      BY <2>1, <3>1, <3>3 DEF Sound, TypeOK, Live, Slot
    <3> QED
      BY <2>1, <3>2, <3>3 DEF Sound, TypeOK, Slot
  <2>2. indexes \in Live'
    BY DEF Sound, TypeOK, AddGrowStale, Live, Slot
  <2>3. Live \subseteq Slot /\ Live' \subseteq Slot
    BY DEF Sound, TypeOK, AddGrowStale, Live, Slot
  <2> QED
    BY <1>1, <2>1, <2>2, <2>3
<1>3. item' = [item EXCEPT ![indexes] = x]
      /\ item \in [Slot -> Item \cup {NULL}]
  BY DEF Sound, TypeOK, AddGrowStale
<1>4. Live \subseteq Slot
  BY DEF Sound, TypeOK, Live, Slot
<1>5. Table!Add(indexes, x)
  BY <1>1, <1>2, <1>3, <1>4 DEF Table!Add
<1> QED
  BY <1>1, <1>5 DEF Table!Next

\* lstremove takes back one handle and leaves the others alone.
LEMMA RemoveTable ==
  ASSUME Sound, NEW s \in Slot, Remove(s), Careful
  PROVE  Table!Next
<1> USE ListAssumption
<1>1. s \in Live
  BY DEF Sound, TypeOK, Remove, Live, Slot
<1>2. Live' = Live \ {s}
  BY DEF Sound, TypeOK, Remove, Live, Slot
<1>3. item' = item
  BY DEF Remove
<1>4. Table!Remove(s)
  BY <1>1, <1>2, <1>3 DEF Table!Remove
<1> QED
  BY <1>4 DEF Table!Next

\* lstadd and lstremove do to the table of handles what HandleTable says.
THEOREM ListImplementsTable ==
  ASSUME Careful
  PROVE  Spec => ImplementsTable
<1>1. Sound /\ [Next]_vars => [Table!Next]_([s \in Live |-> item[s]])
  <2> SUFFICES ASSUME Sound, [Next]_vars
               PROVE  Table!Next \/ UNCHANGED [s \in Live |-> item[s]]
    OBVIOUS
  <2>1. CASE \E x \in Item : AddFree(x) \/ AddGrow(x)
    BY <2>1, AddFreeTable, AddGrowTable
  <2>2. CASE \E x \in Item : AddGrowStale(x)
    BY <2>2, AddGrowStaleTable
  <2>3. CASE \E s \in Slot : Remove(s)
    BY <2>3, RemoveTable
  <2>4. CASE AddNoMem
    BY <2>4 DEF AddNoMem, Live
  <2>5. CASE UNCHANGED vars
    BY <2>5 DEF vars, Live
  <2> QED
    BY <2>1, <2>2, <2>3, <2>4, <2>5 DEF Next
<1> QED
  BY <1>1, InitTable, ListSound, PTL DEF Spec, ImplementsTable, Table!Spec

-----------------------------------------------------------------------------

\* The slots that were given out and removed again.
Removed == {s \in 0 .. size - 1 : deleted[s] /\ item[s] # NULL}

\* Every removed slot but the head of the free chain is behind another one
\* of a smaller rank.
Ranked(r) ==
  \A s \in Removed :
    s = free \/ \E q \in Removed : next[q] = s /\ r[q] < r[s]

\* Such ranks exist: going back along the chain ends, and it ends at the head.
\* It is what NoSlotLost needs to be inductive, for only so does the chain
\* still reach all removed slots when its head is taken.
ChainComplete == \E r \in [Slot -> Nat] : Ranked(r)

\* A set of slots that is not empty has one of the least rank.
LEMMA LeastRank ==
  ASSUME NEW r \in [Slot -> Nat], NEW S, S \subseteq Slot, S # {}
  PROVE  \E s \in S : \A q \in S : ~ (r[q] < r[s])
<1>. DEFINE N == {r[s] : s \in S}
<1>1. N \subseteq Nat /\ N # {}
  OBVIOUS
<1>. HIDE DEF N
<1>2. PICK n \in N : \A m \in N : <<m, n>> \notin OpToRel(<, Nat)
  BY <1>1, NatLessThanWellFounded, WFMin
<1>3. \A m \in N : ~ (m < n)
  BY <1>1, <1>2, Zenon DEF OpToRel
<1>4. PICK s \in S : n = r[s]
  BY DEF N
<1>5. \A q \in S : r[q] \in N
  BY DEF N
<1>. QED  BY <1>3, <1>4, <1>5

\* Without a head there is no removed slot.
LEMMA NoHeadNoneRemoved ==
  ASSUME Sound, ChainComplete, free = NULL
  PROVE  Removed = {}
<1>. SUFFICES ASSUME Removed # {}
              PROVE  FALSE
  OBVIOUS
<1>1. Removed \subseteq Slot /\ NULL \notin Slot
  BY ListAssumption DEF Sound, TypeOK, Removed, Slot
<1>2. PICK r \in [Slot -> Nat] : Ranked(r)
  BY DEF ChainComplete
<1>3. PICK s \in Removed : \A q \in Removed : ~ (r[q] < r[s])
  BY <1>1, LeastRank
<1>. QED  BY <1>1, <1>2, <1>3 DEF Ranked

\* Taking the head of the chain leaves the next one as its head, if a removed
\* slot remains: the one of the least rank is behind the old head.
LEMMA AddFreeComplete ==
  ASSUME Sound, ChainComplete, NEW x \in Item, AddFree(x)
  PROVE  ChainComplete'
<1>. USE ListAssumption
<1>1. PICK r \in [Slot -> Nat] : Ranked(r)
  BY DEF ChainComplete
<1>2. Removed' = Removed \ {free}
  BY DEF Sound, TypeOK, ChainSound, AddFree, Store, Removed, Slot
<1>3. \A s \in Removed : s # free => next'[s] = next[s]
  BY DEF Sound, TypeOK, AddFree, Store, Removed, Slot
<1>4. free' = next[free]
  BY DEF AddFree
<1>5. Ranked(r)'
  BY <1>1, <1>2, <1>3, <1>4 DEF Ranked
<1>. QED  BY <1>5 DEF ChainComplete

\* A removed slot becomes the head of the chain, with the least rank.
LEMMA RemoveComplete ==
  ASSUME Sound, ChainComplete, NEW s \in Slot, Remove(s), Careful
  PROVE  ChainComplete'
<1>. USE ListAssumption
<1>1. PICK r \in [Slot -> Nat] : Ranked(r)
  BY DEF ChainComplete
<1>. DEFINE t == [q \in Slot |-> IF q = s THEN 0 ELSE r[q] + 1]
<1>2. Removed' = Removed \cup {s} /\ s \notin Removed
  BY DEF Sound, TypeOK, Remove, Removed, Slot
<1>3. free' = s /\ next'[s] = free
  BY DEF Sound, TypeOK, Remove
<1>4. \A q \in Removed : next'[q] = next[q]
  BY <1>2 DEF Sound, TypeOK, Remove, Removed, Slot
<1>5. Removed \subseteq Slot
  BY DEF Sound, TypeOK, Removed, Slot
<1>6. t \in [Slot -> Nat]
  OBVIOUS
<1>7. \A q \in Removed : t[q] = r[q] + 1 /\ t[s] < t[q]
  BY <1>2, <1>5
<1>. HIDE DEF t
<1>8. \A p, q \in Removed : r[p] < r[q] => t[p] < t[q]
  BY <1>5, <1>7
<1>9. Ranked(t)'
  BY <1>1, <1>2, <1>3, <1>4, <1>7, <1>8 DEF Ranked
<1>. QED  BY <1>6, <1>9 DEF ChainComplete

\* When the array grows the chain is empty, and stays so.
LEMMA GrowComplete ==
  ASSUME Sound, ChainComplete, NEW x \in Item, AddGrow(x) \/ AddGrowStale(x)
  PROVE  ChainComplete'
<1>. USE ListAssumption
<1>1. Removed = {}
  BY NoHeadNoneRemoved DEF AddGrow, AddGrowStale
<1>2. Removed' = {}
  <2>1. CASE AddGrow(x)
    BY <1>1, <2>1 DEF Sound, TypeOK, AddGrow, Store, Removed, Slot
  <2>2. CASE AddGrowStale(x)
    BY <1>1, <2>2 DEF Sound, TypeOK, AddGrowStale, Removed, Slot
  <2>. QED  BY <2>1, <2>2
<1>3. [s \in Slot |-> 0] \in [Slot -> Nat]
  OBVIOUS
<1>. QED  BY <1>2, <1>3 DEF ChainComplete, Ranked

\* lstadd grows the array only when every slot it has given out is in use: no
\* sequence of additions and removals, with failed allocations in between,
\* loses a removed slot to the free chain.
THEOREM RemovedSlotsAreReused ==
  ASSUME Careful
  PROVE  Spec => []NoSlotLost
<1>1. Init => ChainComplete
  <2>1. [s \in Slot |-> 0] \in [Slot -> Nat]
    OBVIOUS
  <2>2. Init => Removed = {}
    BY DEF Init, Removed
  <2>. QED  BY <2>1, <2>2 DEF ChainComplete, Ranked
<1>2. Sound /\ ChainComplete /\ [Next]_vars => ChainComplete'
  <2>. SUFFICES ASSUME Sound, ChainComplete, [Next]_vars
                PROVE  ChainComplete'
    OBVIOUS
  <2>1. CASE \E x \in Item : AddFree(x)
    BY <2>1, AddFreeComplete
  <2>2. CASE \E x \in Item : AddGrow(x) \/ AddGrowStale(x)
    BY <2>2, GrowComplete
  <2>3. CASE \E s \in Slot : Remove(s)
    BY <2>3, RemoveComplete
  <2>4. CASE AddNoMem
    BY <2>4 DEF AddNoMem, ChainComplete, Ranked, Removed
  <2>5. CASE UNCHANGED vars
    BY <2>5 DEF vars, ChainComplete, Ranked, Removed
  <2>. QED  BY <2>1, <2>2, <2>3, <2>4, <2>5 DEF Next
<1>3. Sound /\ ChainComplete => NoSlotLost
  BY NoHeadNoneRemoved DEF NoSlotLost, Removed, Live
<1>. QED  BY <1>1, <1>2, <1>3, ListSound, PTL DEF Spec

-----------------------------------------------------------------------------
(* The cleanup handlers of a thread: a stack.                              *)

\* A new thread has no handlers.
LEMMA InitStackSound == Init => StackSound
  BY ListAssumption DEF Init, StackSound, TypeOK, Contiguous, Depth, Listed, Slot

\* A handler is pushed to the slot just above those in use.
LEMMA PushSlot ==
  ASSUME StackSound, NEW h \in Item, CleanupPush(h)
  PROVE  /\ Depth \in Slot
         /\ Depth' = Depth + 1
         /\ size' \in Nat /\ Depth' <= size'
         /\ item' = [item EXCEPT ![Depth] = h]
         /\ deleted' = [deleted EXCEPT ![Depth] = FALSE]
         /\ next' = [next EXCEPT ![Depth] = NULL]
<1> USE ListAssumption
<1>1. CASE AddFree(h)
  BY <1>1 DEF StackSound, TypeOK, Contiguous, Depth, AddFree, Store, Slot
<1>2. CASE AddGrow(h)
  BY <1>2 DEF StackSound, TypeOK, Contiguous, Depth, AddGrow, Store, Slot
<1> QED
  BY <1>1, <1>2 DEF CleanupPush

\* The handler popped is the one in the highest slot in use.
LEMMA PopSlot ==
  ASSUME StackSound, CleanupPop
  PROVE  /\ Depth \in 1 .. size
         /\ Depth' = Depth - 1
         /\ Remove(Depth - 1)
<1> USE ListAssumption
<1> PICK s \in Slot : IsLast(s) /\ Remove(s)
  BY DEF CleanupPop
<1>1. Listed = 0 .. Depth - 1
  BY DEF StackSound, Contiguous, Listed
<1>2. Depth \in 0 .. size
  BY DEF StackSound, TypeOK, Depth, Slot
<1>3. s = Depth - 1
  BY <1>1, <1>2 DEF IsLast, Slot, StackSound, TypeOK
<1> QED
  BY <1>2, <1>3 DEF Remove, Depth, Slot, StackSound, TypeOK

\* _pthread_cleanup_push keeps the slots in use the lowest ones.
LEMMA PushSound ==
  ASSUME StackSound, NEW h \in Item, CleanupPush(h)
  PROVE  StackSound'
<1> USE ListAssumption
<1>1. TypeOK' /\ (indexes = size)' /\ (free # NULL => free < size)'
  <2>1. CASE AddFree(h)
    BY <2>1 DEF StackSound, TypeOK, Contiguous, Depth, AddFree, Store, Slot
  <2>2. CASE AddGrow(h)
    BY <2>2 DEF StackSound, TypeOK, Contiguous, Depth, AddGrow, Store, Slot
  <2> QED
    BY <2>1, <2>2 DEF CleanupPush
<1>2. size' = IF free = NULL THEN size + 1 ELSE size
  BY DEF CleanupPush, AddFree, AddGrow, StackSound
<1>3. Contiguous'
  BY <1>1, <1>2, PushSlot
     DEF StackSound, TypeOK, Contiguous, Depth, Listed, Slot
<1>4. \A s \in Listed' : item'[s] \in Item
  <2> SUFFICES ASSUME NEW s \in Listed'  PROVE item'[s] \in Item
    OBVIOUS
  <2>1. s \in 0 .. Depth /\ Depth \in Slot
    BY <1>3, PushSlot DEF Contiguous, Slot
  <2>2. item' = [item EXCEPT ![Depth] = h] /\ item \in [Slot -> Item \cup {NULL}]
    BY PushSlot DEF StackSound, TypeOK
  <2>3. CASE s = Depth
    BY <2>1, <2>2, <2>3
  <2>4. CASE s # Depth
    <3>1. s \in Slot /\ s \in Listed
      BY <2>1, <2>4 DEF StackSound, Contiguous, Slot
    <3> QED
      BY <2>2, <2>4, <3>1 DEF StackSound
  <2> QED
    BY <2>3, <2>4
<1> QED
  BY <1>1, <1>3, <1>4 DEF StackSound

\* _pthread_cleanup_pop keeps the slots in use the lowest ones.
LEMMA PopSound ==
  ASSUME StackSound, CleanupPop
  PROVE  StackSound'
<1> USE ListAssumption
<1> PICK top \in 0 .. size - 1 : Depth = top + 1 /\ Remove(top)
  <2>1. Depth - 1 \in 0 .. size - 1 /\ Depth = (Depth - 1) + 1
    BY PopSlot DEF StackSound, TypeOK
  <2> QED
    BY <2>1, PopSlot
<1>1. TypeOK' /\ (indexes = size)' /\ (free # NULL => free < size)'
  BY DEF StackSound, TypeOK, Remove, Slot
<1>2. Listed' = 0 .. Depth' - 1
  <2>1. Listed = 0 .. top /\ Depth' = top /\ indexes' = indexes
    BY PopSlot DEF StackSound, TypeOK, Contiguous, Remove, Depth, Slot
  <2>2. deleted' = [deleted EXCEPT ![top] = TRUE]
        /\ deleted \in [Slot -> BOOLEAN] /\ indexes \in 0 .. MaxIndexes
    BY DEF StackSound, TypeOK, Remove
  <2> QED
    BY <2>1, <2>2 DEF Listed, Slot
<1>3. \A s \in Depth' .. size' - 1 :
        next'[s] = IF s = size' - 1 THEN NULL ELSE s + 1
  <2>1. next' = [next EXCEPT ![top] = free] /\ size' = size /\ Depth' = top
    BY PopSlot DEF StackSound, TypeOK, Remove, Depth, Slot
  <2>2. free = IF top = size - 1 THEN NULL ELSE top + 1
    BY DEF Depth, StackSound, TypeOK, Slot
  <2>3. \A s \in top + 1 .. size - 1 :
          next[s] = IF s = size - 1 THEN NULL ELSE s + 1
    BY DEF StackSound, Contiguous
  <2> QED
    BY <2>1, <2>2, <2>3 DEF StackSound, TypeOK, Slot
<1>4. \A s \in Listed' : item'[s] \in Item
  BY DEF StackSound, TypeOK, Listed, Remove, Slot
<1> QED
  BY <1>1, <1>2, <1>3, <1>4 DEF StackSound, Contiguous

\* The slots in use are always the lowest ones.
THEOREM CleanupSound == CleanupSpec => []StackSound
<1>1. StackSound /\ [CleanupNext]_vars => StackSound'
  <2> SUFFICES ASSUME StackSound, [CleanupNext]_vars
               PROVE  StackSound'
    OBVIOUS
  <2>1. CASE CleanupNext
    BY <2>1, PushSound, PopSound DEF CleanupNext
  <2>2. CASE UNCHANGED vars
    BY <2>2 DEF vars, StackSound, TypeOK, Contiguous, Depth, Listed
  <2> QED
    BY <2>1, <2>2
<1> QED
  BY <1>1, InitStackSound, PTL DEF CleanupSpec

\* A push appends one handler to the stack.
LEMMA PushStack ==
  ASSUME StackSound, NEW h \in Item, CleanupPush(h)
  PROVE  Handlers!Push(h)
<1> DEFINE stack == [i \in 1 .. Depth |-> item[i - 1]]
<1>1. Depth \in Nat /\ Depth' = Depth + 1
  BY PushSlot DEF Slot
<1>2. stack \in Seq(Item) /\ Len(stack) = Depth
  BY <1>1 DEF StackSound, Contiguous
<1>3. \A i \in 1 .. Depth + 1 :
        item'[i - 1] = IF i = Depth + 1 THEN h ELSE item[i - 1]
  BY PushSlot, ListAssumption DEF StackSound, TypeOK, Slot
<1>4. stack' = Append(stack, h)
  BY <1>1, <1>2, <1>3
<1> QED
  BY <1>4 DEF Handlers!Push

\* A pop takes the newest handler off the stack.
LEMMA PopStack ==
  ASSUME StackSound, CleanupPop
  PROVE  Handlers!Pop
<1> DEFINE stack == [i \in 1 .. Depth |-> item[i - 1]]
<1>1. Depth \in Nat \ {0} /\ Depth' = Depth - 1
  BY PopSlot DEF StackSound, TypeOK
<1>2. stack \in Seq(Item) /\ Len(stack) = Depth
  BY <1>1 DEF StackSound, Contiguous
<1>3. item' = item
  BY PopSlot DEF Remove
<1>4. stack # <<>> /\ stack' = SubSeq(stack, 1, Len(stack) - 1)
  BY <1>1, <1>2, <1>3
<1> QED
  BY <1>4 DEF Handlers!Pop

\* Cleanup handlers are popped in the reverse order of their pushes.
THEOREM CleanupImplementsStack == CleanupSpec => ImplementsStack
<1>1. Init => Handlers!Init
  BY DEF Init, Handlers!Init, Depth
<1>2. StackSound /\ [CleanupNext]_vars
        => [Handlers!Next]_([i \in 1 .. Depth |-> item[i - 1]])
  BY PushStack, PopStack DEF CleanupNext, Handlers!Next, vars, Depth
<1> QED
  BY <1>1, <1>2, CleanupSound, PTL
     DEF CleanupSpec, ImplementsStack, Handlers!Spec
=============================================================================
