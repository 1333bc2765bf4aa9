--------------------------- MODULE CleanupStack ---------------------------
(***************************************************************************)
(* The cleanup handlers of one thread (pthread/_pthread.c): thread->       *)
(* clean_list is a list of kind LIST_DEFAULT, pushed to with lstadd, and   *)
(* popped from at lstlast, the highest slot in use.  Only the thread       *)
(* itself uses it, under thread_mtx.  _pthread_cleanup pops until the list *)
(* is empty.  That malloc fails in a push, or in the lstadd whose result   *)
(* the push ignores, is left out here: what it leaves behind is in         *)
(* AddNoMem of List.                                                       *)
(***************************************************************************)
EXTENDS List, Sequences

\* _pthread_cleanup_push.
CleanupPush(h) == AddFree(h) \/ AddGrow(h)

\* Mutant: lstfirst for lstlast.
IsFirst(s) == s \in Listed /\ \A r \in Listed : r >= s

\* lstlast returns slot s.
IsLast(s) == s \in Listed /\ \A r \in Listed : r <= s

\* _pthread_cleanup_pop, and each turn of the loop of _pthread_cleanup.
CleanupPop == \E s \in Slot : IsLast(s) /\ Remove(s)

CleanupNext == CleanupPop \/ \E h \in Item : CleanupPush(h)

CleanupSpec == Init /\ [][CleanupNext]_vars

-----------------------------------------------------------------------------
(* Properties.                                                             *)

\* The number of handlers, if the slots in use are the lowest ones.
Depth == IF free = NULL THEN size ELSE free

Handlers == INSTANCE Stack
              WITH stack <- [i \in 1 .. Depth |-> item[i - 1]]

\* The slots in use are the lowest ones, and the free chain goes up through
\* the others in order: a pushed handler always lands above those in use.
Contiguous ==
  /\ Listed = 0 .. Depth - 1
  /\ \A s \in Depth .. size - 1 : next[s] = IF s = size - 1 THEN NULL
                                           ELSE s + 1

\* "Get last element in clean list, so we must pop handlers in reverse
\* order": lstlast and the reuse of slots make a stack, whatever the order of
\* pushes and pops.
ImplementsStack == Handlers!Spec

\* The inductive invariant behind the theorem.
StackSound ==
  /\ TypeOK
  /\ indexes = size
  /\ free # NULL => free < size
  /\ Contiguous
  /\ \A s \in Listed : item[s] \in Item
=============================================================================
