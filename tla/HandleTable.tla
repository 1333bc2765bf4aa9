---------------------------- MODULE HandleTable ----------------------------
(***************************************************************************)
(* What a list of kind LIST_DEFAULT promises its clients (the file tables  *)
(* of the file systems, pthread keys, event listeners, i2c transactions):  *)
(* lstadd gives out a handle nobody holds, the handle leads to the item    *)
(* until lstremove takes it back, and no other handle is affected.         *)
(***************************************************************************)
CONSTANTS Handle, Item

VARIABLE table      \* a function from the handles given out to their items

Init == table = [h \in {} |-> h]

Add(h, x) ==
  /\ h \notin DOMAIN table
  /\ table' = [k \in DOMAIN table \cup {h} |-> IF k = h THEN x ELSE table[k]]

Remove(h) ==
  /\ h \in DOMAIN table
  /\ table' = [k \in DOMAIN table \ {h} |-> table[k]]

Next == \E h \in Handle : Remove(h) \/ \E x \in Item : Add(h, x)

Spec == Init /\ [][Next]_table
=============================================================================
