------------------------------- MODULE Stack -------------------------------
(***************************************************************************)
(* The cleanup handlers of a thread, as pthread_cleanup_push and           *)
(* pthread_cleanup_pop promise them: the last one pushed is popped first.  *)
(***************************************************************************)
EXTENDS Naturals, Sequences

CONSTANT Item

VARIABLE stack

Init == stack = <<>>

Push(x) == stack' = Append(stack, x)

Pop ==
  /\ stack # <<>>
  /\ stack' = SubSeq(stack, 1, Len(stack) - 1)

Next == Pop \/ \E x \in Item : Push(x)

Spec == Init /\ [][Next]_stack
=============================================================================
