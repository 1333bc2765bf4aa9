----------------------------- MODULE LruCache -----------------------------
(***************************************************************************)
(* What a cache of a fixed number of places promises: a cached pair that   *)
(* is asked for moves to the front, a new pair enters at the front, and    *)
(* the one that leaves is the one that was asked for longest ago.          *)
(***************************************************************************)
EXTENDS Naturals

CONSTANTS Pair, Length, Empty

VARIABLE cache    \* the pairs, the most recent one first

Init == cache = [i \in 1 .. Length |-> Empty]

Touch(i) ==
  /\ cache[i] \in Pair
  /\ cache' = [j \in 1 .. Length |->
                 CASE j = 1 -> cache[i]
                   [] j \in 2 .. i -> cache[j - 1]
                   [] OTHER -> cache[j]]

Insert(p) ==
  cache' = [j \in 1 .. Length |-> IF j = 1 THEN p ELSE cache[j - 1]]

Next ==
  \/ \E i \in 1 .. Length : Touch(i)
  \/ \E p \in Pair : Insert(p)

Spec == Init /\ [][Next]_cache
=============================================================================
