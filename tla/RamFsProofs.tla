---------------------------- MODULE RamFsProofs ----------------------------
(***************************************************************************)
(* For callers that stay within what the code allows for (Slips = {}), the *)
(* links of the RAM file system stay a tree, its handles and its space are *)
(* counted, ramfs_umount follows no pointer to what it has freed, and the  *)
(* paths make the tree that Namespace promises: for any number of entries, *)
(* blocks, names and handles, any size, and paths of any length.           *)
(***************************************************************************)
EXTENDS RamFs, FiniteSetTheorems, SequenceTheorems, WellFoundedInduction, TLAPS

Links == [next : [Pointer -> Pointer], child : [Pointer -> Pointer]]

-----------------------------------------------------------------------------
(* Chains.                                                                 *)

\* A chain holds its first entry and what comes next to what it holds.
LEMMA ChainHolds ==
  ASSUME NEW L \in Links, NEW x \in Pointer
  PROVE  Holds(L, x, ChainFrom(L, x))
<1>. SUFFICES ASSUME NEW y \in Entry,
                     \/ y = x
                     \/ \E e \in ChainFrom(L, x) : y = L.next[e],
                     NEW S \in SUBSET (Entry \ {y}), Holds(L, x, S)
              PROVE  FALSE
  BY DEF Holds, ChainFrom, Links, Pointer
<1>1. CASE y = x
  BY <1>1, RamFsAssumption DEF Holds
<1>2. CASE \E e \in ChainFrom(L, x) : y = L.next[e]
  <2>1. PICK e \in ChainFrom(L, x) : y = L.next[e]
    BY <1>2
  <2>2. e \in S
    BY <2>1 DEF ChainFrom
  <2>. QED  BY <2>1, <2>2, RamFsAssumption DEF Holds
<1>. QED  BY <1>1, <1>2

\* It is within every set that does.
LEMMA ChainLeast ==
  ASSUME NEW L, NEW x, NEW S \in SUBSET Entry, Holds(L, x, S)
  PROVE  ChainFrom(L, x) \subseteq S
  BY DEF ChainFrom

\* An entry is on the chain that starts at it.
LEMMA ChainFirst ==
  ASSUME NEW L \in Links, NEW e \in Entry
  PROVE  e \in ChainFrom(L, e)
  BY ChainHolds, RamFsAssumption DEF Holds, Pointer

\* A set of natural numbers that is not empty has a least member.
LEMMA Least ==
  ASSUME NEW N, N \subseteq Nat, N # {}
  PROVE  \E n \in N : \A m \in N : ~ (m < n)
<1>1. PICK n \in N : \A m \in N : <<m, n>> \notin OpToRel(<, Nat)
  BY NatLessThanWellFounded, WFMin
<1>. QED  BY <1>1, Zenon DEF OpToRel

\* A set with a rank that is not empty has a member of the least rank.
LEMMA LeastRanked ==
  ASSUME NEW S, S # {}, NEW r, \A x \in S : r[x] \in Nat
  PROVE  \E x \in S : \A y \in S : ~ (r[y] < r[x])
<1>. DEFINE N == {r[x] : x \in S}
<1>1. N \subseteq Nat /\ N # {}
  OBVIOUS
<1>2. \A y \in S : r[y] \in N
  OBVIOUS
<1>3. \A n \in N : \E x \in S : n = r[x]
  OBVIOUS
<1>. HIDE DEF N
<1>4. PICK n \in N : \A m \in N : ~ (m < n)
  BY <1>1, Least
<1>. QED  BY <1>2, <1>3, <1>4

\* The same with a bound, for the greatest rank.
LEMMA GreatestRanked ==
  ASSUME NEW S, S # {}, NEW r, NEW N \in Nat, \A x \in S : r[x] \in Nat /\ r[x] <= N
  PROVE  \E x \in S : \A y \in S : ~ (r[x] < r[y])
<1>. DEFINE t == [x \in S |-> N - r[x]]
<1>1. \A x \in S : t[x] \in Nat /\ t[x] = N - r[x]
  OBVIOUS
<1>. HIDE DEF t
<1>2. PICK x \in S : \A y \in S : ~ (t[y] < t[x])
  BY <1>1, LeastRanked
<1>. QED  BY <1>1, <1>2

-----------------------------------------------------------------------------
(* The shape of the tree: V are the entries in it, I their names and types,*)
(* P their parents, s their places among their siblings and D their depths.*)

Parents(V, I, P) ==
  \A e \in V : P[e] \in V \cup {NULL} /\ (P[e] # NULL => I[P[e]].type = "dir")

Firsts(L, V, P) ==
  \A d \in V \cup {NULL} : L.child[d] # NULL => L.child[d] \in V /\ P[L.child[d]] = d

Nexts(L, V, P, s) ==
  \A x \in V : L.next[x] # NULL => /\ L.next[x] \in V
                                   /\ P[L.next[x]] = P[x]
                                   /\ L.child[P[x]] # L.next[x]
                                   /\ s[x] < s[L.next[x]]

OnePrev(L, V) ==
  \A x, y \in V : L.next[x] # NULL /\ L.next[x] = L.next[y] => x = y

Reached(L, V, P) ==
  \A e \in V : L.child[P[e]] = e \/ \E x \in V : L.next[x] = e

Named(V, I, P) ==
  \A x, y \in V : P[x] = P[y] /\ I[x].name = I[y].name => x = y

Placed(V, s, N) ==
  N \in Nat /\ \A e \in V : s[e] \in Nat /\ s[e] <= N

Depths(V, P, D) ==
  \A e \in V : D[e] \in 1 .. MaxDepth /\ D[e] = IF P[e] = NULL THEN 1 ELSE D[P[e]] + 1

Shape(L, V, I, P, s, D, N) ==
  /\ V \subseteq Entry
  /\ Parents(V, I, P)
  /\ Firsts(L, V, P)
  /\ Nexts(L, V, P, s)
  /\ OnePrev(L, V)
  /\ Reached(L, V, P)
  /\ Named(V, I, P)
  /\ Placed(V, s, N)
  /\ Depths(V, P, D)

\* The chain of a directory is made of the entries whose parent it is.
LEMMA ChainIs ==
  ASSUME NEW L \in Links, NEW V, NEW I, NEW P, NEW s, NEW D, NEW N,
         Shape(L, V, I, P, s, D, N), NEW d \in V \cup {NULL}
  PROVE  ChainFrom(L, L.child[d]) = {e \in V : P[e] = d}
<1>. DEFINE C == ChainFrom(L, L.child[d])
            S == {e \in V : P[e] = d}
<1>1. L.child[d] \in Pointer
  BY DEF Shape, Parents, Firsts, Nexts, Reached, Placed, Links, Pointer
<1>2. Holds(L, L.child[d], S)
  BY DEF Holds, Shape, Parents, Firsts, Nexts, Reached, Placed
<1>3. C \subseteq S
  BY <1>2, ChainLeast DEF Shape, Parents, Firsts, Nexts, Reached, Placed
<1>4. Holds(L, L.child[d], C)
  BY <1>1, ChainHolds
<1>5. ASSUME S \ C # {}
      PROVE  FALSE
  <2>1. PICK e \in S \ C : \A y \in S \ C : ~ (s[y] < s[e])
    <3>. DEFINE R == S \ C
    <3>1. R # {} /\ \A x \in R : s[x] \in Nat
      BY <1>5 DEF Shape, Parents, Firsts, Nexts, Reached, Placed
    <3>. HIDE DEF R
    <3>2. \E x \in R : \A y \in R : ~ (s[y] < s[x])
      BY <3>1, LeastRanked
    <3>. QED  BY <3>2 DEF R
  <2>. HIDE DEF C
  <2>2. L.child[d] # e
    BY <1>4, <2>1, RamFsAssumption DEF Holds, Shape, Parents, Firsts, Nexts, Reached, Placed
  <2>3. PICK x \in V : L.next[x] = e
    BY <2>1, <2>2 DEF Shape, Parents, Firsts, Nexts, Reached, Placed
  <2>4. P[x] = d /\ s[x] < s[e]
    BY <2>1, <2>3, RamFsAssumption DEF Shape, Parents, Firsts, Nexts, Reached, Placed
  <2>5. x \in C
    BY <2>1, <2>4
  <2>. QED  BY <1>4, <2>1, <2>3, <2>5, RamFsAssumption DEF Holds, Shape, Parents, Firsts, Nexts, Reached, Placed
<1>. QED  BY <1>3, <1>5

\* A directory without a first child has no children.
LEMMA NoChildren ==
  ASSUME NEW L \in Links, NEW V, NEW I, NEW P, NEW s, NEW D, NEW N,
         Shape(L, V, I, P, s, D, N), NEW d \in V \cup {NULL}, L.child[d] = NULL
  PROVE  {e \in V : P[e] = d} = {}
<1>1. Holds(L, L.child[d], {})
  BY DEF Holds
<1>. QED  BY <1>1, ChainIs, ChainLeast

\* The chain of a directory that has a child has an end.
LEMMA ChainEnds ==
  ASSUME NEW L \in Links, NEW V, NEW I, NEW P, NEW s, NEW D, NEW N,
         Shape(L, V, I, P, s, D, N), NEW d \in V \cup {NULL}, L.child[d] # NULL
  PROVE  \E x \in ChainFrom(L, L.child[d]) : L.next[x] = NULL
<1>. DEFINE S == {e \in V : P[e] = d}
<1>1. S # {}
  BY DEF Shape, Parents, Firsts, Nexts, Reached, Placed
<1>2. PICK x \in S : \A y \in S : ~ (s[x] < s[y])
  <2>1. N \in Nat /\ \A e \in S : s[e] \in Nat /\ s[e] <= N
    BY DEF Shape, Parents, Firsts, Nexts, Reached, Placed
  <2>. HIDE DEF S
  <2>. QED  BY <1>1, <2>1, GreatestRanked
<1>3. L.next[x] = NULL
  BY <1>2 DEF Shape, Parents, Firsts, Nexts, Reached, Placed
<1>. QED  BY <1>2, <1>3, ChainIs

\* There is room in directory d for the new entry e, whose name J gives.
Room(L, V, I, P, s, D, N, d, e, J) ==
  /\ L \in Links
  /\ P \in [Entry -> Pointer] /\ s \in [Entry -> Nat] /\ D \in [Entry -> Nat]
  /\ Shape(L, V, I, P, s, D, N)
  /\ d \in V \cup {NULL}
  /\ IF d = NULL THEN MaxDepth >= 1 ELSE I[d].type = "dir" /\ D[d] < MaxDepth
  /\ e \in Entry /\ e \notin V /\ L.child[e] = NULL /\ L.next[e] = NULL
  /\ \A x \in V : J[x] = I[x]
  /\ \A x \in V : P[x] = d => I[x].name # J[e].name

\* M is the tree with e at the end of d.
Added(L, M, V, P, D, d, e, J, Q, t, E, n) ==
  /\ M \in Links
  /\ Q \in [Entry -> Pointer] /\ t \in [Entry -> Nat] /\ E \in [Entry -> Nat]
  /\ M.child[e] = NULL
  /\ \A x \in V \cup {NULL} : M.child[x] = IF x = d /\ L.child[d] = NULL THEN e ELSE L.child[x]
  /\ \A x \in V : L.next[x] # NULL => M.next[x] = L.next[x]
  /\ Q[e] = d /\ \A x \in V : Q[x] = P[x]
  /\ E[e] = (IF d = NULL THEN 1 ELSE D[d] + 1) /\ \A x \in V : E[x] = D[x]
  /\ Shape(M, V \cup {e}, J, Q, t, E, n)

\* add_entry: e goes to the end of the chain of d, if its name is new there.
LEMMA LinkedAdded ==
  ASSUME NEW L, NEW V, NEW I, NEW P, NEW s, NEW D, NEW N, NEW d, NEW e, NEW J,
         Room(L, V, I, P, s, D, N, d, e, J)
  PROVE  \E Q, t, E, n : Added(L, Linked(L, d, e), V, P, D, d, e, J, Q, t, E, n)
<1>a. /\ L \in Links
      /\ P \in [Entry -> Pointer] /\ s \in [Entry -> Nat] /\ D \in [Entry -> Nat]
      /\ Shape(L, V, I, P, s, D, N)
      /\ d \in V \cup {NULL}
      /\ IF d = NULL THEN MaxDepth >= 1 ELSE I[d].type = "dir" /\ D[d] < MaxDepth
      /\ e \in Entry /\ e \notin V /\ L.child[e] = NULL /\ L.next[e] = NULL
      /\ \A x \in V : J[x] = I[x]
      /\ \A x \in V : P[x] = d => I[x].name # J[e].name
  BY DEF Room
<1>. USE <1>a
<1>. DEFINE M == Linked(L, d, e)
            W == V \cup {e}
            Q == [P EXCEPT ![e] = d]
            t == [s EXCEPT ![e] = N + 1]
            F == [D EXCEPT ![e] = IF d = NULL THEN 1 ELSE D[d] + 1]
<1>. USE RamFsAssumption
<1>0. /\ d \in Pointer /\ V \subseteq Entry /\ d # e /\ e # NULL /\ NULL \notin V
      /\ W \subseteq Entry
      /\ N \in Nat /\ MaxDepth \in Nat
      /\ L.next \in [Pointer -> Pointer] /\ L.child \in [Pointer -> Pointer]
  BY DEF Shape, Placed, Pointer, Links
<1>1. /\ Q[e] = d /\ \A x \in V : Q[x] = P[x]
      /\ t[e] = N + 1 /\ \A x \in V : t[x] = s[x]
      /\ F[e] = (IF d = NULL THEN 1 ELSE D[d] + 1) /\ \A x \in V : F[x] = D[x]
  BY <1>0
<1>. HIDE DEF Q, t, F
<1>2. Parents(W, J, Q)
  <2>1. \A x \in V : P[x] \in V \cup {NULL} /\ (P[x] # NULL => J[P[x]].type = "dir")
    BY DEF Shape, Parents
  <2>2. d # NULL => J[d].type = "dir"
    OBVIOUS
  <2>. QED  BY <1>1, <2>1, <2>2 DEF Parents
<1>3. Named(W, J, Q)
  <2>1. \A x, y \in V : P[x] = P[y] /\ J[x].name = J[y].name => x = y
    BY DEF Shape, Named
  <2>2. \A x \in V : P[x] = d => J[x].name # J[e].name
    OBVIOUS
  <2>. QED  BY <1>1, <2>1, <2>2 DEF Named
<1>4. Placed(W, t, N + 1)
  <2>1. \A x \in V : s[x] \in Nat /\ s[x] <= N
    BY DEF Shape, Placed
  <2>. QED  BY <1>0, <1>1, <2>1 DEF Placed
<1>5. Depths(W, Q, F)
  <2>1. \A x \in V : /\ D[x] \in 1 .. MaxDepth
                     /\ D[x] = IF P[x] = NULL THEN 1 ELSE D[P[x]] + 1
                     /\ P[x] \in V \cup {NULL}
    BY DEF Shape, Depths, Parents
  <2>2. F[e] \in 1 .. MaxDepth /\ F[e] = IF Q[e] = NULL THEN 1 ELSE F[Q[e]] + 1
    BY <1>0, <1>1, <2>1
  <2>3. \A x \in V : /\ F[x] \in 1 .. MaxDepth
                     /\ F[x] = IF Q[x] = NULL THEN 1 ELSE F[Q[x]] + 1
    BY <1>0, <1>1, <2>1
  <2>. QED  BY <2>2, <2>3 DEF Depths
<1>b. Q \in [Entry -> Pointer] /\ t \in [Entry -> Nat] /\ F \in [Entry -> Nat]
  <2>1. d # NULL => D[d] \in Nat
    BY <1>0
  <2>. QED  BY <1>0, <2>1 DEF Q, t, F
<1>. HIDE DEF M
<1>. SUFFICES /\ M \in Links
              /\ M.child[e] = NULL
              /\ \A x \in V \cup {NULL} : M.child[x] = IF x = d /\ L.child[d] = NULL THEN e ELSE L.child[x]
              /\ \A x \in V : L.next[x] # NULL => M.next[x] = L.next[x]
              /\ Shape(M, W, J, Q, t, F, N + 1)
  <2>1. Added(L, M, V, P, D, d, e, J, Q, t, F, N + 1)
    BY <1>1, <1>b DEF Added
  <2>. QED  BY <2>1 DEF M
<1>. USE DEF M
<1>6. CASE L.child[d] = NULL
  <2>1. M = [L EXCEPT !.child[d] = e]
    BY <1>6 DEF Linked
  <2>. HIDE DEF M
  <2>2. M.next = L.next /\ M.child = [L.child EXCEPT ![d] = e] /\ M \in Links
    BY <1>0, <2>1 DEF Links, Pointer
  <2>3. \A x \in Pointer : M.child[x] = IF x = d THEN e ELSE L.child[x]
    BY <1>0, <2>2
  <2>4. \A x \in V : P[x] # d
    BY <1>6, NoChildren
  <2>5. V \cup {NULL, e} \subseteq Pointer /\ \A x \in V : P[x] \in V \cup {NULL}
    BY <1>0 DEF Pointer, Shape, Parents
  <2>6. Firsts(M, W, Q)
    BY <1>0, <1>1, <2>3, <2>5 DEF Shape, Firsts
  <2>7. Nexts(M, W, Q, t)
    <3>1. \A x \in V : L.next[x] # NULL => /\ L.next[x] \in V
                                          /\ P[L.next[x]] = P[x]
                                          /\ L.child[P[x]] # L.next[x]
                                          /\ s[x] < s[L.next[x]]
      BY DEF Shape, Nexts
    <3>2. \A x \in V : M.child[P[x]] = L.child[P[x]]
      BY <2>3, <2>4, <2>5
    <3>. QED  BY <1>0, <1>1, <2>2, <3>1, <3>2 DEF Nexts
  <2>8. OnePrev(M, W)
    BY <2>2 DEF Shape, OnePrev
  <2>9. Reached(M, W, Q)
    <3>1. M.child[Q[e]] = e
      BY <1>0, <1>1, <2>3
    <3>2. \A x \in V : L.child[P[x]] = x \/ \E y \in V : L.next[y] = x
      BY DEF Shape, Reached
    <3>3. \A x \in V : M.child[Q[x]] = L.child[P[x]]
      BY <1>1, <2>3, <2>4, <2>5
    <3>4. \A x \in V : M.next[x] = L.next[x]
      BY <2>2
    <3>5. ASSUME NEW x \in V
          PROVE  M.child[Q[x]] = x \/ \E y \in V : M.next[y] = x
      <4>1. CASE L.child[P[x]] = x
        BY <3>3, <4>1
      <4>2. CASE \E y \in V : L.next[y] = x
        BY <3>4, <4>2
      <4>. QED  BY <3>2, <4>1, <4>2
    <3>. QED  BY <3>1, <3>5 DEF Reached
  <2>10. Shape(M, W, J, Q, t, F, N + 1)
    BY <1>0, <1>2, <1>3, <1>4, <1>5, <2>6, <2>7, <2>8, <2>9 DEF Shape
  <2>11. /\ M.child[e] = NULL
         /\ \A x \in V \cup {NULL} : M.child[x] = IF x = d /\ L.child[d] = NULL THEN e ELSE L.child[x]
    BY <1>0, <1>6, <2>3, <2>5
  <2>. QED  BY <2>2, <2>10, <2>11
<1>7. CASE L.child[d] # NULL
  <2>. DEFINE z == CHOOSE x \in ChainFrom(L, L.child[d]) : L.next[x] = NULL
  <2>1. z \in ChainFrom(L, L.child[d]) /\ L.next[z] = NULL
    BY <1>7, ChainEnds
  <2>2. M = [L EXCEPT !.next[z] = e]
    BY <1>7 DEF Linked
  <2>. HIDE DEF z, M
  <2>3. z \in V /\ P[z] = d /\ z # e
    BY <2>1, ChainIs
  <2>4. M.child = L.child /\ M.next = [L.next EXCEPT ![z] = e] /\ M \in Links
    BY <1>0, <2>2, <2>3 DEF Links, Pointer
  <2>5. \A x \in W : M.next[x] = IF x = z THEN e ELSE L.next[x]
    BY <1>0, <2>3, <2>4 DEF Pointer
  <2>6. \A x \in V : P[x] \in V \cup {NULL}
    BY DEF Shape, Parents
  <2>7. Firsts(M, W, Q)
    BY <1>0, <1>1, <2>4 DEF Shape, Firsts
  <2>8. Nexts(M, W, Q, t)
    <3>1. \A x \in V : L.next[x] # NULL => /\ L.next[x] \in V
                                          /\ P[L.next[x]] = P[x]
                                          /\ L.child[P[x]] # L.next[x]
                                          /\ s[x] < s[L.next[x]]
      BY DEF Shape, Nexts
    <3>2. \A x \in V : L.child[P[x]] # e
      BY <1>0, <2>6 DEF Shape, Firsts
    <3>3. t[z] < t[e]
      BY <1>0, <1>1, <2>3 DEF Shape, Placed
    <3>4. ASSUME NEW x \in V, x # z, M.next[x] # NULL
          PROVE  /\ M.next[x] \in W
                 /\ Q[M.next[x]] = Q[x]
                 /\ M.child[Q[x]] # M.next[x]
                 /\ t[x] < t[M.next[x]]
      BY <1>0, <1>1, <2>4, <2>5, <3>1, <3>4
    <3>5. /\ Q[M.next[z]] = Q[z]
          /\ M.child[Q[z]] # M.next[z]
          /\ t[z] < t[M.next[z]]
      BY <1>1, <2>3, <2>4, <2>5, <3>2, <3>3
    <3>6. M.next[z] = e /\ M.next[e] = NULL
      BY <2>3, <2>5
    <3>. QED  BY <3>4, <3>5, <3>6 DEF Nexts
  <2>9. OnePrev(M, W)
    <3>1. \A x \in V : L.next[x] # e
      BY <1>0 DEF Shape, Nexts
    <3>. QED  BY <1>0, <2>3, <2>5, <3>1 DEF Shape, OnePrev
  <2>10. Reached(M, W, Q)
    <3>1. \A x \in V : L.child[P[x]] = x \/ \E y \in V : L.next[y] = x
      BY DEF Shape, Reached
    <3>2. \A x, y \in V : L.next[y] = x => M.next[y] = x
      BY <1>0, <2>1, <2>5
    <3>3. M.next[z] = e
      BY <2>3, <2>5
    <3>. QED  BY <1>1, <2>3, <2>4, <3>1, <3>2, <3>3 DEF Reached
  <2>11. Shape(M, W, J, Q, t, F, N + 1)
    BY <1>0, <1>2, <1>3, <1>4, <1>5, <2>7, <2>8, <2>9, <2>10 DEF Shape
  <2>. QED  BY <1>0, <1>7, <2>1, <2>4, <2>5, <2>11
<1>. QED  BY <1>6, <1>7

\* The entry before e, as traverse reports it.
IsPrev(L, V, P, e, p) ==
  IF L.child[P[e]] = e THEN p = NULL ELSE p \in V /\ L.next[p] = e

\* M is L without e, whose entry before it is p.
IsUnlinked(L, M, V, P, e, p) ==
  /\ IsPrev(L, V, P, e, p)
  /\ \A x \in V \ {e} : M.next[x] = IF x = p THEN L.next[e] ELSE L.next[x]
  /\ \A x \in (V \ {e}) \cup {NULL} :
       M.child[x] = IF x = P[e] /\ L.child[x] = e THEN L.next[e] ELSE L.child[x]

\* What the links of such an M are, but for the children of e.
Remaining(M, W, P, s, e) ==
  /\ \A x \in W : M.next[x] # NULL => /\ M.next[x] \in W
                                      /\ P[M.next[x]] = P[x]
                                      /\ s[x] < s[M.next[x]]
  /\ OnePrev(M, W)
  /\ \A x \in W : P[x] # e /\ M.next[x] # NULL => M.child[P[x]] # M.next[x]
  /\ \A x \in W : P[x] # e => M.child[P[x]] = x \/ \E y \in W : M.next[y] = x
  /\ \A d \in W \cup {NULL} : M.child[d] # NULL => M.child[d] \in W /\ P[M.child[d]] = d

\* The links among the entries that remain when e has left its chain.
LEMMA UnlinkedRemaining ==
  ASSUME NEW L \in Links, NEW V, NEW I, NEW P, NEW s, NEW D, NEW N,
         Shape(L, V, I, P, s, D, N),
         NEW e \in V, NEW M, NEW p, IsUnlinked(L, M, V, P, e, p)
  PROVE  Remaining(M, V \ {e}, P, s, e)
<1>. DEFINE W == V \ {e}
<1>. USE RamFsAssumption
<1>0. /\ V \subseteq Entry /\ NULL \notin V /\ e # NULL
      /\ \A x \in V : P[x] \in V \cup {NULL}
      /\ \A x \in V : s[x] \in Nat
  BY DEF Shape, Parents, Placed
<1>1. \A x \in V : L.next[x] # NULL => /\ L.next[x] \in V
                                       /\ P[L.next[x]] = P[x]
                                       /\ L.child[P[x]] # L.next[x]
                                       /\ s[x] < s[L.next[x]]
  BY DEF Shape, Nexts
<1>2. \A x, y \in V : L.next[x] # NULL /\ L.next[x] = L.next[y] => x = y
  BY DEF Shape, OnePrev
<1>3. \A x \in V : L.next[x] # x
  BY <1>0, <1>1
<1>4. p # NULL => p \in W /\ L.next[p] = e /\ P[p] = P[e] /\ L.child[P[e]] # e
  BY <1>0, <1>1, <1>3 DEF IsUnlinked, IsPrev
<1>5. \A x \in W : x # p => M.next[x] = L.next[x] /\ L.next[x] # e
  BY <1>0, <1>1, <1>2, <1>4 DEF IsUnlinked, IsPrev
<1>6. p # NULL => M.next[p] = L.next[e]
  BY <1>4 DEF IsUnlinked
<1>7. \A x \in W : M.next[x] # NULL => /\ M.next[x] \in W
                                       /\ P[M.next[x]] = P[x]
                                       /\ s[x] < s[M.next[x]]
  <2>. SUFFICES ASSUME NEW x \in W, M.next[x] # NULL
                PROVE  M.next[x] \in W /\ P[M.next[x]] = P[x] /\ s[x] < s[M.next[x]]
    OBVIOUS
  <2>1. CASE x = p
    <3>1. p # NULL
      BY <1>0, <2>1
    <3>2. L.next[e] \in V /\ L.next[e] # e /\ P[L.next[e]] = P[e] /\ s[e] < s[L.next[e]]
      BY <1>1, <1>3, <1>6, <2>1, <3>1
    <3>3. s[p] < s[e]
      BY <1>0, <1>1, <1>4, <3>1
    <3>. QED  BY <1>0, <1>4, <1>6, <2>1, <3>1, <3>2, <3>3
  <2>2. CASE x # p
    BY <1>1, <1>5, <2>2
  <2>. QED  BY <2>1, <2>2
<1>8. OnePrev(M, W)
  <2>1. \A x \in W : x # p /\ p # NULL /\ M.next[x] # NULL => M.next[x] # M.next[p]
    BY <1>0, <1>2, <1>5, <1>6
  <2>. QED  BY <1>0, <1>2, <1>5, <2>1 DEF OnePrev
<1>9. \A d \in W \cup {NULL} :
        M.child[d] = IF d = P[e] /\ L.child[d] = e THEN L.next[e] ELSE L.child[d]
  BY DEF IsUnlinked
<1>10. \A x \in V : P[x] # e => P[x] \in W \cup {NULL}
  BY <1>0
<1>11. ASSUME NEW x \in W, P[x] # e, M.next[x] # NULL
       PROVE  M.child[P[x]] # M.next[x]
  <2>1. CASE x = p
    <3>1. p # NULL
      BY <1>0, <2>1
    <3>2. M.child[P[x]] = L.child[P[e]] /\ M.next[x] = L.next[e]
      BY <1>4, <1>6, <1>9, <1>10, <1>11, <2>1, <3>1
    <3>. QED  BY <1>1, <1>11, <3>2
  <2>2. CASE x # p
    <3>1. M.next[x] = L.next[x]
      BY <1>5, <2>2
    <3>2. CASE P[x] = P[e] /\ L.child[P[x]] = e
      <4>1. M.child[P[x]] = L.next[e]
        BY <1>9, <1>10, <1>11, <3>2
      <4>. QED  BY <1>2, <1>11, <3>1, <4>1
    <3>3. CASE ~ (P[x] = P[e] /\ L.child[P[x]] = e)
      BY <1>1, <1>9, <1>10, <1>11, <3>1, <3>3
    <3>. QED  BY <3>2, <3>3
  <2>. QED  BY <2>1, <2>2
<1>12. ASSUME NEW x \in W, P[x] # e
       PROVE  M.child[P[x]] = x \/ \E y \in W : M.next[y] = x
  <2>1. CASE L.child[P[x]] = x
    BY <1>9, <1>10, <1>12, <2>1
  <2>2. CASE L.next[e] = x
    <3>1. P[x] = P[e]
      BY <1>0, <1>1, <2>2
    <3>2. CASE L.child[P[e]] = e
      BY <1>9, <1>10, <1>12, <2>2, <3>1, <3>2
    <3>3. CASE L.child[P[e]] # e
      BY <1>0, <1>4, <1>6, <2>2, <3>3 DEF IsUnlinked, IsPrev
    <3>. QED  BY <3>2, <3>3
  <2>3. CASE L.child[P[x]] # x /\ L.next[e] # x
    <3>1. PICK y \in V : L.next[y] = x
      BY <2>3 DEF Shape, Reached
    <3>2. y # e /\ y # p
      BY <1>0, <1>4, <2>3, <3>1
    <3>. QED  BY <1>5, <3>1, <3>2
  <2>. QED  BY <2>1, <2>2, <2>3
<1>13. ASSUME NEW d \in W \cup {NULL}, M.child[d] # NULL
       PROVE  M.child[d] \in W /\ P[M.child[d]] = d
  <2>1. L.child[d] # NULL => L.child[d] \in V /\ P[L.child[d]] = d
    BY DEF Shape, Firsts
  <2>. QED  BY <1>0, <1>1, <1>3, <1>9, <1>13, <2>1
<1>. QED  BY <1>7, <1>8, <1>11, <1>12, <1>13 DEF Remaining

\* remove_entry: e, which has no children, leaves the chain of its parent.
LEMMA UnlinkedShape ==
  ASSUME NEW L \in Links, NEW V, NEW I, NEW P, NEW s, NEW D, NEW N,
         Shape(L, V, I, P, s, D, N),
         NEW e \in V, L.child[e] = NULL,
         NEW M, NEW p, IsUnlinked(L, M, V, P, e, p),
         NEW J, \A x \in V \ {e} : J[x] = I[x]
  PROVE  Shape(M, V \ {e}, J, P, s, D, N)
<1>. DEFINE W == V \ {e}
<1>0. V \subseteq Entry /\ e # NULL /\ NULL \notin V /\ W \subseteq Entry
  BY RamFsAssumption DEF Shape
<1>1. \A x \in V : P[x] # e
  BY NoChildren
<1>2. \A x \in W : P[x] \in W \cup {NULL}
  BY <1>1 DEF Shape, Parents
<1>3. Parents(W, J, P)
  BY <1>2 DEF Shape, Parents
<1>4. Remaining(M, W, P, s, e)
  BY UnlinkedRemaining
<1>7. Firsts(M, W, P)
  BY <1>4 DEF Remaining, Firsts
<1>8. Nexts(M, W, P, s)
  BY <1>1, <1>4 DEF Remaining, Nexts
<1>9. Reached(M, W, P)
  BY <1>1, <1>4 DEF Remaining, Reached
<1>5. Named(W, J, P)
  BY DEF Shape, Named
<1>6. Placed(W, s, N) /\ Depths(W, P, D)
  BY DEF Shape, Placed, Depths
<1>. QED  BY <1>0, <1>3, <1>4, <1>5, <1>6, <1>7, <1>8, <1>9 DEF Remaining, Shape

\* The entries below old.
Below(V, P, old, B) ==
  /\ B \subseteq V
  /\ \A x \in V : x \in B <=> P[x] = old \/ P[x] \in B

\* M is L with what is below old, the entries of B, moved below new, and without
\* old; K is L without old.
Moved(L, V, I, P, s, D, N, old, new, B, K, p, M, J) ==
  /\ L \in Links
  /\ P \in [Entry -> Pointer] /\ s \in [Entry -> Nat] /\ D \in [Entry -> Nat]
  /\ Shape(L, V, I, P, s, D, N)
  /\ old \in V /\ new \in V /\ old # new
  /\ L.child[new] = NULL /\ (L.child[old] # NULL => I[new].type = "dir")
  /\ Below(V, P, old, B) /\ old \notin B /\ new \notin B
  /\ \A x \in B : D[x] > D[old] /\ D[x] - D[old] + D[new] <= MaxDepth
  /\ IsUnlinked(L, K, V, P, old, p)
  /\ \A x \in V \ {old} : M.next[x] = K.next[x]
  /\ M.child[new] = L.child[old]
  /\ \A x \in (V \ {old, new}) \cup {NULL} : M.child[x] = K.child[x]
  /\ \A x \in V \ {old} : J[x] = I[x]

\* The children of old are those of new.
Adopted(V, P, old, new, Q) == \A x \in V : Q[x] = IF P[x] = old THEN new ELSE P[x]

\* The end of ramfs_rename keeps the shape.
LEMMA MovedShape ==
  ASSUME NEW L, NEW V, NEW I, NEW P, NEW s, NEW D, NEW N, NEW old, NEW new, NEW B,
         NEW K, NEW p, NEW M, NEW J,
         Moved(L, V, I, P, s, D, N, old, new, B, K, p, M, J)
  PROVE  \E Q \in [Entry -> Pointer], E \in [Entry -> Nat] :
           /\ Shape(M, V \ {old}, J, Q, s, E, N)
           /\ Adopted(V, P, old, new, Q)
<1>a. /\ L \in Links
      /\ P \in [Entry -> Pointer] /\ s \in [Entry -> Nat] /\ D \in [Entry -> Nat]
      /\ Shape(L, V, I, P, s, D, N)
      /\ old \in V /\ new \in V /\ old # new
      /\ L.child[new] = NULL /\ (L.child[old] # NULL => I[new].type = "dir")
      /\ Below(V, P, old, B) /\ old \notin B /\ new \notin B
      /\ \A x \in B : D[x] > D[old] /\ D[x] - D[old] + D[new] <= MaxDepth
      /\ IsUnlinked(L, K, V, P, old, p)
      /\ \A x \in V \ {old} : M.next[x] = K.next[x]
      /\ M.child[new] = L.child[old]
      /\ \A x \in (V \ {old, new}) \cup {NULL} : M.child[x] = K.child[x]
      /\ \A x \in V \ {old} : J[x] = I[x]
  BY DEF Moved
<1>. USE <1>a
<1>. DEFINE W == V \ {old}
            Q == [x \in Entry |-> IF P[x] = old THEN new ELSE P[x]]
            F == [x \in Entry |-> IF x \in B THEN D[x] - D[old] + D[new] ELSE D[x]]
<1>. USE RamFsAssumption
<1>0. /\ V \subseteq Entry /\ NULL \notin V /\ old # NULL /\ new # NULL
      /\ W \subseteq Entry /\ new \in W
      /\ \A x \in V : P[x] \in V \cup {NULL}
  BY DEF Shape, Parents
<1>1. \A x \in V : P[x] # new
  BY NoChildren
<1>2. /\ \A x \in V : P[x] = old => Q[x] = new
      /\ \A x \in V : P[x] # old => Q[x] = P[x]
      /\ \A x \in V : F[x] = IF x \in B THEN D[x] - D[old] + D[new] ELSE D[x]
  BY <1>0
<1>b. Q \in [Entry -> Pointer] /\ F \in [Entry -> Nat]
  <2>1. D[old] \in Nat /\ D[new] \in Nat /\ \A x \in Entry : D[x] \in Nat
    BY <1>0
  <2>2. \A x \in B : D[x] - D[old] + D[new] \in Nat
    BY <1>0, <2>1 DEF Below
  <2>. QED  BY <1>0, <2>1, <2>2 DEF Pointer
<1>. HIDE DEF Q, F
<1>3. Remaining(K, W, P, s, old)
  BY UnlinkedRemaining
<1>4. \A x \in V : P[x] # x
  <2>. SUFFICES ASSUME NEW x \in V, P[x] = x
                PROVE  FALSE
    OBVIOUS
  <2>1. D[x] \in 1 .. MaxDepth /\ D[x] = IF P[x] = NULL THEN 1 ELSE D[P[x]] + 1
    BY DEF Shape, Depths
  <2>2. D[x] = D[x] + 1
    BY <1>0, <2>1
  <2>. QED  BY <2>1, <2>2
<1>5. \A x \in W : P[x] = old => M.next[x] = L.next[x]
  <2>1. p # NULL => P[p] = P[old]
    <3>1. p # NULL => p \in V /\ L.next[p] = old
      BY DEF IsUnlinked, IsPrev
    <3>. QED  BY <1>0, <3>1 DEF Shape, Nexts
  <2>2. \A x \in W : P[x] = old => x # p
    BY <1>0, <1>4, <2>1
  <2>3. \A x \in W : x # p => M.next[x] = L.next[x]
    BY DEF IsUnlinked
  <2>. QED  BY <2>2, <2>3
<1>6. Parents(W, J, Q)
  <2>1. \A x \in V : P[x] = old => J[new].type = "dir"
    BY <1>0, NoChildren
  <2>2. \A x \in W : P[x] # old => P[x] \in W \cup {NULL} /\ (P[x] # NULL => J[P[x]].type = "dir")
    BY <1>0 DEF Shape, Parents
  <2>. QED  BY <1>0, <1>2, <2>1, <2>2 DEF Parents
<1>7. Firsts(M, W, Q)
  <2>1. M.child[new] # NULL => M.child[new] \in W /\ Q[M.child[new]] = new
    <3>1. L.child[old] # NULL => L.child[old] \in V /\ P[L.child[old]] = old
      BY DEF Shape, Firsts
    <3>. QED  BY <1>2, <1>4, <3>1
  <2>2. ASSUME NEW d \in W \cup {NULL}, d # new, M.child[d] # NULL
        PROVE  M.child[d] \in W /\ Q[M.child[d]] = d
    <3>1. M.child[d] \in W /\ P[M.child[d]] = d
      BY <1>3, <2>2 DEF Remaining
    <3>. QED  BY <1>0, <1>2, <3>1
  <2>. QED  BY <2>1, <2>2 DEF Firsts
<1>8. Nexts(M, W, Q, s)
  <2>. SUFFICES ASSUME NEW x \in W, M.next[x] # NULL
                PROVE  /\ M.next[x] \in W
                       /\ Q[M.next[x]] = Q[x]
                       /\ M.child[Q[x]] # M.next[x]
                       /\ s[x] < s[M.next[x]]
    BY DEF Nexts
  <2>1. M.next[x] \in W /\ P[M.next[x]] = P[x] /\ s[x] < s[M.next[x]]
    BY <1>3 DEF Remaining
  <2>2. Q[M.next[x]] = Q[x]
    BY <1>2, <2>1
  <2>3. CASE P[x] = old
    <3>1. M.next[x] = L.next[x] /\ Q[x] = new
      BY <1>2, <1>5, <2>3
    <3>2. L.child[old] # L.next[x]
      BY <2>3, <3>1 DEF Shape, Nexts
    <3>. QED  BY <2>1, <2>2, <3>1, <3>2
  <2>4. CASE P[x] # old
    <3>1. Q[x] = P[x] /\ P[x] \in (V \ {old, new}) \cup {NULL}
      BY <1>0, <1>1, <1>2, <2>4
    <3>2. K.child[P[x]] # M.next[x]
      BY <1>3, <2>4 DEF Remaining
    <3>. QED  BY <2>1, <2>2, <3>1, <3>2
  <2>. QED  BY <2>3, <2>4
<1>9. OnePrev(M, W)
  BY <1>3 DEF Remaining, OnePrev
<1>10. Reached(M, W, Q)
  <2>. SUFFICES ASSUME NEW x \in W
                PROVE  M.child[Q[x]] = x \/ \E y \in W : M.next[y] = x
    BY DEF Reached
  <2>1. CASE P[x] = old
    <3>1. CASE L.child[old] = x
      BY <1>2, <2>1, <3>1
    <3>2. CASE \E y \in V : L.next[y] = x
      <4>1. PICK y \in V : L.next[y] = x
        BY <3>2
      <4>2. P[y] = old
        BY <1>0, <2>1, <4>1 DEF Shape, Nexts
      <4>. QED  BY <1>4, <1>5, <4>1, <4>2
    <3>. QED  BY <2>1, <3>1, <3>2 DEF Shape, Reached
  <2>2. CASE P[x] # old
    <3>1. Q[x] = P[x] /\ P[x] \in (V \ {old, new}) \cup {NULL}
      BY <1>0, <1>1, <1>2, <2>2
    <3>2. M.child[Q[x]] = K.child[P[x]]
      BY <3>1
    <3>3. K.child[P[x]] = x \/ \E y \in W : K.next[y] = x
      BY <1>3, <2>2 DEF Remaining
    <3>4. \A y \in W : M.next[y] = K.next[y]
      OBVIOUS
    <3>. QED  BY <3>2, <3>3, <3>4
  <2>. QED  BY <2>1, <2>2
<1>11. Named(W, J, Q)
  <2>1. \A x, y \in W : Q[x] = Q[y] => P[x] = P[y]
    BY <1>1, <1>2
  <2>. QED  BY <2>1 DEF Shape, Named
<1>12. Placed(W, s, N)
  BY DEF Shape, Placed
<1>13. Depths(W, Q, F)
  <2>. SUFFICES ASSUME NEW x \in W
                PROVE  F[x] \in 1 .. MaxDepth /\ F[x] = IF Q[x] = NULL THEN 1 ELSE F[Q[x]] + 1
    BY DEF Depths
  <2>1. /\ D[x] \in 1 .. MaxDepth /\ D[x] = (IF P[x] = NULL THEN 1 ELSE D[P[x]] + 1)
        /\ D[old] \in 1 .. MaxDepth /\ D[new] \in 1 .. MaxDepth
        /\ MaxDepth \in Nat
    BY DEF Shape, Depths
  <2>2. x \in B <=> P[x] = old \/ P[x] \in B
    BY DEF Below
  <2>3. CASE P[x] = old
    <3>1. x \in B /\ Q[x] = new /\ F[new] = D[new] /\ F[x] = D[x] - D[old] + D[new]
      BY <1>2, <2>2, <2>3
    <3>2. D[x] = D[old] + 1
      BY <1>0, <2>1, <2>3
    <3>3. D[x] > D[old] /\ D[x] - D[old] + D[new] <= MaxDepth
      BY <3>1
    <3>. QED  BY <1>0, <2>1, <3>1, <3>2, <3>3
  <2>4. CASE P[x] # old /\ x \in B
    <3>1. P[x] \in B /\ Q[x] = P[x] /\ P[x] \in V /\ Q[x] # NULL
      BY <1>0, <1>2, <2>2, <2>4 DEF Below
    <3>2. F[x] = D[x] - D[old] + D[new] /\ F[Q[x]] = D[P[x]] - D[old] + D[new]
      BY <1>2, <2>4, <3>1
    <3>3. D[x] > D[old] /\ D[x] - D[old] + D[new] <= MaxDepth
      BY <2>4
    <3>4. D[x] = D[P[x]] + 1
      BY <1>0, <2>1, <3>1
    <3>5. D[P[x]] \in 1 .. MaxDepth
      BY <3>1 DEF Shape, Depths
    <3>6. F[x] = F[Q[x]] + 1
      <4>1. D[P[x]] \in Int /\ D[old] \in Int /\ D[new] \in Int
        BY <2>1, <3>5
      <4>2. \A a, b, c \in Int : (a + 1) - b + c = (a - b + c) + 1
        OBVIOUS
      <4>3. PICK a, b, c : a = D[P[x]] /\ b = D[old] /\ c = D[new]
        OBVIOUS
      <4>4. a \in Int /\ b \in Int /\ c \in Int /\ F[Q[x]] = a - b + c
        BY <3>2, <4>1, <4>3
      <4>5. F[x] = (a + 1) - b + c
        BY <3>2, <3>4, <4>3
      <4>6. (a + 1) - b + c = (a - b + c) + 1
        BY <4>2, <4>4
      <4>. QED  BY <4>4, <4>5, <4>6
    <3>7. F[x] \in 1 .. MaxDepth
      BY <2>1, <3>2, <3>3
    <3>. QED  BY <3>1, <3>6, <3>7
  <2>5. CASE P[x] # old /\ x \notin B
    <3>1. Q[x] = P[x] /\ P[x] \notin B
      BY <1>2, <2>2, <2>5
    <3>2. F[x] = D[x] /\ (P[x] # NULL => F[P[x]] = D[P[x]])
      BY <1>0, <1>2, <2>5, <3>1
    <3>. QED  BY <2>1, <3>1, <3>2
  <2>. QED  BY <2>3, <2>4, <2>5
<1>c. Shape(M, W, J, Q, s, F, N)
  BY <1>0, <1>6, <1>7, <1>8, <1>9, <1>10, <1>11, <1>12, <1>13 DEF Shape
<1>d. Adopted(V, P, old, new, Q)
  BY <1>2 DEF Adopted
<1>. QED  BY <1>b, <1>c, <1>d

-----------------------------------------------------------------------------
(* Walking down the tree.                                                  *)

\* The tree of the file system, with what is known of its shape.
Grown(P, s, D, N) ==
  /\ info \in [Entry -> Info \cup {NULL}]
  /\ links \in Links
  /\ P \in [Entry -> Pointer]
  /\ s \in [Entry -> Nat]
  /\ D \in [Entry -> Nat]
  /\ Shape(links, Live, info, P, s, D, N)

\* Entries in the tree have a type and a name.
LEMMA LiveInfo ==
  ASSUME info \in [Entry -> Info \cup {NULL}], NEW e \in Live
  PROVE  /\ e \in Entry /\ info[e] \in Info /\ info[e] # NULL
         /\ info[e].type \in {"dir", "file"} /\ info[e].name \in Name
         /\ e \in Alloc
  BY DEF Live, Alloc, Info

\* In directory d Find meets the entry with name n, if there is one.
LEMMA FindIs ==
  ASSUME NEW P, NEW s, NEW D, NEW N, Grown(P, s, D, N),
         NEW d \in Live \cup {NULL}, NEW n
  PROVE  /\ \A e \in Live : P[e] = d /\ info[e].name = n => Find(d, n) = e
         /\ Find(d, n) # NULL => /\ Find(d, n) \in Live
                                 /\ P[Find(d, n)] = d
                                 /\ info[Find(d, n)].name = n
<1>. DEFINE hits == {e \in Chain(d) : info[e].name = n}
<1>1. Chain(d) = {e \in Live : P[e] = d}
  BY ChainIs DEF Grown, Chain
<1>2. Find(d, n) = IF hits = {} THEN NULL
                   ELSE CHOOSE e \in hits : hits \subseteq ChainFrom(links, e)
  BY Zenon DEF Find
<1>3. \A x, y \in hits : x = y
  BY <1>1 DEF Grown, Shape, Named
<1>4. ASSUME NEW e \in hits
      PROVE  Find(d, n) = e
  <2>1. e \in ChainFrom(links, e)
    BY <1>1, <1>4, ChainFirst DEF Grown, Live, Alloc
  <2>2. hits \subseteq ChainFrom(links, e)
    BY <1>3, <1>4, <2>1
  <2>. HIDE DEF hits
  <2>3. (CHOOSE x \in hits : hits \subseteq ChainFrom(links, x)) \in hits
    BY <1>4, <2>2
  <2>. QED  BY <1>2, <1>3, <1>4, <2>3
<1>5. hits = {} => Find(d, n) = NULL
  BY <1>2
<1>. QED  BY <1>1, <1>4, <1>5

Start == [ret |-> "ok", entry |-> NULL, parent |-> NULL]

None(p, i) == IF i = Len(p) THEN "noent" ELSE "nodir"

\* g are the turns of the loop of traverse on p.
Turns(p, g) ==
  g = [i \in 0 .. Len(p) |-> IF i = 0 THEN Start ELSE Step(g[i - 1], p[i], None(p, i))]

\* The loop does what the recursive definition of Traverse says.
LEMMA TraverseTurns ==
  ASSUME NEW p, Len(p) \in Nat
  PROVE  \E g : Turns(p, g) /\ Traverse(p) = g[Len(p)]
<1>. DEFINE G(n, h) == h = [i \in 0 .. n |-> IF i = 0 THEN Start
                                           ELSE Step(h[i - 1], p[i], None(p, i))]
            B == {n \in 0 .. Len(p) : ~ \E h : G(n, h)}
<1>1. B = {}
  <2>. SUFFICES ASSUME B # {}
                PROVE  FALSE
    OBVIOUS
  <2>0. B \subseteq Nat
    OBVIOUS
  <2>1. PICK n \in B : \A m \in B : ~ (m < n)
    <3>. HIDE DEF B
    <3>. QED  BY <2>0, Least
  <2>2. n # 0
    <3>1. G(0, [i \in 0 .. 0 |-> Start])
      OBVIOUS
    <3>. QED  BY <2>1, <3>1
  <2>3. n - 1 \in 0 .. Len(p) /\ n - 1 \notin B
    BY <2>1, <2>2
  <2>4. PICK h : G(n - 1, h)
    BY <2>3
  <2>. DEFINE k == [i \in 0 .. n |-> IF i = n THEN Step(h[n - 1], p[n], None(p, n)) ELSE h[i]]
  <2>5. \A i \in 0 .. n - 1 : k[i] = h[i]
    BY <2>1
  <2>6. \A i \in 0 .. n : k[i] = IF i = 0 THEN Start ELSE Step(k[i - 1], p[i], None(p, i))
    <3>. SUFFICES ASSUME NEW i \in 0 .. n
                  PROVE  k[i] = IF i = 0 THEN Start ELSE Step(k[i - 1], p[i], None(p, i))
      OBVIOUS
    <3>1. CASE i = n
      BY <2>1, <2>2, <2>5, <3>1
    <3>2. CASE i # n
      <4>1. i \in 0 .. n - 1 /\ (i # 0 => i - 1 \in 0 .. n - 1)
        BY <2>1, <3>2
      <4>2. h[i] = IF i = 0 THEN Start ELSE Step(h[i - 1], p[i], None(p, i))
        BY <2>4, <4>1
      <4>. QED  BY <2>5, <4>1, <4>2
    <3>. QED  BY <3>1, <3>2
  <2>7. G(n, k)
    <3>. HIDE DEF k
    <3>1. k = [i \in 0 .. n |-> k[i]]
      BY DEF k
    <3>. QED  BY <2>6, <3>1
  <2>. QED  BY <2>1, <2>7
<1>2. \E h : Turns(p, h)
  BY <1>1 DEF Turns
<1>3. Turns(p, CHOOSE h : Turns(p, h))
  BY <1>2, Zenon
<1>4. Traverse(p) = (CHOOSE h : Turns(p, h))[Len(p)]
  BY Zenon DEF Traverse, Turns, Start, None
<1>. QED  BY <1>3, <1>4

\* w are the entries on the way down the first n components of p.
Route(P, p, n, w) ==
  /\ w \in [0 .. n -> Pointer]
  /\ w[0] = NULL
  /\ \A i \in 1 .. n : w[i] \in Live /\ P[w[i]] = w[i - 1] /\ info[w[i]].name = p[i]

\* Paths are sequences of names.
LEMMA PathSeq ==
  /\ \A p \in Path : p \in Seq(Name) /\ Len(p) \in 1 .. MaxDepth /\ DOMAIN p = 1 .. Len(p)
  /\ \A n \in 1 .. MaxDepth : \A p \in [1 .. n -> Name] : p \in Path /\ Len(p) = n
<1>1. ASSUME NEW n \in 1 .. MaxDepth, NEW p \in [1 .. n -> Name]
      PROVE  p \in Path /\ Len(p) = n /\ p \in Seq(Name)
  BY RamFsAssumption DEF Path
<1>. QED  BY <1>1 DEF Path

\* What a turn does.
LEMMA StepIs ==
  ASSUME NEW r, NEW n, NEW none
  PROVE  /\ r.ret # "ok" => Step(r, n, none) = r
         /\ r.ret = "ok" =>
              \/ Step(r, n, none).ret = "notdir"
              \/ /\ r.entry = NULL \/ ~IsFile(r.entry)
                 /\ Find(r.entry, n) # NULL
                 /\ Step(r, n, none) = [ret |-> "ok", entry |-> Find(r.entry, n),
                                        parent |-> r.entry]
              \/ /\ r.entry = NULL \/ ~IsFile(r.entry)
                 /\ Find(r.entry, n) = NULL
                 /\ Step(r, n, none) = [ret |-> none, entry |-> NULL, parent |-> r.entry]
  BY DEF Step

\* What a turn that reports a missing last component has seen.
LEMMA StepNoent ==
  ASSUME NEW r, NEW n, NEW none, Step(r, n, none).ret = "noent", r.ret # "noent"
  PROVE  /\ none = "noent"
         /\ r.ret = "ok"
         /\ r.entry = NULL \/ ~IsFile(r.entry)
         /\ Find(r.entry, n) = NULL
         /\ Step(r, n, none).parent = r.entry
<1>1. r.ret = "ok"
  BY StepIs
<1>2. Step(r, n, none).ret # "notdir" /\ Step(r, n, none).ret # "ok"
  OBVIOUS
<1>3. /\ r.entry = NULL \/ ~IsFile(r.entry)
      /\ Find(r.entry, n) = NULL
      /\ Step(r, n, none) = [ret |-> none, entry |-> NULL, parent |-> r.entry]
  BY <1>1, <1>2, StepIs
<1>. QED  BY <1>1, <1>3

\* As long as the turns report "ok" they follow a route.
LEMMA TurnsRoute ==
  ASSUME NEW P, NEW s, NEW D, NEW N, Grown(P, s, D, N),
         NEW p, Len(p) \in Nat, NEW g, Turns(p, g),
         NEW n \in 0 .. Len(p), g[n].ret = "ok"
  PROVE  \E w : /\ Route(P, p, n, w)
                /\ g[n].entry = w[n]
                /\ n > 0 => g[n].parent = w[n - 1]
<1>1. \A i \in 1 .. Len(p) : g[i] = Step(g[i - 1], p[i], None(p, i))
  BY DEF Turns
<1>2. g[0] = Start
  BY DEF Turns
<1>3. \A i \in 0 .. n : g[i].ret = "ok"
  <2>. SUFFICES ASSUME NEW j \in 0 .. n, g[j].ret # "ok"
                PROVE  FALSE
    OBVIOUS
  <2>. DEFINE B == {i \in j .. n : g[i].ret = "ok"}
  <2>1. B \subseteq Nat /\ n \in B
    OBVIOUS
  <2>2. PICK i \in B : \A m \in B : ~ (m < i)
    <3>. HIDE DEF B
    <3>. QED  BY <2>1, Least
  <2>3. i # j /\ i \in j .. n /\ g[i].ret = "ok"
    BY <2>2
  <2>4. i - 1 \in j .. n /\ i - 1 < i /\ i \in 1 .. Len(p)
    BY <2>3
  <2>5. g[i - 1].ret # "ok"
    BY <2>2, <2>4
  <2>6. g[i] = g[i - 1]
    BY <1>1, <2>4, <2>5, StepIs
  <2>. QED  BY <2>3, <2>5, <2>6
<1>4. ASSUME NEW i \in 1 .. n
      PROVE  /\ Find(g[i - 1].entry, p[i]) # NULL
             /\ g[i].entry = Find(g[i - 1].entry, p[i])
             /\ g[i].parent = g[i - 1].entry
  <2>1. g[i] = Step(g[i - 1], p[i], None(p, i)) /\ g[i].ret = "ok" /\ g[i - 1].ret = "ok"
    BY <1>1, <1>3
  <2>2. None(p, i) # "ok"
    BY DEF None
  <2>. QED  BY <2>1, <2>2, StepIs
<1>5. \A i \in 0 .. n : g[i].entry \in Live \cup {NULL}
  <2>. DEFINE B == {i \in 0 .. n : g[i].entry \notin Live \cup {NULL}}
  <2>. SUFFICES ASSUME B # {}
                PROVE  FALSE
    OBVIOUS
  <2>1. B \subseteq Nat
    OBVIOUS
  <2>2. PICK i \in B : \A m \in B : ~ (m < i)
    <3>. HIDE DEF B
    <3>. QED  BY <2>1, Least
  <2>3. i # 0
    BY <1>2, <2>2 DEF Start
  <2>4. i \in 1 .. n /\ i - 1 \in 0 .. n /\ i - 1 < i
    BY <2>2, <2>3
  <2>5. g[i - 1].entry \in Live \cup {NULL}
    BY <2>2, <2>4
  <2>6. Find(g[i - 1].entry, p[i]) # NULL /\ g[i].entry = Find(g[i - 1].entry, p[i])
    BY <1>4, <2>4
  <2>7. Find(g[i - 1].entry, p[i]) \in Live
    BY <2>5, <2>6, FindIs
  <2>. QED  BY <2>2, <2>6, <2>7
<1>6. \A i \in 1 .. n : /\ g[i].entry \in Live
                        /\ P[g[i].entry] = g[i - 1].entry
                        /\ info[g[i].entry].name = p[i]
  <2>. SUFFICES ASSUME NEW i \in 1 .. n
                PROVE  /\ g[i].entry \in Live
                       /\ P[g[i].entry] = g[i - 1].entry
                       /\ info[g[i].entry].name = p[i]
    OBVIOUS
  <2>1. g[i - 1].entry \in Live \cup {NULL}
    BY <1>5
  <2>. QED  BY <1>4, <2>1, FindIs
<1>. DEFINE w == [i \in 0 .. n |-> g[i].entry]
<1>7. Live \subseteq Entry
  BY DEF Live, Alloc
<1>8. Route(P, p, n, w)
  BY <1>2, <1>5, <1>6, <1>7 DEF Route, Start, Pointer
<1>9. g[n].entry = w[n] /\ (n > 0 => g[n].parent = w[n - 1])
  BY <1>4
<1>. QED  BY <1>8, <1>9

\* When traverse succeeds there is a route to the entry it reports.
LEMMA TraverseOk ==
  ASSUME NEW P, NEW s, NEW D, NEW N, Grown(P, s, D, N),
         NEW p \in Path, Traverse(p).ret = "ok"
  PROVE  \E w : /\ Route(P, p, Len(p), w)
                /\ Traverse(p).entry = w[Len(p)]
                /\ Traverse(p).parent = w[Len(p) - 1]
<1>1. Len(p) \in Nat /\ Len(p) > 0
  BY PathSeq
<1>2. PICK g : Turns(p, g) /\ Traverse(p) = g[Len(p)]
  BY <1>1, TraverseTurns
<1>3. PICK w : /\ Route(P, p, Len(p), w)
               /\ g[Len(p)].entry = w[Len(p)]
               /\ Len(p) > 0 => g[Len(p)].parent = w[Len(p) - 1]
  BY <1>1, <1>2, TurnsRoute
<1>. QED  BY <1>1, <1>2, <1>3

\* What it reports is in the tree, and so is its parent.
LEMMA TraverseEntry ==
  ASSUME NEW P, NEW s, NEW D, NEW N, Grown(P, s, D, N),
         NEW p \in Path, Traverse(p).ret = "ok"
  PROVE  /\ Traverse(p).entry \in Live
         /\ Traverse(p).parent = P[Traverse(p).entry]
  BY TraverseOk, PathSeq DEF Route

\* When only the last component is missing there is a route to its parent, which
\* is a directory without an entry of that name.
LEMMA TraverseNoent ==
  ASSUME NEW P, NEW s, NEW D, NEW N, Grown(P, s, D, N),
         NEW p \in Path, Traverse(p).ret = "noent"
  PROVE  \E w : /\ Route(P, p, Len(p) - 1, w)
                /\ Traverse(p).parent = w[Len(p) - 1]
                /\ Traverse(p).parent = NULL \/ ~IsFile(Traverse(p).parent)
                /\ \A e \in Live : P[e] = Traverse(p).parent => info[e].name # p[Len(p)]
<1>. DEFINE l == Len(p)
<1>1. l \in Nat /\ l > 0
  BY PathSeq
<1>2. PICK g : Turns(p, g) /\ Traverse(p) = g[l]
  BY <1>1, TraverseTurns
<1>3. \A i \in 1 .. l : g[i] = Step(g[i - 1], p[i], None(p, i))
  BY <1>2 DEF Turns
<1>4. g[0] = Start
  BY <1>1, <1>2 DEF Turns
<1>. HIDE DEF l
<1>5. \A i \in 0 .. l - 1 : g[i].ret # "noent"
  <2>. DEFINE B == {i \in 0 .. l - 1 : g[i].ret = "noent"}
  <2>. SUFFICES ASSUME B # {}
                PROVE  FALSE
    OBVIOUS
  <2>1. B \subseteq Nat
    OBVIOUS
  <2>2. PICK i \in B : \A m \in B : ~ (m < i)
    <3>. HIDE DEF B
    <3>. QED  BY <2>1, Least
  <2>3. i # 0
    BY <1>4, <2>2 DEF Start
  <2>4. i \in 1 .. l /\ i - 1 \in 0 .. l - 1 /\ i - 1 < i /\ i # l
    BY <1>1, <2>2, <2>3
  <2>5. g[i - 1].ret # "noent" /\ g[i].ret = "noent"
    BY <2>2, <2>4
  <2>6. g[i] = Step(g[i - 1], p[i], None(p, i))
    BY <1>3, <2>4
  <2>7. None(p, i) = "noent"
    BY <2>5, <2>6, StepNoent
  <2>. QED  BY <2>4, <2>7 DEF None, l
<1>6. l - 1 \in 0 .. l /\ l - 1 \in 0 .. l - 1
  BY <1>1
<1>7. g[l] = Step(g[l - 1], p[l], None(p, l)) /\ g[l].ret = "noent" /\ g[l - 1].ret # "noent"
  <2>1. l \in 1 .. l
    BY <1>1
  <2>2. g[l] = Step(g[l - 1], p[l], None(p, l))
    BY <1>3, <2>1
  <2>. QED  BY <1>2, <1>5, <1>6, <2>2
<1>8. /\ g[l - 1].ret = "ok"
      /\ g[l].parent = g[l - 1].entry
      /\ g[l - 1].entry = NULL \/ ~IsFile(g[l - 1].entry)
      /\ Find(g[l - 1].entry, p[l]) = NULL
  BY <1>7, StepNoent
<1>9. PICK w : Route(P, p, l - 1, w) /\ g[l - 1].entry = w[l - 1]
  BY <1>1, <1>2, <1>6, <1>8, TurnsRoute DEF l
<1>10. g[l - 1].entry \in Live \cup {NULL}
  BY <1>1, <1>9 DEF Route
<1>11. \A e \in Live : P[e] = g[l - 1].entry => info[e].name # p[l]
  <2>. SUFFICES ASSUME NEW e \in Live, P[e] = g[l - 1].entry, info[e].name = p[l]
                PROVE  FALSE
    OBVIOUS
  <2>1. Find(g[l - 1].entry, p[l]) = e
    BY <1>10, FindIs
  <2>. QED  BY <1>8, <2>1, RamFsAssumption DEF Live, Alloc
<1>. QED  BY <1>2, <1>8, <1>9, <1>11 DEF l

\* Traverse succeeds where there is a route.
LEMMA TraverseFinds ==
  ASSUME NEW P, NEW s, NEW D, NEW N, Grown(P, s, D, N),
         NEW p \in Path, NEW w, Route(P, p, Len(p), w)
  PROVE  Traverse(p).ret = "ok" /\ Traverse(p).entry = w[Len(p)]
<1>. DEFINE l == Len(p)
<1>1. l \in Nat /\ l > 0
  BY PathSeq
<1>2. PICK g : Turns(p, g) /\ Traverse(p) = g[l]
  BY <1>1, TraverseTurns
<1>3. \A i \in 1 .. l : g[i] = Step(g[i - 1], p[i], None(p, i))
  BY <1>2 DEF Turns
<1>4. g[0] = Start
  BY <1>1, <1>2 DEF Turns
<1>5. /\ w[0] = NULL
      /\ \A i \in 1 .. l : w[i] \in Live /\ P[w[i]] = w[i - 1] /\ info[w[i]].name = p[i]
  BY DEF Route
<1>. HIDE DEF l
<1>. DEFINE B == {i \in 0 .. l : ~ (g[i].ret = "ok" /\ g[i].entry = w[i])}
<1>6. ASSUME B # {}
      PROVE  FALSE
  <2>1. B \subseteq Nat
    OBVIOUS
  <2>2. PICK i \in B : \A m \in B : ~ (m < i)
    <3>. HIDE DEF B
    <3>. QED  BY <1>6, <2>1, Least
  <2>3. i # 0
    BY <1>4, <1>5, <2>2 DEF Start
  <2>4. i \in 1 .. l /\ i - 1 \in 0 .. l /\ i - 1 < i
    BY <1>1, <2>2, <2>3
  <2>5. g[i - 1].ret = "ok" /\ g[i - 1].entry = w[i - 1]
    BY <2>2, <2>4
  <2>6. w[i] \in Live /\ P[w[i]] = w[i - 1] /\ info[w[i]].name = p[i]
    BY <1>5, <2>4
  <2>7. w[i - 1] \in Live \cup {NULL} /\ (w[i - 1] # NULL => info[w[i - 1]].type = "dir")
    BY <2>6 DEF Grown, Shape, Parents
  <2>8. Find(w[i - 1], p[i]) = w[i]
    BY <2>6, <2>7, FindIs
  <2>9. w[i] # NULL
    BY <2>6, RamFsAssumption DEF Live, Alloc
  <2>10. w[i - 1] = NULL \/ ~IsFile(w[i - 1])
    BY <2>7 DEF IsFile
  <2>11. g[i] = [ret |-> "ok", entry |-> w[i], parent |-> w[i - 1]]
    <3>1. g[i] = Step(g[i - 1], p[i], None(p, i))
      BY <1>3, <2>4
    <3>. QED  BY <2>5, <2>8, <2>9, <2>10, <3>1 DEF Step
  <2>. QED  BY <2>2, <2>11
<1>. QED  BY <1>1, <1>2, <1>6 DEF l

\* On a route the depth is the number of components.
LEMMA RouteDepth ==
  ASSUME NEW P, NEW s, NEW D, NEW N, Grown(P, s, D, N),
         NEW p, NEW n \in Nat, NEW w, Route(P, p, n, w)
  PROVE  \A i \in 1 .. n : D[w[i]] = i
<1>. DEFINE B == {i \in 1 .. n : D[w[i]] # i}
<1>. SUFFICES ASSUME B # {}
              PROVE  FALSE
  OBVIOUS
<1>1. B \subseteq Nat
  OBVIOUS
<1>2. PICK i \in B : \A m \in B : ~ (m < i)
  <2>. HIDE DEF B
  <2>. QED  BY <1>1, Least
<1>3. w[0] = NULL /\ w[i] \in Live /\ P[w[i]] = w[i - 1]
  BY <1>2 DEF Route
<1>4. D[w[i]] = IF P[w[i]] = NULL THEN 1 ELSE D[P[w[i]]] + 1
  BY <1>3 DEF Grown, Shape, Depths
<1>5. CASE i = 1
  BY <1>2, <1>3, <1>4, <1>5
<1>6. CASE i # 1
  <2>1. i - 1 \in 1 .. n /\ i - 1 < i
    BY <1>2, <1>6
  <2>2. D[w[i - 1]] = i - 1
    BY <1>2, <2>1
  <2>3. w[i - 1] # NULL
    BY <2>1, RamFsAssumption DEF Route, Live, Alloc
  <2>. QED  BY <1>2, <1>3, <1>4, <2>2, <2>3
<1>. QED  BY <1>5, <1>6

\* There is one route to an entry.
SameRoute(p, n, w, q, m, v) == n = m /\ \A i \in 1 .. n : w[i] = v[i] /\ p[i] = q[i]

\* Two routes to one entry are the same.
LEMMA OneRoute ==
  ASSUME NEW P, NEW s, NEW D, NEW N, Grown(P, s, D, N),
         NEW p, NEW n \in Nat \ {0}, NEW w, Route(P, p, n, w),
         NEW q, NEW m \in Nat \ {0}, NEW v, Route(P, q, m, v),
         w[n] = v[m]
  PROVE  SameRoute(p, n, w, q, m, v)
<1>1. n = m
  <2>1. D[w[n]] = n /\ D[v[m]] = m
    BY RouteDepth
  <2>. QED  BY <2>1
<1>. DEFINE B == {k \in 0 .. n - 1 : w[n - k] # v[n - k]}
<1>2. ASSUME B # {}
      PROVE  FALSE
  <2>1. B \subseteq Nat
    OBVIOUS
  <2>2. PICK k \in B : \A j \in B : ~ (j < k)
    <3>. HIDE DEF B
    <3>. QED  BY <1>2, <2>1, Least
  <2>3. k # 0
    BY <1>1, <2>2
  <2>4. k - 1 \in 0 .. n - 1 /\ k - 1 < k /\ n - (k - 1) \in 1 .. n
        /\ (n - (k - 1)) - 1 = n - k
    BY <2>2, <2>3
  <2>. DEFINE i == n - (k - 1)
  <2>5. w[i] = v[i]
    BY <2>2, <2>4
  <2>6. i \in 1 .. n /\ i - 1 = n - k
    BY <2>4
  <2>. HIDE DEF i
  <2>7. P[w[i]] = w[i - 1] /\ P[v[i]] = v[i - 1]
    BY <1>1, <2>6 DEF Route
  <2>. QED  BY <2>2, <2>5, <2>6, <2>7
<1>3. \A i \in 1 .. n : w[i] = v[i]
  <2>. SUFFICES ASSUME NEW i \in 1 .. n
                PROVE  w[i] = v[i]
    OBVIOUS
  <2>1. n - i \in 0 .. n - 1 /\ n - (n - i) = i
    OBVIOUS
  <2>. QED  BY <1>2, <2>1
<1>4. \A i \in 1 .. n : p[i] = q[i]
  BY <1>1, <1>3 DEF Route
<1>. QED  BY <1>1, <1>3, <1>4 DEF SameRoute

\* Whatever is in the tree has a path.
LEMMA RouteExists ==
  ASSUME NEW P, NEW s, NEW D, NEW N, Grown(P, s, D, N), NEW e \in Live
  PROVE  \E p \in Path : \E w : Route(P, p, Len(p), w) /\ w[Len(p)] = e
<1>. DEFINE Has(x) == \E p \in Path : \E w : Route(P, p, Len(p), w) /\ w[Len(p)] = x
            B == {x \in Live : ~ Has(x)}
<1>. SUFFICES ASSUME B # {}
              PROVE  FALSE
  OBVIOUS
<1>0. Live \subseteq Entry /\ NULL \notin Live
  BY RamFsAssumption DEF Live, Alloc
<1>1. \A x \in B : D[x] \in Nat
  BY <1>0 DEF Grown
<1>2. PICK x \in B : \A y \in B : ~ (D[y] < D[x])
  <2>. HIDE DEF B
  <2>. QED  BY <1>1, LeastRanked
<1>3. /\ x \in Live /\ D[x] \in 1 .. MaxDepth /\ info[x].name \in Name
      /\ D[x] = IF P[x] = NULL THEN 1 ELSE D[P[x]] + 1
      /\ P[x] \in Live \cup {NULL}
  BY <1>2, LiveInfo DEF Grown, Shape, Depths, Parents
<1>4. CASE P[x] = NULL
  <2>. DEFINE p == [i \in 1 .. 1 |-> info[x].name]
              w == [i \in 0 .. 1 |-> IF i = 0 THEN NULL ELSE x]
  <2>1. D[x] = 1 /\ 1 \in 1 .. MaxDepth
    BY <1>3, <1>4
  <2>2. p \in [1 .. 1 -> Name]
    BY <1>3
  <2>3. p \in Path /\ Len(p) = 1
    BY <2>1, <2>2, PathSeq
  <2>4. Route(P, p, 1, w) /\ w[1] = x
    BY <1>0, <1>3, <1>4 DEF Route, Pointer
  <2>. QED  BY <1>2, <2>3, <2>4
<1>5. CASE P[x] # NULL
  <2>1. Has(P[x])
    <3>1. P[x] \in Live /\ D[x] = D[P[x]] + 1
      BY <1>3, <1>5
    <3>2. D[P[x]] \in Nat
      BY <1>0, <3>1 DEF Grown
    <3>3. D[P[x]] < D[x]
      BY <3>1, <3>2
    <3>. QED  BY <1>2, <3>1, <3>3
  <2>2. PICK q, v : q \in Path /\ Route(P, q, Len(q), v) /\ v[Len(q)] = P[x]
    BY <2>1
  <2>. DEFINE l == Len(q)
              p == [i \in 1 .. l + 1 |-> IF i = l + 1 THEN info[x].name ELSE q[i]]
              w == [i \in 0 .. l + 1 |-> IF i = l + 1 THEN x ELSE v[i]]
  <2>3. l \in Nat /\ l > 0 /\ q \in Seq(Name) /\ q \in [1 .. l -> Name]
    BY <2>2, PathSeq
  <2>4. D[P[x]] = l
    <3>. HIDE DEF l
    <3>1. Route(P, q, l, v) /\ v[l] = P[x]
      BY <2>2 DEF l
    <3>2. \A i \in 1 .. l : D[v[i]] = i
      BY <2>3, <3>1, RouteDepth
    <3>. QED  BY <2>3, <3>1, <3>2
  <2>5. l + 1 \in 1 .. MaxDepth
    BY <1>3, <1>5, <2>4
  <2>6. p \in [1 .. l + 1 -> Name]
    BY <1>3, <2>3
  <2>7. p \in Path /\ Len(p) = l + 1
    BY <2>5, <2>6, PathSeq
  <2>8. /\ v \in [0 .. l -> Pointer]
        /\ v[0] = NULL
        /\ \A i \in 1 .. l : v[i] \in Live /\ P[v[i]] = v[i - 1] /\ info[v[i]].name = q[i]
        /\ v[l] = P[x]
    BY <2>2 DEF Route
  <2>. HIDE DEF l
  <2>9. /\ w \in [0 .. l + 1 -> Pointer]
        /\ w[0] = NULL
        /\ \A i \in 0 .. l : w[i] = v[i]
        /\ w[l + 1] = x
    BY <1>0, <1>3, <2>3, <2>8 DEF Pointer
  <2>10. (\A i \in 1 .. l : p[i] = q[i]) /\ p[l + 1] = info[x].name
    BY <2>3
  <2>. HIDE DEF w, p
  <2>11. ASSUME NEW i \in 1 .. l + 1
         PROVE  w[i] \in Live /\ P[w[i]] = w[i - 1] /\ info[w[i]].name = p[i]
    <3>1. CASE i = l + 1
      <4>1. i - 1 = l /\ l \in 0 .. l
        BY <2>3, <3>1
      <4>. QED  BY <1>3, <2>8, <2>9, <2>10, <3>1, <4>1
    <3>2. CASE i # l + 1
      <4>1. i \in 1 .. l /\ i \in 0 .. l /\ i - 1 \in 0 .. l
        BY <2>3, <3>2
      <4>. QED  BY <2>8, <2>9, <2>10, <4>1
    <3>. QED  BY <3>1, <3>2
  <2>12. Route(P, p, l + 1, w)
    BY <2>9, <2>11 DEF Route
  <2>. QED  BY <1>2, <2>7, <2>9, <2>12
<1>. QED  BY <1>4, <1>5

\* The entries on whose routes old is, n components down.
Under(P, old, n) ==
  {x \in Live : \E r \in Path : \E w : /\ Route(P, r, Len(r), w)
                                       /\ w[Len(r)] = x
                                       /\ Len(r) > n
                                       /\ w[n] = old}

\* They are the entries below old.
LEMMA UnderBelow ==
  ASSUME NEW P, NEW s, NEW D, NEW N, Grown(P, s, D, N),
         NEW p \in Path, NEW u, Route(P, p, Len(p), u), NEW old, old = u[Len(p)]
  PROVE  Below(Live, P, old, Under(P, old, Len(p)))
<1>. DEFINE n == Len(p)
            B == Under(P, old, n)
<1>0. n \in Nat /\ n > 0
  BY PathSeq
<1>1. old \in Live /\ D[old] = n /\ NULL \notin Live
  <2>1. old \in Live
    BY <1>0 DEF Route
  <2>2. PICK m : m = n
    OBVIOUS
  <2>5. Route(P, p, m, u) /\ m \in Nat
    BY <1>0, <2>2
  <2>6. \A i \in 1 .. m : D[u[i]] = i
    BY <2>5, RouteDepth
  <2>3. \A i \in 1 .. n : D[u[i]] = i
    BY <2>2, <2>6
  <2>4. u[n] = old
    OBVIOUS
  <2>. QED  BY <1>0, <2>1, <2>3, <2>4, RamFsAssumption DEF Live, Alloc
<1>2. ASSUME NEW x \in B
      PROVE  P[x] = old \/ P[x] \in B
  <2>1. PICK r, w : /\ r \in Path
                    /\ Route(P, r, Len(r), w)
                    /\ w[Len(r)] = x
                    /\ Len(r) > n
                    /\ w[n] = old
    BY <1>2 DEF Under
  <2>. DEFINE l == Len(r) - 1
              q == [i \in 1 .. l |-> r[i]]
              v == [i \in 0 .. l |-> w[i]]
  <2>2. /\ Len(r) \in 1 .. MaxDepth /\ r \in Seq(Name)
        /\ l \in 1 .. MaxDepth /\ l >= n /\ Len(r) = l + 1
        /\ \A i \in 1 .. l : r[i] \in Name
    <3>1. Len(r) \in 1 .. MaxDepth /\ r \in Seq(Name) /\ MaxDepth \in Nat
      BY <2>1, PathSeq, RamFsAssumption
    <3>2. l \in 1 .. MaxDepth /\ l >= n /\ Len(r) = l + 1
      <4>. HIDE DEF n
      <4>. QED  BY <1>0, <2>1, <3>1 DEF n
    <3>. QED  BY <3>1, <3>2
  <2>3. q \in [1 .. l -> Name]
    BY <2>2
  <2>4. q \in Path /\ Len(q) = l
    BY <2>2, <2>3, PathSeq
  <2>5. /\ w \in [0 .. l + 1 -> Pointer] /\ w[0] = NULL
        /\ \A i \in 1 .. l + 1 : w[i] \in Live /\ P[w[i]] = w[i - 1] /\ info[w[i]].name = r[i]
        /\ w[l + 1] = x
    BY <2>1, <2>2 DEF Route
  <2>. HIDE DEF l
  <2>6. Route(P, q, l, v) /\ v[l] = P[x] /\ P[x] \in Live /\ v[n] = old
    BY <1>0, <2>1, <2>2, <2>5 DEF Route
  <2>7. CASE l = n
    BY <2>6, <2>7
  <2>8. CASE l > n
    BY <2>4, <2>6, <2>8 DEF Under
  <2>. QED  BY <1>0, <2>2, <2>7, <2>8
<1>3. ASSUME NEW x \in Live, P[x] = old \/ P[x] \in B
      PROVE  x \in B
  <2>0. P[x] \in Live
    BY <1>1, <1>3 DEF Under
  <2>1. PICK r, w : r \in Path /\ Route(P, r, Len(r), w) /\ w[Len(r)] = x
    BY RouteExists
  <2>. DEFINE l == Len(r)
  <2>2. l \in Nat /\ l > 0
    BY <2>1, PathSeq
  <2>3. P[x] = w[l - 1]
    BY <2>1, <2>2 DEF Route
  <2>4. l - 1 \in Nat /\ l - 1 > 0
    <3>1. w[0] = NULL
      BY <2>1 DEF Route
    <3>. QED  BY <1>1, <2>0, <2>2, <2>3, <3>1
  <2>5. Route(P, r, l - 1, [i \in 0 .. l - 1 |-> w[i]])
    BY <2>1, <2>2, <2>4 DEF Route
  <2>. DEFINE k == l - 1
              y == [i \in 0 .. k |-> w[i]]
  <2>8. k \in Nat /\ k > 0 /\ l = k + 1 /\ w[k] = P[x]
    BY <2>2, <2>3, <2>4
  <2>9. Route(P, r, k, y) /\ y[k] = P[x] /\ \A i \in 0 .. k : y[i] = w[i]
    BY <2>5, <2>8
  <2>10. Route(P, p, n, u) /\ u[n] = old
    OBVIOUS
  <2>. HIDE DEF l, k, y
  <2>6. CASE P[x] = old
    <3>1. k = n
      <4>. HIDE DEF n
      <4>1. y[k] = u[n] /\ Route(P, r, k, y) /\ Route(P, p, n, u)
        BY <2>6, <2>9, <2>10
      <4>2. k \in Nat \ {0} /\ n \in Nat \ {0}
        BY <1>0, <2>8
      <4>3. SameRoute(r, k, y, p, n, u)
        BY <4>1, <4>2, OneRoute
      <4>. QED  BY <4>3 DEF SameRoute
    <3>2. w[n] = old /\ l > n
      <4>. HIDE DEF n
      <4>. QED  BY <1>0, <2>6, <2>8, <3>1
    <3>. QED  BY <2>1, <3>2 DEF Under, l
  <2>7. CASE P[x] \in B
    <3>1. PICK q, v : /\ q \in Path
                      /\ Route(P, q, Len(q), v)
                      /\ v[Len(q)] = P[x]
                      /\ Len(q) > n
                      /\ v[n] = old
      BY <2>7 DEF Under
    <3>. DEFINE m == Len(q)
    <3>2. m \in Nat /\ m > 0
      BY <3>1, PathSeq
    <3>3. v[m] = P[x] /\ Route(P, q, m, v) /\ m > n /\ v[n] = old
      BY <3>1
    <3>. HIDE DEF m, n
    <3>5. k = m /\ \A i \in 1 .. k : y[i] = v[i]
      <4>1. y[k] = v[m] /\ Route(P, r, k, y) /\ Route(P, q, m, v)
        BY <2>9, <3>3
      <4>2. k \in Nat \ {0} /\ m \in Nat \ {0}
        BY <2>8, <3>2
      <4>3. SameRoute(r, k, y, q, m, v)
        BY <4>1, <4>2, OneRoute
      <4>. QED  BY <4>3 DEF SameRoute
    <3>6. w[n] = old /\ l > n
      BY <1>0, <2>8, <2>9, <3>2, <3>3, <3>5
    <3>. QED  BY <2>1, <3>6 DEF Under, l, n
  <2>. QED  BY <1>3, <2>6, <2>7
<1>4. B \subseteq Live
  BY DEF Under
<1>. QED  BY <1>2, <1>3, <1>4 DEF Below

\* Their paths are longer, and begin with that of old.
LEMMA UnderPaths ==
  ASSUME NEW P, NEW s, NEW D, NEW N, Grown(P, s, D, N),
         NEW p \in Path, NEW u, Route(P, p, Len(p), u), NEW old, old = u[Len(p)],
         NEW x \in Under(P, old, Len(p))
  PROVE  /\ D[x] > Len(p)
         /\ \E r \in Path : \E w : /\ Route(P, r, Len(r), w)
                                   /\ w[Len(r)] = x
                                   /\ Len(r) = D[x]
                                   /\ Traverse(r).ret = "ok"
                                   /\ \A i \in 1 .. Len(p) : r[i] = p[i]
                                   /\ IsPrefix(p, r)
<1>. DEFINE n == Len(p)
<1>1. n \in Nat /\ n > 0 /\ p \in Seq(Name)
  BY PathSeq
<1>2. PICK r, w : /\ r \in Path
                  /\ Route(P, r, Len(r), w)
                  /\ w[Len(r)] = x
                  /\ Len(r) > n
                  /\ w[n] = old
  BY DEF Under
<1>. DEFINE l == Len(r)
<1>3. l \in Nat /\ l > n /\ r \in Seq(Name)
  BY <1>1, <1>2, PathSeq
<1>4. Traverse(r).ret = "ok"
  BY <1>2, TraverseFinds
<1>. HIDE DEF l, n
<1>5. \A i \in 1 .. l : D[w[i]] = i
  BY <1>2, <1>3, RouteDepth DEF l
<1>6. D[x] = l
  BY <1>1, <1>2, <1>3, <1>5 DEF l
<1>. DEFINE v == [i \in 0 .. n |-> w[i]]
<1>7. Route(P, r, n, v) /\ v[n] = old
  <2>1. /\ w \in [0 .. l -> Pointer] /\ w[0] = NULL
        /\ \A i \in 1 .. l : w[i] \in Live /\ P[w[i]] = w[i - 1] /\ info[w[i]].name = r[i]
    BY <1>2 DEF Route, l
  <2>2. v \in [0 .. n -> Pointer] /\ \A i \in 0 .. n : v[i] = w[i]
    BY <1>1, <1>3, <2>1
  <2>. HIDE DEF v
  <2>3. w[n] = old
    BY <1>2 DEF n
  <2>4. ASSUME NEW i \in 1 .. n
        PROVE  v[i] \in Live /\ P[v[i]] = v[i - 1] /\ info[v[i]].name = r[i]
    <3>1. i \in 1 .. l /\ i \in 0 .. n /\ i - 1 \in 0 .. n
      BY <1>1, <1>3
    <3>. QED  BY <2>1, <2>2, <3>1
  <2>5. 0 \in 0 .. n /\ n \in 0 .. n
    BY <1>1
  <2>. QED  BY <2>1, <2>2, <2>3, <2>4, <2>5 DEF Route
<1>8. \A i \in 1 .. n : r[i] = p[i]
  <2>. HIDE DEF v
  <2>1. Route(P, p, n, u) /\ v[n] = u[n]
    BY <1>7 DEF n
  <2>2. n \in Nat \ {0}
    BY <1>1
  <2>3. SameRoute(r, n, v, p, n, u)
    BY <1>7, <2>1, <2>2, OneRoute
  <2>. QED  BY <2>3 DEF SameRoute
<1>9. IsPrefix(p, r)
  <2>1. n <= l /\ SubSeq(p, 1, n) = SubSeq(r, 1, n)
    <3>1. /\ SubSeq(p, 1, n) = [i \in 1 .. n |-> p[i]]
          /\ SubSeq(r, 1, n) = [i \in 1 .. n |-> r[i]]
      BY <1>1, <1>3 DEF n, l
    <3>. QED  BY <1>1, <1>3, <1>8, <3>1
  <2>. QED  BY <2>1 DEF IsPrefix, n, l
<1>. QED  BY <1>2, <1>3, <1>4, <1>6, <1>8, <1>9 DEF n, l

-----------------------------------------------------------------------------
(* Space.                                                                  *)

UnionOf(b) == UNION {b[x] : x \in Entry}

Apart(b) == \A e, g \in Entry : e # g => b[e] \cap b[g] = {}

\* When file e has the blocks B instead of its own, and no other file has them,
\* the number of blocks changes by the difference.
Changed(b, c, e, B) ==
  /\ c \in [Entry -> SUBSET Block]
  /\ Apart(c)
  /\ IsFiniteSet(B) /\ IsFiniteSet(b[e])
  /\ Cardinality(UnionOf(b)) \in Nat /\ Cardinality(UnionOf(c)) \in Nat
  /\ Cardinality(B) \in Nat /\ Cardinality(b[e]) \in Nat
  /\ Cardinality(UnionOf(c)) = Cardinality(UnionOf(b)) - Cardinality(b[e]) + Cardinality(B)

\* The blocks that are taken in all, when those of one file become B.
LEMMA BlocksChange ==
  ASSUME NEW b \in [Entry -> SUBSET Block], Apart(b),
         NEW e \in Entry, NEW B \in SUBSET Block,
         \A g \in Entry : g # e => B \cap b[g] = {},
         NEW c, c = [b EXCEPT ![e] = B]
  PROVE  Changed(b, c, e, B)
<1>. DEFINE R == UnionOf(b) \ b[e]
<1>1. c \in [Entry -> SUBSET Block] /\ c[e] = B /\ \A g \in Entry : g # e => c[g] = b[g]
  OBVIOUS
<1>2. Apart(c)
  BY <1>1 DEF Apart
<1>3. UnionOf(b) \subseteq Block /\ UnionOf(c) \subseteq Block /\ R \subseteq Block /\ b[e] \subseteq Block
  BY <1>1 DEF UnionOf
<1>4. /\ IsFiniteSet(UnionOf(b)) /\ IsFiniteSet(UnionOf(c)) /\ IsFiniteSet(R)
      /\ IsFiniteSet(B) /\ IsFiniteSet(b[e])
  BY <1>3, FS_Subset, RamFsAssumption
<1>5. UnionOf(b) = R \cup b[e] /\ R \cap b[e] = {}
  BY DEF UnionOf
<1>6. UnionOf(c) = R \cup B /\ R \cap B = {}
  <2>1. \A y \in R : \E g \in Entry : g # e /\ y \in b[g]
    BY DEF UnionOf
  <2>2. \A g \in Entry : \A y \in b[g] : g # e => y \in R
    BY DEF UnionOf, Apart
  <2>3. R \subseteq UnionOf(c)
    BY <1>1, <2>1 DEF UnionOf
  <2>4. B \subseteq UnionOf(c)
    BY <1>1 DEF UnionOf
  <2>5. UnionOf(c) \subseteq R \cup B
    BY <1>1, <2>2 DEF UnionOf
  <2>. QED  BY <2>1, <2>3, <2>4, <2>5
<1>. HIDE DEF R
<1>7. /\ Cardinality(R \cup b[e]) = Cardinality(R) + Cardinality(b[e]) - Cardinality(R \cap b[e])
      /\ Cardinality(R \cup B) = Cardinality(R) + Cardinality(B) - Cardinality(R \cap B)
  BY <1>4, FS_Union
<1>8. Cardinality({}) = 0
  BY FS_EmptySet
<1>9. /\ Cardinality(UnionOf(b)) \in Nat /\ Cardinality(UnionOf(c)) \in Nat
      /\ Cardinality(B) \in Nat /\ Cardinality(b[e]) \in Nat /\ Cardinality(R) \in Nat
  BY <1>4, FS_CardinalityType
<1>10. /\ Cardinality(UnionOf(b)) = Cardinality(R) + Cardinality(b[e]) - 0
       /\ Cardinality(UnionOf(c)) = Cardinality(R) + Cardinality(B) - 0
  BY <1>5, <1>6, <1>7, <1>8
<1>11. Cardinality(UnionOf(c)) = Cardinality(UnionOf(b)) - Cardinality(b[e]) + Cardinality(B)
  BY <1>9, <1>10
<1>. QED  BY <1>1, <1>2, <1>4, <1>9, <1>11 DEF Changed

Files == {e \in Alloc : IsFile(e)}

\* The invariant of the space: what it says, and that only files have blocks.
SpaceInv ==
  /\ blocks \in [Entry -> SUBSET Block]
  /\ lost \in Nat
  /\ used = lost + Cardinality(Alloc) + Cardinality(Files) + Cardinality(UnionOf(blocks))
  /\ Apart(blocks)
  /\ \A e \in Entry : e \notin Files => blocks[e] = {}

\* The sets that are counted are finite.
LEMMA SpaceFinite ==
  ASSUME blocks \in [Entry -> SUBSET Block]
  PROVE  /\ IsFiniteSet(Alloc) /\ Cardinality(Alloc) \in Nat
         /\ IsFiniteSet(Files) /\ Cardinality(Files) \in Nat
         /\ Cardinality(UnionOf(blocks)) \in Nat
         /\ \A e \in Entry : IsFiniteSet(blocks[e]) /\ Cardinality(blocks[e]) \in Nat
<1>1. Alloc \subseteq Entry /\ Files \subseteq Entry
  BY DEF Alloc, Files
<1>2. UnionOf(blocks) \subseteq Block /\ \A e \in Entry : blocks[e] \subseteq Block
  BY DEF UnionOf
<1>. QED  BY <1>1, <1>2, FS_Subset, FS_CardinalityType, RamFsAssumption

\* SpaceCounted is part of it.
LEMMA SpaceInvCounted == SpaceInv => SpaceCounted
  BY DEF SpaceInv, SpaceCounted, Files, UnionOf, BlocksOf, Apart

\* SetBlocks keeps it, if the blocks are free or were the file's own.
LEMMA SetBlocksSpace ==
  ASSUME SpaceInv, NEW e \in Files, NEW B \in SUBSET Block,
         \A g \in Entry : g # e => B \cap blocks[g] = {},
         SetBlocks(e, B), UNCHANGED <<info, lost>>
  PROVE  SpaceInv' /\ (Cardinality(B) <= Cardinality(blocks[e]) => used' <= used)
<1>1. e \in Entry /\ Alloc' = Alloc /\ Files' = Files
  BY DEF Files, Alloc, IsFile
<1>2. blocks' = [blocks EXCEPT ![e] = B]
  BY DEF SetBlocks
<1>3. /\ blocks' \in [Entry -> SUBSET Block] /\ Apart(blocks')
      /\ Cardinality(UnionOf(blocks)) \in Nat
      /\ Cardinality(B) \in Nat /\ Cardinality(blocks[e]) \in Nat
      /\ Cardinality(UnionOf(blocks')) =
           Cardinality(UnionOf(blocks)) - Cardinality(blocks[e]) + Cardinality(B)
  <2>1. blocks \in [Entry -> SUBSET Block] /\ Apart(blocks)
    BY DEF SpaceInv
  <2>2. PICK c : c = blocks'
    OBVIOUS
  <2>3. c = [blocks EXCEPT ![e] = B]
    BY <1>2, <2>2
  <2>4. Changed(blocks, c, e, B)
    BY <1>1, <2>1, <2>3, BlocksChange
  <2>. QED  BY <2>2, <2>4 DEF Changed
<1>4. Cardinality(Alloc) \in Nat /\ Cardinality(Files) \in Nat /\ lost \in Nat
  BY SpaceFinite DEF SpaceInv
<1>5. used' = used + Cardinality(B) - Cardinality(blocks[e])
  BY DEF SetBlocks
<1>6. used = lost + Cardinality(Alloc) + Cardinality(Files) + Cardinality(UnionOf(blocks))
  BY DEF SpaceInv
<1>7. used' = lost + Cardinality(Alloc) + Cardinality(Files) + Cardinality(UnionOf(blocks'))
  BY <1>3, <1>4, <1>5, <1>6
<1>8. UnionOf(blocks)' = UnionOf(blocks') /\ Apart(blocks)' = Apart(blocks')
  BY DEF UnionOf, Apart
<1>9. \A g \in Entry : g \notin Files => blocks'[g] = {}
  BY <1>1, <1>2 DEF SpaceInv
<1>10. SpaceInv'
  BY <1>1, <1>3, <1>7, <1>8, <1>9 DEF SpaceInv
<1>. QED  BY <1>3, <1>4, <1>5, <1>6, <1>10

\* The entries of S are freed, with what they have; of the others only the flag
\* RM may change.
Freed(S) ==
  /\ S \subseteq Alloc
  /\ \A x \in S : info'[x] = NULL
  /\ \A x \in Entry \ S : /\ info'[x] = NULL <=> info[x] = NULL
                          /\ info[x] # NULL => info'[x].type = info[x].type
  /\ blocks' = [x \in Entry |-> IF x \in S THEN {} ELSE blocks[x]]
  /\ used' = used - Taken(S)
  /\ lost' = lost

\* It is kept then.
LEMMA FreeSpace ==
  ASSUME SpaceInv, NEW S, Freed(S)
  PROVE  SpaceInv' /\ used' <= used
<1>. DEFINE F == {e \in S : IsFile(e)}
            U == UnionOf(blocks)
            V == BlocksOf(S)
            c == [x \in Entry |-> IF x \in S THEN {} ELSE blocks[x]]
<1>1. S \subseteq Entry /\ Alloc' = Alloc \ S /\ Files' = Files \ S
  BY DEF Alloc, Files, IsFile, Freed
<1>2. Alloc \cap S = S /\ Files \cap S = F
  BY DEF Files, Freed
<1>3. blocks \in [Entry -> SUBSET Block] /\ Apart(blocks)
  BY DEF SpaceInv
<1>4. /\ c \in [Entry -> SUBSET Block]
      /\ \A x \in S : c[x] = {}
      /\ \A x \in Entry \ S : c[x] = blocks[x]
  BY <1>1, <1>3
<1>. HIDE DEF c
<1>5. UnionOf(c) = U \ V
  <2>1. \A y \in UnionOf(c) : \E x \in Entry \ S : y \in blocks[x]
    BY <1>4 DEF UnionOf
  <2>2. \A x \in Entry \ S : \A y \in blocks[x] : y \in U \ V
    BY <1>1, <1>3 DEF UnionOf, BlocksOf, Apart
  <2>3. \A y \in U \ V : \E x \in Entry \ S : y \in blocks[x]
    BY DEF UnionOf, BlocksOf
  <2>4. \A x \in Entry \ S : \A y \in blocks[x] : y \in UnionOf(c)
    BY <1>4 DEF UnionOf
  <2>. QED  BY <2>1, <2>2, <2>3, <2>4
<1>6. V \subseteq U /\ U \cap V = V
  BY <1>1 DEF UnionOf, BlocksOf
<1>7. Apart(c)
  BY <1>3, <1>4 DEF Apart
<1>8. /\ IsFiniteSet(Alloc) /\ IsFiniteSet(Files) /\ IsFiniteSet(U)
      /\ Cardinality(Alloc) \in Nat /\ Cardinality(Files) \in Nat /\ Cardinality(U) \in Nat
  <2>1. U \subseteq Block
    BY <1>3 DEF UnionOf
  <2>2. IsFiniteSet(U)
    BY <2>1, FS_Subset, RamFsAssumption
  <2>. QED  BY <1>3, <2>2, SpaceFinite
<1>9. /\ IsFiniteSet(S) /\ IsFiniteSet(F) /\ IsFiniteSet(V)
      /\ Cardinality(S) \in Nat /\ Cardinality(F) \in Nat /\ Cardinality(V) \in Nat
  <2>1. F \subseteq S
    OBVIOUS
  <2>. HIDE DEF F, V, U
  <2>2. IsFiniteSet(S) /\ IsFiniteSet(V)
    BY <1>6, <1>8, FS_Subset DEF Freed
  <2>3. IsFiniteSet(F)
    BY <2>1, <2>2, FS_Subset
  <2>. QED  BY <2>2, <2>3, FS_CardinalityType
<1>10. Taken(S) = Cardinality(S) + Cardinality(F) + Cardinality(V)
  BY DEF Taken
<1>. HIDE DEF F, V, U
<1>11. /\ Cardinality(Alloc \ S) = Cardinality(Alloc) - Cardinality(Alloc \cap S)
       /\ Cardinality(Files \ S) = Cardinality(Files) - Cardinality(Files \cap S)
       /\ Cardinality(U \ V) = Cardinality(U) - Cardinality(U \cap V)
  BY <1>8, FS_Difference
<1>12. used = lost + Cardinality(Alloc) + Cardinality(Files) + Cardinality(U) /\ lost \in Nat
  BY DEF SpaceInv, U
<1>a. /\ Cardinality(Alloc \ S) = Cardinality(Alloc) - Cardinality(S)
      /\ Cardinality(Files \ S) = Cardinality(Files) - Cardinality(F)
      /\ Cardinality(U \ V) = Cardinality(U) - Cardinality(V)
  BY <1>2, <1>6, <1>11
<1>b. used' = used - (Cardinality(S) + Cardinality(F) + Cardinality(V)) /\ lost' = lost
  BY <1>10 DEF Freed
<1>13. used' = lost + Cardinality(Alloc \ S) + Cardinality(Files \ S) + Cardinality(U \ V)
  BY <1>8, <1>9, <1>12, <1>a, <1>b
<1>14. used' <= used
  BY <1>8, <1>9, <1>12, <1>b
<1>15. blocks' = c /\ UnionOf(blocks)' = UnionOf(blocks') /\ Apart(blocks)' = Apart(blocks')
  BY DEF UnionOf, Apart, c, Freed
<1>16. \A x \in Entry : x \notin Files \ S => c[x] = {}
  BY <1>4 DEF SpaceInv
<1>17. UnionOf(blocks') = U \ V /\ Apart(blocks') /\ blocks' \in [Entry -> SUBSET Block]
  BY <1>4, <1>5, <1>7, <1>15
<1>18. \A x \in Entry : x \notin Files' => blocks'[x] = {}
  BY <1>1, <1>15, <1>16
<1>19. used' = lost' + Cardinality(Alloc') + Cardinality(Files') + Cardinality(UnionOf(blocks'))
  BY <1>1, <1>13, <1>17, <1>b
<1>20. SpaceInv'
  BY <1>12, <1>b, <1>15, <1>17, <1>18, <1>19 DEF SpaceInv
<1>. QED  BY <1>14, <1>20

\* What Drop does to the entries.
LEMMA DropEffect ==
  ASSUME info \in [Entry -> Info \cup {NULL}], NEW e \in Alloc,
         NEW L, NEW whole, NEW open \in BOOLEAN, Drop(L, e, whole, open)
  PROVE  /\ info' \in [Entry -> Info \cup {NULL}]
         /\ \A x \in Entry : x # e => info'[x] = info[x]
         /\ Live' = Live \ {e}
         /\ Alloc' = IF open THEN Alloc ELSE Alloc \ {e}
         /\ open => info'[e].rm /\ info'[e].type = info[e].type
         /\ links' = IF open THEN L ELSE Wiped(L, e)
<1>1. e \in Entry /\ info[e] \in Info /\ info[e] # NULL
  BY DEF Alloc
<1>2. CASE open
  <2>1. info' = [info EXCEPT ![e].rm = TRUE] /\ links' = L
    BY <1>2 DEF Drop
  <2>2. info'[e] = [info[e] EXCEPT !.rm = TRUE]
    BY <1>1, <2>1
  <2>3. info'[e] \in Info /\ info'[e].rm = TRUE /\ info'[e].type = info[e].type
    BY <1>1, <2>2 DEF Info
  <2>4. \A x \in Entry : x # e => info'[x] = info[x]
    BY <1>1, <2>1
  <2>5. info' \in [Entry -> Info \cup {NULL}]
    BY <2>1, <2>3, <2>4
  <2>6. info'[e] # NULL
    BY <2>3, RamFsAssumption
  <2>7. Alloc' = Alloc /\ Live' = Live \ {e}
    BY <1>1, <2>3, <2>4, <2>6 DEF Alloc, Live
  <2>. QED  BY <1>2, <2>1, <2>3, <2>4, <2>5, <2>7
<1>3. CASE ~open
  <2>1. info' = [info EXCEPT ![e] = NULL] /\ links' = Wiped(L, e)
    BY <1>3 DEF Drop
  <2>2. info'[e] = NULL /\ \A x \in Entry : x # e => info'[x] = info[x]
    BY <1>1, <2>1
  <2>3. info' \in [Entry -> Info \cup {NULL}]
    BY <2>1
  <2>4. Alloc' = Alloc \ {e} /\ Live' = Live \ {e}
    BY <1>1, <2>2 DEF Alloc, Live
  <2>. QED  BY <1>3, <2>1, <2>2, <2>3, <2>4
<1>. QED  BY <1>2, <1>3

\* Drop keeps the space counted.
LEMMA DropSpace ==
  ASSUME info \in [Entry -> Info \cup {NULL}], SpaceInv, NEW e \in Alloc,
         NEW L, NEW whole \in BOOLEAN, whole = IsFile(e),
         NEW open \in BOOLEAN, Drop(L, e, whole, open), lost' = lost
  PROVE  SpaceInv' /\ used' <= used
<1>0. used \in Int
  <2>1. used = lost + Cardinality(Alloc) + Cardinality(Files) + Cardinality(UnionOf(blocks))
    BY DEF SpaceInv
  <2>2. lost \in Nat /\ Cardinality(Alloc) \in Nat /\ Cardinality(Files) \in Nat
        /\ Cardinality(UnionOf(blocks)) \in Nat
    BY SpaceFinite DEF SpaceInv
  <2>. QED  BY <2>1, <2>2
<1>1. e \in Entry
  BY DEF Alloc
<1>2. CASE open
  <2>1. blocks' = blocks /\ used' = used
    BY <1>2 DEF Drop
  <2>2. Alloc' = Alloc /\ \A x \in Alloc : info'[x].type = info[x].type
    BY <1>2, DropEffect DEF Alloc
  <2>3. Files' = Files
    BY <2>2 DEF Files, IsFile
  <2>. QED  BY <1>0, <2>1, <2>2, <2>3 DEF SpaceInv, UnionOf, Apart
<1>3. CASE ~open
  <2>1. /\ blocks' = [blocks EXCEPT ![e] = {}]
        /\ used' = used - (IF whole THEN Taken({e}) ELSE 1)
        /\ info' = [info EXCEPT ![e] = NULL]
    BY <1>3 DEF Drop
  <2>2. ~whole => Taken({e}) = 1
    <3>. SUFFICES ASSUME ~IsFile(e)
                  PROVE  Taken({e}) = 1
      OBVIOUS
    <3>1. {x \in {e} : IsFile(x)} = {} /\ BlocksOf({e}) = {}
      BY <1>1 DEF SpaceInv, BlocksOf, Files
    <3>2. Cardinality({e}) = 1 /\ Cardinality({}) = 0
      BY FS_Singleton, FS_EmptySet
    <3>. QED  BY <3>1, <3>2 DEF Taken
  <2>3. used' = used - Taken({e})
    BY <2>1, <2>2
  <2>4. blocks' = [x \in Entry |-> IF x \in {e} THEN {} ELSE blocks[x]]
    BY <1>1, <2>1 DEF SpaceInv
  <2>5. /\ info'[e] = NULL
        /\ \A x \in Entry \ {e} : info'[x] = info[x]
    BY <1>1, <2>1
  <2>6. /\ \A x \in {e} : info'[x] = NULL
        /\ \A x \in Entry \ {e} : /\ info'[x] = NULL <=> info[x] = NULL
                                  /\ info[x] # NULL => info'[x].type = info[x].type
        /\ {e} \subseteq Alloc
    BY <2>5
  <2>7. Freed({e})
    BY <2>3, <2>4, <2>6 DEF Freed
  <2>. QED  BY <2>7, FreeSpace
<1>. QED  BY <1>2, <1>3

\* A new entry is counted.
LEMMA AddEntryEffect ==
  ASSUME info \in [Entry -> Info \cup {NULL}],
         NEW e \in Entry, NEW p \in Path, NEW type \in {"dir", "file"}, AddEntry(e, p, type)
  PROVE  /\ e \notin Alloc
         /\ info' \in [Entry -> Info \cup {NULL}]
         /\ info'[e] \in Info /\ info'[e].type = type /\ info'[e].name = Last(MadeAt(p))
         /\ ~info'[e].rm
         /\ \A x \in Entry : x # e => info'[x] = info[x]
         /\ Alloc' = Alloc \cup {e}
         /\ Live' = Live \cup {e}
         /\ MadeAt(p) \in Path
<1>1. p \in Seq(Name) /\ Len(p) \in 1 .. MaxDepth /\ p[1] \in Name /\ p[Len(p)] \in Name
  BY PathSeq
<1>2. MadeAt(p) \in Path /\ Last(MadeAt(p)) \in Name
  <2>1. <<Head(p)>> \in Path /\ Last(<<Head(p)>>) \in Name
    <3>1. <<Head(p)>> = [i \in 1 .. 1 |-> p[1]] /\ 1 \in 1 .. MaxDepth
      BY <1>1, RamFsAssumption
    <3>2. [i \in 1 .. 1 |-> p[1]] \in [1 .. 1 -> Name]
      BY <1>1
    <3>3. [i \in 1 .. 1 |-> p[1]] \in Path
      BY <3>1, <3>2, PathSeq
    <3>4. Last(<<Head(p)>>) = p[1]
      BY <1>1 DEF Last
    <3>. QED  BY <1>1, <3>1, <3>3, <3>4
  <2>2. Last(p) \in Name
    BY <1>1 DEF Last
  <2>. QED  BY <2>1, <2>2 DEF MadeAt
<1>3. /\ e \notin Alloc
      /\ info' = [info EXCEPT ![e] = [type |-> type, name |-> Last(MadeAt(p)), rm |-> FALSE]]
  BY DEF AddEntry
<1>4. /\ info'[e] = [type |-> type, name |-> Last(MadeAt(p)), rm |-> FALSE]
      /\ \A x \in Entry : x # e => info'[x] = info[x]
  BY <1>3
<1>5. /\ info'[e] \in Info /\ info'[e].type = type /\ info'[e].name = Last(MadeAt(p))
      /\ ~info'[e].rm
  BY <1>2, <1>4 DEF Info
<1>6. info'[e] # NULL
  BY <1>5, RamFsAssumption
<1>7. info' \in [Entry -> Info \cup {NULL}]
  BY <1>3, <1>5, <1>4
<1>8. Alloc' = Alloc \cup {e} /\ Live' = Live \cup {e}
  BY <1>4, <1>5, <1>6 DEF Alloc, Live
<1>. QED  BY <1>2, <1>3, <1>4, <1>5, <1>7, <1>8

\* add_entry counts the new entry, and the header of a file.
LEMMA AddEntrySpace ==
  ASSUME info \in [Entry -> Info \cup {NULL}], SpaceInv,
         NEW e \in Entry, NEW p \in Path, NEW type \in {"dir", "file"}, AddEntry(e, p, type),
         UNCHANGED <<blocks, lost>>
  PROVE  SpaceInv' /\ used' <= Size
<1>1. /\ e \notin Alloc /\ Alloc' = Alloc \cup {e}
      /\ Files' = IF type = "file" THEN Files \cup {e} ELSE Files
      /\ e \notin Files
  <2>1. /\ e \notin Alloc /\ Alloc' = Alloc \cup {e} /\ info'[e].type = type
        /\ \A x \in Entry : x # e => info'[x] = info[x]
    BY AddEntryEffect
  <2>. QED  BY <2>1 DEF Files, IsFile, Alloc
<1>2. /\ Cardinality(Alloc \cup {e}) = Cardinality(Alloc) + 1
      /\ Cardinality(Files \cup {e}) = Cardinality(Files) + 1
      /\ Cardinality(Alloc) \in Nat /\ Cardinality(Files) \in Nat
      /\ Cardinality(UnionOf(blocks)) \in Nat /\ lost \in Nat
  BY <1>1, SpaceFinite, FS_AddElement DEF SpaceInv
<1>3. used' = used + (IF type = "file" THEN 2 ELSE 1) /\ used' <= Size
  BY DEF AddEntry, Cost
<1>4. used = lost + Cardinality(Alloc) + Cardinality(Files) + Cardinality(UnionOf(blocks))
  BY DEF SpaceInv
<1>5. used' = lost + Cardinality(Alloc') + Cardinality(Files') + Cardinality(UnionOf(blocks))
  BY <1>1, <1>2, <1>3, <1>4
<1>6. \A x \in Entry : x \notin Files' => blocks[x] = {}
  BY <1>1 DEF SpaceInv
<1>7. UnionOf(blocks)' = UnionOf(blocks) /\ Apart(blocks)' = Apart(blocks)
  BY DEF UnionOf, Apart
<1>. QED  BY <1>3, <1>5, <1>6, <1>7 DEF SpaceInv

-----------------------------------------------------------------------------
(* What the calls do to the tree.                                          *)

\* Entries that are not in use have no links.
Clean == \A e \in Entry \ Alloc : links.next[e] = NULL /\ links.child[e] = NULL

\* The invariant of the tree: it has a shape, and new entries have no links.
TreeInv == Clean /\ \E P, s, D, N : Grown(P, s, D, N)

\* A place for a new entry of name n in directory d.
NewPlace(P, D, d, n) ==
  /\ d \in Live \cup {NULL}
  /\ IF d = NULL THEN MaxDepth >= 1 ELSE info[d].type = "dir" /\ D[d] < MaxDepth
  /\ \A x \in Live : P[x] = d => info[x].name # n

\* There is one where traverse misses the last component of a path.
LEMMA TraversePlace ==
  ASSUME NEW P, NEW s, NEW D, NEW N, Grown(P, s, D, N),
         NEW p \in Path, Traverse(p).ret = "noent"
  PROVE  /\ NewPlace(P, D, Traverse(p).parent, Last(p))
         /\ Traverse(p).parent # NULL => D[Traverse(p).parent] = Len(p) - 1
         /\ Traverse(p).parent = NULL => Len(p) = 1
<1>. DEFINE d == Traverse(p).parent
            n == Len(p) - 1
<1>1. n \in Nat /\ n < MaxDepth /\ MaxDepth >= 1 /\ Len(p) = n + 1
  BY PathSeq, RamFsAssumption
<1>2. PICK w : /\ Route(P, p, n, w)
               /\ d = w[n]
               /\ d = NULL \/ ~IsFile(d)
               /\ \A e \in Live : P[e] = d => info[e].name # p[Len(p)]
  BY TraverseNoent
<1>3. Last(p) = p[Len(p)]
  BY DEF Last
<1>. HIDE DEF n, d
<1>4. CASE n = 0
  <2>1. d = NULL
    BY <1>2, <1>4 DEF Route
  <2>2. NewPlace(P, D, d, Last(p))
    BY <1>1, <1>2, <1>3, <2>1 DEF NewPlace
  <2>. QED  BY <1>1, <1>4, <2>1, <2>2 DEF d
<1>5. CASE n # 0
  <2>1. d \in Live /\ d # NULL
    <3>1. n \in 1 .. n
      BY <1>1, <1>5
    <3>. QED  BY <1>2, <3>1, RamFsAssumption DEF Route, Live, Alloc
  <2>2. D[d] = n
    <3>1. \A i \in 1 .. n : D[w[i]] = i
      BY <1>1, <1>2, RouteDepth
    <3>. QED  BY <1>1, <1>2, <1>5, <3>1
  <2>3. info[d].type = "dir"
    BY <1>2, <2>1, LiveInfo DEF IsFile, Grown
  <2>4. NewPlace(P, D, d, Last(p))
    BY <1>1, <1>2, <1>3, <2>1, <2>2, <2>3 DEF NewPlace
  <2>. QED  BY <1>1, <2>1, <2>2, <2>4 DEF d
<1>. QED  BY <1>4, <1>5

\* Linked changes no links but those of entries in the tree.
LEMMA LinkedOutside ==
  ASSUME NEW L, NEW V, NEW I, NEW P, NEW s, NEW D, NEW N, NEW d, NEW e, NEW J,
         Room(L, V, I, P, s, D, N, d, e, J), NEW x \in Entry, x \notin V, x # e
  PROVE  Linked(L, d, e).next[x] = L.next[x] /\ Linked(L, d, e).child[x] = L.child[x]
<1>1. /\ L \in Links /\ Shape(L, V, I, P, s, D, N) /\ d \in V \cup {NULL}
      /\ x # NULL /\ x # d
  BY RamFsAssumption DEF Room
<1>2. CASE L.child[d] = NULL
  BY <1>1, <1>2 DEF Linked, Links
<1>3. CASE L.child[d] # NULL
  <2>. DEFINE end == CHOOSE y \in ChainFrom(L, L.child[d]) : L.next[y] = NULL
  <2>1. end \in ChainFrom(L, L.child[d])
    BY <1>1, <1>3, ChainEnds
  <2>2. end \in V
    BY <1>1, <2>1, ChainIs
  <2>3. Linked(L, d, e) = [L EXCEPT !.next[end] = e]
    BY <1>3 DEF Linked
  <2>. HIDE DEF end
  <2>. QED  BY <1>1, <2>2, <2>3 DEF Links
<1>. QED  BY <1>2, <1>3

\* add_entry keeps the shape.
LEMMA AddEntryGrown ==
  ASSUME TreeInv, NEW P, NEW s, NEW D, NEW N, Grown(P, s, D, N),
         NEW e \in Entry, NEW p \in Path, NEW type \in {"dir", "file"}, AddEntry(e, p, type)
  PROVE  /\ TreeInv'
         /\ \E Q, t, E, n : /\ Grown(Q, t, E, n)'
                            /\ Q[e] = Traverse(MadeAt(p)).parent
                            /\ \A x \in Live : Q[x] = P[x]
<1>1. Grown(P, s, D, N)
  OBVIOUS
<1>. DEFINE q == MadeAt(p)
<1>d. PICK d : d = Traverse(q).parent
  OBVIOUS
<1>. DEFINE M == Linked(links, d, e)
<1>2. /\ e \notin Alloc /\ info' \in [Entry -> Info \cup {NULL}]
      /\ info'[e].name = Last(q)
      /\ \A x \in Entry : x # e => info'[x] = info[x]
      /\ Alloc' = Alloc \cup {e} /\ Live' = Live \cup {e}
      /\ q \in Path
  BY <1>1, AddEntryEffect DEF Grown
<1>3. Traverse(q).ret = "noent" /\ links' = M
  BY <1>d DEF AddEntry
<1>. HIDE DEF q
<1>4. NewPlace(P, D, d, Last(q))
  BY <1>d, <1>1, <1>2, <1>3, TraversePlace
<1>5. /\ links.child[e] = NULL /\ links.next[e] = NULL
      /\ e \notin Live
  BY <1>2 DEF TreeInv, Clean, Live
<1>6. \A x \in Live : info'[x] = info[x]
  BY <1>2, <1>5 DEF Live, Alloc
<1>7. /\ links \in Links /\ P \in [Entry -> Pointer] /\ s \in [Entry -> Nat]
      /\ D \in [Entry -> Nat] /\ Shape(links, Live, info, P, s, D, N)
  BY <1>1 DEF Grown
<1>8. /\ d \in Live \cup {NULL}
      /\ IF d = NULL THEN MaxDepth >= 1 ELSE info[d].type = "dir" /\ D[d] < MaxDepth
      /\ \A x \in Live : P[x] = d => info[x].name # info'[e].name
  BY <1>2, <1>4 DEF NewPlace
<1>9. PICK J : J = info'
  OBVIOUS
<1>10. Room(links, Live, info, P, s, D, N, d, e, J)
  BY <1>5, <1>6, <1>7, <1>8, <1>9 DEF Room
<1>11. PICK Q, t, E, n : Added(links, M, Live, P, D, d, e, J, Q, t, E, n)
  BY <1>10, LinkedAdded
<1>. HIDE DEF M
<1>12. /\ M \in Links
       /\ Q \in [Entry -> Pointer] /\ t \in [Entry -> Nat] /\ E \in [Entry -> Nat]
       /\ Shape(M, Live \cup {e}, J, Q, t, E, n)
       /\ Q[e] = d /\ \A x \in Live : Q[x] = P[x]
  BY <1>11 DEF Added
<1>13. Grown(Q, t, E, n)'
  BY <1>2, <1>3, <1>9, <1>12 DEF Grown
<1>14. Clean'
  <2>1. \A x \in Entry : x \notin Alloc /\ x # e => M.next[x] = links.next[x] /\ M.child[x] = links.child[x]
    BY <1>10, LinkedOutside DEF M, Live
  <2>2. \A x \in Entry : x \notin Alloc => links.next[x] = NULL /\ links.child[x] = NULL
    BY DEF TreeInv, Clean
  <2>. QED  BY <1>2, <1>3, <2>1, <2>2 DEF Clean
<1>15. Q[e] = Traverse(MadeAt(p)).parent
  BY <1>d, <1>12 DEF q
<1>. QED  BY <1>12, <1>13, <1>14, <1>15 DEF TreeInv

\* The same without naming the shape.
LEMMA AddEntryTree ==
  ASSUME TreeInv, NEW e \in Entry, NEW p \in Path, NEW type \in {"dir", "file"},
         AddEntry(e, p, type)
  PROVE  TreeInv'
<1>1. PICK P, s, D, N : Grown(P, s, D, N)
  BY DEF TreeInv
<1>. QED  BY <1>1, AddEntryGrown

\* Prev finds the entry before e.
LEMMA PrevIs ==
  ASSUME NEW P, NEW s, NEW D, NEW N, Grown(P, s, D, N), NEW e \in Live
  PROVE  IsPrev(links, Live, P, e, Prev(P[e], e))
<1>. DEFINE d == P[e]
            before == {x \in Chain(d) : links.next[x] = e}
<1>1. /\ links \in Links /\ Shape(links, Live, info, P, s, D, N)
      /\ d \in Live \cup {NULL} /\ e # NULL /\ NULL \notin Live
  BY RamFsAssumption DEF Grown, Shape, Parents, Live, Alloc
<1>2. Chain(d) = {x \in Live : P[x] = d}
  BY <1>1, ChainIs DEF Chain
<1>3. Prev(d, e) = IF before = {} THEN NULL ELSE CHOOSE x \in before : TRUE
  BY DEF Prev
<1>. HIDE DEF before
<1>4. before # {} => Prev(d, e) \in before
  BY <1>3
<1>5. CASE links.child[d] = e
  <2>1. before = {}
    BY <1>1, <1>2, <1>5 DEF before, Shape, Nexts
  <2>. QED  BY <1>3, <1>5, <2>1 DEF IsPrev
<1>6. CASE links.child[d] # e
  <2>1. PICK x \in Live : links.next[x] = e
    BY <1>1, <1>6 DEF Shape, Reached
  <2>2. P[x] = d
    BY <1>1, <2>1 DEF Shape, Nexts
  <2>3. x \in before
    BY <1>2, <2>1, <2>2 DEF before
  <2>4. Prev(d, e) \in Live /\ links.next[Prev(d, e)] = e
    BY <1>2, <1>4, <2>3 DEF before
  <2>. QED  BY <1>6, <2>4 DEF IsPrev
<1>. QED  BY <1>5, <1>6

\* The links after e, which comes after p, has left its directory d.
LEMMA UnlinkedIs ==
  ASSUME NEW L \in Links, NEW V, NEW P, NEW e \in V, NEW p, V \subseteq Entry,
         P[e] \in V \cup {NULL}, IsPrev(L, V, P, e, p)
  PROVE  /\ Unlinked(L, P[e], p, e) \in Links
         /\ IsUnlinked(L, Unlinked(L, P[e], p, e), V, P, e, p)
         /\ \A x \in Pointer \ (V \cup {NULL}) :
              /\ Unlinked(L, P[e], p, e).next[x] = L.next[x]
              /\ Unlinked(L, P[e], p, e).child[x] = L.child[x]
         /\ Unlinked(L, P[e], p, e).child[e] = IF P[e] = e /\ L.child[e] = e
                                               THEN L.next[e] ELSE L.child[e]
<1>. DEFINE U == Unlinked(L, P[e], p, e)
            d == P[e]
<1>1. /\ L.next \in [Pointer -> Pointer] /\ L.child \in [Pointer -> Pointer]
      /\ d \in Pointer /\ e \in Pointer /\ V \subseteq Pointer /\ NULL \in Pointer
      /\ p = NULL \/ p \in V
  BY DEF Links, Pointer, IsPrev
<1>2. U = [child |-> IF L.child[d] = e THEN [L.child EXCEPT ![d] = L.next[e]] ELSE L.child,
           next |-> IF p # NULL THEN [L.next EXCEPT ![p] = L.next[e]] ELSE L.next]
  BY DEF Unlinked
<1>3. /\ U.child = IF L.child[d] = e THEN [L.child EXCEPT ![d] = L.next[e]] ELSE L.child
      /\ U.next = IF p # NULL THEN [L.next EXCEPT ![p] = L.next[e]] ELSE L.next
  BY <1>2
<1>4. U \in Links
  <2>1. U.child \in [Pointer -> Pointer] /\ U.next \in [Pointer -> Pointer]
    BY <1>1, <1>3
  <2>. QED  BY <1>2, <2>1 DEF Links
<1>. HIDE DEF U
<1>5. \A x \in Pointer : U.child[x] = IF x = d /\ L.child[x] = e THEN L.next[e] ELSE L.child[x]
  BY <1>1, <1>3
<1>6. \A x \in Pointer : U.next[x] = IF p # NULL /\ x = p THEN L.next[e] ELSE L.next[x]
  BY <1>1, <1>3
<1>7. NULL \notin V
  BY RamFsAssumption
<1>8. IsUnlinked(L, U, V, P, e, p)
  BY <1>1, <1>5, <1>6, <1>7 DEF IsUnlinked
<1>9. /\ \A x \in Pointer \ (V \cup {NULL}) : U.next[x] = L.next[x] /\ U.child[x] = L.child[x]
      /\ U.child[e] = IF d = e /\ L.child[e] = e THEN L.next[e] ELSE L.child[e]
  BY <1>1, <1>5, <1>6
<1>. QED  BY <1>4, <1>8, <1>9 DEF U

\* Entry e is freed, or marked if it is open.
Leaves(e, open) ==
  /\ info' \in [Entry -> Info \cup {NULL}]
  /\ \A y \in Entry : y # e => info'[y] = info[y]
  /\ Live' = Live \ {e}
  /\ Alloc' = IF open THEN Alloc ELSE Alloc \ {e}
  /\ open => info'[e].rm /\ info'[e].type = info[e].type

\* An entry without children that leaves its chain leaves a tree.
LEMMA UnlinkTree ==
  ASSUME TreeInv, NEW P, NEW s, NEW D, NEW N, Grown(P, s, D, N),
         NEW e \in Live, links.child[e] = NULL, NEW x, x = Prev(P[e], e),
         NEW M, M = Unlinked(links, P[e], x, e), NEW open \in BOOLEAN,
         links' = IF open THEN M ELSE Wiped(M, e), Leaves(e, open)
  PROVE  TreeInv' /\ Grown(P, s, D, N)'
<1>8. /\ info \in [Entry -> Info \cup {NULL}] /\ links \in Links
      /\ P \in [Entry -> Pointer] /\ s \in [Entry -> Nat] /\ D \in [Entry -> Nat]
      /\ Shape(links, Live, info, P, s, D, N) /\ Live \subseteq Entry
      /\ P[e] \in Live \cup {NULL} /\ e \in Alloc /\ e \in Entry
      /\ NULL \notin Live /\ Live \subseteq Alloc /\ e # NULL
  BY RamFsAssumption DEF Grown, Shape, Parents, Live, Alloc
<1>9. /\ info' \in [Entry -> Info \cup {NULL}]
      /\ \A y \in Entry : y # e => info'[y] = info[y]
      /\ Live' = Live \ {e}
      /\ Alloc' = IF open THEN Alloc ELSE Alloc \ {e}
  BY DEF Leaves
<1>10. IsPrev(links, Live, P, e, x)
  BY PrevIs
<1>11. /\ M \in Links
       /\ IsUnlinked(links, M, Live, P, e, x)
       /\ \A y \in Pointer \ (Live \cup {NULL}) :
            M.next[y] = links.next[y] /\ M.child[y] = links.child[y]
  BY <1>8, <1>10, UnlinkedIs
<1>12. PICK W : W = links'
  OBVIOUS
<1>13. /\ W \in Links
       /\ \A y \in Pointer : y # e => W.next[y] = M.next[y] /\ W.child[y] = M.child[y]
       /\ ~open => W.next[e] = NULL /\ W.child[e] = NULL
  <2>1. CASE open
    BY <1>11, <1>12, <2>1
  <2>2. CASE ~open
    <3>1. W = [M EXCEPT !.next[e] = NULL, !.child[e] = NULL]
      BY <1>12, <2>2 DEF Wiped
    <3>. QED  BY <1>8, <1>11, <2>2, <3>1 DEF Links, Pointer
  <2>. QED  BY <2>1, <2>2
<1>14. IsUnlinked(links, W, Live, P, e, x)
  BY <1>8, <1>11, <1>13 DEF IsUnlinked, Pointer
<1>15. PICK J : J = info'
  OBVIOUS
<1>16. \A y \in Live \ {e} : J[y] = info[y]
  BY <1>8, <1>9, <1>15
<1>17. Shape(W, Live \ {e}, J, P, s, D, N)
  BY <1>8, <1>14, <1>16, UnlinkedShape
<1>18. Grown(P, s, D, N)'
  BY <1>8, <1>9, <1>12, <1>13, <1>15, <1>17 DEF Grown
<1>19. Clean'
  <2>1. \A y \in Entry \ Alloc : links.next[y] = NULL /\ links.child[y] = NULL
    BY DEF TreeInv, Clean
  <2>2. \A y \in Entry \ Alloc : y # e /\ y \in Pointer \ (Live \cup {NULL})
    BY <1>8, RamFsAssumption DEF Pointer
  <2>3. \A y \in Entry \ Alloc : W.next[y] = NULL /\ W.child[y] = NULL
    BY <1>11, <1>13, <2>1, <2>2
  <2>. QED  BY <1>9, <1>12, <1>13, <2>3 DEF Clean
<1>. QED  BY <1>18, <1>19 DEF TreeInv

\* remove_entry keeps the shape, if the entry has no children.
LEMMA RemoveEntryGrown ==
  ASSUME TreeInv, NEW P, NEW s, NEW D, NEW N, Grown(P, s, D, N),
         NEW p \in Path, Traverse(p).ret = "ok",
         links.child[Traverse(p).entry] = NULL,
         NEW whole, RemoveEntry(Traverse(p), whole)
  PROVE  /\ TreeInv' /\ Grown(P, s, D, N)'
         /\ Leaves(Traverse(p).entry, IsOpen(Traverse(p).entry))
<1>1. Grown(P, s, D, N)
  OBVIOUS
<1>2. PICK e : e = Traverse(p).entry
  OBVIOUS
<1>3. PICK x : x = Prev(P[e], e)
  OBVIOUS
<1>4. PICK M : M = Unlinked(links, P[e], x, e)
  OBVIOUS
<1>5. PICK open : open = IsOpen(e)
  OBVIOUS
<1>6. e \in Live /\ Traverse(p).parent = P[e]
  BY <1>1, <1>2, TraverseEntry
<1>7. Drop(M, e, whole, open) /\ open \in BOOLEAN /\ links.child[e] = NULL
  BY <1>2, <1>3, <1>4, <1>5, <1>6 DEF RemoveEntry, IsOpen
<1>8. info \in [Entry -> Info \cup {NULL}] /\ e \in Alloc
  BY <1>1, <1>6 DEF Grown, Live
<1>9. Leaves(e, open) /\ links' = IF open THEN M ELSE Wiped(M, e)
  BY <1>7, <1>8, DropEffect DEF Leaves
<1>10. TreeInv' /\ Grown(P, s, D, N)'
  BY <1>1, <1>3, <1>4, <1>6, <1>7, <1>9, UnlinkTree
<1>. QED  BY <1>2, <1>5, <1>9, <1>10

\* The same without naming the shape.
LEMMA RemoveEntryTree ==
  ASSUME TreeInv, NEW p \in Path, Traverse(p).ret = "ok",
         links.child[Traverse(p).entry] = NULL,
         NEW whole, RemoveEntry(Traverse(p), whole)
  PROVE  TreeInv'
<1>1. PICK P, s, D, N : Grown(P, s, D, N)
  BY DEF TreeInv
<1>. QED  BY <1>1, RemoveEntryGrown

\* The shape of the tree stays as it is.
Kept == \A P, s, D, N : Grown(P, s, D, N) => Grown(P, s, D, N)'

\* What is outside of the tree may change.
LEMMA OutsideTree ==
  ASSUME TreeInv, info' \in [Entry -> Info \cup {NULL}], links' \in Links,
         Live' = Live, \A x \in Live : info'[x] = info[x],
         \A x \in Live \cup {NULL} : /\ links'.next[x] = links.next[x]
                                     /\ links'.child[x] = links.child[x],
         Clean'
  PROVE  TreeInv' /\ Kept
<1>. SUFFICES ASSUME NEW P, NEW s, NEW D, NEW N, Grown(P, s, D, N)
              PROVE  Grown(P, s, D, N)'
  BY DEF TreeInv, Kept
<1>1. Grown(P, s, D, N)
  OBVIOUS
<1>2. PICK L, I : L = links' /\ I = info'
  OBVIOUS
<1>3. /\ \A x \in Live \cup {NULL} : /\ L.next[x] = links.next[x]
                                     /\ L.child[x] = links.child[x]
      /\ \A x \in Live : I[x] = info[x]
  BY <1>2
<1>4. /\ Shape(links, Live, info, P, s, D, N)
      /\ \A x \in Live : P[x] \in Live \cup {NULL}
  BY <1>1 DEF Grown, Shape, Parents
<1>5. Parents(Live, I, P) /\ Firsts(L, Live, P) /\ OnePrev(L, Live) /\ Named(Live, I, P)
  BY <1>3, <1>4 DEF Shape, Parents, Firsts, OnePrev, Named
<1>6. Nexts(L, Live, P, s)
  BY <1>3, <1>4 DEF Shape, Nexts
<1>7. Reached(L, Live, P)
  BY <1>3, <1>4 DEF Shape, Reached
<1>8. Shape(L, Live, I, P, s, D, N)
  BY <1>4, <1>5, <1>6, <1>7 DEF Shape
<1>. QED  BY <1>1, <1>2, <1>8 DEF Grown

-----------------------------------------------------------------------------
(* Handles.                                                                *)

OfFile(h, e) == {f \in FD : h[f] = e}

OfDir(h, e) == {d \in DD : h[d] # NULL /\ h[d].entry = e}

\* The references that failed opens have left.
OfLeak(e) == {l \in Leak : leaked[l] = e}

\* What counts the references to e.
Count(e) == Cardinality(OfFile(fd, e)) + Cardinality(OfDir(dd, e)) + Cardinality(OfLeak(e))

\* Every handle, and every reference that is left, is counted, a removed entry
\* has one, and what they lead to is there.
CountInv ==
  /\ uses \in [Entry -> Nat] /\ fd \in [FD -> Pointer] /\ dd \in [DD -> Handle \cup {NULL}]
  /\ leaked \in [Leak -> Pointer]
  /\ \A e \in Entry : uses[e] = Count(e)
  /\ \A e \in Alloc : info[e].rm => uses[e] > 0
  /\ \A f \in FD : fd[f] # NULL => fd[f] \in Files
  /\ \A d \in DD : dd[d] # NULL => dd[d].entry \in Alloc \cup {NULL}
  /\ \A l \in Leak : leaked[l] # NULL => leaked[l] \in Alloc

\* The invariant of the handles, but in ramfs_umount: the next entry to read is
\* even in the tree.
HandleInv ==
  /\ CountInv
  /\ \A d \in DD : dd[d] # NULL => dd[d].child \in Live \cup {NULL}

\* The sets of handles are finite.
LEMMA HandlesFinite ==
  \A h, e : /\ IsFiniteSet(OfFile(h, e)) /\ Cardinality(OfFile(h, e)) \in Nat
            /\ Cardinality(OfFile(h, e)) <= Cardinality(FD) /\ Cardinality(FD) \in Nat
            /\ IsFiniteSet(OfDir(h, e)) /\ Cardinality(OfDir(h, e)) \in Nat
            /\ Cardinality(OfDir(h, e)) <= Cardinality(DD) /\ Cardinality(DD) \in Nat
<1>. TAKE h, e
<1>1. OfFile(h, e) \subseteq FD /\ OfDir(h, e) \subseteq DD
  BY DEF OfFile, OfDir
<1>. QED  BY <1>1, FS_Subset, FS_CardinalityType, RamFsAssumption

\* So are the references left.
LEMMA LeaksFinite ==
  \A e : /\ IsFiniteSet(OfLeak(e)) /\ Cardinality(OfLeak(e)) \in Nat
         /\ Cardinality(OfLeak(e)) <= Cardinality(Leak) /\ Cardinality(Leak) \in Nat
<1>. TAKE e
<1>1. OfLeak(e) \subseteq Leak
  BY DEF OfLeak
<1>. QED  BY <1>1, FS_Subset, FS_CardinalityType, RamFsAssumption

\* An open handle makes its entry used, and an entry in use has one, or a
\* reference that is left.
LEMMA HandleCounts ==
  ASSUME CountInv
  PROVE  /\ \A f \in FD : fd[f] # NULL => uses[fd[f]] > 0
         /\ \A d \in DD : dd[d] # NULL /\ dd[d].entry # NULL => uses[dd[d].entry] > 0
         /\ \A l \in Leak : leaked[l] # NULL => uses[leaked[l]] > 0
         /\ \A e \in Entry : uses[e] > 0 =>
              \/ \E f \in FD : fd[f] = e
              \/ \E d \in DD : dd[d] # NULL /\ dd[d].entry = e
              \/ \E l \in Leak : leaked[l] = e
<1>. USE DEF CountInv
<1>0. /\ \A f \in FD : fd[f] # NULL => fd[f] \in Entry
      /\ \A d \in DD : dd[d] # NULL /\ dd[d].entry # NULL => dd[d].entry \in Entry
      /\ \A l \in Leak : leaked[l] # NULL => leaked[l] \in Entry
  BY DEF Files, Alloc
<1>1. \A h, e : /\ OfFile(h, e) # {} => Cardinality(OfFile(h, e)) > 0
                /\ OfDir(h, e) # {} => Cardinality(OfDir(h, e)) > 0
                /\ OfLeak(e) # {} => Cardinality(OfLeak(e)) > 0
                /\ OfFile(h, e) = {} => Cardinality(OfFile(h, e)) = 0
                /\ OfDir(h, e) = {} => Cardinality(OfDir(h, e)) = 0
                /\ OfLeak(e) = {} => Cardinality(OfLeak(e)) = 0
  <2>. TAKE h, e
  <2>1. /\ IsFiniteSet(OfFile(h, e)) /\ Cardinality(OfFile(h, e)) \in Nat
        /\ IsFiniteSet(OfDir(h, e)) /\ Cardinality(OfDir(h, e)) \in Nat
        /\ IsFiniteSet(OfLeak(e)) /\ Cardinality(OfLeak(e)) \in Nat
    BY HandlesFinite, LeaksFinite
  <2>2. \A S : IsFiniteSet(S) => (Cardinality(S) = 0 <=> S = {})
    BY FS_EmptySet
  <2>. QED  BY <2>1, <2>2
<1>2. \A e \in Entry : /\ Cardinality(OfFile(fd, e)) \in Nat /\ Cardinality(OfDir(dd, e)) \in Nat
                       /\ Cardinality(OfLeak(e)) \in Nat /\ uses[e] = Count(e)
  BY HandlesFinite, LeaksFinite
<1>3. ASSUME NEW f \in FD, fd[f] # NULL
      PROVE  uses[fd[f]] > 0
  <2>1. f \in OfFile(fd, fd[f])
    BY DEF OfFile
  <2>. QED  BY <1>0, <1>1, <1>2, <1>3, <2>1 DEF Count
<1>4. ASSUME NEW d \in DD, dd[d] # NULL, dd[d].entry # NULL
      PROVE  uses[dd[d].entry] > 0
  <2>1. d \in OfDir(dd, dd[d].entry)
    BY <1>4 DEF OfDir
  <2>. QED  BY <1>0, <1>1, <1>2, <1>4, <2>1 DEF Count
<1>5. ASSUME NEW l \in Leak, leaked[l] # NULL
      PROVE  uses[leaked[l]] > 0
  <2>1. l \in OfLeak(leaked[l])
    BY DEF OfLeak
  <2>. QED  BY <1>0, <1>1, <1>2, <1>5, <2>1 DEF Count
<1>6. ASSUME NEW e \in Entry, uses[e] > 0
      PROVE  \/ \E f \in FD : fd[f] = e
             \/ \E d \in DD : dd[d] # NULL /\ dd[d].entry = e
             \/ \E l \in Leak : leaked[l] = e
  <2>1. OfFile(fd, e) # {} \/ OfDir(dd, e) # {} \/ OfLeak(e) # {}
    BY <1>1, <1>2, <1>6 DEF Count
  <2>. QED  BY <2>1 DEF OfFile, OfDir, OfLeak
<1>. QED  BY <1>3, <1>4, <1>5, <1>6

\* An entry in use is allocated.
LEMMA UsedAlloc ==
  ASSUME CountInv, NEW e \in Entry, uses[e] > 0
  PROVE  e \in Alloc
<1>1. CASE \E f \in FD : fd[f] = e
  BY <1>1, RamFsAssumption DEF CountInv, Files
<1>2. CASE \E d \in DD : dd[d] # NULL /\ dd[d].entry = e
  BY <1>2, RamFsAssumption DEF CountInv
<1>3. CASE \E l \in Leak : leaked[l] = e
  BY <1>3, RamFsAssumption DEF CountInv
<1>. QED  BY <1>1, <1>2, <1>3, HandleCounts

\* What leaves the handles alone, and the entries in use but for their flags,
\* keeps the counts.
LEMMA CountsKept ==
  ASSUME CountInv, UNCHANGED <<uses, leaked, fd, dd>>,
         \A x \in Alloc : uses[x] > 0 => /\ info'[x] # NULL
                                         /\ info'[x].type = info[x].type,
         \A x \in Alloc' : info'[x].rm => uses[x] > 0
  PROVE  CountInv'
<1>1. \A x \in Entry : uses[x] > 0 => x \in Alloc' /\ (x \in Files => x \in Files')
  BY UsedAlloc DEF Alloc, Files, IsFile
<1>2. ASSUME NEW f \in FD, fd[f] # NULL
      PROVE  fd[f] \in Files'
  BY <1>1, <1>2, HandleCounts DEF CountInv, Files, Alloc
<1>3. ASSUME NEW d \in DD, dd[d] # NULL, dd[d].entry # NULL
      PROVE  dd[d].entry \in Alloc'
  BY <1>1, <1>3, HandleCounts DEF CountInv, Alloc
<1>4. ASSUME NEW l \in Leak, leaked[l] # NULL
      PROVE  leaked[l] \in Alloc'
  BY <1>1, <1>4, HandleCounts DEF CountInv, Alloc
<1>5. \A e \in Entry : uses'[e] = Count(e)'
  BY DEF CountInv, Count, OfFile, OfDir, OfLeak
<1>. QED  BY <1>2, <1>3, <1>4, <1>5 DEF CountInv

\* The same for the handles, if what they are to read stays in the tree.
LEMMA HandlesKept ==
  ASSUME HandleInv, UNCHANGED <<uses, leaked, fd, dd>>,
         \A x \in Alloc : uses[x] > 0 => /\ info'[x] # NULL
                                         /\ info'[x].type = info[x].type,
         \A x \in Alloc' : info'[x].rm => uses[x] > 0,
         \A d \in DD : dd[d] # NULL /\ dd[d].child # NULL => dd[d].child \in Live'
  PROVE  HandleInv'
<1>1. CountInv'
  BY CountsKept DEF HandleInv
<1>. QED  BY <1>1 DEF HandleInv

\* How the counts change when one handle does.
FileCounted(h, k, f, v, e) ==
  /\ h[f] # e /\ v # e => Cardinality(OfFile(k, e)) = Cardinality(OfFile(h, e))
  /\ h[f] # e /\ v = e => Cardinality(OfFile(k, e)) = Cardinality(OfFile(h, e)) + 1
  /\ h[f] = e /\ v # e => Cardinality(OfFile(k, e)) = Cardinality(OfFile(h, e)) - 1

\* The handles of each entry when one file handle changes.
LEMMA FileCounts ==
  ASSUME NEW h \in [FD -> Pointer], NEW f \in FD, NEW v \in Pointer,
         NEW k, k = [h EXCEPT ![f] = v], NEW e \in Entry
  PROVE  FileCounted(h, k, f, v, e)
<1>1. IsFiniteSet(OfFile(h, e))
  BY HandlesFinite
<1>2. ASSUME h[f] # e, v # e
      PROVE  OfFile(k, e) = OfFile(h, e)
  BY <1>2 DEF OfFile
<1>3. ASSUME h[f] # e, v = e
      PROVE  OfFile(k, e) = OfFile(h, e) \cup {f} /\ f \notin OfFile(h, e)
  BY <1>3 DEF OfFile
<1>4. ASSUME h[f] = e, v # e
      PROVE  OfFile(k, e) = OfFile(h, e) \ {f} /\ f \in OfFile(h, e)
  BY <1>4 DEF OfFile
<1>5. /\ f \notin OfFile(h, e) =>
           Cardinality(OfFile(h, e) \cup {f}) = Cardinality(OfFile(h, e)) + 1
      /\ f \in OfFile(h, e) =>
           Cardinality(OfFile(h, e) \ {f}) = Cardinality(OfFile(h, e)) - 1
  BY <1>1, FS_AddElement, FS_RemoveElement
<1>. QED  BY <1>2, <1>3, <1>4, <1>5 DEF FileCounted

\* The entry that handle v of a directory uses.
EntryOf(v) == IF v = NULL THEN NULL ELSE v.entry

DirCounted(h, k, d, v, e) ==
  /\ EntryOf(h[d]) # e /\ EntryOf(v) # e =>
       Cardinality(OfDir(k, e)) = Cardinality(OfDir(h, e))
  /\ EntryOf(h[d]) = e /\ EntryOf(v) = e =>
       Cardinality(OfDir(k, e)) = Cardinality(OfDir(h, e))
  /\ EntryOf(h[d]) # e /\ EntryOf(v) = e =>
       Cardinality(OfDir(k, e)) = Cardinality(OfDir(h, e)) + 1
  /\ EntryOf(h[d]) = e /\ EntryOf(v) # e =>
       Cardinality(OfDir(k, e)) = Cardinality(OfDir(h, e)) - 1

\* The handles of each entry when one directory handle changes.
LEMMA DirCounts ==
  ASSUME NEW h \in [DD -> Handle \cup {NULL}], NEW d \in DD, NEW v \in Handle \cup {NULL},
         NEW k, k = [h EXCEPT ![d] = v], NEW e \in Entry
  PROVE  DirCounted(h, k, d, v, e)
<1>0. e # NULL
  BY RamFsAssumption
<1>1. IsFiniteSet(OfDir(h, e))
  BY HandlesFinite
<1>2. /\ \A x \in DD : x \in OfDir(h, e) <=> EntryOf(h[x]) = e
      /\ \A x \in DD : x \in OfDir(k, e) <=> EntryOf(k[x]) = e
      /\ OfDir(h, e) \subseteq DD /\ OfDir(k, e) \subseteq DD
      /\ k[d] = v /\ \A x \in DD : x # d => k[x] = h[x]
  BY <1>0 DEF OfDir, EntryOf
<1>3. ASSUME EntryOf(h[d]) = e <=> EntryOf(v) = e
      PROVE  OfDir(k, e) = OfDir(h, e)
  BY <1>2, <1>3
<1>4. ASSUME EntryOf(h[d]) # e, EntryOf(v) = e
      PROVE  OfDir(k, e) = OfDir(h, e) \cup {d} /\ d \notin OfDir(h, e)
  BY <1>2, <1>4
<1>5. ASSUME EntryOf(h[d]) = e, EntryOf(v) # e
      PROVE  OfDir(k, e) = OfDir(h, e) \ {d} /\ d \in OfDir(h, e)
  BY <1>2, <1>5
<1>6. /\ d \notin OfDir(h, e) =>
           Cardinality(OfDir(h, e) \cup {d}) = Cardinality(OfDir(h, e)) + 1
      /\ d \in OfDir(h, e) =>
           Cardinality(OfDir(h, e) \ {d}) = Cardinality(OfDir(h, e)) - 1
  BY <1>1, FS_AddElement, FS_RemoveElement
<1>. QED  BY <1>3, <1>4, <1>5, <1>6 DEF DirCounted

\* The entries stay, and new ones are not removed.
OnlyNew ==
  /\ \A x \in Alloc : info'[x] = info[x]
  /\ \A x \in Alloc' : info'[x].rm => x \in Alloc

\* add_reference for a new file handle.
LEMMA FileOpened ==
  ASSUME HandleInv, NEW f \in FD, fd[f] = NULL, NEW e \in Entry,
         fd' = [fd EXCEPT ![f] = e], AddReference(e), dd' = dd, leaked' = leaked,
         e \in Files', OnlyNew
  PROVE  HandleInv'
<1>1. uses' = [uses EXCEPT ![e] = @ + 1] /\ e # NULL
  BY RamFsAssumption DEF AddReference
<1>2. /\ uses' \in [Entry -> Nat] /\ fd' \in [FD -> Pointer]
      /\ dd' \in [DD -> Handle \cup {NULL}]
      /\ uses'[e] = uses[e] + 1 /\ uses[e] \in Nat
      /\ \A x \in Entry : x # e => uses'[x] = uses[x]
  BY <1>1 DEF HandleInv, CountInv, Pointer
<1>3. \A x \in Entry : uses'[x] = Cardinality(OfFile(fd', x)) + Cardinality(OfDir(dd, x))
                                   + Cardinality(OfLeak(x))
  <2>. TAKE x \in Entry
  <2>1. PICK k : k = fd'
    OBVIOUS
  <2>2. /\ uses[x] = Cardinality(OfFile(fd, x)) + Cardinality(OfDir(dd, x))
                       + Cardinality(OfLeak(x))
        /\ Cardinality(OfFile(fd, x)) \in Nat /\ Cardinality(OfDir(dd, x)) \in Nat
        /\ Cardinality(OfLeak(x)) \in Nat
    BY HandlesFinite, LeaksFinite DEF HandleInv, CountInv, Count
  <2>3. /\ e # x => Cardinality(OfFile(k, x)) = Cardinality(OfFile(fd, x))
        /\ e = x => Cardinality(OfFile(k, x)) = Cardinality(OfFile(fd, x)) + 1
    <3>1. fd[f] # x /\ k = [fd EXCEPT ![f] = e] /\ e \in Pointer /\ fd \in [FD -> Pointer]
      BY <2>1, RamFsAssumption DEF Pointer, HandleInv, CountInv
    <3>2. FileCounted(fd, k, f, e, x)
      BY <3>1, FileCounts
    <3>. QED  BY <3>1, <3>2 DEF FileCounted
  <2>. QED  BY <1>2, <2>1, <2>2, <2>3
<1>4. \A x \in Alloc : x \in Alloc' /\ (x \in Files => x \in Files') /\ (x \in Live => x \in Live')
  BY DEF OnlyNew, Alloc, Files, IsFile, Live
<1>5. \A x \in Alloc' : info'[x].rm => uses'[x] > 0
  <2>1. \A x \in Alloc : info[x].rm => uses'[x] > 0
    BY <1>2 DEF HandleInv, CountInv, Alloc
  <2>. QED  BY <2>1 DEF OnlyNew
<1>6. \A g \in FD : fd'[g] # NULL => fd'[g] \in Files'
  BY <1>4 DEF HandleInv, CountInv, Files
<1>7. \A d \in DD : dd[d] # NULL => /\ dd[d].entry \in Alloc' \cup {NULL}
                                    /\ dd[d].child \in Live' \cup {NULL}
  BY <1>4 DEF HandleInv, CountInv, Live
<1>8. \A x : OfFile(fd, x)' = OfFile(fd', x) /\ OfDir(dd, x)' = OfDir(dd, x)
             /\ OfLeak(x)' = OfLeak(x)
  BY DEF OfFile, OfDir, OfLeak
<1>9. \A x \in Entry : uses'[x] = Count(x)'
  BY <1>3, <1>8 DEF Count
<1>10. \A l \in Leak : leaked[l] # NULL => leaked[l] \in Alloc'
  BY <1>4 DEF HandleInv, CountInv
<1>. QED  BY <1>2, <1>5, <1>6, <1>7, <1>9, <1>10 DEF HandleInv, CountInv

\* A handle of a directory that goes from one entry to another of the same
\* directory, or that is opened on a directory.
LEMMA DirMoved ==
  ASSUME HandleInv, NEW d \in DD, NEW e \in Alloc \cup {NULL}, NEW c \in Live \cup {NULL},
         dd' = [dd EXCEPT ![d] = [entry |-> e, child |-> c]],
         \/ EntryOf(dd[d]) = e /\ uses' = uses
         \/ EntryOf(dd[d]) = NULL /\ e # NULL /\ AddReference(e),
         UNCHANGED <<info, leaked, fd>>
  PROVE  HandleInv'
<1>. DEFINE v == [entry |-> e, child |-> c]
<1>1. v \in Handle /\ v # NULL /\ EntryOf(v) = e /\ v.entry = e /\ v.child = c
  <2>1. v \in Handle
    BY DEF Handle, Pointer, Alloc, Live
  <2>2. v # NULL
    BY <2>1, RamFsAssumption
  <2>. QED  BY <2>1, <2>2 DEF EntryOf
<1>. HIDE DEF v
<1>2. dd' = [dd EXCEPT ![d] = v] /\ dd \in [DD -> Handle \cup {NULL}]
  BY DEF v, HandleInv, CountInv
<1>3. /\ uses' \in [Entry -> Nat] /\ dd' \in [DD -> Handle \cup {NULL}] /\ fd' \in [FD -> Pointer]
      /\ \A x \in Entry : uses[x] \in Nat
      /\ \A x \in Entry : uses'[x] = IF x = e /\ EntryOf(dd[d]) # e THEN uses[x] + 1 ELSE uses[x]
  BY <1>1, <1>2 DEF HandleInv, CountInv, AddReference, Alloc
<1>4. \A x \in Entry : uses'[x] = Cardinality(OfFile(fd, x)) + Cardinality(OfDir(dd', x))
                                   + Cardinality(OfLeak(x))
  <2>. TAKE x \in Entry
  <2>1. PICK k : k = dd'
    OBVIOUS
  <2>2. /\ uses[x] = Cardinality(OfFile(fd, x)) + Cardinality(OfDir(dd, x))
                       + Cardinality(OfLeak(x))
        /\ Cardinality(OfFile(fd, x)) \in Nat /\ Cardinality(OfDir(dd, x)) \in Nat
        /\ Cardinality(OfLeak(x)) \in Nat
    BY HandlesFinite, LeaksFinite DEF HandleInv, CountInv, Count
  <2>3. x # NULL
    BY RamFsAssumption
  <2>4. /\ EntryOf(dd[d]) # x /\ e # x =>
             Cardinality(OfDir(k, x)) = Cardinality(OfDir(dd, x))
        /\ EntryOf(dd[d]) = x /\ e = x =>
             Cardinality(OfDir(k, x)) = Cardinality(OfDir(dd, x))
        /\ EntryOf(dd[d]) # x /\ e = x =>
             Cardinality(OfDir(k, x)) = Cardinality(OfDir(dd, x)) + 1
    <3>1. DirCounted(dd, k, d, v, x)
      BY <1>1, <1>2, <2>1, DirCounts
    <3>. QED  BY <1>1, <3>1 DEF DirCounted
  <2>5. ~ (EntryOf(dd[d]) = x /\ e # x)
    BY <2>3
  <2>. QED  BY <1>3, <2>1, <2>2, <2>4, <2>5
<1>5. Alloc' = Alloc /\ Files' = Files /\ Live' = Live
  BY DEF Alloc, Files, IsFile, Live
<1>6. \A x \in Alloc : info[x].rm => uses'[x] > 0
  BY <1>3 DEF HandleInv, CountInv, Alloc
<1>7. \A b \in DD : dd'[b] # NULL => /\ dd'[b].entry \in Alloc \cup {NULL}
                                     /\ dd'[b].child \in Live \cup {NULL}
  BY <1>1, <1>2 DEF HandleInv, CountInv
<1>8. \A x : OfFile(fd, x)' = OfFile(fd, x) /\ OfDir(dd, x)' = OfDir(dd', x)
             /\ OfLeak(x)' = OfLeak(x)
  BY DEF OfFile, OfDir, OfLeak
<1>9. \A f \in FD : fd'[f] # NULL => fd'[f] \in Files
  BY DEF HandleInv, CountInv
<1>10. \A x \in Entry : uses'[x] = Count(x)'
  BY <1>4, <1>8 DEF Count
<1>11. \A l \in Leak : leaked[l] # NULL => leaked[l] \in Alloc
  BY DEF HandleInv, CountInv
<1>. QED  BY <1>3, <1>5, <1>6, <1>7, <1>9, <1>10, <1>11 DEF HandleInv, CountInv

\* remove_reference: the count of e goes down; what has no handle left and is
\* marked is freed, everything else stays.
Released(e) ==
  /\ uses' \in [Entry -> Nat]
  /\ uses'[e] = uses[e] - 1 /\ \A x \in Entry : x # e => uses'[x] = uses[x]
  /\ Live' = Live
  /\ \A x \in Alloc : uses'[x] > 0 => x \in Alloc'
  /\ \A x \in Alloc' : x \in Alloc /\ info'[x] = info[x] /\ (info[x].rm => uses'[x] > 0)

\* remove_reference keeps the tree and the space: what it frees is not in the tree.
LEMMA RemoveReferenceSpace ==
  ASSUME TreeInv, SpaceInv, HandleInv, NEW e \in Alloc, uses[e] > 0,
         RemoveReference(e), lost' = lost
  PROVE  /\ Released(e)
         /\ SpaceInv' /\ used' <= used
         /\ info' \in [Entry -> Info \cup {NULL}] /\ TreeInv'
         /\ Kept /\ \A x \in Live : info'[x] = info[x] /\ blocks'[x] = blocks[x]
<1>0. /\ info \in [Entry -> Info \cup {NULL}] /\ links \in Links
      /\ e \in Entry /\ e # NULL /\ used \in Int
  <2>1. info \in [Entry -> Info \cup {NULL}] /\ links \in Links
    BY DEF TreeInv, Grown
  <2>2. e \in Entry /\ e # NULL
    BY RamFsAssumption DEF Alloc
  <2>3. used = lost + Cardinality(Alloc) + Cardinality(Files) + Cardinality(UnionOf(blocks))
    BY DEF SpaceInv
  <2>4. lost \in Nat /\ Cardinality(Alloc) \in Nat /\ Cardinality(Files) \in Nat
        /\ Cardinality(UnionOf(blocks)) \in Nat
    BY SpaceFinite DEF SpaceInv
  <2>5. used \in Int
    BY <2>3, <2>4
  <2>. QED  BY <2>1, <2>2, <2>5
<1>1. /\ uses' = [uses EXCEPT ![e] = @ - 1]
      /\ IF uses[e] = 1 /\ info[e].rm THEN Drop(links, e, IsFile(e), FALSE)
         ELSE UNCHANGED <<info, links, blocks, used>>
  BY <1>0 DEF RemoveReference
<1>2. /\ uses' \in [Entry -> Nat] /\ uses[e] \in Nat
      /\ uses'[e] = uses[e] - 1 /\ \A x \in Entry : x # e => uses'[x] = uses[x]
  BY <1>0, <1>1 DEF HandleInv, CountInv
<1>3. CASE uses[e] = 1 /\ info[e].rm
  <2>1. PICK whole : whole = IsFile(e)
    OBVIOUS
  <2>2. Drop(links, e, whole, FALSE) /\ whole \in BOOLEAN
    BY <1>1, <1>3, <2>1 DEF IsFile
  <2>3. /\ info' \in [Entry -> Info \cup {NULL}]
        /\ \A x \in Entry : x # e => info'[x] = info[x]
        /\ Live' = Live \ {e} /\ Alloc' = Alloc \ {e} /\ links' = Wiped(links, e)
    BY <1>0, <2>2, DropEffect
  <2>4. SpaceInv' /\ used' <= used
    BY <1>0, <2>1, <2>2, DropSpace
  <2>5. e \notin Live
    BY <1>3 DEF Live
  <2>6. Live' = Live
    BY <2>3, <2>5
  <2>7. links' \in Links /\ links'.next[e] = NULL /\ links'.child[e] = NULL
        /\ \A x \in Pointer : x # e => /\ links'.next[x] = links.next[x]
                                       /\ links'.child[x] = links.child[x]
    BY <1>0, <2>3 DEF Links, Wiped, Pointer
  <2>8. Clean'
    BY <2>3, <2>7 DEF TreeInv, Clean, Pointer
  <2>9. TreeInv' /\ Kept
    <3>1. \A x \in Live : info'[x] = info[x]
      BY <2>3, <2>5 DEF Live, Alloc
    <3>2. \A x \in Live \cup {NULL} : /\ links'.next[x] = links.next[x]
                                      /\ links'.child[x] = links.child[x]
      BY <1>0, <2>5, <2>7 DEF Live, Alloc, Pointer
    <3>. QED  BY <2>3, <2>6, <2>7, <2>8, <3>1, <3>2, OutsideTree
  <2>10. Released(e)
    <3>1. uses'[e] = 0
      BY <1>2, <1>3
    <3>2. \A x \in Alloc : uses'[x] > 0 => x \in Alloc'
      BY <2>3, <3>1
    <3>3. \A x \in Alloc' : x \in Alloc /\ x # e /\ info'[x] = info[x] /\ uses'[x] = uses[x]
      BY <1>2, <2>3 DEF Alloc
    <3>4. \A x \in Alloc' : info[x].rm => uses'[x] > 0
      BY <3>3 DEF HandleInv, CountInv
    <3>. QED  BY <1>2, <2>6, <3>2, <3>3, <3>4 DEF Released
  <2>11. \A x \in Live : info'[x] = info[x] /\ blocks'[x] = blocks[x]
    <3>1. blocks' = [blocks EXCEPT ![e] = {}] /\ blocks \in [Entry -> SUBSET Block]
      BY <2>2 DEF Drop, SpaceInv
    <3>. QED  BY <2>3, <2>5, <3>1 DEF Live, Alloc
  <2>. QED  BY <2>3, <2>4, <2>9, <2>10, <2>11
<1>4. CASE ~ (uses[e] = 1 /\ info[e].rm)
  <2>1. UNCHANGED <<info, links, blocks, used>>
    BY <1>1, <1>4
  <2>2. Alloc' = Alloc /\ Live' = Live /\ Files' = Files
    BY <2>1 DEF Alloc, Live, Files, IsFile
  <2>3. TreeInv' /\ Kept
    BY <2>1, <2>2 DEF TreeInv, Clean, Grown, Kept
  <2>4. SpaceInv'
    BY <2>1, <2>2 DEF SpaceInv, UnionOf, Apart
  <2>5. \A x \in Alloc : info[x].rm => uses'[x] > 0
    BY <1>2, <1>4 DEF HandleInv, CountInv, Alloc
  <2>6. Released(e)
    BY <1>2, <2>1, <2>2, <2>5 DEF Released
  <2>. QED  BY <1>0, <2>1, <2>3, <2>4, <2>6
<1>. QED  BY <1>3, <1>4

\* A handle of what it has is counted.
LEMMA Counted ==
  \A h, e : /\ \A f \in OfFile(h, e) : Cardinality(OfFile(h, e)) > 0
            /\ \A d \in OfDir(h, e) : Cardinality(OfDir(h, e)) > 0
            /\ \A l \in OfLeak(e) : Cardinality(OfLeak(e)) > 0
<1>. TAKE h, e
<1>1. /\ IsFiniteSet(OfFile(h, e)) /\ Cardinality(OfFile(h, e)) \in Nat
      /\ IsFiniteSet(OfDir(h, e)) /\ Cardinality(OfDir(h, e)) \in Nat
      /\ IsFiniteSet(OfLeak(e)) /\ Cardinality(OfLeak(e)) \in Nat
  BY HandlesFinite, LeaksFinite
<1>2. \A S : IsFiniteSet(S) => (Cardinality(S) = 0 <=> S = {})
  BY FS_EmptySet
<1>. QED  BY <1>1, <1>2

\* Closing handles keeps the invariant, if they are counted.
LEMMA HandlesReleased ==
  ASSUME HandleInv, NEW e, Released(e),
         fd' \in [FD -> Pointer], dd' \in [DD -> Handle \cup {NULL}],
         \A f \in FD : fd'[f] = fd[f] \/ fd'[f] = NULL,
         \A d \in DD : dd'[d] = dd[d] \/ dd'[d] = NULL,
         leaked' = leaked,
         \A x \in Entry : uses'[x] = Cardinality(OfFile(fd', x)) + Cardinality(OfDir(dd', x))
                                     + Cardinality(OfLeak(x))
  PROVE  HandleInv'
<1>1. \A x : /\ Cardinality(OfFile(fd', x)) \in Nat /\ Cardinality(OfDir(dd', x)) \in Nat
             /\ \A f \in OfFile(fd', x) : Cardinality(OfFile(fd', x)) > 0
             /\ \A d \in OfDir(dd', x) : Cardinality(OfDir(dd', x)) > 0
             /\ Cardinality(OfLeak(x)) \in Nat
             /\ \A l \in OfLeak(x) : Cardinality(OfLeak(x)) > 0
  BY HandlesFinite, LeaksFinite, Counted
<1>2. ASSUME NEW f \in FD, fd'[f] # NULL
      PROVE  fd'[f] \in Files'
  <2>1. fd'[f] = fd[f] /\ fd[f] \in Files /\ fd[f] \in Entry /\ fd[f] \in Alloc
    BY <1>2 DEF HandleInv, CountInv, Files, Alloc
  <2>2. f \in OfFile(fd', fd[f])
    BY <2>1 DEF OfFile
  <2>3. uses'[fd[f]] > 0
    BY <1>1, <2>1, <2>2
  <2>4. fd[f] \in Alloc' /\ info'[fd[f]] = info[fd[f]]
    BY <2>1, <2>3 DEF Released
  <2>. QED  BY <2>1, <2>4 DEF Files, IsFile
<1>3. ASSUME NEW d \in DD, dd'[d] # NULL
      PROVE  dd'[d].entry \in Alloc' \cup {NULL} /\ dd'[d].child \in Live' \cup {NULL}
  <2>1. /\ dd'[d] = dd[d] /\ dd[d].entry \in Alloc \cup {NULL}
        /\ dd[d].child \in Live \cup {NULL}
    BY <1>3 DEF HandleInv, CountInv
  <2>2. CASE dd[d].entry # NULL
    <3>1. d \in OfDir(dd', dd[d].entry)
      BY <1>3, <2>1 DEF OfDir
    <3>2. dd[d].entry \in Entry /\ uses'[dd[d].entry] > 0
      BY <1>1, <2>1, <2>2, <3>1 DEF Alloc
    <3>. QED  BY <2>1, <3>2 DEF Released
  <2>. QED  BY <2>1, <2>2 DEF Released
<1>4. \A x : /\ OfFile(fd, x)' = OfFile(fd', x) /\ OfDir(dd, x)' = OfDir(dd', x)
             /\ OfLeak(x)' = OfLeak(x)
  BY DEF OfFile, OfDir, OfLeak
<1>5. \A x \in Alloc' : info'[x].rm => uses'[x] > 0
  BY DEF Released
<1>6. ASSUME NEW l \in Leak, leaked[l] # NULL
      PROVE  leaked[l] \in Alloc'
  <2>1. leaked[l] \in Alloc /\ leaked[l] \in Entry
    BY <1>6 DEF HandleInv, CountInv, Alloc
  <2>2. l \in OfLeak(leaked[l])
    BY DEF OfLeak
  <2>3. uses'[leaked[l]] > 0
    BY <1>1, <2>1, <2>2
  <2>. QED  BY <2>1, <2>3 DEF Released
<1>7. \A x \in Entry : uses'[x] = Count(x)'
  BY <1>4 DEF Count
<1>. QED  BY <1>2, <1>3, <1>5, <1>6, <1>7 DEF HandleInv, CountInv, Released

\* The handles after ramfs_file_close.
LEMMA FileClosed ==
  ASSUME HandleInv, NEW f \in FD, fd[f] # NULL, Released(fd[f]),
         fd' = [fd EXCEPT ![f] = NULL], dd' = dd, leaked' = leaked
  PROVE  HandleInv'
<1>1. /\ fd' \in [FD -> Pointer] /\ dd' \in [DD -> Handle \cup {NULL}]
      /\ \A g \in FD : fd'[g] = fd[g] \/ fd'[g] = NULL
      /\ fd \in [FD -> Pointer] /\ NULL \in Pointer
  BY DEF HandleInv, CountInv, Pointer
<1>2. ASSUME NEW x \in Entry
      PROVE  uses'[x] = Cardinality(OfFile(fd', x)) + Cardinality(OfDir(dd', x))
                        + Cardinality(OfLeak(x))
  <2>1. PICK k : k = fd'
    OBVIOUS
  <2>2. /\ uses[x] = Cardinality(OfFile(fd, x)) + Cardinality(OfDir(dd, x))
                       + Cardinality(OfLeak(x))
        /\ Cardinality(OfFile(fd, x)) \in Nat /\ Cardinality(OfDir(dd, x)) \in Nat
        /\ Cardinality(OfLeak(x)) \in Nat
    BY HandlesFinite, LeaksFinite DEF HandleInv, CountInv, Count
  <2>3. FileCounted(fd, k, f, NULL, x)
    BY <1>1, <2>1, FileCounts
  <2>4. x # NULL
    BY RamFsAssumption
  <2>5. /\ fd[f] # x => Cardinality(OfFile(k, x)) = Cardinality(OfFile(fd, x))
        /\ fd[f] = x => Cardinality(OfFile(k, x)) = Cardinality(OfFile(fd, x)) - 1
    BY <2>3, <2>4 DEF FileCounted
  <2>6. uses'[x] = IF fd[f] = x THEN uses[x] - 1 ELSE uses[x]
    BY DEF Released
  <2>. QED  BY <2>1, <2>2, <2>5, <2>6
<1>. QED  BY <1>1, <1>2, HandlesReleased

\* The handles after ramfs_dir_close.
LEMMA DirClosed ==
  ASSUME HandleInv, NEW d \in DD, dd[d] # NULL, dd[d].entry # NULL, Released(dd[d].entry),
         dd' = [dd EXCEPT ![d] = NULL], fd' = fd, leaked' = leaked
  PROVE  HandleInv'
<1>1. /\ fd' \in [FD -> Pointer] /\ dd' \in [DD -> Handle \cup {NULL}]
      /\ \A b \in DD : dd'[b] = dd[b] \/ dd'[b] = NULL
      /\ dd \in [DD -> Handle \cup {NULL}]
      /\ NULL \in Handle \cup {NULL}
  BY DEF HandleInv, CountInv
<1>2. ASSUME NEW x \in Entry
      PROVE  uses'[x] = Cardinality(OfFile(fd', x)) + Cardinality(OfDir(dd', x))
                        + Cardinality(OfLeak(x))
  <2>1. PICK k : k = dd'
    OBVIOUS
  <2>2. /\ uses[x] = Cardinality(OfFile(fd, x)) + Cardinality(OfDir(dd, x))
                       + Cardinality(OfLeak(x))
        /\ Cardinality(OfFile(fd, x)) \in Nat /\ Cardinality(OfDir(dd, x)) \in Nat
        /\ Cardinality(OfLeak(x)) \in Nat
    BY HandlesFinite, LeaksFinite DEF HandleInv, CountInv, Count
  <2>3. DirCounted(dd, k, d, NULL, x)
    BY <1>1, <2>1, DirCounts
  <2>4. x # NULL /\ EntryOf(NULL) # x /\ EntryOf(dd[d]) = dd[d].entry
    BY RamFsAssumption DEF EntryOf
  <2>5. /\ dd[d].entry # x => Cardinality(OfDir(k, x)) = Cardinality(OfDir(dd, x))
        /\ dd[d].entry = x => Cardinality(OfDir(k, x)) = Cardinality(OfDir(dd, x)) - 1
    BY <2>3, <2>4 DEF DirCounted
  <2>6. uses'[x] = IF dd[d].entry = x THEN uses[x] - 1 ELSE uses[x]
    BY DEF Released
  <2>. QED  BY <2>1, <2>2, <2>5, <2>6
<1>. QED  BY <1>1, <1>2, HandlesReleased

-----------------------------------------------------------------------------
(* The inductive invariant.                                                *)

\* While ramfs_umount runs on directories of the root that hold no full one: what
\* is on the stack is there, each of it once, and what is in it, one apart from
\* the other; everything else that is left is in use.
Unmounting ==
  /\ \A i \in DOMAIN stack : stack[i] \in Alloc /\ Chain(stack[i]) \subseteq Alloc
  /\ \A i, j \in DOMAIN stack : stack[i] = stack[j] => i = j
  /\ \A e \in Alloc : \/ uses[e] > 0
                      \/ \E i \in DOMAIN stack : e = stack[i] \/ e \in Chain(stack[i])
  /\ \A i, j \in DOMAIN stack : stack[i] \notin Chain(stack[j])
  /\ \A i, j \in DOMAIN stack : i # j => Chain(stack[i]) \cap Chain(stack[j]) = {}
  /\ \A i \in DOMAIN stack : \A c \in Chain(stack[i]) : links.child[c] = NULL

\* While it runs on others: one that is on the stack holds a directory that is
\* not empty, or was not.
Returning ==
  \E i \in DOMAIN stack : /\ stack[i] \in Entry
                          /\ \E c \in Chain(stack[i]) : /\ links.child[c] # NULL
                                                        /\ c \in Alloc => ~IsFile(c)

\* At first the tree is as it was.
UmountInv ==
  \/ stack = <<NULL>> /\ TreeInv
  \/ ~Nested /\ Unmounting
  \/ Nested /\ Returning

Inv ==
  /\ info \in [Entry -> Info \cup {NULL}]
  /\ links \in Links
  /\ used <= Size
  /\ stack = NULL \/ stack \in Seq(Pointer)
  /\ CountInv
  /\ SpaceInv
  /\ Idle => TreeInv /\ HandleInv
  /\ ~Idle => UmountInv

\* The invariant when ramfs_umount does not run.
LEMMA IdleInv ==
  ASSUME Idle', TreeInv', HandleInv', SpaceInv', (used <= Size)'
  PROVE  Inv'
  BY DEF Inv, TreeInv, Grown, Idle, HandleInv

\* The space is an integer, within fs->size.
LEMMA UsedInt == Inv => used \in Nat /\ lost \in Nat /\ lost <= used /\ Size \in Nat
<1>. SUFFICES ASSUME Inv
              PROVE  used \in Nat /\ lost \in Nat /\ lost <= used /\ Size \in Nat
  OBVIOUS
<1>1. used = lost + Cardinality(Alloc) + Cardinality(Files) + Cardinality(UnionOf(blocks))
  BY DEF Inv, SpaceInv
<1>2. lost \in Nat /\ Cardinality(Alloc) \in Nat /\ Cardinality(Files) \in Nat
      /\ Cardinality(UnionOf(blocks)) \in Nat
  BY SpaceFinite DEF Inv, SpaceInv
<1>. QED  BY <1>1, <1>2, RamFsAssumption

\* The tree of an idle file system.
LEMMA IdleTree ==
  ASSUME Inv, Idle
  PROVE  /\ TreeInv /\ HandleInv /\ SpaceInv /\ used <= Size
         /\ info \in [Entry -> Info \cup {NULL}] /\ links \in Links
         /\ \E P, s, D, N : Grown(P, s, D, N)
  BY DEF Inv, TreeInv

\* The tree does not depend on the other variables.
LEMMA SameTree ==
  ASSUME TreeInv, UNCHANGED <<info, links>>
  PROVE  TreeInv' /\ Alloc' = Alloc /\ Live' = Live /\ Files' = Files
<1>1. Alloc' = Alloc /\ Live' = Live /\ Files' = Files
  BY DEF Alloc, Live, Files, IsFile
<1>. QED  BY <1>1 DEF TreeInv, Clean, Grown

\* Nor does the space depend on the links.
LEMMA SameSpace ==
  ASSUME SpaceInv, UNCHANGED <<info, blocks, lost, used>>
  PROVE  SpaceInv'
<1>1. Alloc' = Alloc /\ Files' = Files
  BY DEF Alloc, Files, IsFile
<1>. QED  BY <1>1 DEF SpaceInv, UnionOf, Apart

-----------------------------------------------------------------------------
(* The calls that make entries and handles.                                *)

\* No handle leads to the entry that add_entry makes.
LEMMA AddEntryHandles ==
  ASSUME HandleInv, info \in [Entry -> Info \cup {NULL}],
         NEW e \in Entry, NEW p \in Path, NEW type \in {"dir", "file"}, AddEntry(e, p, type)
  PROVE  /\ OnlyNew /\ e \in Alloc' /\ info'[e].type = type
         /\ UNCHANGED <<uses, leaked, fd, dd>> => HandleInv'
<1>1. /\ e \notin Alloc /\ info'[e].type = type
      /\ ~info'[e].rm
      /\ \A x \in Entry : x # e => info'[x] = info[x]
      /\ Alloc' = Alloc \cup {e}
      /\ Live' = Live \cup {e}
  BY AddEntryEffect
<1>2. OnlyNew /\ e \in Alloc'
  BY <1>1 DEF OnlyNew, Alloc
<1>3. ASSUME UNCHANGED <<uses, leaked, fd, dd>>
      PROVE  HandleInv'
  <2>1. \A x \in Alloc : uses[x] > 0 => info'[x] # NULL /\ info'[x].type = info[x].type
    BY <1>2 DEF OnlyNew, Alloc
  <2>2. \A x \in Alloc' : info'[x].rm => uses[x] > 0
    BY <1>2 DEF OnlyNew, HandleInv, CountInv
  <2>3. \A d \in DD : dd[d] # NULL /\ dd[d].child # NULL => dd[d].child \in Live'
    BY <1>1 DEF HandleInv, CountInv
  <2>. QED  BY <1>3, <2>1, <2>2, <2>3, HandlesKept
<1>. QED  BY <1>1, <1>2, <1>3

\* ramfs_mkdir, and ramfs_file_open when the new file gets no reference.
LEMMA AddEntryInv ==
  ASSUME Inv, Idle, NEW e \in Entry, NEW p \in Path, NEW type \in {"dir", "file"},
         AddEntry(e, p, type), UNCHANGED <<blocks, lost, uses, leaked, fd, dd, stack>>
  PROVE  Inv'
<1>1. TreeInv /\ HandleInv /\ SpaceInv /\ info \in [Entry -> Info \cup {NULL}]
  BY IdleTree
<1>2. TreeInv'
  BY <1>1, AddEntryTree
<1>3. HandleInv'
  BY <1>1, AddEntryHandles
<1>4. SpaceInv' /\ used' <= Size
  BY <1>1, AddEntrySpace
<1>5. Idle'
  BY DEF Idle
<1>. QED  BY <1>2, <1>3, <1>4, <1>5, IdleInv

\* ramfs_file_open of a new file.
LEMMA FileCreateInv ==
  ASSUME Inv, NEW p \in Path, NEW f \in FD, FileCreate(p, f)
  PROVE  Inv'
<1>1. TreeInv /\ HandleInv /\ SpaceInv /\ info \in [Entry -> Info \cup {NULL}]
  BY IdleTree DEF FileCreate
<1>2. PICK e \in Entry : /\ AddEntry(e, p, "file") /\ AddReference(e)
                         /\ fd' = [fd EXCEPT ![f] = e]
  BY DEF FileCreate
<1>3. /\ UNCHANGED <<blocks, lost, leaked, dd, stack>> /\ Idle /\ fd[f] = NULL
  BY DEF FileCreate
<1>4. PICK type \in {"dir", "file"} : type = "file"
  OBVIOUS
<1>5. AddEntry(e, p, type)
  BY <1>2, <1>4
<1>6. TreeInv'
  BY <1>1, <1>5, AddEntryTree
<1>7. OnlyNew /\ e \in Alloc' /\ info'[e].type = type
  BY <1>1, <1>5, AddEntryHandles
<1>8. e \in Files'
  BY <1>4, <1>7 DEF Files, IsFile
<1>9. HandleInv'
  BY <1>1, <1>2, <1>3, <1>7, <1>8, FileOpened
<1>10. SpaceInv' /\ used' <= Size
  BY <1>1, <1>3, <1>5, AddEntrySpace
<1>11. Idle'
  BY <1>3 DEF Idle
<1>. QED  BY <1>6, <1>9, <1>10, <1>11, IdleInv

\* ramfs_file_open of a file that is there, truncated or not.
LEMMA FileOpenInv ==
  ASSUME Inv, NEW p \in Path, NEW f \in FD, FileOpen(p, f)
  PROVE  Inv'
<1>1. /\ TreeInv /\ HandleInv /\ SpaceInv /\ info \in [Entry -> Info \cup {NULL}]
      /\ used <= Size
  BY IdleTree DEF FileOpen
<1>2. PICK P, s, D, N : Grown(P, s, D, N)
  BY <1>1 DEF TreeInv
<1>3. PICK e : e = Traverse(p).entry
  OBVIOUS
<1>4. /\ Idle /\ fd[f] = NULL /\ Traverse(p).ret = "ok" /\ IsFile(e) /\ AddReference(e)
      /\ fd' = [fd EXCEPT ![f] = e]
      /\ UNCHANGED <<info, links, lost, leaked, dd, stack>>
      /\ \E B \in SUBSET blocks[e] : SetBlocks(e, B)
  BY <1>3 DEF FileOpen
<1>5. e \in Live /\ e \in Files /\ e \in Entry
  <2>1. e \in Live
    BY <1>2, <1>3, <1>4, TraverseEntry
  <2>. QED  BY <1>4, <2>1 DEF Live, Files, Alloc
<1>6. PICK B \in SUBSET blocks[e] : SetBlocks(e, B)
  BY <1>4
<1>7. TreeInv' /\ Alloc' = Alloc /\ Files' = Files
  BY <1>1, <1>4, SameTree
<1>8. SpaceInv' /\ used' <= used
  <2>1. B \in SUBSET Block /\ \A g \in Entry : g # e => B \cap blocks[g] = {}
    BY <1>1, <1>5, <1>6 DEF SpaceInv, Apart
  <2>2. Cardinality(B) <= Cardinality(blocks[e])
    BY <1>1, <1>5, <1>6, SpaceFinite, FS_Subset DEF SpaceInv
  <2>. QED  BY <1>1, <1>4, <1>5, <1>6, <2>1, <2>2, SetBlocksSpace
<1>9. HandleInv'
  <2>1. OnlyNew
    BY <1>4, <1>7 DEF OnlyNew
  <2>. QED  BY <1>1, <1>4, <1>5, <1>7, <2>1, FileOpened
<1>10. used' <= Size
  <2>1. used \in Nat /\ Size \in Nat
    BY UsedInt
  <2>2. used' \in Int
    <3>1. Cardinality(B) \in Nat /\ Cardinality(blocks[e]) \in Nat
      BY <1>1, <1>5, <1>6, SpaceFinite, FS_Subset, FS_CardinalityType DEF SpaceInv
    <3>. QED  BY <1>6, <2>1, <3>1 DEF SetBlocks
  <2>. QED  BY <1>1, <1>8, <2>1, <2>2
<1>11. Idle'
  BY <1>4 DEF Idle
<1>. QED  BY <1>7, <1>8, <1>9, <1>10, <1>11, IdleInv

\* The blocks of an open file change.
LEMMA SetBlocksInv ==
  ASSUME Inv, Idle, NEW e \in Files, NEW B \in SUBSET Block, SetBlocks(e, B),
         \A g \in Entry : g # e => B \cap blocks[g] = {},
         used' <= Size, UNCHANGED <<info, links, lost, uses, leaked, fd, dd, stack>>
  PROVE  Inv'
<1>1. TreeInv /\ HandleInv /\ SpaceInv
  BY IdleTree
<1>2. TreeInv' /\ Alloc' = Alloc /\ Files' = Files /\ Live' = Live
  BY <1>1, SameTree
<1>3. SpaceInv'
  BY <1>1, SetBlocksSpace
<1>4. HandleInv'
  <2>1. \A x \in Entry : Count(x)' = Count(x)
    BY DEF Count, OfFile, OfDir, OfLeak
  <2>. QED  BY <1>1, <1>2, <2>1 DEF HandleInv, CountInv
<1>5. Idle'
  BY DEF Idle
<1>. QED  BY <1>2, <1>3, <1>4, <1>5, IdleInv

\* ramfs_file_write, and ramfs_file_truncate to a larger size.
LEMMA FileGrowInv ==
  ASSUME Inv, NEW f \in FD, FileGrow(f)
  PROVE  Inv'
<1>1. PICK e : e = fd[f]
  OBVIOUS
<1>2. /\ Idle /\ e # NULL /\ UNCHANGED <<info, links, lost, uses, leaked, fd, dd, stack>>
  BY <1>1 DEF FileGrow
<1>3. PICK B \in SUBSET (Block \ BlocksOf(Entry)) :
        used + Cardinality(B) <= Size /\ SetBlocks(e, blocks[e] \cup B)
  BY <1>1 DEF FileGrow
<1>4. e \in Files /\ e \in Entry
  BY <1>1, <1>2 DEF Inv, HandleInv, CountInv, Files, Alloc
<1>5. PICK C : C = blocks[e] \cup B
  OBVIOUS
<1>6. C \in SUBSET Block /\ \A g \in Entry : g # e => C \cap blocks[g] = {}
  BY <1>3, <1>4, <1>5 DEF Inv, SpaceInv, Apart, BlocksOf
<1>7. used' <= Size
  <2>1. /\ IsFiniteSet(B) /\ IsFiniteSet(blocks[e])
        /\ B \cap blocks[e] = {} /\ blocks[e] \cap B = {}
    <3>1. B \subseteq Block
      OBVIOUS
    <3>2. IsFiniteSet(B)
      BY <3>1, FS_Subset, RamFsAssumption
    <3>3. IsFiniteSet(blocks[e])
      BY <1>4, SpaceFinite DEF Inv, SpaceInv
    <3>. QED  BY <1>4, <3>2, <3>3 DEF BlocksOf
  <2>2. Cardinality(C) = Cardinality(blocks[e]) + Cardinality(B) - Cardinality({})
    BY <1>5, <2>1, FS_Union
  <2>3. Cardinality(B) \in Nat /\ Cardinality(blocks[e]) \in Nat /\ Cardinality({}) = 0
    BY <2>1, FS_CardinalityType, FS_EmptySet
  <2>4. used' = used + Cardinality(C) - Cardinality(blocks[e])
    BY <1>3, <1>5 DEF SetBlocks
  <2>5. used \in Nat /\ Size \in Nat
    BY UsedInt
  <2>. QED  BY <1>3, <2>2, <2>3, <2>4, <2>5
<1>8. SetBlocks(e, C)
  BY <1>3, <1>5
<1>. QED  BY <1>2, <1>4, <1>6, <1>7, <1>8, SetBlocksInv

\* ramfs_file_truncate to a smaller size.
LEMMA FileShrinkInv ==
  ASSUME Inv, NEW f \in FD, FileShrink(f)
  PROVE  Inv'
<1>1. PICK e : e = fd[f]
  OBVIOUS
<1>2. /\ Idle /\ e # NULL /\ UNCHANGED <<info, links, lost, uses, leaked, fd, dd, stack>>
  BY <1>1 DEF FileShrink
<1>3. PICK B \in SUBSET blocks[e] : SetBlocks(e, B)
  BY <1>1 DEF FileShrink
<1>4. e \in Files /\ e \in Entry
  BY <1>1, <1>2 DEF Inv, HandleInv, CountInv, Files, Alloc
<1>5. B \in SUBSET Block /\ \A g \in Entry : g # e => B \cap blocks[g] = {}
  BY <1>3, <1>4 DEF Inv, SpaceInv, Apart
<1>6. used' <= Size
  <2>1. IsFiniteSet(blocks[e])
    BY <1>4, SpaceFinite DEF Inv, SpaceInv
  <2>2. /\ Cardinality(B) <= Cardinality(blocks[e]) /\ Cardinality(B) \in Nat
        /\ Cardinality(blocks[e]) \in Nat
    BY <1>3, <2>1, FS_Subset, FS_CardinalityType
  <2>3. used' = used + Cardinality(B) - Cardinality(blocks[e])
    BY <1>3 DEF SetBlocks
  <2>4. used \in Nat /\ Size \in Nat /\ used <= Size
    BY UsedInt DEF Inv
  <2>. QED  BY <2>2, <2>3, <2>4
<1>. QED  BY <1>2, <1>3, <1>4, <1>5, <1>6, SetBlocksInv

\* What is used after something was freed is within the size.
LEMMA StillFits ==
  ASSUME Inv, SpaceInv', used' <= used
  PROVE  used' <= Size
<1>1. used' \in Int
  <2>1. used' = lost' + Cardinality(Alloc') + Cardinality(Files') + Cardinality(UnionOf(blocks)')
    BY DEF SpaceInv
  <2>2. /\ Alloc' \subseteq Entry /\ Files' \subseteq Entry /\ UnionOf(blocks)' \subseteq Block
        /\ lost' \in Nat
    BY DEF SpaceInv, Alloc, Files, UnionOf
  <2>3. /\ Cardinality(Alloc') \in Nat /\ Cardinality(Files') \in Nat
        /\ Cardinality(UnionOf(blocks)') \in Nat
    BY <2>2, FS_Subset, FS_CardinalityType, RamFsAssumption
  <2>. QED  BY <2>1, <2>2, <2>3
<1>2. used \in Nat /\ Size \in Nat /\ used <= Size
  BY UsedInt DEF Inv
<1>. QED  BY <1>1, <1>2

\* ramfs_file_close, which may free a removed file.
LEMMA FileCloseInv ==
  ASSUME Inv, NEW f \in FD, FileClose(f)
  PROVE  Inv'
<1>1. PICK e : e = fd[f]
  OBVIOUS
<1>2. /\ Idle /\ e # NULL /\ RemoveReference(e) /\ fd' = [fd EXCEPT ![f] = NULL]
      /\ UNCHANGED <<lost, leaked, dd, stack>>
  BY <1>1 DEF FileClose
<1>3. TreeInv /\ HandleInv /\ SpaceInv
  BY <1>2, IdleTree
<1>4. e \in Alloc /\ uses[e] > 0
  BY <1>1, <1>2, <1>3, HandleCounts DEF HandleInv, CountInv, Files
<1>5. Released(e) /\ SpaceInv' /\ used' <= used /\ TreeInv'
  BY <1>2, <1>3, <1>4, RemoveReferenceSpace
<1>6. HandleInv'
  BY <1>1, <1>2, <1>3, <1>5, FileClosed
<1>7. used' <= Size /\ Idle'
  BY <1>2, <1>5, StillFits DEF Idle
<1>. QED  BY <1>5, <1>6, <1>7, IdleInv

-----------------------------------------------------------------------------
(* Directory handles.                                                      *)

\* Only the directory handles and the counts change.
LEMMA DirHandlesInv ==
  ASSUME Inv, Idle, HandleInv', UNCHANGED <<info, links, blocks, lost, used, stack>>
  PROVE  Inv'
<1>1. TreeInv /\ SpaceInv /\ used <= Size
  BY IdleTree
<1>2. TreeInv' /\ SpaceInv' /\ Idle'
  BY <1>1, SameTree, SameSpace DEF Idle
<1>3. (used <= Size)'
  BY <1>1
<1>. QED  BY <1>2, <1>3, IdleInv

\* The first child of a directory in the tree, and what comes next to an entry.
LEMMA LinksLive ==
  ASSUME TreeInv
  PROVE  /\ \A d \in Live \cup {NULL} : links.child[d] \in Live \cup {NULL}
         /\ \A e \in Live : links.next[e] \in Live \cup {NULL}
         /\ \A e \in Live : IsFile(e) => links.child[e] = NULL
<1>1. PICK P, s, D, N : Grown(P, s, D, N)
  BY DEF TreeInv
<1>2. Shape(links, Live, info, P, s, D, N) /\ NULL \notin Live
  BY <1>1, RamFsAssumption DEF Grown, Live, Alloc
<1>3. ASSUME NEW e \in Live, IsFile(e), links.child[e] # NULL
      PROVE  FALSE
  BY <1>2, <1>3 DEF Shape, Firsts, Parents, IsFile
<1>. QED  BY <1>2, <1>3 DEF Shape, Firsts, Nexts

\* ramfs_dir_open.
LEMMA DirOpenInv ==
  ASSUME Inv, NEW p \in Path, NEW d \in DD, DirOpen(p, d)
  PROVE  Inv'
<1>1. PICK e : e = Traverse(p).entry
  OBVIOUS
<1>2. /\ Idle /\ dd[d] = NULL /\ Traverse(p).ret = "ok" /\ AddReference(e)
      /\ dd' = [dd EXCEPT ![d] = [entry |-> e, child |-> links.child[e]]]
      /\ UNCHANGED <<info, links, blocks, lost, used, leaked, fd, stack>>
  BY <1>1 DEF DirOpen
<1>3. TreeInv /\ HandleInv
  BY <1>2, IdleTree
<1>4. e \in Live /\ e \in Alloc /\ e # NULL
  <2>1. PICK P, s, D, N : Grown(P, s, D, N)
    BY <1>3 DEF TreeInv
  <2>2. e \in Live
    BY <1>1, <1>2, <2>1, TraverseEntry
  <2>. QED  BY <2>2, RamFsAssumption DEF Live, Alloc
<1>5. PICK c : c = links.child[e]
  OBVIOUS
<1>6. c \in Live \cup {NULL}
  BY <1>3, <1>4, <1>5, LinksLive
<1>7. HandleInv'
  BY <1>2, <1>3, <1>4, <1>5, <1>6, DirMoved DEF EntryOf
<1>. QED  BY <1>2, <1>7, DirHandlesInv

\* ramfs_file_open of a directory, which fails and leaves a reference.
LEMMA FileOpenFailsInv ==
  ASSUME Inv, NEW p \in Path, NEW l \in Leak, FileOpenFails(p, l)
  PROVE  Inv'
<1>1. PICK e : e = Traverse(p).entry
  OBVIOUS
<1>2. /\ Idle /\ leaked[l] = NULL /\ Traverse(p).ret = "ok" /\ AddReference(e)
      /\ leaked' = [leaked EXCEPT ![l] = e]
      /\ UNCHANGED <<info, links, blocks, lost, used, fd, dd, stack>>
  BY <1>1 DEF FileOpenFails
<1>3. TreeInv /\ HandleInv
  BY <1>2, IdleTree
<1>4. e \in Alloc /\ e \in Entry /\ e # NULL
  <2>1. PICK P, s, D, N : Grown(P, s, D, N)
    BY <1>3 DEF TreeInv
  <2>2. e \in Live
    BY <1>1, <1>2, <2>1, TraverseEntry
  <2>. QED  BY <2>2, RamFsAssumption DEF Live, Alloc
<1>5. /\ uses' \in [Entry -> Nat] /\ uses \in [Entry -> Nat] /\ leaked' \in [Leak -> Pointer]
      /\ uses'[e] = uses[e] + 1 /\ \A x \in Entry : x # e => uses'[x] = uses[x]
  BY <1>2, <1>3, <1>4 DEF HandleInv, CountInv, AddReference, Pointer
<1>6. ASSUME NEW x \in Entry
      PROVE  Cardinality(OfLeak(x)') = IF x = e THEN Cardinality(OfLeak(x)) + 1
                                       ELSE Cardinality(OfLeak(x))
  <2>1. leaked[l] # x /\ leaked \in [Leak -> Pointer]
    BY <1>2, <1>3, RamFsAssumption DEF HandleInv, CountInv
  <2>2. ASSUME x # e
        PROVE  OfLeak(x)' = OfLeak(x)
    BY <1>2, <2>1, <2>2 DEF OfLeak
  <2>3. ASSUME x = e
        PROVE  OfLeak(x)' = OfLeak(x) \cup {l} /\ l \notin OfLeak(x)
    BY <1>2, <2>1, <2>3 DEF OfLeak
  <2>4. l \notin OfLeak(x) => Cardinality(OfLeak(x) \cup {l}) = Cardinality(OfLeak(x)) + 1
    BY LeaksFinite, FS_AddElement
  <2>. QED  BY <2>2, <2>3, <2>4
<1>7. ASSUME NEW x \in Entry
      PROVE  uses'[x] = Count(x)'
  <2>1. OfFile(fd, x)' = OfFile(fd, x) /\ OfDir(dd, x)' = OfDir(dd, x)
    BY <1>2 DEF OfFile, OfDir
  <2>2. PICK a, b, c : /\ a = Cardinality(OfFile(fd, x)) /\ b = Cardinality(OfDir(dd, x))
                       /\ c = Cardinality(OfLeak(x))
    OBVIOUS
  <2>3. a \in Nat /\ b \in Nat /\ c \in Nat /\ uses[x] = a + b + c
    BY <1>3, <2>2, HandlesFinite, LeaksFinite DEF HandleInv, CountInv, Count
  <2>4. Count(x)' = a + b + (IF x = e THEN c + 1 ELSE c)
    BY <1>6, <2>1, <2>2 DEF Count
  <2>5. uses'[x] = IF x = e THEN uses[x] + 1 ELSE uses[x]
    BY <1>5
  <2>. QED  BY <2>3, <2>4, <2>5
<1>8. Alloc' = Alloc /\ Files' = Files /\ Live' = Live
  BY <1>2 DEF Alloc, Files, IsFile, Live
<1>9. \A x \in Alloc : info[x].rm => uses'[x] > 0
  BY <1>3, <1>5 DEF HandleInv, CountInv, Alloc
<1>10. \A k \in Leak : leaked'[k] # NULL => leaked'[k] \in Alloc
  BY <1>2, <1>3, <1>4 DEF HandleInv, CountInv
<1>11. HandleInv'
  BY <1>2, <1>3, <1>5, <1>7, <1>8, <1>9, <1>10 DEF HandleInv, CountInv
<1>. QED  BY <1>2, <1>11, DirHandlesInv

\* ramfs_dir_open of the root.
LEMMA DirOpenRootInv ==
  ASSUME Inv, NEW d \in DD, DirOpenRoot(d)
  PROVE  Inv'
<1>1. /\ Idle /\ dd[d] = NULL
      /\ dd' = [dd EXCEPT ![d] = [entry |-> NULL, child |-> links.child[NULL]]]
      /\ UNCHANGED <<info, links, blocks, lost, used, uses, leaked, fd, stack>>
  BY DEF DirOpenRoot
<1>2. TreeInv /\ HandleInv
  BY <1>1, IdleTree
<1>3. PICK c : c = links.child[NULL]
  OBVIOUS
<1>4. c \in Live \cup {NULL}
  BY <1>2, <1>3, LinksLive
<1>5. HandleInv'
  BY <1>1, <1>2, <1>3, <1>4, DirMoved DEF EntryOf
<1>. QED  BY <1>1, <1>5, DirHandlesInv

\* ramfs_dir_read: the next entry to read is in the tree.
LEMMA DirReadInv ==
  ASSUME Inv, Slips = {}, NEW d \in DD, DirRead(d)
  PROVE  Inv'
<1>1. /\ dd[d] # NULL /\ dd[d].child # NULL
      /\ dd' = [dd EXCEPT ![d].child = links.next[@]]
      /\ UNCHANGED <<info, links, blocks, lost, used, uses, leaked, fd, stack>>
  BY DEF DirRead
<1>2. Idle
  BY DEF DirRead, MayRead
<1>3. TreeInv /\ HandleInv
  BY <1>2, IdleTree
<1>4. PICK e, c : e = dd[d].entry /\ c = links.next[dd[d].child]
  OBVIOUS
<1>5. /\ dd \in [DD -> Handle \cup {NULL}] /\ dd[d] \in Handle
      /\ e \in Alloc \cup {NULL} /\ dd[d].child \in Live
  BY <1>1, <1>3, <1>4 DEF HandleInv, CountInv
<1>6. c \in Live \cup {NULL}
  BY <1>3, <1>4, <1>5, LinksLive
<1>7. dd' = [dd EXCEPT ![d] = [entry |-> e, child |-> c]]
  <2>1. dd' = [dd EXCEPT ![d] = [dd[d] EXCEPT !.child = c]]
    BY <1>1, <1>4, <1>5
  <2>2. [dd[d] EXCEPT !.child = c] = [entry |-> e, child |-> c]
    BY <1>4, <1>5 DEF Handle
  <2>. QED  BY <2>1, <2>2
<1>8. EntryOf(dd[d]) = e
  BY <1>1, <1>4 DEF EntryOf
<1>9. HandleInv'
  BY <1>1, <1>3, <1>5, <1>6, <1>7, <1>8, DirMoved
<1>. QED  BY <1>1, <1>2, <1>9, DirHandlesInv

\* ramfs_dir_close, which may free a removed directory.
LEMMA DirCloseInv ==
  ASSUME Inv, NEW d \in DD, DirClose(d)
  PROVE  Inv'
<1>1. PICK e : e = dd[d].entry
  OBVIOUS
<1>2. /\ Idle /\ dd[d] # NULL /\ RemoveReference(e) /\ dd' = [dd EXCEPT ![d] = NULL]
      /\ UNCHANGED <<lost, leaked, fd, stack>>
  BY <1>1 DEF DirClose
<1>3. TreeInv /\ HandleInv /\ SpaceInv
  BY <1>2, IdleTree
<1>4. CASE e # NULL
  <2>1. e \in Alloc /\ uses[e] > 0
    BY <1>1, <1>2, <1>3, <1>4, HandleCounts DEF HandleInv, CountInv
  <2>2. Released(e) /\ SpaceInv' /\ used' <= used /\ TreeInv'
    BY <1>2, <1>3, <2>1, RemoveReferenceSpace
  <2>3. HandleInv'
    BY <1>1, <1>2, <1>3, <1>4, <2>2, DirClosed
  <2>4. used' <= Size /\ Idle'
    BY <1>2, <2>2, StillFits DEF Idle
  <2>. QED  BY <2>2, <2>3, <2>4, IdleInv
<1>5. CASE e = NULL
  <2>1. UNCHANGED <<info, links, blocks, used, uses>>
    BY <1>2, <1>5 DEF RemoveReference
  <2>2. TreeInv' /\ Alloc' = Alloc /\ Files' = Files /\ Live' = Live
    BY <1>3, <2>1, SameTree
  <2>3. /\ dd' \in [DD -> Handle \cup {NULL}] /\ dd \in [DD -> Handle \cup {NULL}]
        /\ \A b \in DD : dd'[b] = dd[b] \/ dd'[b] = NULL
    BY <1>2, <1>3 DEF HandleInv, CountInv
  <2>4. ASSUME NEW x \in Entry
        PROVE  Cardinality(OfDir(dd', x)) = Cardinality(OfDir(dd, x))
    <3>1. PICK k : k = dd'
      OBVIOUS
    <3>2. DirCounted(dd, k, d, NULL, x)
      BY <1>2, <2>3, <3>1, DirCounts
    <3>3. EntryOf(NULL) # x /\ EntryOf(dd[d]) # x
      BY <1>1, <1>2, <1>5, RamFsAssumption DEF EntryOf
    <3>. QED  BY <3>1, <3>2, <3>3 DEF DirCounted
  <2>5. \A x : /\ OfFile(fd, x)' = OfFile(fd, x) /\ OfDir(dd, x)' = OfDir(dd', x)
               /\ OfLeak(x)' = OfLeak(x)
    BY <1>2 DEF OfFile, OfDir, OfLeak
  <2>a. \A x \in Entry : uses'[x] = Count(x)'
    BY <1>3, <2>1, <2>4, <2>5 DEF HandleInv, CountInv, Count
  <2>6. HandleInv'
    BY <1>2, <1>3, <2>1, <2>2, <2>3, <2>a DEF HandleInv, CountInv
  <2>. QED  BY <1>2, <2>1, <2>6, DirHandlesInv
<1>. QED  BY <1>4, <1>5

-----------------------------------------------------------------------------
(* rmdir and unlink.                                                       *)

\* What an open directory handle is to read next is not removed.
LEMMA MayRemoveChild ==
  ASSUME links \in Links, Slips = {}, NEW e \in Entry, MayRemove(e)
  PROVE  \A d \in DD : dd[d] # NULL => dd[d].child # e
<1>1. e \in ChainFrom(links, e)
  BY ChainFirst
<1>. QED  BY <1>1 DEF MayRemove

\* A call that removes the entry at a path that has no children.
LEMMA RemoveEntryInv ==
  ASSUME Inv, Idle, Slips = {}, NEW p \in Path, Traverse(p).ret = "ok",
         links.child[Traverse(p).entry] = NULL, MayRemove(Traverse(p).entry),
         NEW whole \in BOOLEAN, whole = IsFile(Traverse(p).entry),
         RemoveEntry(Traverse(p), whole), UNCHANGED <<lost, uses, leaked, fd, dd, stack>>
  PROVE  Inv'
<1>1. TreeInv /\ HandleInv /\ SpaceInv /\ info \in [Entry -> Info \cup {NULL}] /\ links \in Links
  BY IdleTree
<1>2. PICK e : e = Traverse(p).entry
  OBVIOUS
<1>3. e \in Live /\ e \in Alloc /\ e \in Entry
  <2>1. PICK P, s, D, N : Grown(P, s, D, N)
    BY <1>1 DEF TreeInv
  <2>2. e \in Live
    BY <1>2, <2>1, TraverseEntry
  <2>. QED  BY <2>2 DEF Live, Alloc
<1>4. PICK open, M : /\ open = IsOpen(e)
                     /\ M = Unlinked(links, Traverse(p).parent, Prev(Traverse(p).parent, e), e)
  OBVIOUS
<1>5. Drop(M, e, whole, open) /\ open \in BOOLEAN
  BY <1>2, <1>4 DEF RemoveEntry, IsOpen
<1>6. TreeInv'
  BY <1>1, RemoveEntryTree
<1>7. SpaceInv' /\ used' <= used
  BY <1>1, <1>2, <1>3, <1>5, DropSpace
<1>8. /\ \A x \in Entry : x # e => info'[x] = info[x]
      /\ Live' = Live \ {e}
      /\ Alloc' = IF open THEN Alloc ELSE Alloc \ {e}
      /\ open => info'[e].rm /\ info'[e].type = info[e].type
  BY <1>1, <1>3, <1>5, DropEffect
<1>9. HandleInv'
  <2>1. open <=> uses[e] > 0
    BY <1>4 DEF IsOpen
  <2>2. \A x \in Alloc : uses[x] > 0 => info'[x] # NULL /\ info'[x].type = info[x].type
    BY <1>8, <2>1 DEF Alloc
  <2>3. \A x \in Alloc' : info'[x].rm => uses[x] > 0
    BY <1>1, <1>8, <2>1 DEF HandleInv, CountInv, Alloc
  <2>4. \A d \in DD : dd[d] # NULL /\ dd[d].child # NULL => dd[d].child \in Live'
    BY <1>1, <1>2, <1>3, <1>8, MayRemoveChild DEF HandleInv, CountInv
  <2>. QED  BY <1>1, <2>2, <2>3, <2>4, HandlesKept
<1>10. used' <= Size /\ Idle'
  BY <1>7, StillFits DEF Idle
<1>. QED  BY <1>6, <1>7, <1>9, <1>10, IdleInv

\* ramfs_rmdir.
LEMMA RmdirInv ==
  ASSUME Inv, Slips = {}, NEW p \in Path, Rmdir(p)
  PROVE  Inv'
<1>1. PICK whole \in BOOLEAN : whole = FALSE
  OBVIOUS
<1>2. /\ Idle /\ Traverse(p).ret = "ok" /\ whole = IsFile(Traverse(p).entry)
      /\ links.child[Traverse(p).entry] = NULL /\ MayRemove(Traverse(p).entry)
      /\ RemoveEntry(Traverse(p), whole) /\ UNCHANGED <<lost, uses, leaked, fd, dd, stack>>
  BY <1>1 DEF Rmdir, IsFile
<1>. QED  BY <1>2, RemoveEntryInv

\* ramfs_unlink.
LEMMA UnlinkInv ==
  ASSUME Inv, Slips = {}, NEW p \in Path, Unlink(p)
  PROVE  Inv'
<1>1. PICK whole \in BOOLEAN : whole = TRUE
  OBVIOUS
<1>2. /\ Idle /\ Traverse(p).ret = "ok" /\ whole = IsFile(Traverse(p).entry)
      /\ MayRemove(Traverse(p).entry) /\ IsFile(Traverse(p).entry)
      /\ RemoveEntry(Traverse(p), whole) /\ UNCHANGED <<lost, uses, leaked, fd, dd, stack>>
  BY <1>1 DEF Unlink, IsFile
<1>3. TreeInv
  BY <1>2, IdleTree
<1>4. Traverse(p).entry \in Live
  <2>1. PICK P, s, D, N : Grown(P, s, D, N)
    BY <1>3 DEF TreeInv
  <2>. QED  BY <1>2, <2>1, TraverseEntry
<1>5. links.child[Traverse(p).entry] = NULL
  BY <1>2, <1>3, <1>4, LinksLive
<1>. QED  BY <1>2, <1>5, RemoveEntryInv

-----------------------------------------------------------------------------
(* rename.                                                                 *)

\* A path whose components are the first ones of another is a prefix of it.
LEMMA PrefixIs ==
  ASSUME NEW p \in Path, NEW q \in Path, Len(p) <= Len(q),
         \A i \in 1 .. Len(p) : p[i] = q[i]
  PROVE  IsPrefix(p, q)
<1>1. p \in Seq(Name) /\ q \in Seq(Name) /\ Len(p) \in Nat /\ Len(q) \in Nat
  BY PathSeq
<1>2. /\ SubSeq(p, 1, Len(p)) = [i \in 1 .. Len(p) |-> p[i]]
      /\ SubSeq(q, 1, Len(p)) = [i \in 1 .. Len(p) |-> q[i]]
  BY <1>1
<1>3. SubSeq(p, 1, Len(p)) = SubSeq(q, 1, Len(p))
  BY <1>2
<1>. QED  BY <1>3 DEF IsPrefix

\* Where the way along q leads is not below old, at p, and on the way it is not
\* old, unless old is renamed to a path below itself.
LEMMA NotInto ==
  ASSUME NEW P, NEW s, NEW D, NEW N, Grown(P, s, D, N),
         NEW p \in Path, NEW u, Route(P, p, Len(p), u), NEW old, old = u[Len(p)],
         NEW q \in Path, ~ (p # q /\ IsPrefix(p, q)),
         NEW m \in Nat \ {0}, m <= Len(q), NEW v, Route(P, q, m, v)
  PROVE  /\ v[m] \notin Under(P, old, Len(p))
         /\ m < Len(q) => v[m] # old
<1>1. Len(p) \in Nat \ {0} /\ Len(q) \in Nat
  BY PathSeq
<1>2. ASSUME Len(p) < Len(q), \A i \in 1 .. Len(p) : p[i] = q[i]
      PROVE  FALSE
  <2>1. p # q /\ Len(p) <= Len(q)
    BY <1>1, <1>2
  <2>. QED  BY <1>2, <2>1, PrefixIs
<1>3. ASSUME v[m] \in Under(P, old, Len(p))
      PROVE  FALSE
  <2>1. PICK x : x = v[m]
    OBVIOUS
  <2>2. x \in Under(P, old, Len(p))
    BY <1>3, <2>1
  <2>3. D[x] > Len(p)
    BY <2>2, UnderPaths
  <2>4. PICK r, w : /\ r \in Path
                    /\ Route(P, r, Len(r), w)
                    /\ w[Len(r)] = x
                    /\ Len(r) = D[x]
                    /\ \A i \in 1 .. Len(p) : r[i] = p[i]
    <3>1. \E r \in Path : \E w : /\ Route(P, r, Len(r), w)
                                 /\ w[Len(r)] = x
                                 /\ Len(r) = D[x]
                                 /\ Traverse(r).ret = "ok"
                                 /\ \A i \in 1 .. Len(p) : r[i] = p[i]
                                 /\ IsPrefix(p, r)
      BY <2>2, UnderPaths
    <3>. QED  BY <3>1
  <2>5. PICK l : l = Len(r)
    OBVIOUS
  <2>6. l \in Nat \ {0} /\ Route(P, r, l, w) /\ w[l] = v[m]
    BY <2>1, <2>4, <2>5, PathSeq
  <2>7. SameRoute(r, l, w, q, m, v)
    BY <2>6, OneRoute
  <2>8. l = m /\ \A i \in 1 .. m : r[i] = q[i]
    BY <2>7 DEF SameRoute
  <2>9. Len(p) < m
    BY <2>3, <2>4, <2>5, <2>8
  <2>10. Len(p) < Len(q) /\ \A i \in 1 .. Len(p) : i \in 1 .. m
    BY <1>1, <2>9
  <2>. QED  BY <1>2, <2>4, <2>8, <2>10
<1>4. ASSUME m < Len(q), v[m] = old
      PROVE  FALSE
  <2>1. PICK l : l = Len(p)
    OBVIOUS
  <2>2. l \in Nat \ {0} /\ Route(P, p, l, u) /\ u[l] = v[m]
    BY <1>1, <1>4, <2>1
  <2>3. SameRoute(p, l, u, q, m, v)
    BY <2>2, OneRoute
  <2>4. l = m /\ \A i \in 1 .. l : p[i] = q[i]
    BY <2>3 DEF SameRoute
  <2>. QED  BY <1>2, <1>4, <2>1, <2>4
<1>. QED  BY <1>3, <1>4

\* The links that the end of ramfs_rename leaves.
Relinked(P, old, x, M, stays) ==
  IF stays THEN Unlinked(M, P[old], x, old) ELSE Wiped(Unlinked(M, P[old], x, old), old)

RelinkedAs(L, V, P, old, new, x, W, stays) ==
  /\ W \in Links
  /\ \A y \in V \ {old} : W.next[y] = Unlinked(L, P[old], x, old).next[y]
  /\ W.child[new] = L.child[old]
  /\ \A y \in (V \ {old, new}) \cup {NULL} :
       W.child[y] = Unlinked(L, P[old], x, old).child[y]
  /\ \A y \in Entry \ V : W.next[y] = L.next[y] /\ W.child[y] = L.child[y]
  /\ ~stays => W.next[old] = NULL /\ W.child[old] = NULL

\* What the end of ramfs_rename does to each pointer.
LEMMA RelinkedIs ==
  ASSUME NEW L \in Links, NEW V, V \subseteq Entry, NEW P, NEW old \in V, NEW new \in V,
         old # new, P[old] \in V \cup {NULL}, P[old] # new,
         NEW x, x \in V \cup {NULL}, NEW M,
         \/ M = MoveChildren(L, old, new)
         \/ M = L /\ L.child[new] = L.child[old],
         NEW stays \in BOOLEAN, NEW W, W = Relinked(P, old, x, M, stays)
  PROVE  RelinkedAs(L, V, P, old, new, x, W, stays)
<1>. DEFINE d == P[old]
            K == Unlinked(L, d, x, old)
            U == Unlinked(M, d, x, old)
<1>1. /\ L.next \in [Pointer -> Pointer] /\ L.child \in [Pointer -> Pointer]
      /\ d \in Pointer /\ old \in Pointer /\ new \in Pointer /\ V \subseteq Pointer
      /\ NULL \in Pointer /\ x \in Pointer /\ NULL \notin V /\ old # NULL
  BY RamFsAssumption DEF Links, Pointer
<1>2. /\ M \in Links /\ M.next = L.next
      /\ M.child[new] = L.child[old]
      /\ \A y \in Pointer : y # new => M.child[y] = L.child[y]
  <2>1. CASE M = MoveChildren(L, old, new)
    <3>1. M = [L EXCEPT !.child[new] = L.child[old]]
      BY <2>1 DEF MoveChildren
    <3>. QED  BY <1>1, <3>1 DEF Links
  <2>2. CASE M = L /\ L.child[new] = L.child[old]
    BY <2>2
  <2>. QED  BY <2>1, <2>2
<1>3. M.next \in [Pointer -> Pointer] /\ M.child \in [Pointer -> Pointer]
  BY <1>2 DEF Links
<1>4. \A Z \in Links :
        /\ Unlinked(Z, d, x, old) \in Links
        /\ \A y \in Pointer : Unlinked(Z, d, x, old).child[y] =
             IF y = d /\ Z.child[y] = old THEN Z.next[old] ELSE Z.child[y]
        /\ \A y \in Pointer : Unlinked(Z, d, x, old).next[y] =
             IF x # NULL /\ y = x THEN Z.next[old] ELSE Z.next[y]
  <2>. TAKE Z \in Links
  <2>. DEFINE X == Unlinked(Z, d, x, old)
  <2>0. Z.next \in [Pointer -> Pointer] /\ Z.child \in [Pointer -> Pointer]
    BY DEF Links
  <2>1. X = [child |-> IF Z.child[d] = old THEN [Z.child EXCEPT ![d] = Z.next[old]] ELSE Z.child,
             next |-> IF x # NULL THEN [Z.next EXCEPT ![x] = Z.next[old]] ELSE Z.next]
    BY DEF Unlinked
  <2>2. /\ X.child = IF Z.child[d] = old THEN [Z.child EXCEPT ![d] = Z.next[old]] ELSE Z.child
        /\ X.next = IF x # NULL THEN [Z.next EXCEPT ![x] = Z.next[old]] ELSE Z.next
    BY <2>1
  <2>3. X.child \in [Pointer -> Pointer] /\ X.next \in [Pointer -> Pointer]
    BY <1>1, <2>0, <2>2
  <2>4. X \in Links
    BY <2>1, <2>3 DEF Links
  <2>. HIDE DEF X
  <2>5. /\ \A y \in Pointer : X.child[y] = IF y = d /\ Z.child[y] = old THEN Z.next[old] ELSE Z.child[y]
        /\ \A y \in Pointer : X.next[y] = IF x # NULL /\ y = x THEN Z.next[old] ELSE Z.next[y]
    BY <1>1, <2>0, <2>2
  <2>. QED  BY <2>4, <2>5 DEF X
<1>5. /\ K \in Links
      /\ \A y \in Pointer : K.child[y] = IF y = d /\ L.child[y] = old THEN L.next[old] ELSE L.child[y]
      /\ \A y \in Pointer : K.next[y] = IF x # NULL /\ y = x THEN L.next[old] ELSE L.next[y]
  BY <1>4
<1>6. /\ U \in Links
      /\ \A y \in Pointer : U.child[y] = IF y = d /\ M.child[y] = old THEN M.next[old] ELSE M.child[y]
      /\ \A y \in Pointer : U.next[y] = IF x # NULL /\ y = x THEN M.next[old] ELSE M.next[y]
  BY <1>2, <1>4
<1>7. W = IF stays THEN U ELSE [U EXCEPT !.next[old] = NULL, !.child[old] = NULL]
  BY DEF Relinked, Wiped
<1>. HIDE DEF K, U, d
<1>8. /\ W \in Links
      /\ \A y \in Pointer : y # old => W.next[y] = U.next[y] /\ W.child[y] = U.child[y]
      /\ ~stays => W.next[old] = NULL /\ W.child[old] = NULL
  <2>1. CASE stays
    BY <1>6, <1>7, <2>1
  <2>2. CASE ~stays
    <3>1. W = [U EXCEPT !.next[old] = NULL, !.child[old] = NULL]
      BY <1>7, <2>2
    <3>2. /\ U = [next |-> U.next, child |-> U.child]
          /\ U.next \in [Pointer -> Pointer] /\ U.child \in [Pointer -> Pointer]
      BY <1>6 DEF Links
    <3>3. /\ W.next = [U.next EXCEPT ![old] = NULL] /\ W.child = [U.child EXCEPT ![old] = NULL]
          /\ W = [next |-> W.next, child |-> W.child]
      BY <3>1, <3>2
    <3>4. W.next \in [Pointer -> Pointer] /\ W.child \in [Pointer -> Pointer]
      BY <1>1, <3>2, <3>3
    <3>5. W \in Links
      BY <3>3, <3>4 DEF Links
    <3>. QED  BY <1>1, <2>2, <3>2, <3>3, <3>5
  <2>. QED  BY <2>1, <2>2
<1>9. d # new /\ d \in V \cup {NULL}
  BY DEF d
<1>10. \A y \in V \ {old} : W.next[y] = K.next[y]
  BY <1>1, <1>2, <1>5, <1>6, <1>8
<1>11. W.child[new] = L.child[old]
  BY <1>1, <1>2, <1>6, <1>8, <1>9
<1>12. \A y \in (V \ {old, new}) \cup {NULL} : W.child[y] = K.child[y]
  BY <1>1, <1>2, <1>5, <1>6, <1>8
<1>13. \A y \in Entry \ V : W.next[y] = L.next[y] /\ W.child[y] = L.child[y]
  <2>. TAKE y \in Entry \ V
  <2>1. y \in Pointer /\ y # old /\ y # d /\ y # x /\ y # new /\ y # NULL
    BY <1>9, RamFsAssumption DEF Pointer
  <2>. QED  BY <1>2, <1>6, <1>8, <2>1
<1>. QED  BY <1>8, <1>10, <1>11, <1>12, <1>13 DEF RelinkedAs, K, d

\* What rename onto a path in use does to the old entry.
LEMMA OldLeaves ==
  ASSUME info \in [Entry -> Info \cup {NULL}], NEW old \in Alloc,
         info' = [info EXCEPT ![old] = OldInfo(old)]
  PROVE  Leaves(old, IsOpen(old))
<1>1. old \in Entry /\ info[old] \in Info /\ info[old] # NULL
  BY DEF Alloc
<1>2. \A y \in Entry : y # old => info'[y] = info[y]
  BY <1>1
<1>3. CASE IsOpen(old)
  <2>1. info'[old] = [info[old] EXCEPT !.rm = TRUE]
    BY <1>1, <1>3 DEF OldInfo
  <2>2. info'[old] \in Info /\ info'[old].rm = TRUE /\ info'[old].type = info[old].type
    BY <1>1, <2>1 DEF Info
  <2>3. info'[old] # NULL
    BY <2>2, RamFsAssumption
  <2>4. info' \in [Entry -> Info \cup {NULL}]
    BY <1>2, <2>2
  <2>5. Alloc' = Alloc /\ Live' = Live \ {old}
    BY <1>1, <1>2, <2>2, <2>3 DEF Alloc, Live
  <2>. QED  BY <1>2, <1>3, <2>2, <2>4, <2>5 DEF Leaves
<1>4. CASE ~IsOpen(old)
  <2>1. info'[old] = NULL
    BY <1>1, <1>4 DEF OldInfo
  <2>2. info' \in [Entry -> Info \cup {NULL}]
    BY <1>2, <2>1
  <2>3. Alloc' = Alloc \ {old} /\ Live' = Live \ {old}
    BY <1>1, <1>2, <2>1 DEF Alloc, Live
  <2>. QED  BY <1>2, <1>4, <2>2, <2>3 DEF Leaves
<1>. QED  BY <1>3, <1>4

\* The links that Replace leaves.
LEMMA ReplaceLinks ==
  ASSUME NEW L, NEW t, NEW new, NEW cost, Replace(L, t, new, cost),
         NEW P, t.parent = P[t.entry]
  PROVE  \E M : /\ M = IF IsFile(t.entry) THEN L ELSE MoveChildren(L, t.entry, new)
                /\ links' = Relinked(P, t.entry, Prev(P[t.entry], t.entry), M, IsOpen(t.entry))
  BY DEF Replace, Relinked

\* What ramfs_rename makes of parents P: B, which is below old, moves to new.
Renamed(P, n, old, new, Q) ==
  LET B == Under(P, old, n)
  IN  /\ Below(Live, P, old, B) /\ old \notin B /\ new \notin B
      /\ Adopted(Live, P, old, new, Q)

\* ramfs_rename keeps the tree when the new path is in use.
LEMMA RenameOntoGrown ==
  ASSUME TreeInv, NEW P, NEW s, NEW D, NEW N, Grown(P, s, D, N),
         Slips = {}, NEW p \in Path, NEW q \in Path, RenameOnto(p, q),
         NEW old, old = Traverse(p).entry, NEW new, new = Traverse(q).entry
  PROVE  /\ TreeInv'
         /\ Leaves(old, IsOpen(old))
         /\ old = new => Grown(P, s, D, N)'
         /\ old # new => \E Q, t, E, n : Grown(Q, t, E, n)' /\ Renamed(P, Len(p), old, new, Q)
<1>1. Grown(P, s, D, N)
  OBVIOUS
<1>2. PICK x, open : /\ old = Traverse(p).entry /\ new = Traverse(q).entry
                     /\ x = Prev(P[old], old) /\ open = IsOpen(old)
  OBVIOUS
<1>3. /\ Traverse(p).ret = "ok" /\ Traverse(q).ret = "ok"
      /\ IsFile(new) \/ (~IsFile(old) /\ links.child[new] = NULL)
      /\ ~ (IsFile(new) /\ ~IsFile(old))
      /\ MayRename(p, q, old)
      /\ info' = [info EXCEPT ![old] = OldInfo(old)]
      /\ Replace(links, Traverse(p), new, 0)
  BY <1>2 DEF RenameOnto, CanReplace
<1>4. PICK u : Route(P, p, Len(p), u) /\ old = u[Len(p)]
  BY <1>1, <1>2, <1>3, TraverseOk
<1>5. PICK v : Route(P, q, Len(q), v) /\ new = v[Len(q)]
  BY <1>1, <1>2, <1>3, TraverseOk
<1>6. old \in Live /\ new \in Live /\ Traverse(p).parent = P[old] /\ open \in BOOLEAN
  BY <1>1, <1>2, <1>3, TraverseEntry DEF IsOpen
<1>7. /\ info \in [Entry -> Info \cup {NULL}] /\ links \in Links
      /\ P \in [Entry -> Pointer] /\ s \in [Entry -> Nat] /\ D \in [Entry -> Nat]
      /\ Shape(links, Live, info, P, s, D, N) /\ Live \subseteq Entry
      /\ P[old] \in Live \cup {NULL} /\ old \in Alloc
      /\ NULL \notin Live /\ Live \subseteq Alloc
  BY <1>1, <1>6, RamFsAssumption DEF Grown, Shape, Parents, Live, Alloc
<1>8. Leaves(old, open)
  BY <1>2, <1>3, <1>7, OldLeaves
<1>9. links.child[new] = NULL /\ (IsFile(old) => links.child[old] = NULL)
  BY <1>3, <1>6, LinksLive
<1>10. PICK M : /\ M = IF IsFile(old) THEN links ELSE MoveChildren(links, old, new)
                /\ links' = Relinked(P, old, x, M, open)
  BY <1>2, <1>3, <1>6, ReplaceLinks
<1>11. CASE old = new
  <2>1. M = links
    <3>1. MoveChildren(links, old, old) = links
      BY <1>7 DEF MoveChildren, Links
    <3>. QED  BY <1>10, <1>11, <3>1
  <2>2. PICK K : K = Unlinked(links, P[old], x, old)
    OBVIOUS
  <2>3. links' = IF open THEN K ELSE Wiped(K, old)
    BY <1>10, <2>1, <2>2 DEF Relinked
  <2>4. links.child[old] = NULL
    BY <1>9, <1>11
  <2>5. TreeInv' /\ Grown(P, s, D, N)'
    BY <1>1, <1>2, <1>6, <1>8, <2>2, <2>3, <2>4, UnlinkTree
  <2>. QED  BY <1>2, <1>8, <1>11, <2>5
<1>12. CASE old # new
  <2>1. P[old] # new
    BY <1>6, <1>7, <1>9, NoChildren
  <2>2. IsPrev(links, Live, P, old, x) /\ x \in Live \cup {NULL}
    <3>1. IsPrev(links, Live, P, old, x)
      BY <1>1, <1>2, <1>6, PrevIs
    <3>. QED  BY <3>1 DEF IsPrev
  <2>3. PICK W, J, K : W = links' /\ J = info' /\ K = Unlinked(links, P[old], x, old)
    OBVIOUS
  <2>4. \/ M = MoveChildren(links, old, new)
        \/ M = links /\ links.child[new] = links.child[old]
    BY <1>9, <1>10
  <2>5. RelinkedAs(links, Live, P, old, new, x, W, open)
    BY <1>6, <1>7, <1>10, <1>12, <2>1, <2>2, <2>3, <2>4, RelinkedIs
  <2>6. /\ W \in Links
        /\ \A y \in Live \ {old} : W.next[y] = K.next[y]
        /\ W.child[new] = links.child[old]
        /\ \A y \in (Live \ {old, new}) \cup {NULL} : W.child[y] = K.child[y]
        /\ \A y \in Entry \ Live : W.next[y] = links.next[y] /\ W.child[y] = links.child[y]
        /\ ~open => W.next[old] = NULL /\ W.child[old] = NULL
    BY <2>3, <2>5 DEF RelinkedAs
  <2>7. PICK B : B = Under(P, old, Len(p))
    OBVIOUS
  <2>8. Below(Live, P, old, B)
    BY <1>1, <1>4, <2>7, UnderBelow
  <2>9. D[old] = Len(p) /\ D[new] = Len(q) /\ Len(p) \in Nat /\ Len(q) \in Nat
    <3>1. Len(p) \in Nat \ {0} /\ Len(q) \in Nat \ {0}
      BY PathSeq
    <3>2. PICK l, m : l = Len(p) /\ m = Len(q)
      OBVIOUS
    <3>3. /\ Route(P, p, l, u) /\ l \in Nat \ {0} /\ l \in Nat /\ u[l] = old
          /\ Route(P, q, m, v) /\ m \in Nat \ {0} /\ m \in Nat /\ v[m] = new
      BY <1>4, <1>5, <3>1, <3>2
    <3>4. /\ \A i \in 1 .. l : D[u[i]] = i
          /\ \A i \in 1 .. m : D[v[i]] = i
      BY <1>1, <3>3, RouteDepth
    <3>. QED  BY <3>2, <3>3, <3>4
  <2>10. ASSUME NEW y \in B
         PROVE  D[y] > D[old] /\ D[y] - D[old] + D[new] <= MaxDepth
    <3>1. y \in Under(P, old, Len(p))
      BY <2>7
    <3>2. D[y] > Len(p)
      BY <1>1, <1>4, <3>1, UnderPaths
    <3>3. PICK r \in Path : Len(r) = D[y] /\ Traverse(r).ret = "ok" /\ IsPrefix(p, r)
      BY <1>1, <1>4, <3>1, UnderPaths
    <3>4. Len(r) - Len(p) + Len(q) <= MaxDepth
      BY <1>3, <3>3 DEF MayRename
    <3>. QED  BY <2>9, <3>2, <3>3, <3>4
  <2>11. old \notin B
    <3>1. D[old] \in Nat
      BY <2>9
    <3>. QED  BY <2>10, <3>1
  <2>12. new \notin B
    <3>1. ~ (p # q /\ IsPrefix(p, q))
      BY <1>3 DEF MayRename
    <3>2. PICK m : m = Len(q)
      OBVIOUS
    <3>3. m \in Nat \ {0} /\ m <= Len(q) /\ Route(P, q, m, v) /\ v[m] = new
      BY <1>5, <3>2, PathSeq
    <3>. QED  BY <1>1, <1>4, <2>7, <3>1, <3>3, NotInto
  <2>13. links.child[old] # NULL => info[new].type = "dir"
    BY <1>3, <1>6, <1>7, <1>9, LiveInfo DEF IsFile
  <2>14. IsUnlinked(links, K, Live, P, old, x)
    BY <1>6, <1>7, <2>2, <2>3, UnlinkedIs
  <2>15. \A y \in Live \ {old} : J[y] = info[y]
    BY <1>7, <1>8, <2>3 DEF Leaves
  <2>16. Moved(links, Live, info, P, s, D, N, old, new, B, K, x, W, J)
    BY <1>6, <1>7, <1>9, <1>12, <2>6, <2>8, <2>10, <2>11, <2>12, <2>13, <2>14, <2>15 DEF Moved
  <2>17. PICK Q \in [Entry -> Pointer], E \in [Entry -> Nat] :
           Shape(W, Live \ {old}, J, Q, s, E, N) /\ Adopted(Live, P, old, new, Q)
    BY <2>16, MovedShape
  <2>18. Grown(Q, s, E, N)'
    BY <1>7, <1>8, <2>3, <2>6, <2>17 DEF Grown, Leaves
  <2>19. Clean'
    <3>1. \A y \in Entry \ Alloc : links.next[y] = NULL /\ links.child[y] = NULL
      BY DEF TreeInv, Clean
    <3>2. \A y \in Entry \ Alloc : W.next[y] = NULL /\ W.child[y] = NULL
      BY <1>7, <2>6, <3>1
    <3>. QED  BY <1>8, <2>3, <2>6, <3>2 DEF Clean, Leaves
  <2>20. Renamed(P, Len(p), old, new, Q)
    BY <2>7, <2>8, <2>11, <2>12, <2>17 DEF Renamed
  <2>21. TreeInv'
    BY <2>18, <2>19 DEF TreeInv
  <2>. QED  BY <1>2, <1>8, <1>12, <2>18, <2>20, <2>21
<1>. QED  BY <1>11, <1>12

\* The same without naming the shape.
LEMMA RenameOntoTree ==
  ASSUME TreeInv, Slips = {}, NEW p \in Path, NEW q \in Path, RenameOnto(p, q)
  PROVE  TreeInv'
<1>1. PICK P, s, D, N : Grown(P, s, D, N)
  BY DEF TreeInv
<1>. QED  BY <1>1, RenameOntoGrown

\* What rename to a path not in use does to the new entry and to the old one.
Takes(e, old, open, n) ==
  /\ info' \in [Entry -> Info \cup {NULL}]
  /\ info'[e] \in Info /\ info'[e].type = info[old].type /\ info'[e].name = n /\ ~info'[e].rm
  /\ \A y \in Entry : y # e /\ y # old => info'[y] = info[y]
  /\ Live' = (Live \cup {e}) \ {old}
  /\ Alloc' = IF open THEN Alloc \cup {e} ELSE (Alloc \cup {e}) \ {old}
  /\ open => info'[old].rm /\ info'[old].type = info[old].type

\* The new entry of ramfs_rename takes the place of the old one.
LEMMA NewTakes ==
  ASSUME info \in [Entry -> Info \cup {NULL}], NEW old \in Alloc, NEW e \in Entry \ Alloc,
         NEW n \in Name,
         info' = [info EXCEPT ![e] = [type |-> info[old].type, name |-> n, rm |-> FALSE],
                              ![old] = OldInfo(old)]
  PROVE  Takes(e, old, IsOpen(old), n)
<1>1. old \in Entry /\ info[old] \in Info /\ info[old] # NULL /\ old # e
  BY DEF Alloc
<1>2. /\ \A y \in Entry : y # old /\ y # e => info'[y] = info[y]
      /\ info'[e] = [type |-> info[old].type, name |-> n, rm |-> FALSE]
      /\ info'[old] = OldInfo(old) /\ DOMAIN info' = Entry
      /\ info' = [y \in Entry |-> info'[y]]
  BY <1>1
<1>3. info'[e] \in Info /\ info'[e].type = info[old].type /\ info'[e].name = n /\ ~info'[e].rm
  BY <1>1, <1>2 DEF Info
<1>4. info'[e] # NULL
  BY <1>3, RamFsAssumption
<1>5. CASE IsOpen(old)
  <2>1. info'[old] = [info[old] EXCEPT !.rm = TRUE]
    BY <1>2, <1>5 DEF OldInfo
  <2>2. info'[old] \in Info /\ info'[old].rm = TRUE /\ info'[old].type = info[old].type
    BY <1>1, <2>1 DEF Info
  <2>3. info'[old] # NULL
    BY <2>2, RamFsAssumption
  <2>4. info' \in [Entry -> Info \cup {NULL}]
    BY <1>2, <1>3, <2>2
  <2>5. Alloc' = Alloc \cup {e} /\ Live' = (Live \cup {e}) \ {old}
    <3>1. \A y \in Entry : y \in Alloc' <=> y \in Alloc \cup {e}
      BY <1>1, <1>2, <1>4, <2>3 DEF Alloc
    <3>2. Alloc' = Alloc \cup {e}
      BY <1>1, <3>1 DEF Alloc
    <3>3. \A y \in Alloc \cup {e} :
            ~info'[y].rm <=> y # old /\ (y = e \/ ~info[y].rm)
      BY <1>1, <1>2, <1>3, <2>2 DEF Alloc
    <3>. QED  BY <1>1, <3>2, <3>3 DEF Live
  <2>. QED  BY <1>2, <1>3, <1>5, <2>2, <2>4, <2>5 DEF Takes
<1>6. CASE ~IsOpen(old)
  <2>1. info'[old] = NULL
    BY <1>2, <1>6 DEF OldInfo
  <2>2. info' \in [Entry -> Info \cup {NULL}]
    BY <1>2, <1>3, <2>1
  <2>3. Alloc' = (Alloc \cup {e}) \ {old} /\ Live' = (Live \cup {e}) \ {old}
    <3>1. \A y \in Entry : y \in Alloc' <=> y \in (Alloc \cup {e}) \ {old}
      BY <1>1, <1>2, <1>4, <2>1 DEF Alloc
    <3>2. Alloc' = (Alloc \cup {e}) \ {old}
      BY <1>1, <3>1 DEF Alloc
    <3>3. \A y \in (Alloc \cup {e}) \ {old} : ~info'[y].rm <=> y = e \/ ~info[y].rm
      BY <1>2, <1>3 DEF Alloc
    <3>. QED  BY <1>1, <3>2, <3>3 DEF Live
  <2>. QED  BY <1>2, <1>3, <1>6, <2>2, <2>3 DEF Takes
<1>. QED  BY <1>5, <1>6

\* ramfs_rename keeps the tree when the new path is not in use.
LEMMA RenameNewGrown ==
  ASSUME TreeInv, NEW P, NEW s, NEW D, NEW N, Grown(P, s, D, N),
         Slips = {}, NEW p \in Path, NEW q \in Path,
         Traverse(p).ret = "ok", Traverse(q).ret = "noent",
         NEW old, old = Traverse(p).entry, MayRename(p, q, old),
         NEW e \in Entry \ Alloc, NEW open \in BOOLEAN, open = IsOpen(old),
         Takes(e, old, open, Last(q)), NEW cost,
         Replace(Linked(links, Traverse(q).parent, e), Traverse(p), e, cost)
  PROVE  /\ TreeInv'
         /\ \E R, t, F, n : /\ Grown(R, t, F, n)'
                            /\ R[e] = Traverse(q).parent
                            /\ Renamed(P, Len(p), old, e, R)
<1>1. Grown(P, s, D, N)
  OBVIOUS
<1>2. PICK d, x : d = Traverse(q).parent /\ x = Prev(P[old], old)
  OBVIOUS
<1>3. PICK u : Route(P, p, Len(p), u) /\ old = u[Len(p)]
  BY <1>1, TraverseOk
<1>4. old \in Live /\ Traverse(p).parent = P[old]
  BY <1>1, TraverseEntry
<1>5. /\ info \in [Entry -> Info \cup {NULL}] /\ links \in Links
      /\ P \in [Entry -> Pointer] /\ s \in [Entry -> Nat] /\ D \in [Entry -> Nat]
      /\ Shape(links, Live, info, P, s, D, N) /\ Live \subseteq Entry
      /\ P[old] \in Live \cup {NULL} /\ old \in Alloc /\ e \notin Live /\ old # e
      /\ NULL \notin Live /\ Live \subseteq Alloc /\ e # NULL
      /\ \A y \in Live : P[y] \in Live \cup {NULL}
  BY <1>1, <1>4, RamFsAssumption DEF Grown, Shape, Parents, Live, Alloc
<1>6. /\ NewPlace(P, D, d, Last(q))
      /\ d # NULL => D[d] = Len(q) - 1
      /\ d = NULL => Len(q) = 1
  BY <1>1, <1>2, TraversePlace
<1>7. PICK I : I = [y \in Entry |-> IF y = e THEN info'[e] ELSE info[y]]
  OBVIOUS
<1>8. /\ \A y \in Live : I[y] = info[y]
      /\ I[e].name = Last(q) /\ I[e].type = info[old].type
      /\ \A y \in Entry : y # old => I[y] = info'[y]
  BY <1>5, <1>7 DEF Takes
<1>9. Room(links, Live, info, P, s, D, N, d, e, I)
  <2>1. links.child[e] = NULL /\ links.next[e] = NULL
    BY DEF TreeInv, Clean
  <2>. QED  BY <1>5, <1>6, <1>8, <2>1 DEF Room, NewPlace
<1>10. PICK L : L = Linked(links, d, e)
  OBVIOUS
<1>11. PICK Q, t, E, n : Added(links, L, Live, P, D, d, e, I, Q, t, E, n)
  BY <1>9, <1>10, LinkedAdded
<1>12. PICK V : V = Live \cup {e}
  OBVIOUS
<1>13. /\ L \in Links
       /\ Q \in [Entry -> Pointer] /\ t \in [Entry -> Nat] /\ E \in [Entry -> Nat]
       /\ L.child[e] = NULL
       /\ \A y \in Live \cup {NULL} :
            L.child[y] = IF y = d /\ links.child[d] = NULL THEN e ELSE links.child[y]
       /\ \A y \in Live : links.next[y] # NULL => L.next[y] = links.next[y]
       /\ Q[e] = d /\ \A y \in Live : Q[y] = P[y]
       /\ E[e] = (IF d = NULL THEN 1 ELSE D[d] + 1) /\ \A y \in Live : E[y] = D[y]
       /\ Shape(L, V, I, Q, t, E, n)
  BY <1>11, <1>12 DEF Added
<1>14. PICK B : B = Under(P, old, Len(p))
  OBVIOUS
<1>15. Below(Live, P, old, B)
  BY <1>1, <1>3, <1>14, UnderBelow
<1>16. d # old /\ d \notin B
  <2>1. CASE d = NULL
    BY <1>4, <1>5, <1>15, <2>1 DEF Below
  <2>2. CASE d # NULL
    <3>1. PICK w : Route(P, q, Len(q) - 1, w) /\ d = w[Len(q) - 1]
      BY <1>1, <1>2, TraverseNoent
    <3>2. PICK m : m = Len(q) - 1
      OBVIOUS
    <3>3. m \in Nat /\ m < Len(q) /\ m <= Len(q)
      BY <3>2, PathSeq
    <3>4. m # 0
      <4>1. w[0] = NULL
        BY <3>1 DEF Route
      <4>. QED  BY <2>2, <3>1, <3>2, <4>1
    <3>5. m \in Nat \ {0} /\ Route(P, q, m, w) /\ w[m] = d
      BY <3>1, <3>2, <3>3, <3>4
    <3>6. ~ (p # q /\ IsPrefix(p, q))
      BY DEF MayRename
    <3>. QED  BY <1>1, <1>3, <1>14, <3>3, <3>5, <3>6, NotInto
  <2>. QED  BY <2>1, <2>2
<1>17. Below(V, Q, old, B)
  <2>1. B \subseteq Live /\ \A y \in Live : y \in B <=> P[y] = old \/ P[y] \in B
    BY <1>15 DEF Below
  <2>2. e \notin B
    BY <1>5, <2>1
  <2>. QED  BY <1>12, <1>13, <1>16, <2>1, <2>2 DEF Below
<1>18. /\ E[old] = D[old] /\ D[old] = Len(p) /\ E[e] = Len(q)
       /\ Len(p) \in Nat /\ Len(q) \in Nat
  <2>1. Len(p) \in Nat \ {0} /\ Len(q) \in Nat \ {0}
    BY PathSeq
  <2>2. PICK l : l = Len(p)
    OBVIOUS
  <2>3. Route(P, p, l, u) /\ l \in Nat \ {0} /\ l \in Nat /\ u[l] = old
    BY <1>3, <2>1, <2>2
  <2>4. \A i \in 1 .. l : D[u[i]] = i
    BY <1>1, <2>3, RouteDepth
  <2>5. D[old] = Len(p)
    BY <2>2, <2>3, <2>4
  <2>6. E[e] = Len(q)
    BY <1>6, <1>13, <2>1
  <2>. QED  BY <1>4, <1>13, <2>1, <2>5, <2>6
<1>19. ASSUME NEW y \in B
       PROVE  E[y] > E[old] /\ E[y] - E[old] + E[e] <= MaxDepth
  <2>1. y \in Under(P, old, Len(p)) /\ E[y] = D[y]
    BY <1>13, <1>14, <1>15 DEF Below
  <2>2. D[y] > Len(p)
    BY <1>1, <1>3, <2>1, UnderPaths
  <2>3. PICK r \in Path : Len(r) = D[y] /\ Traverse(r).ret = "ok" /\ IsPrefix(p, r)
    BY <1>1, <1>3, <2>1, UnderPaths
  <2>4. Len(r) - Len(p) + Len(q) <= MaxDepth
    BY <2>3 DEF MayRename
  <2>. QED  BY <1>18, <2>1, <2>2, <2>3, <2>4
<1>20. old \notin B /\ e \notin B
  <2>1. E[old] \in Nat
    BY <1>18
  <2>. QED  BY <1>5, <1>15, <1>19, <2>1 DEF Below
<1>21. old \in V /\ e \in V /\ V \subseteq Entry /\ Q[old] = P[old] /\ Q[old] \in V \cup {NULL}
       /\ Q[old] # e
  BY <1>4, <1>5, <1>12, <1>13
<1>22. L.child[old] = links.child[old]
  BY <1>4, <1>13, <1>16
<1>23. IsPrev(L, V, Q, old, x) /\ x \in V \cup {NULL}
  <2>1. IsPrev(links, Live, P, old, x)
    BY <1>1, <1>2, <1>4, PrevIs
  <2>2. CASE links.child[P[old]] = old
    <3>1. x = NULL
      BY <2>1, <2>2 DEF IsPrev
    <3>2. L.child[P[old]] = old
      BY <1>4, <1>5, <1>13, <2>2
    <3>. QED  BY <1>21, <3>1, <3>2 DEF IsPrev
  <2>3. CASE links.child[P[old]] # old
    <3>1. x \in Live /\ links.next[x] = old
      BY <2>1, <2>3 DEF IsPrev
    <3>2. L.next[x] = old
      BY <1>4, <1>5, <1>13, <3>1
    <3>3. L.child[P[old]] # old
      BY <1>5, <1>13, <2>3
    <3>. QED  BY <1>12, <1>21, <3>1, <3>2, <3>3 DEF IsPrev
  <2>. QED  BY <2>2, <2>3
<1>24. PICK M : /\ M = IF IsFile(old) THEN L ELSE MoveChildren(L, old, e)
                /\ links' = Relinked(P, old, x, M, open)
  BY <1>2, <1>4, <1>10, ReplaceLinks
<1>25. PICK W, J, K : W = links' /\ J = info' /\ K = Unlinked(L, Q[old], x, old)
  OBVIOUS
<1>26. \/ M = MoveChildren(L, old, e)
       \/ M = L /\ L.child[e] = L.child[old]
  <2>1. IsFile(old) => links.child[old] = NULL
    BY <1>4, LinksLive
  <2>. QED  BY <1>13, <1>22, <1>24, <2>1
<1>27. W = Relinked(Q, old, x, M, open)
  BY <1>21, <1>24, <1>25 DEF Relinked
<1>28. RelinkedAs(L, V, Q, old, e, x, W, open)
  BY <1>5, <1>13, <1>21, <1>23, <1>26, <1>27, RelinkedIs
<1>29. /\ W \in Links
       /\ \A y \in V \ {old} : W.next[y] = K.next[y]
       /\ W.child[e] = L.child[old]
       /\ \A y \in (V \ {old, e}) \cup {NULL} : W.child[y] = K.child[y]
       /\ \A y \in Entry \ V : W.next[y] = L.next[y] /\ W.child[y] = L.child[y]
       /\ ~open => W.next[old] = NULL /\ W.child[old] = NULL
  BY <1>25, <1>28 DEF RelinkedAs
<1>30. L.child[old] # NULL => I[e].type = "dir"
  <2>1. IsFile(old) => links.child[old] = NULL
    BY <1>4, LinksLive
  <2>. QED  BY <1>4, <1>5, <1>8, <1>22, <2>1, LiveInfo DEF IsFile
<1>31. IsUnlinked(L, K, V, Q, old, x)
  BY <1>13, <1>21, <1>23, <1>25, UnlinkedIs
<1>32. \A y \in V \ {old} : J[y] = I[y]
  BY <1>8, <1>21, <1>25
<1>33. Moved(L, V, I, Q, t, E, n, old, e, B, K, x, W, J)
  BY <1>5, <1>13, <1>17, <1>19, <1>20, <1>21, <1>29, <1>30, <1>31, <1>32 DEF Moved
<1>34. PICK R \in [Entry -> Pointer], F \in [Entry -> Nat] :
         Shape(W, V \ {old}, J, R, t, F, n) /\ Adopted(V, Q, old, e, R)
  BY <1>33, MovedShape
<1>35. Grown(R, t, F, n)'
  <2>1. Live' = V \ {old} /\ info' \in [Entry -> Info \cup {NULL}]
    BY <1>12 DEF Takes
  <2>. QED  BY <1>13, <1>25, <1>29, <1>34, <2>1 DEF Grown
<1>36. Clean'
  <2>1. \A y \in Entry \ Alloc : links.next[y] = NULL /\ links.child[y] = NULL
    BY DEF TreeInv, Clean
  <2>2. ASSUME NEW y \in Entry, y \notin Alloc, y # e
        PROVE  W.next[y] = NULL /\ W.child[y] = NULL
    <3>1. y \notin Live /\ y \notin V
      BY <1>5, <1>12, <2>2
    <3>2. L.next[y] = links.next[y] /\ L.child[y] = links.child[y]
      BY <1>9, <1>10, <2>2, <3>1, LinkedOutside
    <3>. QED  BY <1>29, <2>1, <2>2, <3>1, <3>2
  <2>. QED  BY <1>5, <1>25, <1>29, <2>2 DEF Clean, Takes
<1>37. R[e] = d /\ Adopted(Live, P, old, e, R)
  BY <1>12, <1>13, <1>16, <1>34 DEF Adopted
<1>38. Renamed(P, Len(p), old, e, R)
  BY <1>14, <1>15, <1>20, <1>37 DEF Renamed
<1>. QED  BY <1>2, <1>35, <1>36, <1>37, <1>38 DEF TreeInv

\* The same without naming the shape.
LEMMA RenameNewTree ==
  ASSUME TreeInv, Slips = {}, NEW p \in Path, NEW q \in Path,
         Traverse(p).ret = "ok", Traverse(q).ret = "noent",
         NEW old, old = Traverse(p).entry, MayRename(p, q, old),
         NEW e \in Entry \ Alloc, NEW open \in BOOLEAN, open = IsOpen(old),
         Takes(e, old, open, Last(q)), NEW cost,
         Replace(Linked(links, Traverse(q).parent, e), Traverse(p), e, cost)
  PROVE  TreeInv'
<1>1. PICK P, s, D, N : Grown(P, s, D, N)
  BY DEF TreeInv
<1>. QED  BY <1>1, RenameNewGrown

\* The blocks of old become those of new; its own are on no chain any more.
SwapOf(b, old, new) ==
  [x \in Entry |-> IF x = old THEN {} ELSE IF x = new THEN b[old] ELSE b[x]]

Swapped(b, c, new) ==
  /\ c \in [Entry -> SUBSET Block]
  /\ Apart(c)
  /\ Cardinality(UnionOf(b)) \in Nat /\ Cardinality(UnionOf(c)) \in Nat
  /\ Cardinality(b[new]) \in Nat
  /\ Cardinality(UnionOf(c)) = Cardinality(UnionOf(b)) - Cardinality(b[new])

\* The blocks that are taken in all, when one file takes over those of another.
LEMMA BlocksSwap ==
  ASSUME NEW b \in [Entry -> SUBSET Block], Apart(b), NEW old \in Entry, NEW new \in Entry,
         NEW c, c = SwapOf(b, old, new)
  PROVE  Swapped(b, c, new)
<1>1. /\ c \in [Entry -> SUBSET Block]
      /\ c[old] = {} /\ (new # old => c[new] = b[old])
      /\ \A x \in Entry : x # old /\ x # new => c[x] = b[x]
  BY DEF SwapOf
<1>2. Apart(c)
  BY <1>1 DEF Apart
<1>3. UnionOf(c) = UnionOf(b) \ b[new]
  <2>1. ASSUME NEW y \in UnionOf(c)
        PROVE  y \in UnionOf(b) \ b[new]
    <3>1. PICK x \in Entry : y \in c[x]
      BY DEF UnionOf
    <3>2. CASE x = new
      BY <1>1, <3>1, <3>2 DEF UnionOf, Apart
    <3>3. CASE x # new
      BY <1>1, <3>1, <3>3 DEF UnionOf, Apart
    <3>. QED  BY <3>2, <3>3
  <2>2. ASSUME NEW y \in UnionOf(b), y \notin b[new]
        PROVE  y \in UnionOf(c)
    <3>1. PICK x \in Entry : y \in b[x]
      BY DEF UnionOf
    <3>2. CASE x = old
      <4>1. new # old /\ y \in c[new]
        BY <1>1, <2>2, <3>1, <3>2
      <4>. QED  BY <4>1 DEF UnionOf
    <3>3. CASE x # old
      <4>1. y \in c[x]
        BY <1>1, <2>2, <3>1, <3>3
      <4>. QED  BY <4>1 DEF UnionOf
    <3>. QED  BY <3>2, <3>3
  <2>. QED  BY <2>1, <2>2
<1>4. /\ UnionOf(b) \cap b[new] = b[new]
      /\ UnionOf(b) \subseteq Block /\ UnionOf(c) \subseteq Block /\ b[new] \subseteq Block
  BY <1>1 DEF UnionOf
<1>5. /\ IsFiniteSet(UnionOf(b)) /\ Cardinality(UnionOf(b)) \in Nat
      /\ Cardinality(UnionOf(c)) \in Nat /\ Cardinality(b[new]) \in Nat
  BY <1>4, FS_Subset, FS_CardinalityType, RamFsAssumption
<1>6. Cardinality(UnionOf(b) \ b[new]) = Cardinality(UnionOf(b)) - Cardinality(UnionOf(b) \cap b[new])
  BY <1>5, FS_Difference
<1>7. Cardinality(UnionOf(c)) = Cardinality(UnionOf(b)) - Cardinality(b[new])
  BY <1>3, <1>4, <1>6
<1>. QED  BY <1>1, <1>2, <1>5, <1>7 DEF Swapped

\* What Replace does to the space.
LEMMA ReplaceEffect ==
  ASSUME SpaceInv, NEW L, NEW t, NEW old \in Alloc, old = t.entry, NEW new \in Entry, NEW cost,
         Replace(L, t, new, cost), IsOpen(old) => ~IsFile(old)
  PROVE  /\ blocks' = SwapOf(blocks, old, new)
         /\ used' = used + cost - (IF IsOpen(old) THEN 0 ELSE 1)
         /\ lost' = lost + (IF IsFile(old) THEN 1 ELSE 0) + Cardinality(blocks[new])
<1>0. old \in Entry /\ blocks \in [Entry -> SUBSET Block]
      /\ (~IsFile(old) => blocks[old] = {})
  BY DEF Alloc, SpaceInv, Files
<1>1. /\ blocks' = IF IsOpen(old) THEN [blocks EXCEPT ![new] = blocks[old]]
                   ELSE [[blocks EXCEPT ![new] = blocks[old]] EXCEPT ![old] = {}]
      /\ used' = used + cost - (IF IsOpen(old) THEN 0 ELSE 1)
      /\ lost' = lost + (IF IsFile(old) /\ ~IsOpen(old) THEN 1 ELSE 0) + Cardinality(blocks[new])
  BY DEF Replace
<1>2. blocks' = SwapOf(blocks, old, new)
  <2>1. CASE IsOpen(old)
    <3>1. blocks' = [blocks EXCEPT ![new] = blocks[old]] /\ blocks[old] = {}
      BY <1>0, <1>1, <2>1
    <3>. QED  BY <1>0, <3>1 DEF SwapOf
  <2>2. CASE ~IsOpen(old)
    <3>1. blocks' = [[blocks EXCEPT ![new] = blocks[old]] EXCEPT ![old] = {}]
      BY <1>1, <2>2
    <3>. QED  BY <1>0, <3>1 DEF SwapOf
  <2>. QED  BY <2>1, <2>2
<1>. QED  BY <1>1, <1>2

\* ramfs_rename counts what it loses, when the new path is in use.
LEMMA RenameOntoSpace ==
  ASSUME Inv, NEW L, NEW t, NEW old \in Alloc, old = t.entry, NEW new \in Alloc,
         Replace(L, t, new, 0), IsOpen(old) => ~IsFile(old), IsFile(old) <=> IsFile(new),
         Leaves(old, IsOpen(old))
  PROVE  SpaceInv' /\ used' <= used
<1>0. old \in Entry /\ new \in Entry /\ SpaceInv
  BY DEF Alloc, Inv
<1>1. PICK o \in {0, 1}, k \in {0, 1} : /\ o = IF IsOpen(old) THEN 0 ELSE 1
                                        /\ k = IF IsFile(old) THEN 1 ELSE 0
  OBVIOUS
<1>2. /\ blocks' = SwapOf(blocks, old, new)
      /\ used' = used + 0 - o
      /\ lost' = lost + k + Cardinality(blocks[new])
  BY <1>0, <1>1, ReplaceEffect
<1>3. PICK c : c = blocks'
  OBVIOUS
<1>4. Swapped(blocks, c, new)
  BY <1>0, <1>2, <1>3, BlocksSwap DEF SpaceInv
<1>5. /\ Alloc' = IF IsOpen(old) THEN Alloc ELSE Alloc \ {old}
      /\ \A y \in Entry : y # old => info'[y] = info[y]
      /\ IsOpen(old) => info'[old].type = info[old].type
  BY DEF Leaves
<1>6. Files' = IF IsFile(old) THEN Files \ {old} ELSE Files
  <2>1. CASE IsOpen(old)
    <3>1. \A y \in Alloc : info'[y].type = info[y].type
      BY <1>5, <2>1 DEF Alloc
    <3>. QED  BY <1>5, <2>1, <3>1 DEF Files, IsFile
  <2>2. CASE ~IsOpen(old)
    <3>1. Alloc' = Alloc \ {old} /\ \A y \in Alloc \ {old} : info'[y] = info[y]
      BY <1>5, <2>2 DEF Alloc
    <3>. QED  BY <3>1 DEF Files, IsFile
  <2>. QED  BY <2>1, <2>2
<1>7. IsFiniteSet(Alloc) /\ IsFiniteSet(Files) /\ Cardinality(Alloc) \in Nat
      /\ Cardinality(Files) \in Nat
  BY <1>0, SpaceFinite DEF SpaceInv
<1>8. Cardinality(Alloc') = Cardinality(Alloc) - o
  <2>1. Cardinality(Alloc \ {old}) = Cardinality(Alloc) - 1
    BY <1>7, FS_RemoveElement
  <2>. QED  BY <1>1, <1>5, <1>7, <2>1
<1>9. Cardinality(Files') = Cardinality(Files) - k
  <2>1. IsFile(old) => old \in Files
    BY DEF Files
  <2>2. old \in Files => Cardinality(Files \ {old}) = Cardinality(Files) - 1
    BY <1>7, FS_RemoveElement
  <2>. QED  BY <1>1, <1>6, <1>7, <2>1, <2>2
<1>10. /\ c \in [Entry -> SUBSET Block] /\ Apart(c)
       /\ Cardinality(UnionOf(blocks)) \in Nat /\ Cardinality(blocks[new]) \in Nat
       /\ Cardinality(UnionOf(c)) = Cardinality(UnionOf(blocks)) - Cardinality(blocks[new])
  BY <1>4 DEF Swapped
<1>11. /\ used = lost + Cardinality(Alloc) + Cardinality(Files) + Cardinality(UnionOf(blocks))
       /\ lost \in Nat
  BY <1>0 DEF SpaceInv
<1>12. used' = lost' + Cardinality(Alloc') + Cardinality(Files') + Cardinality(UnionOf(c))
  BY <1>2, <1>7, <1>8, <1>9, <1>10, <1>11
<1>13. lost' \in Nat /\ used' <= used
  BY <1>2, <1>7, <1>10, <1>11
<1>14. ASSUME NEW y \in Entry, y \notin Files'
       PROVE  c[y] = {}
  <2>1. c = SwapOf(blocks, old, new)
    BY <1>2, <1>3
  <2>2. IsFile(new) => new \in Files
    BY DEF Files
  <2>3. ~IsFile(old) => blocks[old] = {}
    BY <1>0 DEF SpaceInv, Files
  <2>4. CASE y = old
    BY <2>1, <2>4 DEF SwapOf
  <2>5. CASE y # old /\ y = new
    <3>1. ~IsFile(old)
      BY <1>6, <1>14, <2>2, <2>5
    <3>. QED  BY <1>0, <2>1, <2>3, <2>5, <3>1 DEF SwapOf
  <2>6. CASE y # old /\ y # new
    <3>1. y \notin Files
      BY <1>6, <1>14, <2>6
    <3>2. blocks[y] = {}
      BY <1>0, <3>1 DEF SpaceInv
    <3>. QED  BY <2>1, <2>6, <3>2 DEF SwapOf
  <2>. QED  BY <2>4, <2>5, <2>6
<1>15. UnionOf(blocks)' = UnionOf(c) /\ Apart(blocks)' = Apart(c)
  BY <1>3 DEF UnionOf, Apart
<1>16. SpaceInv'
  BY <1>3, <1>10, <1>12, <1>13, <1>14, <1>15 DEF SpaceInv
<1>. QED  BY <1>13, <1>16

\* ramfs_rename counts what it loses, when the new path is not in use.
LEMMA RenameNewSpace ==
  ASSUME Inv, NEW L, NEW t, NEW old \in Alloc, old = t.entry, NEW e \in Entry \ Alloc,
         Replace(L, t, e, Cost(info[old].type)), IsOpen(old) => ~IsFile(old),
         used + Cost(info[old].type) <= Size, NEW n, Takes(e, old, IsOpen(old), n)
  PROVE  SpaceInv' /\ used' <= Size
<1>0. old \in Entry /\ e \in Entry /\ SpaceInv /\ old # e /\ e \notin Files
  BY DEF Alloc, Inv, Files
<1>1. PICK o \in {0, 1}, k \in {0, 1} : /\ o = IF IsOpen(old) THEN 0 ELSE 1
                                        /\ k = IF IsFile(old) THEN 1 ELSE 0
  OBVIOUS
<1>2. PICK cost : cost = Cost(info[old].type)
  OBVIOUS
<1>3. cost = k + 1 /\ used + cost <= Size
  BY <1>1, <1>2 DEF Cost, IsFile
<1>4. blocks[e] = {} /\ Cardinality(blocks[e]) = 0
  BY <1>0, FS_EmptySet DEF SpaceInv
<1>5. /\ blocks' = SwapOf(blocks, old, e)
      /\ used' = used + cost - o
      /\ lost' = lost + k + Cardinality(blocks[e])
  BY <1>0, <1>1, <1>2, ReplaceEffect
<1>6. PICK c : c = blocks'
  OBVIOUS
<1>7. Swapped(blocks, c, e)
  BY <1>0, <1>5, <1>6, BlocksSwap DEF SpaceInv
<1>8. /\ Alloc' = IF IsOpen(old) THEN Alloc \cup {e} ELSE (Alloc \cup {e}) \ {old}
      /\ \A y \in Entry : y # e /\ y # old => info'[y] = info[y]
      /\ info'[e].type = info[old].type
      /\ IsOpen(old) => info'[old].type = info[old].type
  BY DEF Takes
<1>9. Files' = IF IsFile(old) THEN (Files \cup {e}) \ {old} ELSE Files
  <2>1. CASE IsOpen(old)
    <3>1. \A y \in Alloc : info'[y].type = info[y].type
      BY <1>0, <1>8, <2>1 DEF Alloc
    <3>2. ~IsFile(old) /\ info'[e].type # "file"
      BY <1>8, <2>1 DEF IsFile
    <3>. QED  BY <1>0, <1>8, <2>1, <3>1, <3>2 DEF Files, IsFile
  <2>2. CASE ~IsOpen(old)
    <3>1. /\ Alloc' = (Alloc \cup {e}) \ {old}
          /\ \A y \in Alloc \ {old} : info'[y] = info[y]
      BY <1>8, <2>2 DEF Alloc
    <3>. QED  BY <1>0, <1>8, <3>1 DEF Files, IsFile
  <2>. QED  BY <2>1, <2>2
<1>10. IsFiniteSet(Alloc) /\ IsFiniteSet(Files) /\ Cardinality(Alloc) \in Nat
       /\ Cardinality(Files) \in Nat
  BY <1>0, SpaceFinite DEF SpaceInv
<1>11. /\ IsFiniteSet(Alloc \cup {e}) /\ Cardinality(Alloc \cup {e}) = Cardinality(Alloc) + 1
       /\ IsFiniteSet(Files \cup {e}) /\ Cardinality(Files \cup {e}) = Cardinality(Files) + 1
  BY <1>0, <1>10, FS_AddElement
<1>12. Cardinality(Alloc') = Cardinality(Alloc) + 1 - o
  <2>1. old \in Alloc \cup {e}
    OBVIOUS
  <2>2. Cardinality((Alloc \cup {e}) \ {old}) = Cardinality(Alloc \cup {e}) - 1
    BY <1>11, <2>1, FS_RemoveElement
  <2>. QED  BY <1>1, <1>8, <1>10, <1>11, <2>2
<1>13. Cardinality(Files') = Cardinality(Files)
  <2>1. IsFile(old) => old \in Files \cup {e}
    BY DEF Files
  <2>2. old \in Files \cup {e} =>
          Cardinality((Files \cup {e}) \ {old}) = Cardinality(Files \cup {e}) - 1
    BY <1>11, FS_RemoveElement
  <2>. QED  BY <1>9, <1>10, <1>11, <2>1, <2>2
<1>14. /\ c \in [Entry -> SUBSET Block] /\ Apart(c)
       /\ Cardinality(UnionOf(blocks)) \in Nat
       /\ Cardinality(UnionOf(c)) = Cardinality(UnionOf(blocks)) - Cardinality(blocks[e])
  BY <1>7 DEF Swapped
<1>15. /\ used = lost + Cardinality(Alloc) + Cardinality(Files) + Cardinality(UnionOf(blocks))
       /\ lost \in Nat
  BY <1>0 DEF SpaceInv
<1>16. used' = lost' + Cardinality(Alloc') + Cardinality(Files') + Cardinality(UnionOf(c))
  BY <1>3, <1>4, <1>5, <1>10, <1>12, <1>13, <1>14, <1>15
<1>17. lost' \in Nat /\ used' <= Size
  <2>1. lost' = lost + k + 0
    BY <1>4, <1>5
  <2>2. lost' \in Nat
    BY <1>15, <2>1
  <2>3. used \in Nat /\ Size \in Nat
    BY UsedInt
  <2>4. used' = used + (k + 1) - o /\ used + (k + 1) <= Size
    BY <1>3, <1>5
  <2>5. used' <= Size
    BY <2>3, <2>4
  <2>. QED  BY <2>2, <2>5
<1>18. ASSUME NEW y \in Entry, y \notin Files'
       PROVE  c[y] = {}
  <2>1. c = SwapOf(blocks, old, e)
    BY <1>5, <1>6
  <2>2. ~IsFile(old) => blocks[old] = {}
    BY <1>0 DEF SpaceInv, Files
  <2>3. CASE y = old
    BY <2>1, <2>3 DEF SwapOf
  <2>4. CASE y = e
    <3>1. ~IsFile(old)
      BY <1>0, <1>9, <1>18, <2>4
    <3>. QED  BY <1>0, <2>1, <2>2, <2>4, <3>1 DEF SwapOf
  <2>5. CASE y # old /\ y # e
    <3>1. y \notin Files
      BY <1>9, <1>18, <2>5
    <3>2. blocks[y] = {}
      BY <1>0, <3>1 DEF SpaceInv
    <3>. QED  BY <2>1, <2>5, <3>2 DEF SwapOf
  <2>. QED  BY <2>3, <2>4, <2>5
<1>19. UnionOf(blocks)' = UnionOf(c) /\ Apart(blocks)' = Apart(c)
  BY <1>6 DEF UnionOf, Apart
<1>20. SpaceInv'
  BY <1>6, <1>14, <1>16, <1>17, <1>18, <1>19 DEF SpaceInv
<1>. QED  BY <1>17, <1>20

\* ramfs_rename to a path that is in use.
LEMMA RenameOntoInv ==
  ASSUME Inv, Slips = {}, NEW p \in Path, NEW q \in Path, RenameOnto(p, q)
  PROVE  Inv'
<1>1. /\ TreeInv /\ HandleInv /\ SpaceInv /\ info \in [Entry -> Info \cup {NULL}]
      /\ links \in Links /\ Idle
  BY IdleTree DEF RenameOnto
<1>2. PICK old, new : old = Traverse(p).entry /\ new = Traverse(q).entry
  OBVIOUS
<1>3. /\ Traverse(p).ret = "ok" /\ Traverse(q).ret = "ok"
      /\ IsFile(new) \/ (~IsFile(old) /\ links.child[new] = NULL)
      /\ ~ (IsFile(new) /\ ~IsFile(old))
      /\ MayRemove(old) /\ (IsOpen(old) => ~IsFile(old))
      /\ info' = [info EXCEPT ![old] = OldInfo(old)]
      /\ Replace(links, Traverse(p), new, 0)
      /\ UNCHANGED <<uses, leaked, fd, dd, stack>>
  BY <1>2 DEF RenameOnto, CanReplace, MayRename
<1>4. old \in Live /\ new \in Live /\ old \in Alloc /\ new \in Alloc /\ old \in Entry
  <2>1. PICK P, s, D, N : Grown(P, s, D, N)
    BY <1>1 DEF TreeInv
  <2>2. old \in Live /\ new \in Live
    BY <1>2, <1>3, <2>1, TraverseEntry
  <2>. QED  BY <2>2 DEF Live, Alloc
<1>5. Leaves(old, IsOpen(old))
  BY <1>1, <1>3, <1>4, OldLeaves
<1>6. TreeInv'
  BY <1>1, RenameOntoTree
<1>7. SpaceInv' /\ used' <= used
  BY <1>2, <1>3, <1>4, <1>5, RenameOntoSpace
<1>8. HandleInv'
  <2>1. /\ \A x \in Entry : x # old => info'[x] = info[x]
        /\ Live' = Live \ {old}
        /\ Alloc' = IF IsOpen(old) THEN Alloc ELSE Alloc \ {old}
        /\ IsOpen(old) => info'[old].rm /\ info'[old].type = info[old].type
        /\ IsOpen(old) <=> uses[old] > 0
    BY <1>5 DEF Leaves, IsOpen
  <2>2. \A x \in Alloc : uses[x] > 0 => info'[x] # NULL /\ info'[x].type = info[x].type
    BY <2>1 DEF Alloc
  <2>3. \A x \in Alloc' : info'[x].rm => uses[x] > 0
    BY <1>1, <2>1 DEF HandleInv, CountInv, Alloc
  <2>4. \A d \in DD : dd[d] # NULL /\ dd[d].child # NULL => dd[d].child \in Live'
    BY <1>1, <1>3, <1>4, <2>1, MayRemoveChild DEF HandleInv, CountInv
  <2>. QED  BY <1>1, <1>3, <2>2, <2>3, <2>4, HandlesKept
<1>9. used' <= Size /\ Idle'
  BY <1>1, <1>3, <1>7, StillFits DEF Idle
<1>. QED  BY <1>6, <1>7, <1>8, <1>9, IdleInv

\* ramfs_rename to a path that is not in use.
LEMMA RenameNewInv ==
  ASSUME Inv, Slips = {}, NEW p \in Path, NEW q \in Path, RenameNew(p, q)
  PROVE  Inv'
<1>1. /\ TreeInv /\ HandleInv /\ SpaceInv /\ info \in [Entry -> Info \cup {NULL}]
      /\ links \in Links /\ Idle
  BY IdleTree DEF RenameNew
<1>2. PICK old : old = Traverse(p).entry
  OBVIOUS
<1>3. /\ Traverse(p).ret = "ok" /\ Traverse(q).ret = "noent" /\ MayRename(p, q, old)
      /\ MayRemove(old) /\ (IsOpen(old) => ~IsFile(old))
      /\ UNCHANGED <<uses, leaked, fd, dd, stack>>
  BY <1>2 DEF RenameNew, MayRename
<1>4. PICK e \in Entry \ Alloc :
        /\ used + Cost(info[old].type) <= Size
        /\ info' = [info EXCEPT
                      ![e] = [type |-> info[old].type, name |-> Last(q), rm |-> FALSE],
                      ![old] = OldInfo(old)]
        /\ Replace(Linked(links, Traverse(q).parent, e), Traverse(p), e, Cost(info[old].type))
  BY <1>2 DEF RenameNew
<1>5. old \in Live /\ old \in Alloc /\ old \in Entry
  <2>1. PICK P, s, D, N : Grown(P, s, D, N)
    BY <1>1 DEF TreeInv
  <2>2. old \in Live
    BY <1>2, <1>3, <2>1, TraverseEntry
  <2>. QED  BY <2>2 DEF Live, Alloc
<1>6. Last(q) \in Name
  BY PathSeq DEF Last
<1>o. PICK open : open = IsOpen(old)
  OBVIOUS
<1>7. open \in BOOLEAN /\ open = IsOpen(old)
  BY <1>o DEF IsOpen
<1>8. Takes(e, old, open, Last(q))
  BY <1>1, <1>4, <1>5, <1>6, <1>7, NewTakes
<1>9. TreeInv'
  BY <1>1, <1>2, <1>3, <1>4, <1>7, <1>8, RenameNewTree
<1>10. SpaceInv' /\ used' <= Size
  BY <1>2, <1>3, <1>4, <1>5, <1>7, <1>8, RenameNewSpace
<1>11. HandleInv'
  <2>1. /\ \A x \in Entry : x # e /\ x # old => info'[x] = info[x]
        /\ Live' = (Live \cup {e}) \ {old} /\ ~info'[e].rm
        /\ Alloc' = IF open THEN Alloc \cup {e} ELSE (Alloc \cup {e}) \ {old}
        /\ open => info'[old].rm /\ info'[old].type = info[old].type
        /\ open <=> uses[old] > 0
    BY <1>7, <1>8 DEF Takes, IsOpen
  <2>2. \A x \in Alloc : uses[x] > 0 => info'[x] # NULL /\ info'[x].type = info[x].type
    <3>1. open => old \in Alloc'
      BY <1>5, <2>1
    <3>. QED  BY <2>1, <3>1 DEF Alloc
  <2>3. \A x \in Alloc' : info'[x].rm => uses[x] > 0
    BY <1>1, <2>1 DEF HandleInv, CountInv, Alloc
  <2>4. \A d \in DD : dd[d] # NULL /\ dd[d].child # NULL => dd[d].child \in Live'
    BY <1>1, <1>3, <1>5, <2>1, MayRemoveChild DEF HandleInv, CountInv
  <2>. QED  BY <1>1, <1>3, <2>2, <2>3, <2>4, HandlesKept
<1>12. Idle'
  BY <1>1, <1>3 DEF Idle
<1>. QED  BY <1>9, <1>10, <1>11, <1>12, IdleInv


-----------------------------------------------------------------------------
(* ramfs_umount.                                                           *)

\* ramfs_umount begins, with the root on its stack.
LEMMA UmountBeginInv ==
  ASSUME Inv, UmountBegin
  PROVE  Inv'
<1>1. /\ Idle /\ stack' = <<NULL>>
      /\ UNCHANGED <<info, links, blocks, lost, used, uses, leaked, fd, dd>>
  BY DEF UmountBegin
<1>2. TreeInv /\ CountInv /\ SpaceInv
  BY <1>1, IdleTree DEF HandleInv
<1>3. TreeInv' /\ SpaceInv' /\ Alloc' = Alloc /\ Live' = Live /\ Files' = Files
  BY <1>1, <1>2, SameTree, SameSpace
<1>4. CountInv'
  BY <1>1, <1>2, <1>3 DEF CountInv, Count, OfFile, OfDir, OfLeak
<1>5. stack' \in Seq(Pointer)
  BY <1>1 DEF Pointer
<1>6. ~Idle'
  BY <1>5, RamFsAssumption DEF Idle
<1>7. UmountInv'
  BY <1>1, <1>3 DEF UmountInv
<1>. QED  BY <1>1, <1>3, <1>4, <1>5, <1>6, <1>7 DEF Inv

\* A turn takes the entries of S: those in use are marked, the others freed.
Turned(S) ==
  /\ S \subseteq Alloc
  /\ info' \in [Entry -> Info \cup {NULL}]
  /\ \A x \in S : uses[x] = 0 => info'[x] = NULL
  /\ \A x \in S : uses[x] # 0 => /\ info'[x] # NULL
                                 /\ info'[x].type = info[x].type
  /\ \A x \in Entry \ S : info'[x] = info[x]
  /\ blocks' = [x \in Entry |-> IF x \in S /\ uses[x] = 0 THEN {} ELSE blocks[x]]
  /\ used' = used - Taken({x \in S : uses[x] = 0})
  /\ UNCHANGED <<links, lost, uses, leaked, fd, dd>>

\* It is enough then to look at the stack.
LEMMA TurnedInv ==
  ASSUME Inv, NEW S, Turned(S), stack' \in Seq(Pointer), UmountInv'
  PROVE  Inv' /\ ~Idle'
<1>1. CountInv /\ SpaceInv /\ links \in Links
  BY DEF Inv
<1>2. PICK F : F = {x \in S : uses[x] = 0}
  OBVIOUS
<1>3. Freed(F)
  <2>1. F \subseteq Alloc /\ \A x \in F : info'[x] = NULL
    BY <1>2 DEF Turned
  <2>2. \A x \in Entry \ F : /\ info'[x] = NULL <=> info[x] = NULL
                             /\ info[x] # NULL => info'[x].type = info[x].type
    BY <1>2 DEF Turned, Alloc
  <2>3. blocks' = [x \in Entry |-> IF x \in F THEN {} ELSE blocks[x]]
    BY <1>2 DEF Turned
  <2>4. used' = used - Taken(F) /\ lost' = lost
    BY <1>2 DEF Turned
  <2>. QED  BY <2>1, <2>2, <2>3, <2>4 DEF Freed
<1>4. SpaceInv' /\ used' <= used
  BY <1>1, <1>3, FreeSpace
<1>5. used' <= Size
  BY <1>4, StillFits
<1>6. CountInv'
  <2>1. \A x \in Entry : uses[x] \in Nat
    BY <1>1 DEF CountInv
  <2>2. \A x \in Alloc : uses[x] > 0 => info'[x] # NULL /\ info'[x].type = info[x].type
    BY DEF Turned, Alloc
  <2>3. ASSUME NEW x \in Alloc', info'[x].rm
        PROVE  uses[x] > 0
    <3>1. x \in Entry /\ info'[x] # NULL
      BY DEF Alloc
    <3>2. CASE x \in S
      BY <2>1, <3>1, <3>2 DEF Turned
    <3>3. CASE x \notin S
      <4>1. info'[x] = info[x]
        BY <3>1, <3>3 DEF Turned
      <4>. QED  BY <1>1, <2>3, <3>1, <4>1 DEF CountInv, Alloc
    <3>. QED  BY <3>2, <3>3
  <2>4. UNCHANGED <<uses, leaked, fd, dd>>
    BY DEF Turned
  <2>. QED  BY <1>1, <2>2, <2>3, <2>4, CountsKept
<1>7. ~Idle'
  BY RamFsAssumption DEF Idle
<1>8. links' \in Links /\ info' \in [Entry -> Info \cup {NULL}]
  BY <1>1 DEF Turned
<1>. QED  BY <1>4, <1>5, <1>6, <1>7, <1>8 DEF Inv

\* The links stay, and with them the chains.
LEMMA ChainsStay ==
  ASSUME links' = links
  PROVE  /\ \A d : Chain(d)' = Chain(d)
         /\ Nested' <=> Nested
<1>1. \A d : Chain(d)' = Chain(d)
  BY DEF Chain, ChainFrom, Holds
<1>2. Nested' <=> Nested
  BY DEF Nested, Chain
<1>. QED  BY <1>1, <1>2

\* What a turn does.
LEMMA UmountTurnIs ==
  ASSUME Inv, UmountTurn, NEW d, d = Last(stack),
         NEW F, F = {e \in Chain(d) : IsFull(e)},
         NEW S, S = (Chain(d) \ F) \cup (IF d # NULL /\ F = {} THEN {d} ELSE {})
  PROVE  /\ Turned(S) /\ Chain(d) \subseteq Alloc
         /\ stack \in Seq(Pointer) /\ stack # <<>>
         /\ \E q \in InOrder(F) :
              stack' = AfterTurn(d, IF d = NULL THEN Front(stack) ELSE stack, q)
<1>1. PICK G : G = {e \in S : uses[e] = 0}
  OBVIOUS
<1>2. /\ stack # NULL /\ stack # <<>> /\ IsThere(d)
      /\ \E q \in InOrder(F) :
              stack' = AfterTurn(d, IF d = NULL THEN Front(stack) ELSE stack, q)
      /\ info' = [e \in Entry |-> IF e \in G THEN NULL
                                  ELSE IF e \in S THEN [info[e] EXCEPT !.rm = TRUE]
                                  ELSE info[e]]
      /\ blocks' = [e \in Entry |-> IF e \in G THEN {} ELSE blocks[e]]
      /\ used' = used - Taken(G)
      /\ UNCHANGED <<links, lost, uses, leaked, fd, dd>>
  BY <1>1, Zenon DEF UmountTurn, Idle
<1>3. Chain(d) \subseteq Alloc /\ S \subseteq Alloc
  BY <1>2 DEF IsThere
<1>4. stack \in Seq(Pointer)
  BY <1>2 DEF Inv
<1>5. info \in [Entry -> Info \cup {NULL}] /\ Alloc \subseteq Entry /\ \A x \in Alloc : info[x] \in Info
  BY DEF Inv, Alloc
<1>6. \A x \in Alloc : /\ [info[x] EXCEPT !.rm = TRUE] \in Info
                       /\ [info[x] EXCEPT !.rm = TRUE].type = info[x].type
  BY <1>5 DEF Info
<1>7. NULL \notin Info
  BY RamFsAssumption
<1>8. /\ info' \in [Entry -> Info \cup {NULL}]
      /\ \A x \in S : uses[x] = 0 => info'[x] = NULL
      /\ \A x \in S : uses[x] # 0 => /\ info'[x] # NULL
                                     /\ info'[x].type = info[x].type
      /\ \A x \in Entry \ S : info'[x] = info[x]
  <2>1. \A x \in Entry : info'[x] = IF x \in G THEN NULL
                                    ELSE IF x \in S THEN [info[x] EXCEPT !.rm = TRUE]
                                    ELSE info[x]
    BY <1>2
  <2>2. \A x \in Entry : info'[x] \in Info \cup {NULL}
    BY <1>3, <1>5, <1>6, <2>1
  <2>3. info' \in [Entry -> Info \cup {NULL}]
    BY <1>2, <2>2
  <2>4. \A x \in S : uses[x] = 0 => info'[x] = NULL
    BY <1>1, <1>3, <1>5, <2>1
  <2>5. ASSUME NEW x \in S, uses[x] # 0
        PROVE  info'[x] # NULL /\ info'[x].type = info[x].type
    <3>1. x \in Alloc /\ x \in Entry /\ x \notin G
      BY <1>1, <1>3, <1>5, <2>5
    <3>2. info'[x] = [info[x] EXCEPT !.rm = TRUE]
      BY <2>1, <3>1
    <3>3. PICK v : v = [info[x] EXCEPT !.rm = TRUE]
      OBVIOUS
    <3>4. v \in Info /\ v.type = info[x].type
      BY <1>6, <3>1, <3>3
    <3>. QED  BY <1>7, <3>2, <3>3, <3>4
  <2>6. \A x \in Entry \ S : info'[x] = info[x]
    BY <1>1, <2>1
  <2>. QED  BY <2>3, <2>4, <2>5, <2>6
<1>9. blocks' = [x \in Entry |-> IF x \in S /\ uses[x] = 0 THEN {} ELSE blocks[x]]
  BY <1>1, <1>2
<1>10. used' = used - Taken({x \in S : uses[x] = 0})
  BY <1>1, <1>2
<1>. QED  BY <1>2, <1>3, <1>4, <1>8, <1>9, <1>10 DEF Turned

\* Sequences without an element.
LEMMA InOrderEmpty == \A q \in InOrder({}) : q = <<>>
<1>1. Cardinality({}) = 0
  BY FS_EmptySet
<1>2. \A q \in [1 .. 0 -> {}] : q = <<>>
  OBVIOUS
<1>. QED  BY <1>1, <1>2 DEF InOrder

\* The last directory is taken from the stack with what is in it.
LEMMA UmountPopInv ==
  ASSUME Inv, ~Nested, Unmounting, UmountTurn
  PROVE  Inv' /\ ~Idle'
<1>1. stack \in Seq(Pointer) /\ stack # <<>>
  BY DEF UmountTurn, Idle, Inv
<1>2. PICK n, d : n = Len(stack) /\ d = stack[n]
  OBVIOUS
<1>3. n \in Nat /\ n > 0 /\ DOMAIN stack = 1 .. n /\ n \in DOMAIN stack /\ d = Last(stack)
  BY <1>1, <1>2 DEF Last
<1>4. d \in Alloc /\ d \in Entry /\ d # NULL
  <2>1. \A i \in DOMAIN stack : stack[i] \in Alloc
    BY DEF Unmounting
  <2>2. d \in Alloc
    BY <1>2, <1>3, <2>1
  <2>. QED  BY <2>2, RamFsAssumption DEF Alloc
<1>5. {e \in Chain(d) : IsFull(e)} = {}
  BY <1>2, <1>3 DEF Unmounting, IsFull
<1>6. PICK S : S = Chain(d) \cup {d}
  OBVIOUS
<1>9. Turned(S) /\ \E q \in InOrder({}) : stack' = AfterTurn(d, stack, q)
  <2>1. S = (Chain(d) \ {}) \cup (IF d # NULL /\ {} = {} THEN {d} ELSE {})
    BY <1>4, <1>6
  <2>2. /\ Turned(S)
        /\ \E q \in InOrder({}) :
             stack' = AfterTurn(d, IF d = NULL THEN Front(stack) ELSE stack, q)
    BY <1>3, <1>5, <2>1, UmountTurnIs
  <2>. QED  BY <1>4, <2>2
<1>10. stack' = SubSeq(stack, 1, n - 1)
  BY <1>2, <1>4, <1>9, InOrderEmpty DEF AfterTurn, Front
<1>11. /\ stack' \in Seq(Pointer)
       /\ DOMAIN stack' = 1 .. n - 1
       /\ \A i \in DOMAIN stack' : stack'[i] = stack[i] /\ i \in DOMAIN stack /\ i # n
       /\ \A i \in DOMAIN stack : i # n => i \in DOMAIN stack'
  <2>1. stack' \in Seq(Pointer) /\ Len(stack') = n - 1
    BY <1>1, <1>2, <1>3, <1>10
  <2>2. \A i \in 1 .. n - 1 : stack'[i] = stack[i]
    BY <1>1, <1>2, <1>3, <1>10
  <2>. QED  BY <1>3, <2>1, <2>2
<1>12. links' = links /\ uses' = uses
  BY <1>9 DEF Turned
<1>13. /\ Alloc' \subseteq Alloc /\ Alloc \ S \subseteq Alloc'
       /\ \A x \in S : x \in Alloc' => uses[x] > 0
  <2>1. \A x \in Entry : uses[x] \in Nat
    BY DEF Inv, CountInv
  <2>. QED  BY <1>9, <2>1 DEF Turned, Alloc
<1>14. ASSUME NEW e \in Alloc'
       PROVE  uses[e] > 0 \/ \E i \in DOMAIN stack' : e = stack[i] \/ e \in Chain(stack[i])
  <2>1. CASE e \in S
    BY <1>13, <2>1
  <2>2. CASE \E i \in DOMAIN stack : (e = stack[i] \/ e \in Chain(stack[i])) /\ e \notin S
    BY <1>2, <1>6, <1>11, <2>2
  <2>. QED  BY <1>13, <2>1, <2>2 DEF Unmounting
<1>15. ASSUME NEW i \in DOMAIN stack'
       PROVE  stack[i] \in Alloc' /\ Chain(stack[i]) \subseteq Alloc'
  <2>1. i \in DOMAIN stack /\ i # n /\ n \in DOMAIN stack
    BY <1>3, <1>11
  <2>2. stack[i] \in Alloc /\ Chain(stack[i]) \subseteq Alloc
    BY <2>1 DEF Unmounting
  <2>3. stack[i] \notin S /\ Chain(stack[i]) \cap S = {}
    BY <1>2, <1>6, <2>1 DEF Unmounting
  <2>. QED  BY <1>13, <2>2, <2>3
<1>16. \A x : Chain(x)' = Chain(x)
  BY <1>12, ChainsStay
<1>17. \A i \in DOMAIN stack' : Chain(stack[i])' = Chain(stack[i])
  <2>1. \A i \in DOMAIN stack' : Chain(stack[i])' = ChainFrom(links', links'.child[stack'[i]])
    BY DEF Chain, ChainFrom, Holds
  <2>. QED  BY <1>11, <1>12, <2>1 DEF Chain
<1>19. Unmounting'
  <2>1. (\A i \in DOMAIN stack : stack[i] \in Alloc /\ Chain(stack[i]) \subseteq Alloc)'
    BY <1>11, <1>15, <1>17
  <2>2. (\A i, j \in DOMAIN stack : stack[i] = stack[j] => i = j)'
    BY <1>11 DEF Unmounting
  <2>3. (\A e \in Alloc : \/ uses[e] > 0
                          \/ \E i \in DOMAIN stack : e = stack[i] \/ e \in Chain(stack[i]))'
    BY <1>11, <1>12, <1>14, <1>17
  <2>4. (\A i, j \in DOMAIN stack : stack[i] \notin Chain(stack[j]))'
    BY <1>11, <1>17 DEF Unmounting
  <2>5. (\A i, j \in DOMAIN stack : i # j => Chain(stack[i]) \cap Chain(stack[j]) = {})'
    BY <1>11, <1>17 DEF Unmounting
  <2>6. (\A i \in DOMAIN stack : \A c \in Chain(stack[i]) : links.child[c] = NULL)'
    BY <1>11, <1>12, <1>17 DEF Unmounting
  <2>. QED  BY <2>1, <2>2, <2>3, <2>4, <2>5, <2>6 DEF Unmounting
<1>20. UmountInv'
  BY <1>12, <1>19, ChainsStay DEF UmountInv
<1>. QED  BY <1>9, <1>11, <1>20, TurnedInv


\* Only directories of the root are full then, and they hold the rest.
LEMMA UmountLevels ==
  ASSUME NEW P, NEW s, NEW D, NEW N, Grown(P, s, D, N), ~Nested
  PROVE  \A e \in Live : P[e] # NULL =>
           P[e] \in Live /\ IsFull(P[e]) /\ P[P[e]] = NULL /\ P[e] # e
<1>. DEFINE X == {f \in Live : IsFull(f) /\ P[f] # NULL}
<1>1. Shape(links, Live, info, P, s, D, N) /\ links \in Links
  BY DEF Grown
<1>2. \A d \in Live \cup {NULL} : Chain(d) = {e \in Live : P[e] = d}
  BY <1>1, ChainIs DEF Chain
<1>3. ASSUME NEW e \in Live, P[e] # NULL
      PROVE  P[e] \in Live /\ IsFull(P[e]) /\ D[P[e]] < D[e] /\ P[e] # e
  <2>1. P[e] \in Live /\ ~IsFile(P[e])
    BY <1>1, <1>3 DEF Shape, Parents, IsFile
  <2>2. links.child[P[e]] # NULL
    <3>1. e \in {x \in Live : P[x] = P[e]}
      OBVIOUS
    <3>2. PICK d : d = P[e]
      OBVIOUS
    <3>3. d \in Live \cup {NULL} /\ {x \in Live : P[x] = d} # {}
      BY <2>1, <3>1, <3>2
    <3>4. links.child[d] # NULL
      BY <1>1, <3>3, NoChildren
    <3>. QED  BY <3>2, <3>4
  <2>3. D[P[e]] \in Nat /\ D[e] = D[P[e]] + 1
    BY <1>1, <1>3, <2>1 DEF Shape, Depths
  <2>. QED  BY <2>1, <2>2, <2>3 DEF IsFull
<1>4. ASSUME X # {}
      PROVE  FALSE
  <2>1. \A x \in X : D[x] \in Nat
    BY <1>1 DEF Shape, Depths
  <2>2. PICK f \in X : \A y \in X : ~ (D[y] < D[f])
    <3>. HIDE DEF X
    <3>. QED  BY <1>4, <2>1, LeastRanked
  <2>3. PICK g : g = P[f]
    OBVIOUS
  <2>4. g \in Live /\ IsFull(g) /\ D[g] < D[f]
    BY <1>3, <2>2, <2>3
  <2>5. P[g] = NULL
    BY <2>2, <2>4
  <2>6. g \in Chain(NULL) /\ f \in Chain(g)
    BY <1>2, <2>2, <2>3, <2>4, <2>5
  <2>. QED  BY <2>2, <2>6 DEF Nested, IsFull
<1>. QED  BY <1>3, <1>4

\* The full directories are pushed each of them once, and none is left out.
LEMMA InOrderIs ==
  ASSUME NEW P, NEW s, NEW D, NEW N, Grown(P, s, D, N),
         NEW F \in SUBSET Live, NEW q \in InOrder(F)
  PROVE  /\ q \in Seq(Pointer)
         /\ \A i \in DOMAIN q : q[i] \in F
         /\ \A i, j \in DOMAIN q : q[i] = q[j] => i = j
         /\ \A e \in F : \E i \in DOMAIN q : q[i] = e
<1>. DEFINE n == Cardinality(F)
<1>1. F \subseteq Entry /\ IsFiniteSet(F) /\ n \in Nat
  <2>1. F \subseteq Entry
    BY DEF Live, Alloc
  <2>. QED  BY <2>1, FS_Subset, FS_CardinalityType, RamFsAssumption
<1>2. /\ q \in [1 .. n -> F] /\ DOMAIN q = 1 .. n
      /\ \A i, j \in DOMAIN q : i < j => q[j] \in ChainFrom(links, links.next[q[i]])
  BY DEF InOrder
<1>. HIDE DEF n
<1>3. ASSUME NEW x \in Live
      PROVE  ChainFrom(links, links.next[x]) \subseteq {y \in Live : s[x] < s[y]}
  <2>. DEFINE T == {y \in Live : s[x] < s[y]}
  <2>1. Nexts(links, Live, P, s) /\ \A y \in Live : s[y] \in Nat
    BY DEF Grown, Shape, Placed
  <2>2. \A y \in T : links.next[y] # NULL => links.next[y] \in T
    BY <2>1 DEF Nexts
  <2>3. links.next[x] # NULL => links.next[x] \in T
    BY <2>1 DEF Nexts
  <2>4. Holds(links, links.next[x], T)
    BY <2>2, <2>3 DEF Holds
  <2>5. T \in SUBSET Entry
    BY DEF Live, Alloc
  <2>. HIDE DEF T
  <2>6. ChainFrom(links, links.next[x]) \subseteq T
    BY <2>4, <2>5, ChainLeast
  <2>. QED  BY <2>6 DEF T
<1>4. \A i \in DOMAIN q : q[i] \in F /\ q[i] \in Live /\ s[q[i]] \in Nat
  BY <1>2 DEF Grown, Shape, Placed
<1>5. ASSUME NEW i \in DOMAIN q, NEW j \in DOMAIN q, i < j
      PROVE  q[i] # q[j]
  <2>1. q[j] \in ChainFrom(links, links.next[q[i]])
    BY <1>2, <1>5
  <2>2. s[q[i]] < s[q[j]]
    BY <1>3, <1>4, <2>1
  <2>. QED  BY <1>4, <2>2
<1>6. \A i, j \in DOMAIN q : q[i] = q[j] => i = j
  <2>. SUFFICES ASSUME NEW i \in DOMAIN q, NEW j \in DOMAIN q, q[i] = q[j], i # j
                PROVE  FALSE
    OBVIOUS
  <2>1. i < j \/ j < i
    BY <1>1, <1>2
  <2>. QED  BY <1>5, <2>1
<1>7. q \in Injection(1 .. n, F)
  BY <1>2, <1>6 DEF Injection, IsInjective
<1>8. Cardinality(1 .. n) = n
  BY <1>1, FS_Interval
<1>9. q \in Surjection(1 .. n, F)
  BY <1>1, <1>7, <1>8, FS_Injection DEF n
<1>10. \A e \in F : \E i \in DOMAIN q : q[i] = e
  BY <1>2, <1>9 DEF Surjection
<1>11. q \in Seq(Pointer)
  BY <1>1, <1>2 DEF Pointer
<1>. QED  BY <1>4, <1>6, <1>10, <1>11


\* The first turn pushes the full directories of the root.
LEMMA UmountFirst ==
  ASSUME Inv, stack = <<NULL>>, TreeInv, UmountTurn,
         NEW F, F = {e \in Chain(NULL) : IsFull(e)}, NEW S, S = Chain(NULL) \ F
  PROVE  Turned(S) /\ stack' \in InOrder(F)
<1>1. PICK P, s, D, N : Grown(P, s, D, N)
  BY DEF TreeInv
<1>2. F \in SUBSET Live
  BY <1>1, ChainIs DEF Chain, Grown
<1>3. S = (Chain(NULL) \ F) \cup (IF NULL # NULL /\ F = {} THEN {NULL} ELSE {})
  OBVIOUS
<1>4. NULL = Last(stack)
  BY DEF Last
<1>5. Turned(S) /\ \E q \in InOrder(F) : stack' = AfterTurn(NULL, Front(stack), q)
  BY <1>3, <1>4, UmountTurnIs
<1>6. PICK q \in InOrder(F) : stack' = AfterTurn(NULL, Front(stack), q)
  BY <1>5
<1>7. q \in Seq(Pointer)
  BY <1>1, <1>2, InOrderIs
<1>8. Front(stack) = <<>>
  BY DEF Front
<1>9. stack' = q
  BY <1>6, <1>7, <1>8 DEF AfterTurn
<1>. QED  BY <1>5, <1>9

\* What is left then are these directories, what is in them, and what is in use.
LEMMA UmountPushInv ==
  ASSUME Inv, stack = <<NULL>>, TreeInv, UmountTurn, ~Nested
  PROVE  Inv' /\ ~Idle'
<1>1. PICK P, s, D, N : Grown(P, s, D, N)
  BY DEF TreeInv
<1>2. Alloc \subseteq Entry /\ Live \subseteq Alloc /\ NULL \notin Live
  BY RamFsAssumption DEF Alloc, Live
<1>3. \A d \in Live \cup {NULL} : Chain(d) = {e \in Live : P[e] = d}
  BY <1>1, ChainIs DEF Chain, Grown
<1>4. \A e \in Live : P[e] # NULL =>
        P[e] \in Live /\ IsFull(P[e]) /\ P[P[e]] = NULL /\ P[e] # e
  BY <1>1, UmountLevels
<1>5. PICK F : F = {e \in Chain(NULL) : IsFull(e)}
  OBVIOUS
<1>6. PICK S : S = Chain(NULL) \ F
  OBVIOUS
<1>7. F \subseteq Live /\ S \subseteq Alloc /\ \A e \in F : IsFull(e) /\ P[e] = NULL
  BY <1>2, <1>3, <1>5, <1>6
<1>8. Turned(S) /\ stack' \in InOrder(F)
  BY <1>5, <1>6, UmountFirst
<1>10. PICK q : q = stack'
  OBVIOUS
<1>11. /\ q \in Seq(Pointer)
       /\ \A i \in DOMAIN q : q[i] \in F
       /\ \A i, j \in DOMAIN q : q[i] = q[j] => i = j
       /\ \A e \in F : \E i \in DOMAIN q : q[i] = e
  BY <1>1, <1>7, <1>8, <1>10, InOrderIs
<1>12. /\ Alloc' \subseteq Alloc /\ Alloc \ S \subseteq Alloc'
       /\ \A x \in S : x \in Alloc' => uses[x] > 0
  <2>1. \A x \in Entry : uses[x] \in Nat
    BY DEF Inv, CountInv
  <2>. QED  BY <1>8, <2>1 DEF Turned, Alloc
<1>13. \A e \in Alloc : e \in Live \/ uses[e] > 0
  BY DEF Live, Inv, CountInv
<1>14. \A i \in DOMAIN q : (Chain(stack[i]))' = {e \in Live : P[e] = q[i]}
  <2>. TAKE i \in DOMAIN q
  <2>1. (Chain(stack[i]))' = ChainFrom(links', links'.child[stack'[i]])
    BY DEF Chain, ChainFrom, Holds
  <2>2. q[i] \in Live
    BY <1>7, <1>11
  <2>3. Chain(q[i]) = {e \in Live : P[e] = q[i]}
    BY <1>3, <2>2
  <2>. QED  BY <1>8, <1>10, <2>1, <2>3 DEF Turned, Chain
<1>15. \A i \in DOMAIN q : q[i] \in Live /\ q[i] # NULL /\ P[q[i]] = NULL /\ IsFull(q[i])
  BY <1>2, <1>7, <1>11
<1>16. Unmounting'
  <2>1. (\A i \in DOMAIN stack : stack[i] \in Alloc /\ Chain(stack[i]) \subseteq Alloc)'
    <3>1. \A e \in Live : P[e] # NULL => e \notin S
      BY <1>3, <1>6
    <3>2. \A e \in F : e \notin S
      BY <1>6
    <3>3. \A i \in DOMAIN q : q[i] \in Alloc'
      BY <1>2, <1>7, <1>11, <1>12, <3>2
    <3>4. \A i \in DOMAIN q : {e \in Live : P[e] = q[i]} \subseteq Alloc'
      BY <1>2, <1>12, <1>15, <3>1
    <3>. QED  BY <1>10, <1>14, <3>3, <3>4
  <2>2. (\A i, j \in DOMAIN stack : stack[i] = stack[j] => i = j)'
    BY <1>10, <1>11
  <2>3. (\A e \in Alloc : \/ uses[e] > 0
                          \/ \E i \in DOMAIN stack : e = stack[i] \/ e \in Chain(stack[i]))'
    <3>1. ASSUME NEW e \in F
          PROVE  \E i \in DOMAIN q : e = q[i]
      BY <1>11
    <3>2. ASSUME NEW e \in Live, P[e] # NULL
          PROVE  \E i \in DOMAIN q : e \in (Chain(stack[i]))'
      <4>1. P[e] \in F
        BY <1>3, <1>4, <1>5, <3>2
      <4>2. PICK i \in DOMAIN q : P[e] = q[i]
        BY <3>1, <4>1
      <4>. QED  BY <1>14, <4>2
    <3>3. ASSUME NEW e \in Live, P[e] = NULL
          PROVE  e \in F \/ e \in S
      BY <1>3, <1>6, <3>3
    <3>4. uses' = uses
      BY <1>8 DEF Turned
    <3>5. ASSUME NEW e \in Alloc', ~ (uses[e] > 0)
          PROVE  \E i \in DOMAIN q : e = q[i] \/ e \in (Chain(stack[i]))'
      <4>1. e \in Live /\ e \notin S
        BY <1>12, <1>13, <3>5
      <4>. QED  BY <3>1, <3>2, <3>3, <4>1
    <3>. QED  BY <1>10, <3>4, <3>5
  <2>4. (\A i, j \in DOMAIN stack : stack[i] \notin Chain(stack[j]))'
    BY <1>10, <1>14, <1>15
  <2>5. (\A i, j \in DOMAIN stack : i # j => Chain(stack[i]) \cap Chain(stack[j]) = {})'
    BY <1>10, <1>11, <1>14
  <2>6. (\A i \in DOMAIN stack : \A c \in Chain(stack[i]) : links.child[c] = NULL)'
    <3>. SUFFICES ASSUME NEW i \in DOMAIN q, NEW c \in Live, P[c] = q[i]
                  PROVE  links'.child[c] = NULL
      BY <1>10, <1>14
    <3>1. q[i] \in Chain(NULL) /\ c \in Chain(q[i]) /\ links' = links
      BY <1>3, <1>8, <1>15 DEF Turned
    <3>. QED  BY <3>1 DEF Nested
  <2>. QED  BY <2>1, <2>2, <2>3, <2>4, <2>5, <2>6 DEF Unmounting
<1>17. links' = links
  BY <1>8 DEF Turned
<1>18. UmountInv'
  BY <1>16, <1>17, ChainsStay DEF UmountInv
<1>. QED  BY <1>8, <1>10, <1>11, <1>18, TurnedInv

\* A turn leaves what it takes as it was, or free.
LEMMA TurnedTypes ==
  ASSUME NEW S, Turned(S), NEW c \in Entry, c \in Alloc => ~IsFile(c)
  PROVE  (c \in Alloc => ~IsFile(c))'
<1>1. CASE c \in S
  BY <1>1 DEF Turned, Alloc, IsFile
<1>2. CASE c \notin S
  BY <1>2 DEF Turned, Alloc, IsFile
<1>. QED  BY <1>1, <1>2

\* If a directory of the root holds one that is not empty it is pushed.
LEMMA UmountNestedInv ==
  ASSUME Inv, stack = <<NULL>>, TreeInv, UmountTurn, Nested
  PROVE  Inv' /\ ~Idle'
<1>1. PICK P, s, D, N : Grown(P, s, D, N)
  BY DEF TreeInv
<1>2. Shape(links, Live, info, P, s, D, N) /\ Live \subseteq Entry /\ links \in Links
  BY <1>1 DEF Grown, Live, Alloc
<1>3. \A d \in Live \cup {NULL} : Chain(d) = {e \in Live : P[e] = d}
  BY <1>1, ChainIs DEF Chain, Grown
<1>0. PICK e \in Chain(NULL) : \E c \in Chain(e) : links.child[c] # NULL
  BY DEF Nested
<1>4. PICK c \in Chain(e) : links.child[c] # NULL
  BY <1>0
<1>5. e \in Live /\ c \in Live /\ P[c] = e
  BY <1>3, <1>4
<1>6. ~IsFile(c) /\ ~IsFile(e) /\ links.child[e] # NULL
  <2>1. ~IsFile(c)
    BY <1>4, <1>5, LinksLive
  <2>2. {x \in Live : P[x] = e} # {} /\ e \in Live \cup {NULL}
    BY <1>5
  <2>3. links.child[e] # NULL
    BY <1>2, <2>2, NoChildren
  <2>. QED  BY <1>5, <2>1, <2>3, LinksLive
<1>7. PICK F : F = {x \in Chain(NULL) : IsFull(x)}
  OBVIOUS
<1>8. e \in F /\ F \in SUBSET Live
  BY <1>3, <1>4, <1>6, <1>7 DEF IsFull
<1>9. PICK S : S = Chain(NULL) \ F
  OBVIOUS
<1>10. Turned(S) /\ stack' \in InOrder(F)
  BY <1>7, <1>9, UmountFirst
<1>11. PICK q : q = stack'
  OBVIOUS
<1>12. q \in Seq(Pointer) /\ \A x \in F : \E i \in DOMAIN q : q[i] = x
  BY <1>1, <1>8, <1>10, <1>11, InOrderIs
<1>13. PICK i \in DOMAIN q : q[i] = e
  BY <1>8, <1>12
<1>14. links' = links
  BY <1>10 DEF Turned
<1>15. (c \in Alloc => ~IsFile(c))'
  BY <1>2, <1>5, <1>6, <1>10, TurnedTypes
<1>16. Chain(stack[i])' = Chain(e)
  <2>1. Chain(stack[i])' = ChainFrom(links', links'.child[stack'[i]])
    BY DEF Chain, ChainFrom, Holds
  <2>. QED  BY <1>11, <1>13, <1>14, <2>1 DEF Chain
<1>17. Returning'
  BY <1>2, <1>4, <1>5, <1>11, <1>13, <1>14, <1>15, <1>16 DEF Returning
<1>18. UmountInv'
  BY <1>14, <1>17, ChainsStay DEF UmountInv
<1>. QED  BY <1>10, <1>11, <1>12, <1>18, TurnedInv

\* And it stays on the stack: as long as what it holds is there, that is pushed.
LEMMA UmountReturnInv ==
  ASSUME Inv, Nested, Returning, UmountTurn
  PROVE  Inv' /\ ~Idle'
<1>1. stack \in Seq(Pointer) /\ stack # <<>>
  BY DEF UmountTurn, Idle, Inv
<1>2. PICK n, d : n = Len(stack) /\ d = stack[n]
  OBVIOUS
<1>3. n \in Nat /\ n > 0 /\ DOMAIN stack = 1 .. n /\ d = Last(stack)
  BY <1>1, <1>2 DEF Last
<1>4. PICK F : F = {e \in Chain(d) : IsFull(e)}
  OBVIOUS
<1>5. PICK S : S = (Chain(d) \ F) \cup (IF d # NULL /\ F = {} THEN {d} ELSE {})
  OBVIOUS
<1>6. /\ Turned(S) /\ Chain(d) \subseteq Alloc
      /\ \E q \in InOrder(F) :
           stack' = AfterTurn(d, IF d = NULL THEN Front(stack) ELSE stack, q)
  BY <1>3, <1>4, <1>5, UmountTurnIs
<1>7. PICK q \in InOrder(F) : stack' = AfterTurn(d, IF d = NULL THEN Front(stack) ELSE stack, q)
  BY <1>6
<1>8. F \subseteq Entry /\ IsFiniteSet(F) /\ Cardinality(F) \in Nat
  <2>1. F \subseteq Entry
    BY <1>4, <1>6 DEF Alloc
  <2>. QED  BY <2>1, FS_Subset, FS_CardinalityType, RamFsAssumption
<1>9. q \in Seq(Pointer) /\ (F # {} => q # <<>>)
  <2>1. q \in [1 .. Cardinality(F) -> F]
    BY DEF InOrder
  <2>2. q \in Seq(Pointer) /\ Len(q) = Cardinality(F)
    BY <1>8, <2>1 DEF Pointer
  <2>3. Cardinality(F) = 0 <=> F = {}
    BY <1>8, FS_EmptySet
  <2>. QED  BY <2>2, <2>3
<1>10. PICK i \in DOMAIN stack :
         /\ stack[i] \in Entry
         /\ \E c \in Chain(stack[i]) : links.child[c] # NULL /\ (c \in Alloc => ~IsFile(c))
  BY DEF Returning
<1>11. PICK c \in Chain(stack[i]) : links.child[c] # NULL /\ (c \in Alloc => ~IsFile(c))
  BY <1>10
<1>12. /\ Front(stack) \in Seq(Pointer) /\ Len(Front(stack)) = n - 1
       /\ \A j \in 1 .. n - 1 : Front(stack)[j] = stack[j]
  BY <1>1, <1>2, <1>3 DEF Front
<1>13. i \in DOMAIN stack' /\ stack'[i] = stack[i] /\ stack' \in Seq(Pointer)
  <2>1. CASE i = n
    <3>1. d # NULL /\ c \in F
      BY <1>2, <1>4, <1>6, <1>10, <1>11, <2>1, RamFsAssumption DEF IsFull
    <3>2. stack' = stack \o q
      BY <1>7, <1>9, <3>1 DEF AfterTurn
    <3>. QED  BY <1>1, <1>9, <3>2
  <2>2. CASE i # n
    <3>1. i \in 1 .. n - 1
      BY <1>3, <2>2
    <3>2. stack' = Front(stack) \/ stack' = Front(stack) \o q \/ stack' = stack \o q
      <4>1. CASE d = NULL
        BY <1>7, <4>1 DEF AfterTurn
      <4>2. CASE d # NULL
        BY <1>7, <4>2 DEF AfterTurn
      <4>. QED  BY <4>1, <4>2
    <3>3. CASE stack' = Front(stack)
      BY <1>12, <3>1, <3>3
    <3>4. CASE stack' = Front(stack) \o q
      BY <1>9, <1>12, <3>1, <3>4
    <3>5. CASE stack' = stack \o q
      BY <1>1, <1>9, <3>5
    <3>. QED  BY <3>2, <3>3, <3>4, <3>5
  <2>. QED  BY <2>1, <2>2
<1>14. links' = links
  BY <1>6 DEF Turned
<1>15. (c \in Alloc => ~IsFile(c))' /\ c \in Entry
  <2>1. c \in Entry
    BY DEF Chain, ChainFrom
  <2>. QED  BY <1>6, <1>11, <2>1, TurnedTypes
<1>16. Chain(stack[i])' = Chain(stack[i])
  <2>1. Chain(stack[i])' = ChainFrom(links', links'.child[stack'[i]])
    BY DEF Chain, ChainFrom, Holds
  <2>. QED  BY <1>13, <1>14, <2>1 DEF Chain
<1>17. Returning'
  BY <1>10, <1>11, <1>13, <1>14, <1>15, <1>16 DEF Returning
<1>18. UmountInv'
  BY <1>14, <1>17, ChainsStay DEF UmountInv
<1>. QED  BY <1>6, <1>13, <1>18, TurnedInv

\* A turn of the loop of ramfs_umount.
LEMMA UmountTurnInv ==
  ASSUME Inv, UmountTurn
  PROVE  Inv' /\ ~Idle'
<1>1. UmountInv
  BY DEF Inv, UmountTurn
<1>. QED  BY <1>1, UmountPushInv, UmountNestedInv, UmountPopInv, UmountReturnInv DEF UmountInv

\* A file system with nothing in it.
LEMMA EmptyTree ==
  ASSUME info \in [Entry -> Info \cup {NULL}], Alloc = {}, links = NoLinks
  PROVE  TreeInv
<1>1. Live = {} /\ links \in Links /\ \A x \in Pointer : links.next[x] = NULL /\ links.child[x] = NULL
  BY DEF Live, NoLinks, Links, Pointer
<1>2. Clean
  BY <1>1 DEF Clean, Pointer
<1>3. PICK P \in [Entry -> Pointer], s \in [Entry -> Nat] : TRUE
  <2>1. [e \in Entry |-> NULL] \in [Entry -> Pointer] /\ [e \in Entry |-> 0] \in [Entry -> Nat]
    BY DEF Pointer
  <2>. QED  BY <2>1
<1>4. links.child[NULL] = NULL
  BY <1>1 DEF Pointer
<1>5. Shape(links, Live, info, P, s, s, 0)
  BY <1>1, <1>4 DEF Shape, Parents, Firsts, Nexts, OnePrev, Reached, Named, Placed, Depths
<1>6. Grown(P, s, s, 0)
  BY <1>1, <1>5 DEF Grown
<1>. QED  BY <1>2, <1>6 DEF TreeInv

\* Nothing of it is counted.
LEMMA EmptySpace ==
  ASSUME blocks \in [Entry -> SUBSET Block], \A e \in Entry : blocks[e] = {},
         Alloc = {}, lost = 0, used = 0
  PROVE  SpaceInv
<1>1. Files = {} /\ UnionOf(blocks) = {}
  BY DEF Files, UnionOf
<1>2. Cardinality({}) = 0
  BY FS_EmptySet
<1>3. used = lost + Cardinality(Alloc) + Cardinality(Files) + Cardinality(UnionOf(blocks))
  BY <1>1, <1>2
<1>. QED  BY <1>1, <1>3 DEF SpaceInv, Apart

\* And it has no handles.
LEMMA EmptyHandles ==
  ASSUME Alloc = {}, uses = [e \in Entry |-> 0], leaked = [l \in Leak |-> NULL],
         fd = [f \in FD |-> NULL], dd = [d \in DD |-> NULL]
  PROVE  HandleInv
<1>1. \A e \in Entry : OfFile(fd, e) = {} /\ OfDir(dd, e) = {} /\ OfLeak(e) = {}
  BY RamFsAssumption DEF OfFile, OfDir, OfLeak
<1>2. Cardinality({}) = 0
  BY FS_EmptySet
<1>3. \A e \in Entry : uses[e] = Count(e)
  BY <1>1, <1>2 DEF Count
<1>. QED  BY <1>3 DEF HandleInv, CountInv, Pointer

\* The file system is mounted, and empty: the invariant holds for it.
LEMMA InitInv == Init => Inv
<1>. SUFFICES ASSUME Init
              PROVE  Inv
  OBVIOUS
<1>1. /\ info \in [Entry -> Info \cup {NULL}] /\ Alloc = {} /\ links = NoLinks
      /\ blocks \in [Entry -> SUBSET Block] /\ \A e \in Entry : blocks[e] = {}
      /\ lost = 0 /\ used = 0
  BY DEF Init, Alloc
<1>2. TreeInv
  BY <1>1, EmptyTree
<1>3. SpaceInv
  BY <1>1, EmptySpace
<1>4. HandleInv
  BY <1>1, EmptyHandles DEF Init
<1>5. used <= Size
  BY <1>1, RamFsAssumption
<1>6. info \in [Entry -> Info \cup {NULL}] /\ links \in Links
  BY <1>2 DEF TreeInv, Grown
<1>. QED  BY <1>2, <1>3, <1>4, <1>5, <1>6 DEF Inv, Init, Idle, HandleInv

\* The same for the state after a step.
LEMMA InitNext == Init' => Inv'
  BY InitInv, PTL

\* ramfs_umount, and the next ramfs_mount, end in an initial state.
LEMMA UmountEndInv ==
  ASSUME UmountEnd
  PROVE  Init' /\ Inv'
<1>1. Init'
  BY DEF UmountEnd, Init
<1>. QED  BY <1>1, InitNext

-----------------------------------------------------------------------------
(* The theorems.                                                           *)

\* Every call keeps the invariant.
LEMMA NextInv ==
  ASSUME Inv, Slips = {}, Next
  PROVE  Inv'
<1>1. ASSUME NEW p \in Path, Mkdir(p) \/ Rmdir(p) \/ Unlink(p) \/ FileCreateFails(p)
      PROVE  Inv'
  <2>1. CASE Mkdir(p)
    <3>1. PICK e \in Entry : AddEntry(e, p, "dir")
      BY <2>1 DEF Mkdir
    <3>. QED  BY <2>1, <3>1, AddEntryInv DEF Mkdir
  <2>2. CASE FileCreateFails(p)
    <3>1. PICK e \in Entry : AddEntry(e, p, "file")
      BY <2>2 DEF FileCreateFails
    <3>. QED  BY <2>2, <3>1, AddEntryInv DEF FileCreateFails
  <2>. QED  BY <1>1, <2>1, <2>2, RmdirInv, UnlinkInv
<1>2. ASSUME NEW p \in Path, NEW d \in DD, DirOpen(p, d)
      PROVE  Inv'
  BY <1>2, DirOpenInv
<1>8. ASSUME NEW p \in Path, NEW l \in Leak, FileOpenFails(p, l)
      PROVE  Inv'
  BY <1>8, FileOpenFailsInv
<1>3. ASSUME NEW d \in DD, DirOpenRoot(d) \/ DirRead(d) \/ DirClose(d)
      PROVE  Inv'
  BY <1>3, DirOpenRootInv, DirReadInv, DirCloseInv
<1>4. ASSUME NEW p \in Path, NEW f \in FD, FileOpen(p, f) \/ FileCreate(p, f)
      PROVE  Inv'
  BY <1>4, FileOpenInv, FileCreateInv
<1>5. ASSUME NEW f \in FD, FileGrow(f) \/ FileShrink(f) \/ FileClose(f)
      PROVE  Inv'
  BY <1>5, FileGrowInv, FileShrinkInv, FileCloseInv
<1>6. ASSUME NEW p \in Path, NEW q \in Path, RenameNew(p, q) \/ RenameOnto(p, q)
      PROVE  Inv'
  BY <1>6, RenameNewInv, RenameOntoInv
<1>7. CASE UmountBegin \/ UmountTurn \/ UmountEnd
  BY <1>7, UmountBeginInv, UmountTurnInv, UmountEndInv
<1>. QED  BY <1>1, <1>2, <1>3, <1>4, <1>5, <1>6, <1>7, <1>8, Zenon DEF Next

\* So does the time between the calls.
LEMMA StutterInv == Inv /\ UNCHANGED vars => Inv'
<1>. SUFFICES ASSUME Inv, UNCHANGED vars
              PROVE  Inv'
  OBVIOUS
<1>1. UNCHANGED <<info, links, blocks, lost, used, uses, leaked, fd, dd, stack>>
  BY DEF vars
<1>2. Alloc' = Alloc /\ Live' = Live /\ Files' = Files
  BY <1>1 DEF Alloc, Live, Files, IsFile
<1>3. TreeInv' <=> TreeInv
  BY <1>1, <1>2 DEF TreeInv, Clean, Grown
<1>4. SpaceInv'
  BY <1>1, SameSpace DEF Inv
<1>5. CountInv' /\ (HandleInv' <=> HandleInv)
  <2>1. \A x : OfFile(fd, x)' = OfFile(fd, x) /\ OfDir(dd, x)' = OfDir(dd, x) /\ OfLeak(x)' = OfLeak(x)
    BY <1>1 DEF OfFile, OfDir, OfLeak
  <2>2. \A x : Count(x)' = Count(x)
    BY <2>1 DEF Count
  <2>. QED  BY <1>1, <1>2, <2>2 DEF Inv, HandleInv, CountInv
<1>6. UmountInv' <=> UmountInv
  <2>1. (Nested' <=> Nested) /\ \A d : Chain(d)' = Chain(d)
    BY <1>1, ChainsStay
  <2>2. Unmounting' <=> Unmounting
    BY <1>1, <1>2, <2>1 DEF Unmounting, Chain
  <2>3. Returning' <=> Returning
    BY <1>1, <1>2, <2>1 DEF Returning, Chain, IsFile
  <2>. QED  BY <1>1, <1>3, <2>1, <2>2, <2>3 DEF UmountInv
<1>. QED  BY <1>1, <1>3, <1>4, <1>5, <1>6 DEF Inv, Idle

\* For callers within bounds the invariant holds at all times.
THEOREM RamFsInv == Slips = {} => (Spec => []Inv)
<1>. SUFFICES ASSUME Slips = {}
              PROVE  Spec => []Inv
  OBVIOUS
<1>1. Inv /\ [Next]_vars => Inv'
  BY NextInv, StutterInv
<1>. QED  BY <1>1, InitInv, PTL DEF Spec


\* The variables keep their types.
LEMMA InvType == Inv => TypeOK
<1>. SUFFICES ASSUME Inv
              PROVE  TypeOK
  OBVIOUS
<1>1. lost \in 0 .. Size /\ used \in 0 .. Size
  <2>1. used \in Nat /\ lost \in Nat /\ lost <= used /\ Size \in Nat /\ used <= Size
    BY UsedInt DEF Inv
  <2>. QED  BY <2>1
<1>2. uses \in [Entry -> 0 .. Cardinality(FD) + Cardinality(DD) + Cardinality(Leak)]
  <2>1. uses \in [Entry -> Nat] /\ \A e \in Entry : uses[e] = Count(e)
    BY DEF Inv, CountInv
  <2>2. \A e \in Entry : uses[e] \in 0 .. Cardinality(FD) + Cardinality(DD) + Cardinality(Leak)
    <3>. TAKE e \in Entry
    <3>1. PICK a, b, c, m, n, k :
            /\ a = Cardinality(OfFile(fd, e)) /\ b = Cardinality(OfDir(dd, e))
            /\ c = Cardinality(OfLeak(e))
            /\ m = Cardinality(FD) /\ n = Cardinality(DD) /\ k = Cardinality(Leak)
      OBVIOUS
    <3>2. /\ a \in Nat /\ b \in Nat /\ m \in Nat /\ n \in Nat /\ a <= m /\ b <= n
          /\ c \in Nat /\ k \in Nat /\ c <= k
      BY <3>1, HandlesFinite, LeaksFinite
    <3>3. a + b + c \in 0 .. m + n + k
      BY <3>2
    <3>. QED  BY <2>1, <3>1, <3>3 DEF Count
  <2>. QED  BY <2>1, <2>2
<1>. QED  BY <1>1, <1>2 DEF Inv, CountInv, SpaceInv, Links, TypeOK

\* The counts are right and what a handle leads to is allocated: HandlesSound
\* for any number of entries, handles and failed opens.
THEOREM HandlesCorrect == Slips = {} => (Spec => []HandlesSound)
<1>. SUFFICES ASSUME Slips = {}
              PROVE  Spec => []HandlesSound
  OBVIOUS
<1>1. Inv => HandlesSound
  <2>. SUFFICES ASSUME Inv
                PROVE  HandlesSound
    OBVIOUS
  <2>1. TypeOK /\ CountInv
    BY InvType DEF Inv
  <2>2. \A d \in DD : dd[d] # NULL /\ MayRead => dd[d].child \in Alloc \cup {NULL}
    BY DEF MayRead, Inv, HandleInv, Live
  <2>3. \A f \in FD : fd[f] # NULL => fd[f] \in Alloc /\ IsFile(fd[f])
    BY <2>1 DEF CountInv, Files
  <2>4. \A e \in Entry : uses[e] = Cardinality({f \in FD : fd[f] = e})
                + Cardinality({d \in DD : dd[d] # NULL /\ dd[d].entry = e})
                + Cardinality({l \in Leak : leaked[l] = e})
    BY <2>1 DEF CountInv, Count, OfFile, OfDir, OfLeak
  <2>. QED  BY <2>1, <2>2, <2>3, <2>4 DEF HandlesSound, CountInv
<1>. QED  BY <1>1, RamFsInv, PTL

\* current_size is what is allocated and no block is on two chains: SpaceCounted
\* for any size and any number of entries and blocks.
THEOREM SpaceCorrect == Slips = {} => (Spec => []SpaceCounted)
<1>. SUFFICES ASSUME Slips = {}
              PROVE  Spec => []SpaceCounted
  OBVIOUS
<1>1. Inv => SpaceCounted
  BY SpaceInvCounted DEF Inv
<1>. QED  BY <1>1, RamFsInv, PTL

\* ramfs_umount reads nothing that it has freed, and frees all that is not in
\* use, if no directory of the root holds one that is not empty, and has no end
\* if one does: UmountLive.
THEOREM UmountCorrect == Slips = {} => (Spec => []UmountLive)
<1>. SUFFICES ASSUME Slips = {}
              PROVE  Spec => []UmountLive
  OBVIOUS
<1>1. Inv => UmountLive
  <2>. SUFFICES ASSUME Inv, ~Idle
                PROVE  IF Nested THEN stack # <<>>
                       ELSE IF stack # <<>> THEN IsThere(Last(stack))
                       ELSE \A e \in Alloc : IsOpen(e)
    BY DEF UmountLive
  <2>1. UmountInv /\ stack \in Seq(Pointer)
    BY DEF Inv, Idle
  <2>2. CASE stack = <<NULL>> /\ TreeInv
    <3>1. Last(stack) = NULL /\ stack # <<>>
      BY <2>2 DEF Last
    <3>2. PICK P, s, D, N : Grown(P, s, D, N)
      BY <2>2 DEF TreeInv
    <3>3. Chain(NULL) = {e \in Live : P[e] = NULL}
      BY <3>2, ChainIs DEF Chain, Grown
    <3>. QED  BY <3>1, <3>3 DEF Live, IsThere
  <2>3. CASE ~Nested /\ Unmounting
    <3>1. ASSUME stack # <<>>
          PROVE  IsThere(Last(stack))
      <4>1. Len(stack) \in DOMAIN stack
        BY <2>1, <3>1
      <4>. QED  BY <2>3, <4>1 DEF Last, Unmounting, IsThere
    <3>2. ASSUME stack = <<>>
          PROVE  \A e \in Alloc : IsOpen(e)
      BY <2>3, <3>2 DEF Unmounting, IsOpen
    <3>. QED  BY <2>3, <3>1, <3>2
  <2>4. CASE Nested /\ Returning
    BY <2>4 DEF Returning
  <2>. QED  BY <2>1, <2>2, <2>3, <2>4 DEF UmountInv
<1>. QED  BY <1>1, RamFsInv, PTL

\* One pointer leads to an entry in the tree, none to any other.
LEMMA OneWay ==
  ASSUME NEW P, NEW s, NEW D, NEW N, Grown(P, s, D, N), NEW e \in Entry
  PROVE  Cardinality({x \in Live : links.next[x] = e})
           + Cardinality({x \in Live \cup {NULL} : links.child[x] = e})
         = (IF e \in Live THEN 1 ELSE 0)
<1>. DEFINE A == {x \in Live : links.next[x] = e}
            B == {x \in Live \cup {NULL} : links.child[x] = e}
<1>1. /\ Shape(links, Live, info, P, s, D, N)
      /\ NULL \notin Live /\ e # NULL
  BY RamFsAssumption DEF Grown, Live, Alloc
<1>2. Cardinality({}) = 0 /\ \A x : Cardinality({x}) = 1
  BY FS_EmptySet, FS_Singleton
<1>3. e \notin Live => A = {} /\ B = {}
  BY <1>1 DEF Shape, Firsts, Nexts
<1>4. ASSUME e \in Live, links.child[P[e]] = e
      PROVE  A = {} /\ B = {P[e]}
  BY <1>1, <1>4 DEF Shape, Parents, Firsts, Nexts
<1>5. ASSUME e \in Live, links.child[P[e]] # e
      PROVE  B = {} /\ \E x : A = {x}
  <2>1. PICK x \in Live : links.next[x] = e
    BY <1>1, <1>5 DEF Shape, Reached
  <2>2. A = {x}
    BY <1>1, <2>1 DEF Shape, OnePrev
  <2>3. B = {}
    BY <1>1, <1>5 DEF Shape, Firsts
  <2>. QED  BY <2>2, <2>3
<1>. HIDE DEF A, B
<1>6. CASE e \notin Live
  BY <1>2, <1>3, <1>6 DEF A, B
<1>7. CASE e \in Live
  <2>1. \/ A = {} /\ \E x : B = {x}
        \/ B = {} /\ \E x : A = {x}
    BY <1>4, <1>5, <1>7
  <2>2. Cardinality(A) + Cardinality(B) = 1
    <3>1. CASE A = {} /\ \E x : B = {x}
      <4>1. Cardinality(A) = 0 /\ Cardinality(B) = 1
        BY <1>2, <3>1
      <4>. QED  BY <4>1
    <3>2. CASE B = {} /\ \E x : A = {x}
      <4>1. Cardinality(B) = 0 /\ Cardinality(A) = 1
        BY <1>2, <3>2
      <4>. QED  BY <4>1
    <3>. QED  BY <2>1, <3>1, <3>2
  <2>. QED  BY <1>7, <2>2 DEF A, B
<1>. QED  BY <1>6, <1>7

\* The pointers make a tree, whatever is created, renamed and removed: TreeSound
\* for any number of entries and names and for paths of any length.
THEOREM TreeCorrect == Slips = {} => (Spec => []TreeSound)
<1>. SUFFICES ASSUME Slips = {}
              PROVE  Spec => []TreeSound
  OBVIOUS
<1>1. Inv => TreeSound
  <2>. SUFFICES ASSUME Inv, Idle
                PROVE  TreeSound
    BY DEF TreeSound
  <2>1. PICK P, s, D, N : Grown(P, s, D, N)
    BY IdleTree
  <2>2. \A e \in Entry : Cardinality({x \in Live : links.next[x] = e})
                           + Cardinality({x \in Live \cup {NULL} : links.child[x] = e})
                         = (IF e \in Live THEN 1 ELSE 0)
    BY <2>1, OneWay
  <2>3. ASSUME NEW e \in Live
        PROVE  \E p \in Path : Traverse(p).entry = e
    <3>1. PICK p, w : p \in Path /\ Route(P, p, Len(p), w) /\ w[Len(p)] = e
      BY <2>1, RouteExists
    <3>2. Traverse(p).entry = e
      BY <2>1, <3>1, TraverseFinds
    <3>. QED  BY <3>1, <3>2
  <2>4. ASSUME NEW d \in Live \cup {NULL}, NEW x \in Chain(d), NEW y \in Chain(d),
               info[x].name = info[y].name
        PROVE  x = y
    <3>1. Chain(d) = {e \in Live : P[e] = d}
      BY <2>1, ChainIs DEF Chain, Grown
    <3>. QED  BY <2>1, <2>4, <3>1 DEF Grown, Shape, Named
  <2>. QED  BY <2>2, <2>3, <2>4 DEF TreeSound
<1>. QED  BY <1>1, RamFsInv, PTL

-----------------------------------------------------------------------------
(* The path of each entry.                                                 *)

\* Path r is path q and one more component, n.
Longer(r, q, n) ==
  /\ Len(r) = Len(q) + 1
  /\ \A i \in 1 .. Len(q) : r[i] = q[i]
  /\ r[Len(r)] = n

\* There is one such path.
LEMMA LongerExists ==
  ASSUME NEW q \in Seq(Name), NEW n \in Name
  PROVE  Append(q, n) \in Seq(Name) /\ Longer(Append(q, n), q, n)
  BY AppendProperties DEF Longer

\* And no other.
LEMMA LongerOnce ==
  ASSUME NEW q \in Seq(Name), NEW n, NEW m, NEW p \in Seq(Name), NEW r \in Seq(Name),
         Longer(r, q, n), Longer(r, p, m)
  PROVE  q = p /\ n = m
<1>1. Len(q) \in Nat /\ Len(p) \in Nat /\ Len(r) \in Nat
  OBVIOUS
<1>2. Len(q) = Len(p) /\ \A i \in 1 .. Len(q) : q[i] = p[i]
  BY <1>1 DEF Longer
<1>3. q = p
  BY <1>2, SeqEqual
<1>. QED  BY <1>3 DEF Longer

\* F gives the root no component, and an entry one more than its parent.
Paths(P, F) ==
  /\ F \in [Pointer -> Seq(Name)]
  /\ F[NULL] = <<>>
  /\ \A e \in Live : Longer(F[e], F[P[e]], info[e].name)

\* What is known of an entry in the tree.
LEMMA LiveFacts ==
  ASSUME NEW P, NEW s, NEW D, NEW N, Grown(P, s, D, N)
  PROVE  /\ Live \subseteq Entry /\ NULL \notin Live /\ Live \subseteq Pointer
         /\ \A e \in Live : /\ P[e] \in Live \cup {NULL} /\ P[e] \in Pointer
                            /\ info[e].name \in Name
                            /\ D[e] \in 1 .. MaxDepth /\ D[e] \in Nat
                            /\ P[e] = NULL => D[e] = 1
                            /\ P[e] # NULL => D[P[e]] \in Nat /\ D[e] = D[P[e]] + 1
<1>1. Live \subseteq Entry /\ NULL \notin Live /\ Live \subseteq Pointer
  BY RamFsAssumption DEF Live, Alloc, Pointer
<1>2. ASSUME NEW e \in Live
      PROVE  /\ P[e] \in Live \cup {NULL} /\ P[e] \in Pointer
             /\ info[e].name \in Name
             /\ D[e] \in 1 .. MaxDepth
             /\ D[e] = IF P[e] = NULL THEN 1 ELSE D[P[e]] + 1
  BY <1>1, LiveInfo DEF Grown, Shape, Parents, Depths, Pointer
<1>3. ASSUME NEW e \in Live
      PROVE  /\ D[e] \in Nat
             /\ P[e] = NULL => D[e] = 1
             /\ P[e] # NULL => D[P[e]] \in Nat /\ D[e] = D[P[e]] + 1
  BY <1>2
<1>. QED  BY <1>1, <1>2, <1>3

\* Each entry has a path.
LEMMA PathsExist ==
  ASSUME NEW P, NEW s, NEW D, NEW N, Grown(P, s, D, N)
  PROVE  \E F : Paths(P, F)
<1>. DEFINE Upto(n, F) == /\ F \in [Pointer -> Seq(Name)]
                          /\ F[NULL] = <<>>
                          /\ \A e \in Live : D[e] <= n => Longer(F[e], F[P[e]], info[e].name)
            B == {n \in 0 .. MaxDepth : ~ \E F : Upto(n, F)}
<1>0. MaxDepth \in Nat /\ NULL \in Pointer
  BY RamFsAssumption DEF Pointer
<1>1. B = {}
  <2>. SUFFICES ASSUME B # {}
                PROVE  FALSE
    OBVIOUS
  <2>0. B \subseteq Nat
    OBVIOUS
  <2>1. PICK n \in B : \A m \in B : ~ (m < n)
    <3>. HIDE DEF B
    <3>. QED  BY <2>0, Least
  <2>2. n # 0
    <3>. DEFINE G == [x \in Pointer |-> <<>>]
    <3>1. G \in [Pointer -> Seq(Name)] /\ G[NULL] = <<>>
      BY <1>0
    <3>. HIDE DEF G
    <3>2. \A e \in Live : ~ (D[e] <= 0)
      BY LiveFacts
    <3>3. Upto(0, G)
      BY <3>1, <3>2
    <3>. HIDE DEF Upto
    <3>. QED  BY <2>1, <3>3
  <2>3. n - 1 \in 0 .. MaxDepth /\ n - 1 \notin B
    <3>1. n \in 0 .. MaxDepth
      BY <2>1
    <3>. HIDE DEF B
    <3>. QED  BY <1>0, <2>1, <2>2, <3>1
  <2>4. PICK F : Upto(n - 1, F)
    <3>. HIDE DEF Upto
    <3>. QED  BY <2>3
  <2>. DEFINE G == [x \in Pointer |-> IF x \in Live /\ D[x] = n
                                      THEN Append(F[P[x]], info[x].name) ELSE F[x]]
  <2>a. ASSUME NEW x \in Live
        PROVE  /\ Append(F[P[x]], info[x].name) \in Seq(Name)
               /\ Longer(Append(F[P[x]], info[x].name), F[P[x]], info[x].name)
    <3>1. F[P[x]] \in Seq(Name) /\ info[x].name \in Name
      BY <2>4, LiveFacts
    <3>. QED  BY <3>1, LongerExists
  <2>5. G \in [Pointer -> Seq(Name)]
    BY <2>4, <2>a
  <2>6. G[NULL] = <<>>
    BY <1>0, <2>4, LiveFacts
  <2>7. ASSUME NEW e \in Live, D[e] <= n
        PROVE  Longer(G[e], G[P[e]], info[e].name)
    <3>1. G[P[e]] = F[P[e]]
      <4>1. P[e] \in Pointer /\ (P[e] \in Live => D[P[e]] # n)
        <5>1. P[e] \in Pointer /\ D[e] \in Nat
          BY LiveFacts
        <5>2. P[e] \in Live => D[P[e]] \in Nat /\ D[e] = D[P[e]] + 1
          BY LiveFacts
        <5>3. n \in Nat
          BY <2>0
        <5>. QED  BY <2>7, <5>1, <5>2, <5>3
      <4>. QED  BY <4>1
    <3>2. e \in Pointer /\ D[e] \in Nat /\ n \in Nat
      BY <2>0, LiveFacts
    <3>3. CASE D[e] = n
      <4>1. G[e] = Append(F[P[e]], info[e].name)
        BY <3>2, <3>3, Zenon
      <4>. QED  BY <2>a, <3>1, <4>1, Zenon
    <3>4. CASE D[e] # n
      <4>1. D[e] <= n - 1
        BY <2>7, <3>2, <3>4
      <4>2. Longer(F[e], F[P[e]], info[e].name)
        BY <2>4, <4>1
      <4>. QED  BY <3>1, <3>2, <3>4, <4>2
    <3>. QED  BY <3>3, <3>4
  <2>. HIDE DEF G
  <2>8. Upto(n, G)
    BY <2>5, <2>6, <2>7
  <2>. HIDE DEF Upto
  <2>. QED  BY <2>1, <2>8
<1>2. PICK F : Upto(MaxDepth, F)
  <2>. HIDE DEF Upto
  <2>. QED  BY <1>0, <1>1
<1>3. \A e \in Live : D[e] <= MaxDepth
  BY LiveFacts
<1>. QED  BY <1>2, <1>3 DEF Paths

\* A path has as many components as its entry is deep.
LEMMA PathsDepth ==
  ASSUME NEW P, NEW s, NEW D, NEW N, Grown(P, s, D, N), NEW F, Paths(P, F)
  PROVE  \A e \in Live : Len(F[e]) = D[e] /\ F[e] \in Path /\ F[e] \in Seq(Name)
<1>. DEFINE B == {e \in Live : Len(F[e]) # D[e]}
<1>0. \A e \in Live : F[e] \in Seq(Name)
  BY LiveFacts DEF Paths
<1>1. B = {}
  <2>. SUFFICES ASSUME B # {}
                PROVE  FALSE
    OBVIOUS
  <2>0. \A x \in B : D[x] \in Nat
    BY LiveFacts
  <2>1. PICK x \in B : \A y \in B : ~ (D[y] < D[x])
    <3>. HIDE DEF B
    <3>. QED  BY <2>0, LeastRanked
  <2>3. Len(F[x]) = Len(F[P[x]]) + 1
    BY DEF Paths, Longer
  <2>4. CASE P[x] = NULL
    <3>1. F[P[x]] = <<>> /\ D[x] = 1
      BY <2>4, LiveFacts DEF Paths
    <3>2. Len(F[P[x]]) = 0
      BY <3>1
    <3>3. Len(F[x]) = 1
      BY <2>3, <3>2
    <3>4. D[x] = 1
      BY <3>1
    <3>. QED  BY <2>1, <3>3, <3>4
  <2>5. CASE P[x] # NULL
    <3>1. P[x] \in Live /\ D[P[x]] \in Nat /\ D[x] = D[P[x]] + 1
      BY <2>5, LiveFacts
    <3>2. D[P[x]] < D[x]
      BY <3>1
    <3>3. Len(F[P[x]]) = D[P[x]]
      BY <2>1, <3>1, <3>2
    <3>. QED  BY <2>1, <2>3, <3>1, <3>3
  <2>. QED  BY <2>4, <2>5
<1>2. ASSUME NEW e \in Live
      PROVE  F[e] \in Path
  <2>1. Len(F[e]) = D[e] /\ D[e] \in 1 .. MaxDepth
    BY <1>1, LiveFacts
  <2>2. F[e] \in [1 .. Len(F[e]) -> Name]
    BY <1>0, LenProperties
  <2>. QED  BY <2>1, <2>2, PathSeq
<1>. QED  BY <1>0, <1>1, <1>2

\* Different entries have different paths.
LEMMA PathsDiffer ==
  ASSUME NEW P, NEW s, NEW D, NEW N, Grown(P, s, D, N), NEW F, Paths(P, F)
  PROVE  \A x, y \in Live \cup {NULL} : F[x] = F[y] => x = y
<1>1. \A x \in Live : Len(F[x]) # 0 /\ F[x] # <<>> /\ D[x] \in Nat /\ Len(F[x]) = D[x]
  <2>1. \A x \in Live : Len(F[x]) = D[x] /\ D[x] \in Nat /\ D[x] # 0
    BY PathsDepth, LiveFacts
  <2>2. Len(<<>>) = 0
    OBVIOUS
  <2>. QED  BY <2>1, <2>2
<1>. DEFINE B == {x \in Live : \E y \in Live : F[x] = F[y] /\ x # y}
<1>2. B = {}
  <2>. SUFFICES ASSUME B # {}
                PROVE  FALSE
    OBVIOUS
  <2>0. \A x \in B : D[x] \in Nat
    BY <1>1
  <2>1. PICK x \in B : \A y \in B : ~ (D[y] < D[x])
    <3>. HIDE DEF B
    <3>. QED  BY <2>0, LeastRanked
  <2>2. PICK y \in Live : F[x] = F[y] /\ x # y
    BY <2>1
  <2>3. /\ Longer(F[x], F[P[x]], info[x].name) /\ F[P[x]] \in Seq(Name)
        /\ Longer(F[y], F[P[y]], info[y].name) /\ F[P[y]] \in Seq(Name)
        /\ F[x] \in Seq(Name)
    BY LiveFacts DEF Paths
  <2>4. F[P[x]] = F[P[y]] /\ info[x].name = info[y].name
    BY <2>2, <2>3, LongerOnce
  <2>5. P[x] = P[y]
    <3>1. P[x] \in Live \cup {NULL} /\ P[y] \in Live \cup {NULL} /\ F[NULL] = <<>>
      BY LiveFacts DEF Paths
    <3>2. CASE P[x] = NULL \/ P[y] = NULL
      BY <1>1, <2>4, <3>1, <3>2
    <3>3. CASE P[x] \in Live /\ P[y] \in Live
      <4>1. D[P[x]] \in Nat /\ D[x] = D[P[x]] + 1
        BY <3>3, LiveFacts
      <4>2. D[P[x]] < D[x]
        BY <4>1
      <4>. QED  BY <2>1, <2>4, <3>3, <4>2
    <3>. QED  BY <3>1, <3>2, <3>3
  <2>6. x = y
    BY <2>4, <2>5 DEF Grown, Shape, Named
  <2>. QED  BY <2>2, <2>6
<1>3. F[NULL] = <<>>
  BY DEF Paths
<1>. QED  BY <1>1, <1>2, <1>3

-----------------------------------------------------------------------------
(* What is at each path.                                                   *)

\* w is a way down the tree.
Way(P, n, w) ==
  \A i \in 1 .. n : w[i] \in Live /\ P[w[i]] = IF i = 1 THEN NULL ELSE w[i - 1]

\* The names on the way to an entry are its path.
LEMMA WayPath ==
  ASSUME NEW P, NEW s, NEW D, NEW N, Grown(P, s, D, N), NEW F, Paths(P, F),
         NEW n \in Nat, NEW w, Way(P, n, w)
  PROVE  \A i \in 1 .. n : Len(F[w[i]]) = i /\ \A j \in 1 .. i : F[w[i]][j] = info[w[j]].name
<1>. DEFINE B == {i \in 1 .. n : ~ (Len(F[w[i]]) = i
                                    /\ \A j \in 1 .. i : F[w[i]][j] = info[w[j]].name)}
<1>. SUFFICES ASSUME B # {}
              PROVE  FALSE
  OBVIOUS
<1>1. B \subseteq Nat
  OBVIOUS
<1>2. PICK i \in B : \A m \in B : ~ (m < i)
  <2>. HIDE DEF B
  <2>. QED  BY <1>1, Least
<1>3. i \in 1 .. n /\ i \in Nat /\ w[i] \in Live /\ P[w[i]] = IF i = 1 THEN NULL ELSE w[i - 1]
  BY <1>2 DEF Way
<1>4. Longer(F[w[i]], F[P[w[i]]], info[w[i]].name) /\ F[NULL] = <<>>
  BY <1>3 DEF Paths
<1>5. CASE i = 1
  <2>1. F[P[w[i]]] = <<>>
    BY <1>3, <1>4, <1>5
  <2>2. Len(F[P[w[i]]]) = 0
    BY <2>1
  <2>3. Len(F[w[i]]) = 1 /\ F[w[i]][1] = info[w[i]].name
    BY <1>4, <2>2 DEF Longer
  <2>. QED  BY <1>2, <1>5, <2>3
<1>6. CASE i # 1
  <2>1. i - 1 \in 1 .. n /\ i - 1 < i /\ i - 1 \notin B
    BY <1>2, <1>3, <1>6
  <2>2. /\ Len(F[w[i - 1]]) = i - 1
        /\ \A j \in 1 .. i - 1 : F[w[i - 1]][j] = info[w[j]].name
    BY <2>1
  <2>3. P[w[i]] = w[i - 1]
    BY <1>3, <1>6
  <2>4. /\ Len(F[w[i]]) = i
        /\ \A j \in 1 .. i - 1 : F[w[i]][j] = F[w[i - 1]][j]
        /\ F[w[i]][i] = info[w[i]].name
    <3>1. PICK r, q, m : r = F[w[i]] /\ q = F[w[i - 1]] /\ m = info[w[i]].name
      OBVIOUS
    <3>2. Longer(r, q, m) /\ Len(q) = i - 1
      BY <1>4, <2>2, <2>3, <3>1
    <3>3. Len(r) = i /\ (\A j \in 1 .. i - 1 : r[j] = q[j]) /\ r[i] = m
      BY <1>3, <3>2 DEF Longer
    <3>. QED  BY <3>1, <3>3
  <2>5. ASSUME NEW j \in 1 .. i
        PROVE  F[w[i]][j] = info[w[j]].name
    <3>1. CASE j = i
      BY <2>4, <3>1
    <3>2. CASE j # i
      <4>1. j \in 1 .. i - 1
        BY <1>3, <3>2
      <4>. QED  BY <2>2, <2>4, <4>1
    <3>. QED  BY <3>1, <3>2
  <2>. QED  BY <1>2, <2>4, <2>5
<1>. QED  BY <1>5, <1>6

\* There is a way to every entry.
LEMMA WayExists ==
  ASSUME NEW P, NEW s, NEW D, NEW N, Grown(P, s, D, N), NEW e \in Live
  PROVE  \E w \in [1 .. D[e] -> Entry] : Way(P, D[e], w) /\ w[D[e]] = e
<1>. DEFINE Has(x) == \E w \in [1 .. D[x] -> Entry] : Way(P, D[x], w) /\ w[D[x]] = x
            B == {x \in Live : ~ Has(x)}
<1>. SUFFICES ASSUME B # {}
              PROVE  FALSE
  OBVIOUS
<1>1. \A x \in B : D[x] \in Nat
  BY LiveFacts
<1>2. PICK x \in B : \A y \in B : ~ (D[y] < D[x])
  <2>. HIDE DEF B
  <2>. QED  BY <1>1, LeastRanked
<1>3. x \in Live /\ x \in Entry /\ P[x] \in Live \cup {NULL} /\ ~ Has(x)
  BY <1>2, LiveFacts
<1>4. CASE P[x] = NULL
  <2>. DEFINE w == [i \in 1 .. 1 |-> x]
  <2>1. D[x] = 1 /\ w \in [1 .. 1 -> Entry] /\ w[1] = x
    BY <1>3, <1>4, LiveFacts
  <2>2. Way(P, 1, w)
    BY <1>3, <1>4 DEF Way
  <2>. QED  BY <1>3, <2>1, <2>2
<1>5. CASE P[x] # NULL
  <2>1. P[x] \in Live /\ D[P[x]] \in 1 .. MaxDepth /\ D[x] = D[P[x]] + 1
    BY <1>3, <1>5, LiveFacts
  <2>2. Has(P[x])
    <3>1. D[P[x]] < D[x]
      BY <2>1
    <3>. QED  BY <1>2, <2>1, <3>1
  <2>3. PICK v \in [1 .. D[P[x]] -> Entry] : Way(P, D[P[x]], v) /\ v[D[P[x]]] = P[x]
    BY <2>2
  <2>4. PICK n : n = D[P[x]]
    OBVIOUS
  <2>5. n \in Nat \ {0} /\ D[x] = n + 1 /\ v \in [1 .. n -> Entry] /\ v[n] = P[x] /\ Way(P, n, v)
    BY <2>1, <2>3, <2>4
  <2>. DEFINE w == [i \in 1 .. n + 1 |-> IF i = n + 1 THEN x ELSE v[i]]
  <2>6. w \in [1 .. n + 1 -> Entry] /\ w[n + 1] = x /\ \A i \in 1 .. n : w[i] = v[i]
    <3>1. n + 1 \in 1 .. n + 1 /\ \A i \in 1 .. n : i \in 1 .. n + 1 /\ i # n + 1
      BY <2>5
    <3>2. \A i \in 1 .. n + 1 : i # n + 1 => i \in 1 .. n
      BY <2>5
    <3>. QED  BY <1>3, <2>5, <3>1, <3>2
  <2>. HIDE DEF w
  <2>7. ASSUME NEW i \in 1 .. n + 1
        PROVE  w[i] \in Live /\ P[w[i]] = IF i = 1 THEN NULL ELSE w[i - 1]
    <3>1. CASE i = n + 1
      <4>1. i - 1 = n /\ i # 1 /\ n \in 1 .. n
        BY <2>5, <3>1
      <4>. QED  BY <1>3, <2>5, <2>6, <3>1, <4>1
    <3>2. CASE i # n + 1
      <4>1. i \in 1 .. n /\ (i # 1 => i - 1 \in 1 .. n)
        BY <2>5, <3>2
      <4>2. v[i] \in Live /\ P[v[i]] = IF i = 1 THEN NULL ELSE v[i - 1]
        BY <2>5, <4>1 DEF Way
      <4>. QED  BY <2>6, <4>1, <4>2
    <3>. QED  BY <3>1, <3>2
  <2>8. Way(P, n + 1, w)
    BY <2>7 DEF Way
  <2>. QED  BY <1>3, <2>5, <2>6, <2>8
<1>. QED  BY <1>3, <1>4, <1>5

\* What is in a directory.
LEMMA Inside ==
  ASSUME NEW P, NEW s, NEW D, NEW N, Grown(P, s, D, N), NEW d \in Live \cup {NULL}
  PROVE  Chain(d) = {e \in Live : P[e] = d}
<1>1. links \in Links /\ Shape(links, Live, info, P, s, D, N)
  BY DEF Grown
<1>. QED  BY <1>1, ChainIs DEF Chain

\* The ways of n entries.
Ways(P, n) == {w \in [1 .. n -> Entry] : Way(P, n, w)}

\* A way is one that is shorter and an entry more.
LEMMA WaysLonger ==
  ASSUME NEW P, NEW s, NEW D, NEW N, Grown(P, s, D, N), NEW n \in Nat \ {0}
  PROVE  Ways(P, n) = UNION {{Append(w, e) : e \in Chain(IF w = <<>> THEN NULL ELSE Last(w))}
                               : w \in Ways(P, n - 1)}
<1>. DEFINE Dir(w) == IF w = <<>> THEN NULL ELSE Last(w)
<1>1. ASSUME NEW w \in Ways(P, n - 1)
      PROVE  /\ w \in Seq(Entry) /\ Len(w) = n - 1
             /\ Dir(w) = (IF n = 1 THEN NULL ELSE w[n - 1])
             /\ Dir(w) \in Live \cup {NULL}
             /\ Chain(Dir(w)) = {e \in Live : P[e] = IF n = 1 THEN NULL ELSE w[n - 1]}
  <2>1. w \in [1 .. n - 1 -> Entry] /\ n - 1 \in Nat
    BY DEF Ways
  <2>2. w \in Seq(Entry) /\ Len(w) = n - 1
    BY <2>1, SeqDef
  <2>3. CASE n = 1
    <3>1. w = <<>>
      BY <2>2, <2>3, EmptySeq
    <3>2. Dir(w) = NULL
      BY <3>1
    <3>. QED  BY <2>2, <2>3, <3>2, Inside
  <2>4. CASE n # 1
    <3>1. w # <<>>
      <4>1. Len(<<>>) = 0
        OBVIOUS
      <4>. QED  BY <2>2, <2>4, <4>1
    <3>2. Dir(w) = w[n - 1]
      BY <2>2, <3>1 DEF Last
    <3>3. w[n - 1] \in Live
      <4>1. n - 1 \in 1 .. n - 1 /\ Way(P, n - 1, w)
        BY <2>4 DEF Ways
      <4>. QED  BY <4>1 DEF Way
    <3>. HIDE DEF Dir
    <3>4. Chain(Dir(w)) = {e \in Live : P[e] = Dir(w)}
      BY <3>2, <3>3, Inside
    <3>. QED  BY <2>2, <2>4, <3>2, <3>3, <3>4
  <2>. QED  BY <2>3, <2>4
<1>. HIDE DEF Dir
<1>2. ASSUME NEW w \in Ways(P, n - 1), NEW e \in Chain(Dir(w))
      PROVE  Append(w, e) \in Ways(P, n)
  <2>1. PICK v : v = Append(w, e)
    OBVIOUS
  <2>2. e \in Live /\ e \in Entry /\ P[e] = IF n = 1 THEN NULL ELSE w[n - 1]
    BY <1>1, LiveFacts
  <2>3. /\ v \in Seq(Entry) /\ Len(v) = n
        /\ \A i \in 1 .. n - 1 : v[i] = w[i]
        /\ v[n] = e
    <3>1. w \in Seq(Entry) /\ Len(w) = n - 1
      BY <1>1
    <3>. QED  BY <2>1, <2>2, <3>1, AppendProperties
  <2>4. v \in [1 .. n -> Entry]
    BY <2>3, LenProperties
  <2>5. Way(P, n - 1, w)
    BY DEF Ways
  <2>6. ASSUME NEW i \in 1 .. n
        PROVE  v[i] \in Live /\ P[v[i]] = IF i = 1 THEN NULL ELSE v[i - 1]
    <3>1. CASE i = n
      <4>1. i # 1 => i - 1 \in 1 .. n - 1
        BY <3>1
      <4>. QED  BY <2>2, <2>3, <3>1, <4>1
    <3>2. CASE i # n
      <4>1. i \in 1 .. n - 1 /\ (i # 1 => i - 1 \in 1 .. n - 1)
        BY <3>2
      <4>2. w[i] \in Live /\ P[w[i]] = IF i = 1 THEN NULL ELSE w[i - 1]
        BY <2>5, <4>1 DEF Way
      <4>. QED  BY <2>3, <4>1, <4>2
    <3>. QED  BY <3>1, <3>2
  <2>7. v \in Ways(P, n)
    BY <2>4, <2>6 DEF Ways, Way
  <2>. QED  BY <2>1, <2>7
<1>3. ASSUME NEW v \in Ways(P, n)
      PROVE  \E w \in Ways(P, n - 1) : \E e \in Chain(Dir(w)) : v = Append(w, e)
  <2>1. v \in [1 .. n -> Entry] /\ Way(P, n, v)
    BY DEF Ways
  <2>. DEFINE w == [i \in 1 .. n - 1 |-> v[i]]
  <2>2. w \in [1 .. n - 1 -> Entry] /\ \A i \in 1 .. n - 1 : w[i] = v[i]
    BY <2>1
  <2>. HIDE DEF w
  <2>3. w \in Ways(P, n - 1)
    <3>1. ASSUME NEW i \in 1 .. n - 1
          PROVE  w[i] \in Live /\ P[w[i]] = IF i = 1 THEN NULL ELSE w[i - 1]
      <4>1. i \in 1 .. n /\ (i # 1 => i - 1 \in 1 .. n - 1)
        OBVIOUS
      <4>2. v[i] \in Live /\ P[v[i]] = IF i = 1 THEN NULL ELSE v[i - 1]
        BY <2>1, <4>1 DEF Way
      <4>. QED  BY <2>2, <4>1, <4>2
    <3>. QED  BY <2>2, <3>1 DEF Ways, Way
  <2>4. v[n] \in Live /\ P[v[n]] = IF n = 1 THEN NULL ELSE w[n - 1]
    <3>1. n \in 1 .. n /\ (n # 1 => n - 1 \in 1 .. n - 1)
      OBVIOUS
    <3>. QED  BY <2>1, <2>2, <3>1 DEF Way
  <2>5. v[n] \in Chain(Dir(w))
    BY <1>1, <2>3, <2>4
  <2>6. v = Append(w, v[n])
    <3>1. PICK u : u = Append(w, v[n])
      OBVIOUS
    <3>2. w \in Seq(Entry) /\ Len(w) = n - 1 /\ v[n] \in Entry
      BY <1>1, <2>3, <2>4, LiveFacts
    <3>3. u \in Seq(Entry) /\ Len(u) = n /\ (\A i \in 1 .. n - 1 : u[i] = w[i]) /\ u[n] = v[n]
      BY <3>1, <3>2, AppendProperties
    <3>4. v \in Seq(Entry) /\ Len(v) = n
      BY <2>1, SeqDef
    <3>5. \A i \in 1 .. n : u[i] = v[i]
      BY <2>2, <3>3
    <3>6. u = v
      BY <3>3, <3>4, <3>5, SeqEqual
    <3>. QED  BY <3>1, <3>6
  <2>. QED  BY <2>3, <2>5, <2>6
<1>4. Ways(P, n) = UNION {{Append(w, e) : e \in Chain(Dir(w))} : w \in Ways(P, n - 1)}
  <2>. DEFINE R == UNION {{Append(w, e) : e \in Chain(Dir(w))} : w \in Ways(P, n - 1)}
  <2>1. \A v \in R : \E w \in Ways(P, n - 1) : \E e \in Chain(Dir(w)) : v = Append(w, e)
    BY Zenon
  <2>2. ASSUME NEW w \in Ways(P, n - 1), NEW e \in Chain(Dir(w))
        PROVE  Append(w, e) \in R
    <3>1. Append(w, e) \in {Append(w, f) : f \in Chain(Dir(w))}
      BY Zenon
    <3>2. {Append(w, f) : f \in Chain(Dir(w))}
            \in {{Append(u, f) : f \in Chain(Dir(u))} : u \in Ways(P, n - 1)}
      BY Zenon
    <3>. QED  BY <3>1, <3>2, Zenon
  <2>. HIDE DEF R
  <2>3. R \subseteq Ways(P, n)
    BY <1>2, <2>1, Zenon
  <2>4. Ways(P, n) \subseteq R
    BY <1>3, <2>2, Zenon
  <2>5. R = Ways(P, n)
    BY <2>3, <2>4
  <2>. QED  BY <2>5 DEF R
<1>. QED  BY <1>4 DEF Dir

\* The recursive definition of Routes gives the ways.
LEMMA RoutesAre ==
  ASSUME NEW P, NEW s, NEW D, NEW N, Grown(P, s, D, N)
  PROVE  Routes = UNION {Ways(P, n) : n \in 1 .. MaxDepth}
<1>. DEFINE Next1(S) == UNION {{Append(w, e) : e \in Chain(IF w = <<>> THEN NULL ELSE Last(w))}
                                 : w \in S}
            Down(h) == h = [n \in 0 .. MaxDepth |-> IF n = 0 THEN {<<>>} ELSE Next1(h[n - 1])]
            g == [n \in 0 .. MaxDepth |-> Ways(P, n)]
<1>0. MaxDepth \in Nat
  BY RamFsAssumption
<1>1. Ways(P, 0) = {<<>>}
  <2>1. ASSUME NEW w \in [1 .. 0 -> Entry]
        PROVE  w = <<>>
    <3>1. w \in Seq(Entry) /\ Len(w) = 0
      BY SeqDef
    <3>. QED  BY <3>1, EmptySeq
  <2>a. <<>> \in [1 .. 0 -> Entry]
    <3>1. <<>> \in Seq(Entry) /\ Len(<<>>) = 0
      BY EmptySeq
    <3>. QED  BY <3>1, LenProperties
  <2>2. Way(P, 0, <<>>)
    BY DEF Way
  <2>. QED  BY <2>1, <2>2, <2>a DEF Ways
<1>2. \A n \in 0 .. MaxDepth : n # 0 => n \in Nat \ {0} /\ n - 1 \in 0 .. MaxDepth
  BY <1>0
<1>3. \A n \in 0 .. MaxDepth : n # 0 => Ways(P, n) = Next1(Ways(P, n - 1))
  BY <1>2, WaysLonger
<1>. HIDE DEF Next1
<1>4. Down(g)
  <2>1. \A n \in 0 .. MaxDepth : g[n] = IF n = 0 THEN {<<>>} ELSE Next1(g[n - 1])
    BY <1>1, <1>2, <1>3
  <2>2. g = [n \in 0 .. MaxDepth |-> g[n]]
    OBVIOUS
  <2>. HIDE DEF g
  <2>. QED  BY <2>1, <2>2
<1>5. ASSUME NEW h, Down(h), NEW n \in 0 .. MaxDepth
      PROVE  h[n] = Ways(P, n)
  <2>. DEFINE B == {m \in 0 .. MaxDepth : h[m] # Ways(P, m)}
  <2>1. ASSUME B # {}
        PROVE  FALSE
    <3>1. B \subseteq Nat
      OBVIOUS
    <3>2. PICK m \in B : \A k \in B : ~ (k < m)
      <4>. HIDE DEF B
      <4>. QED  BY <2>1, <3>1, Least
    <3>3. h[m] = IF m = 0 THEN {<<>>} ELSE Next1(h[m - 1])
      BY <1>5, <3>2
    <3>4. m = 0 \/ h[m - 1] = Ways(P, m - 1)
      <4>1. m # 0 => m - 1 \in 0 .. MaxDepth /\ m - 1 < m
        BY <1>2, <3>2
      <4>. QED  BY <3>2, <4>1
    <3>. QED  BY <1>1, <1>3, <3>2, <3>3, <3>4
  <2>. QED  BY <2>1
<1>6. Down(CHOOSE h : Down(h))
  <2>1. \E h : Down(h)
    BY <1>4, Zenon
  <2>. HIDE DEF Down
  <2>. QED  BY <2>1, Zenon
<1>7. Routes = UNION {(CHOOSE h : Down(h))[n] : n \in 1 .. MaxDepth}
  BY Zenon DEF Routes, Next1
<1>8. PICK h : h = CHOOSE k : Down(k)
  OBVIOUS
<1>9. \A n \in 1 .. MaxDepth : h[n] = Ways(P, n)
  <2>1. Down(h)
    BY <1>6, <1>8
  <2>2. \A n \in 1 .. MaxDepth : n \in 0 .. MaxDepth
    OBVIOUS
  <2>. HIDE DEF Down
  <2>. QED  BY <1>5, <2>1, <2>2
<1>10. Routes = UNION {h[n] : n \in 1 .. MaxDepth}
  <2>. HIDE DEF Down
  <2>. QED  BY <1>7, <1>8
<1>. QED  BY <1>9, <1>10

\* What is at a path, when F gives the paths.
Value(e) == [type |-> info[e].type, data |-> blocks[e]]

\* Each entry is at its path in Tree, and nothing else is in it.
TreeHas(F) ==
  /\ DOMAIN Tree = {F[e] : e \in Live}
  /\ \A e \in Live : Tree[F[e]] = Value(e)

\* Each entry is at its path, and there is nothing else.
LEMMA TreeIs ==
  ASSUME NEW P, NEW s, NEW D, NEW N, Grown(P, s, D, N), NEW F, Paths(P, F), Idle
  PROVE  TreeHas(F)
<1>. DEFINE PathOf(w) == [i \in DOMAIN w |-> info[w[i]].name]
            At(p) == Last(CHOOSE w \in Routes : PathOf(w) = p)
<1>1. ASSUME NEW w \in Routes
      PROVE  Last(w) \in Live /\ PathOf(w) = F[Last(w)]
  <2>1. PICK n \in 1 .. MaxDepth : w \in Ways(P, n)
    BY RoutesAre
  <2>2. w \in [1 .. n -> Entry] /\ Way(P, n, w) /\ n \in Nat /\ n \in 1 .. n
    BY <2>1 DEF Ways
  <2>3. Len(w) = n /\ Last(w) = w[n] /\ DOMAIN w = 1 .. n
    BY <2>2 DEF Last
  <2>4. Last(w) \in Live
    BY <2>2, <2>3 DEF Way
  <2>5. PICK r : r = F[w[n]]
    OBVIOUS
  <2>6. Len(r) = n /\ \A j \in 1 .. n : r[j] = info[w[j]].name
    BY <2>2, <2>5, WayPath
  <2>7. r \in Seq(Name)
    BY <2>3, <2>4, <2>5, PathsDepth
  <2>8. r = [i \in 1 .. n |-> r[i]]
    <3>1. r \in [1 .. n -> Name]
      BY <2>6, <2>7, LenProperties
    <3>. QED  BY <3>1
  <2>9. PathOf(w) = r
    BY <2>3, <2>6, <2>8
  <2>. QED  BY <2>3, <2>4, <2>5, <2>9
<1>2. ASSUME NEW e \in Live
      PROVE  \E w \in Routes : Last(w) = e
  <2>1. PICK w \in [1 .. D[e] -> Entry] : Way(P, D[e], w) /\ w[D[e]] = e
    BY WayExists
  <2>2. D[e] \in 1 .. MaxDepth /\ w \in Ways(P, D[e])
    BY <2>1, LiveFacts DEF Ways
  <2>3. w \in Routes
    BY <2>2, RoutesAre
  <2>4. Last(w) = e
    <3>1. Len(w) = D[e]
      BY <2>1, <2>2
    <3>. QED  BY <2>1, <3>1 DEF Last
  <2>. QED  BY <2>3, <2>4
<1>3. Tree = [p \in {PathOf(w) : w \in Routes} |->
                [type |-> info[At(p)].type, data |-> blocks[At(p)]]]
  <2>1. PICK R : R = IF Idle THEN Routes ELSE {}
    OBVIOUS
  <2>2. R = Routes
    BY <2>1
  <2>3. Tree = [p \in {PathOf(w) : w \in R} |->
                  [type |-> info[Last(CHOOSE w \in R : PathOf(w) = p)].type,
                   data |-> blocks[Last(CHOOSE w \in R : PathOf(w) = p)]]]
    BY <2>1, Zenon DEF Tree
  <2>. QED  BY <2>2, <2>3, Zenon
<1>4. ASSUME NEW e \in Live
      PROVE  At(F[e]) = e /\ F[e] \in {PathOf(w) : w \in Routes}
  <2>1. PICK w \in Routes : Last(w) = e
    BY <1>2
  <2>2. PathOf(w) = F[e]
    BY <1>1, <2>1
  <2>. DEFINE v == CHOOSE u \in Routes : PathOf(u) = F[e]
  <2>. HIDE DEF PathOf
  <2>3. v \in Routes /\ PathOf(v) = F[e]
    BY <2>2
  <2>4. Last(v) \in Live /\ F[Last(v)] = F[e]
    BY <1>1, <2>3
  <2>5. Last(v) = e
    <3>. HIDE DEF v
    <3>. QED  BY <2>4, PathsDiffer
  <2>. QED  BY <2>2, <2>5
<1>5. {PathOf(w) : w \in Routes} = {F[e] : e \in Live}
  <2>. HIDE DEF PathOf
  <2>. QED  BY <1>1, <1>2
<1>. HIDE DEF PathOf, At
<1>6. DOMAIN Tree = {F[e] : e \in Live}
  BY <1>3, <1>5
<1>7. ASSUME NEW e \in Live
      PROVE  Tree[F[e]] = Value(e)
  <2>1. Tree[F[e]] = [type |-> info[At(F[e])].type, data |-> blocks[At(F[e])]]
    BY <1>3, <1>4
  <2>. QED  BY <1>4, <2>1 DEF Value
<1>. QED  BY <1>6, <1>7 DEF TreeHas

\* The same for the state after a step.
TreesKnown ==
  \A P, s, D, N, F : Idle /\ Grown(P, s, D, N) /\ Paths(P, F) => TreeHas(F)

\* Tree is known from the paths,
LEMMA TreesHere == TreesKnown
  BY TreeIs DEF TreesKnown

\* after a step too,
LEMMA TreesNext == TreesKnown'
  BY TreesHere, PTL

\* when there is a shape.
LEMMA TreeIsNext ==
  ASSUME NEW P, NEW s, NEW D, NEW N, Grown(P, s, D, N)', NEW F, Paths(P, F)', Idle'
  PROVE  TreeHas(F)'
  BY TreesNext DEF TreesKnown

\* Tree is a function, with nothing in it while the file system is unmounted.
LEMMA TreeFunction ==
  /\ Tree = [p \in DOMAIN Tree |-> Tree[p]]
  /\ Tree' = [p \in DOMAIN Tree' |-> Tree'[p]]
  /\ ~Idle => Tree = [p \in {} |-> 0]
  /\ ~Idle' => Tree' = [p \in {} |-> 0]
<1>1. Tree = [p \in DOMAIN Tree |-> Tree[p]]
  BY DEF Tree
<1>2. Tree' = [p \in DOMAIN Tree' |-> Tree'[p]]
  BY DEF Tree
<1>3. ~Idle => DOMAIN Tree = {}
  BY DEF Tree
<1>4. ~Idle' => DOMAIN Tree' = {}
  BY DEF Tree
<1>5. \A T : T = [p \in DOMAIN T |-> T[p]] /\ DOMAIN T = {} => T = [p \in {} |-> 0]
  OBVIOUS
<1>. HIDE DEF Tree
<1>. QED  BY <1>1, <1>2, <1>3, <1>4, <1>5

\* T has the entries of V, with types I and data b, at the paths that F gives.
TreeAs(T, F, V, I, b) ==
  /\ DOMAIN T = {F[x] : x \in V}
  /\ \A x \in V : T[F[x]] = [type |-> I[x].type, data |-> b[x]]
  /\ T = [p \in DOMAIN T |-> T[p]]

\* So is Tree before a step,
LEMMA TreeNow ==
  ASSUME NEW P, NEW s, NEW D, NEW N, Grown(P, s, D, N), NEW F, Paths(P, F), Idle
  PROVE  TreeAs(Tree, F, Live, info, blocks)
<1>1. TreeHas(F)
  BY TreeIs
<1>. QED  BY <1>1, TreeFunction DEF TreeHas, TreeAs, Value

\* and after it.
LEMMA TreeThen ==
  ASSUME NEW P, NEW s, NEW D, NEW N, Grown(P, s, D, N)', NEW F, Paths(P, F)', Idle'
  PROVE  TreeAs(Tree', F, Live', info', blocks')
<1>1. TreeHas(F)'
  BY TreeIsNext
<1>2. Tree' = [p \in DOMAIN Tree' |-> Tree'[p]]
  BY TreeFunction
<1>. QED  BY <1>1, <1>2 DEF TreeHas, TreeAs, Value

-----------------------------------------------------------------------------
(* Paths and the calls.                                                    *)

\* All but the last component of a path.
LEMMA FrontOf ==
  ASSUME NEW r \in Seq(Name), NEW q \in Seq(Name), NEW n, Longer(r, q, n)
  PROVE  SubSeq(r, 1, Len(r) - 1) = q
<1>1. Len(q) \in Nat /\ Len(r) - 1 = Len(q) /\ 1 \in Int /\ Len(r) - 1 \in Int
  BY DEF Longer
<1>2. \A i \in 1 .. Len(r) - 1 : r[i] \in Name
  BY ElementOfSeq
<1>3. PICK m, f : m = Len(r) - 1 /\ f = SubSeq(r, 1, m)
  OBVIOUS
<1>4. /\ f \in Seq(Name)
      /\ Len(f) = IF 1 <= m THEN m - 1 + 1 ELSE 0
      /\ \A i \in 1 .. m - 1 + 1 : f[i] = r[1 + i - 1]
  BY <1>1, <1>2, <1>3, SubSeqProperties
<1>5. m \in Nat /\ m = Len(q)
  BY <1>1, <1>3
<1>6. Len(f) = m /\ \A i \in 1 .. m : f[i] = r[i]
  <2>1. ASSUME NEW i \in 1 .. m
        PROVE  f[i] = r[i]
    <3>1. i \in 1 .. m - 1 + 1 /\ 1 + i - 1 = i
      BY <1>5
    <3>. QED  BY <1>4, <3>1
  <2>. QED  BY <1>4, <1>5, <2>1
<1>7. \A i \in 1 .. m : q[i] = r[i]
  BY <1>5 DEF Longer
<1>8. f = q
  BY <1>4, <1>5, <1>6, <1>7, SeqEqual
<1>. QED  BY <1>3, <1>8

\* A route leads to the entry whose path it follows.
LEMMA RoutePath ==
  ASSUME NEW P, NEW s, NEW D, NEW N, Grown(P, s, D, N), NEW F, Paths(P, F),
         NEW p, NEW n \in Nat, NEW w, Route(P, p, n, w)
  PROVE  /\ F[w[n]] \in Seq(Name)
         /\ Len(F[w[n]]) = n
         /\ \A i \in 1 .. n : F[w[n]][i] = p[i]
<1>1. CASE n = 0
  <2>1. w[n] = NULL
    BY <1>1 DEF Route
  <2>2. F[w[n]] = <<>>
    BY <2>1 DEF Paths
  <2>3. F[w[n]] \in Seq(Name) /\ Len(F[w[n]]) = 0
    BY <2>2
  <2>. QED  BY <1>1, <2>3
<1>2. CASE n # 0
  <2>1. Way(P, n, w) /\ n \in 1 .. n
    BY <1>2 DEF Way, Route
  <2>2. Len(F[w[n]]) = n /\ \A j \in 1 .. n : F[w[n]][j] = info[w[j]].name
    BY <2>1, WayPath
  <2>3. \A j \in 1 .. n : info[w[j]].name = p[j]
    BY DEF Route
  <2>4. F[w[n]] \in Seq(Name)
    BY <2>1, PathsDepth DEF Way
  <2>. QED  BY <2>2, <2>3, <2>4
<1>. QED  BY <1>1, <1>2

\* traverse finds the entry with the path it is given.
LEMMA TraversePath ==
  ASSUME NEW P, NEW s, NEW D, NEW N, Grown(P, s, D, N), NEW F, Paths(P, F),
         NEW p \in Path, Traverse(p).ret = "ok"
  PROVE  Traverse(p).entry \in Live /\ F[Traverse(p).entry] = p
<1>1. PICK w : Route(P, p, Len(p), w) /\ Traverse(p).entry = w[Len(p)]
  BY TraverseOk
<1>2. p \in Seq(Name) /\ Len(p) \in Nat
  BY PathSeq
<1>3. PICK n, e, r : n = Len(p) /\ e = w[n] /\ r = F[e]
  OBVIOUS
<1>4. r \in Seq(Name) /\ Len(r) = n /\ \A i \in 1 .. n : r[i] = p[i]
  BY <1>1, <1>2, <1>3, RoutePath
<1>5. r = p
  BY <1>2, <1>3, <1>4, SeqEqual
<1>6. Traverse(p).entry \in Live
  BY TraverseEntry
<1>. QED  BY <1>1, <1>3, <1>5, <1>6

\* When it misses the last component, it finds the directory it should be in.
LEMMA TraverseMissing ==
  ASSUME NEW P, NEW s, NEW D, NEW N, Grown(P, s, D, N), NEW F, Paths(P, F),
         NEW p \in Path, Traverse(p).ret = "noent", NEW d, d = Traverse(p).parent
  PROVE  /\ d \in Live \cup {NULL}
         /\ d # NULL => info[d].type = "dir"
         /\ F[d] \in Seq(Name)
         /\ Longer(p, F[d], Last(p))
         /\ \A e \in Live : F[e] # p
<1>0. p \in Seq(Name) /\ Len(p) \in Nat \ {0}
  BY PathSeq
<1>1. NewPlace(P, D, d, Last(p))
  BY TraversePlace
<1>2. /\ d \in Live \cup {NULL}
      /\ d # NULL => info[d].type = "dir"
      /\ \A x \in Live : P[x] = d => info[x].name # Last(p)
  BY <1>1 DEF NewPlace
<1>3. PICK w : Route(P, p, Len(p) - 1, w) /\ d = w[Len(p) - 1]
  BY TraverseNoent
<1>4. PICK n, q : n = Len(p) - 1 /\ q = F[d]
  OBVIOUS
<1>5. n \in Nat /\ Len(p) = n + 1
  BY <1>0, <1>4
<1>6. q \in Seq(Name) /\ Len(q) = n /\ \A i \in 1 .. n : q[i] = p[i]
  BY <1>3, <1>4, <1>5, RoutePath
<1>7. Longer(p, q, Last(p))
  BY <1>5, <1>6 DEF Longer, Last
<1>8. ASSUME NEW e \in Live, F[e] = p
      PROVE  FALSE
  <2>1. Longer(p, F[P[e]], info[e].name) /\ F[P[e]] \in Seq(Name)
    BY <1>8, LiveFacts DEF Paths
  <2>2. F[P[e]] = q /\ info[e].name = Last(p)
    BY <1>0, <1>6, <1>7, <2>1, LongerOnce
  <2>3. P[e] = d
    <3>1. P[e] \in Live \cup {NULL}
      BY LiveFacts
    <3>. QED  BY <1>2, <1>4, <2>2, <3>1, PathsDiffer
  <2>. QED  BY <1>2, <2>2, <2>3
<1>. QED  BY <1>2, <1>4, <1>6, <1>7, <1>8

\* The path of the parent.
LEMMA FrontPath ==
  ASSUME NEW P, NEW s, NEW D, NEW N, Grown(P, s, D, N), NEW F, Paths(P, F), NEW e \in Live
  PROVE  SubSeq(F[e], 1, Len(F[e]) - 1) = F[P[e]]
<1>1. F[e] \in Seq(Name) /\ F[P[e]] \in Seq(Name) /\ Longer(F[e], F[P[e]], info[e].name)
  BY LiveFacts DEF Paths
<1>. QED  BY <1>1, FrontOf

\* No path leads on from that of an entry without children.
LEMMA EmptyAt ==
  ASSUME NEW P, NEW s, NEW D, NEW N, Grown(P, s, D, N), NEW F, Paths(P, F),
         NEW e \in Live, \A x \in Live : P[x] # e, NEW T, DOMAIN T = {F[x] : x \in Live}
  PROVE  NS!IsEmpty(T, F[e])
<1>1. ASSUME NEW x \in Live
      PROVE  SubSeq(F[x], 1, Len(F[x]) - 1) # F[e]
  <2>1. P[x] \in Live \cup {NULL} /\ P[x] # e
    BY LiveFacts
  <2>2. F[P[x]] # F[e]
    BY <2>1, PathsDiffer
  <2>. QED  BY <2>2, FrontPath
<1>. QED  BY <1>1 DEF NS!IsEmpty, NS!Front

\* An entry that leaves the tree, and the rest stays as it is.
LEMMA DeleteStep ==
  ASSUME NEW P, NEW s, NEW D, NEW N, Grown(P, s, D, N), NEW F, Paths(P, F),
         NEW e \in Live, \A x \in Live : P[x] # e,
         Idle, Idle', Grown(P, s, D, N)', Live' = Live \ {e},
         \A x \in Live' : info'[x] = info[x] /\ blocks'[x] = blocks[x]
  PROVE  NS!Delete(Tree, Tree', F[e])
<1>1. PICK T, U, J, c : T = Tree /\ U = Tree' /\ J = info' /\ c = blocks'
  OBVIOUS
<1>2. Paths(P, F)'
  BY DEF Paths
<1>3. TreeAs(T, F, Live, info, blocks)
  BY <1>1, TreeNow
<1>4. TreeAs(U, F, Live \ {e}, J, c)
  BY <1>1, <1>2, TreeThen
<1>5. \A x \in Live \ {e} : J[x] = info[x] /\ c[x] = blocks[x]
  BY <1>1
<1>6. DOMAIN U = DOMAIN T \ {F[e]}
  BY <1>3, <1>4, PathsDiffer DEF TreeAs
<1>7. ASSUME NEW x \in Live \ {e}
      PROVE  U[F[x]] = T[F[x]]
  <2>1. T[F[x]] = [type |-> info[x].type, data |-> blocks[x]]
    BY <1>3 DEF TreeAs
  <2>2. U[F[x]] = [type |-> J[x].type, data |-> c[x]]
    BY <1>4 DEF TreeAs
  <2>. QED  BY <1>5, <2>1, <2>2
<1>8. \A p \in DOMAIN U : U[p] = T[p]
  BY <1>4, <1>7 DEF TreeAs
<1>9. U = [p \in DOMAIN T \ {F[e]} |-> T[p]]
  BY <1>4, <1>6, <1>8 DEF TreeAs
<1>10. NS!IsEmpty(T, F[e])
  BY <1>3, EmptyAt DEF TreeAs
<1>. QED  BY <1>1, <1>9, <1>10 DEF NS!Delete, NS!Restrict

\* A new entry, without data, in a directory.
LEMMA MakeStep ==
  ASSUME NEW P, NEW s, NEW D, NEW N, Grown(P, s, D, N), NEW F, Paths(P, F),
         NEW Q, NEW t, NEW E, NEW n, Grown(Q, t, E, n)', Idle, Idle',
         NEW e \in Entry, e \notin Live, Live' = Live \cup {e}, blocks'[e] = {},
         \A x \in Live : info'[x] = info[x] /\ blocks'[x] = blocks[x],
         NEW d \in Live \cup {NULL}, d # NULL => info[d].type = "dir",
         Q[e] = d, \A x \in Live : Q[x] = P[x],
         NEW q \in Path, Longer(q, F[d], info'[e].name), \A x \in Live : F[x] # q
  PROVE  NS!Make(Tree, Tree', q)
<1>1. PICK T, U, J, c : T = Tree /\ U = Tree' /\ J = info' /\ c = blocks'
  OBVIOUS
<1>. DEFINE G == [x \in Pointer |-> IF x = e THEN q ELSE F[x]]
<1>2. /\ q \in Seq(Name) /\ F \in [Pointer -> Seq(Name)] /\ F[NULL] = <<>>
      /\ e # NULL /\ d # e /\ Live \subseteq Pointer /\ NULL \in Pointer /\ e \in Pointer
  BY PathSeq, LiveFacts, RamFsAssumption DEF Paths, Pointer
<1>3. /\ G \in [Pointer -> Seq(Name)] /\ G[NULL] = <<>> /\ G[e] = q /\ G[d] = F[d]
      /\ \A x \in Live : G[x] = F[x]
  BY <1>2
<1>. HIDE DEF G
<1>4. Paths(Q, G)'
  <2>1. Longer(G[e], G[Q[e]], J[e].name)
    BY <1>1, <1>3
  <2>2. ASSUME NEW x \in Live
        PROVE  Longer(G[x], G[Q[x]], J[x].name)
    <3>1. P[x] \in Live \cup {NULL} /\ Longer(F[x], F[P[x]], info[x].name)
      BY LiveFacts DEF Paths
    <3>2. G[x] = F[x] /\ G[Q[x]] = F[P[x]]
      BY <1>2, <1>3, <3>1
    <3>3. J[x] = info[x]
      BY <1>1
    <3>. QED  BY <3>1, <3>2, <3>3
  <2>. QED  BY <1>1, <1>3, <2>1, <2>2 DEF Paths
<1>5. TreeAs(T, F, Live, info, blocks)
  BY <1>1, TreeNow
<1>6. TreeAs(U, G, Live \cup {e}, J, c)
  BY <1>1, <1>4, TreeThen
<1>7. q \notin DOMAIN T /\ DOMAIN U = DOMAIN T \cup {q}
  BY <1>3, <1>5, <1>6 DEF TreeAs
<1>8. ASSUME NEW x \in Live
      PROVE  U[F[x]] = T[F[x]]
  <2>1. T[F[x]] = [type |-> info[x].type, data |-> blocks[x]]
    BY <1>5 DEF TreeAs
  <2>2. U[G[x]] = [type |-> J[x].type, data |-> c[x]]
    BY <1>6 DEF TreeAs
  <2>3. J[x] = info[x] /\ c[x] = blocks[x]
    BY <1>1
  <2>. QED  BY <1>3, <2>1, <2>2, <2>3
<1>9. [r \in DOMAIN T |-> U[r]] = T
  <2>1. \A r \in DOMAIN T : U[r] = T[r]
    BY <1>5, <1>8 DEF TreeAs
  <2>2. T = [r \in DOMAIN T |-> T[r]]
    BY <1>5 DEF TreeAs
  <2>. QED  BY <2>1, <2>2
<1>10. U[q].data = {}
  <2>1. U[q] = [type |-> J[e].type, data |-> c[e]]
    BY <1>3, <1>6 DEF TreeAs
  <2>2. c[e] = {}
    BY <1>1
  <2>. QED  BY <2>1, <2>2
<1>11. NS!IsDir(T, SubSeq(q, 1, Len(q) - 1))
  <2>1. SubSeq(q, 1, Len(q) - 1) = F[d]
    <3>1. F[d] \in Seq(Name)
      BY <1>2
    <3>. QED  BY <1>2, <3>1, FrontOf
  <2>2. CASE d = NULL
    BY <1>2, <2>1, <2>2 DEF NS!IsDir
  <2>3. CASE d # NULL
    <3>1. d \in Live /\ info[d].type = "dir"
      BY <2>3
    <3>2. F[d] \in DOMAIN T /\ T[F[d]] = [type |-> info[d].type, data |-> blocks[d]]
      BY <1>5, <3>1 DEF TreeAs
    <3>3. T[F[d]].type = "dir"
      BY <3>1, <3>2
    <3>. QED  BY <2>1, <3>2, <3>3 DEF NS!IsDir
  <2>. QED  BY <2>2, <2>3
<1>. QED  BY <1>1, <1>7, <1>9, <1>10, <1>11 DEF NS!Make, NS!Restrict, NS!Front

\* Nothing in the tree changes.
LEMMA SameStep ==
  ASSUME NEW P, NEW s, NEW D, NEW N, Grown(P, s, D, N), Grown(P, s, D, N)', Idle, Idle',
         Live' = Live, \A x \in Live : info'[x] = info[x] /\ blocks'[x] = blocks[x]
  PROVE  Tree' = Tree
<1>1. PICK T, U, J, c : T = Tree /\ U = Tree' /\ J = info' /\ c = blocks'
  OBVIOUS
<1>2. PICK F : Paths(P, F)
  BY PathsExist
<1>3. Paths(P, F)'
  BY <1>2 DEF Paths
<1>4. TreeAs(T, F, Live, info, blocks)
  BY <1>1, <1>2, TreeNow
<1>5. TreeAs(U, F, Live, J, c)
  BY <1>1, <1>3, TreeThen
<1>6. ASSUME NEW x \in Live
      PROVE  U[F[x]] = T[F[x]]
  <2>1. T[F[x]] = [type |-> info[x].type, data |-> blocks[x]]
    BY <1>4 DEF TreeAs
  <2>2. U[F[x]] = [type |-> J[x].type, data |-> c[x]]
    BY <1>5 DEF TreeAs
  <2>3. J[x] = info[x] /\ c[x] = blocks[x]
    BY <1>1
  <2>. QED  BY <2>1, <2>2, <2>3
<1>7. DOMAIN U = DOMAIN T
  BY <1>4, <1>5 DEF TreeAs
<1>8. \A r \in DOMAIN T : U[r] = T[r]
  BY <1>4, <1>6 DEF TreeAs
<1>9. T = [r \in DOMAIN T |-> T[r]] /\ U = [r \in DOMAIN U |-> U[r]]
  BY <1>4, <1>5 DEF TreeAs
<1>10. U = T
  BY <1>7, <1>8, <1>9
<1>. QED  BY <1>1, <1>10

\* The data of a file changes.
LEMMA WriteStep ==
  ASSUME NEW P, NEW s, NEW D, NEW N, Grown(P, s, D, N), NEW F, Paths(P, F), Idle, Idle',
         UNCHANGED <<info, links>>, NEW e \in Live, info[e].type = "file",
         \A x \in Live : x # e => blocks'[x] = blocks[x]
  PROVE  NS!Write(Tree, Tree', F[e])
<1>1. PICK T, U, c : T = Tree /\ U = Tree' /\ c = blocks'
  OBVIOUS
<1>2. Live' = Live
  BY DEF Live, Alloc
<1>3. Grown(P, s, D, N)' /\ Paths(P, F)'
  BY <1>2 DEF Paths, Grown
<1>4. TreeAs(T, F, Live, info, blocks)
  BY <1>1, TreeNow
<1>5. TreeAs(U, F, Live, info, c)
  BY <1>1, <1>2, <1>3, TreeThen
<1>6. DOMAIN U = DOMAIN T /\ F[e] \in DOMAIN U
  BY <1>4, <1>5 DEF TreeAs
<1>7. /\ T[F[e]] = [type |-> info[e].type, data |-> blocks[e]]
      /\ U[F[e]] = [type |-> info[e].type, data |-> c[e]]
  BY <1>4, <1>5 DEF TreeAs
<1>8. ASSUME NEW r \in DOMAIN T, r # F[e]
      PROVE  U[r] = T[r]
  <2>1. PICK x \in Live : r = F[x]
    BY <1>4 DEF TreeAs
  <2>2. T[F[x]] = [type |-> info[x].type, data |-> blocks[x]]
    BY <1>4 DEF TreeAs
  <2>3. U[F[x]] = [type |-> info[x].type, data |-> c[x]]
    BY <1>5 DEF TreeAs
  <2>4. c[x] = blocks[x]
    BY <1>1, <1>8, <2>1
  <2>. QED  BY <2>1, <2>2, <2>3, <2>4
<1>9. T = [r \in DOMAIN T |-> T[r]] /\ U = [r \in DOMAIN U |-> U[r]]
  BY <1>4, <1>5 DEF TreeAs
<1>10. T[F[e]].type = "file" /\ U[F[e]] = [T[F[e]] EXCEPT !.data = U[F[e]].data]
  BY <1>7
<1>11. U = [T EXCEPT ![F[e]].data = U[F[e]].data]
  BY <1>6, <1>8, <1>9, <1>10
<1>. QED  BY <1>1, <1>6, <1>10, <1>11 DEF NS!Write

-----------------------------------------------------------------------------
(* Rename.                                                                 *)

\* Path r is p, or below it.
Starts(p, r) == Len(p) <= Len(r) /\ \A i \in 1 .. Len(p) : r[i] = p[i]

\* It is the same as IsPrefix.
LEMMA StartsIs ==
  ASSUME NEW p \in Seq(Name), NEW r \in Seq(Name)
  PROVE  NS!IsPrefix(p, r) <=> Starts(p, r)
<1>1. Len(p) \in Nat /\ Len(r) \in Nat
  OBVIOUS
<1>2. PICK n, a, b : n = Len(p) /\ a = SubSeq(p, 1, n) /\ b = SubSeq(r, 1, n)
  OBVIOUS
<1>3. CASE n <= Len(r)
  <2>1. (\A i \in 1 .. n : p[i] \in Name) /\ (\A i \in 1 .. n : r[i] \in Name) /\ n \in Nat
    <3>1. \A i \in 1 .. n : i \in 1 .. Len(p) /\ i \in 1 .. Len(r)
      BY <1>1, <1>2, <1>3
    <3>. QED  BY <1>1, <1>2, <3>1, ElementOfSeq
  <2>2. /\ a \in Seq(Name) /\ Len(a) = (IF 1 <= n THEN n - 1 + 1 ELSE 0)
        /\ \A i \in 1 .. n - 1 + 1 : a[i] = p[1 + i - 1]
    BY <1>2, <2>1, SubSeqProperties
  <2>3. /\ b \in Seq(Name) /\ Len(b) = (IF 1 <= n THEN n - 1 + 1 ELSE 0)
        /\ \A i \in 1 .. n - 1 + 1 : b[i] = r[1 + i - 1]
    BY <1>2, <2>1, SubSeqProperties
  <2>4. \A i \in 1 .. n : i \in 1 .. n - 1 + 1 /\ 1 + i - 1 = i
    BY <2>1
  <2>5. Len(a) = n /\ Len(b) = n /\ \A i \in 1 .. n : a[i] = p[i] /\ b[i] = r[i]
    BY <2>1, <2>2, <2>3, <2>4
  <2>6. a = b <=> \A i \in 1 .. n : p[i] = r[i]
    <3>1. ASSUME \A i \in 1 .. n : p[i] = r[i]
          PROVE  a = b
      <4>1. \A i \in 1 .. Len(a) : a[i] = b[i]
        BY <2>5, <3>1
      <4>. QED  BY <2>2, <2>3, <2>5, <4>1, SeqEqual
    <3>. QED  BY <2>5, <3>1
  <2>7. NS!IsPrefix(p, r) <=> a = b
    BY <1>1, <1>2, <1>3 DEF NS!IsPrefix
  <2>8. Starts(p, r) <=> \A i \in 1 .. n : p[i] = r[i]
    BY <1>1, <1>2, <1>3 DEF Starts
  <2>. QED  BY <2>6, <2>7, <2>8
<1>4. CASE ~ (n <= Len(r))
  BY <1>1, <1>2, <1>4 DEF Starts, NS!IsPrefix
<1>. QED  BY <1>3, <1>4

\* A path is at or below p if the path one component shorter is, or if it is p.
LEMMA StartsLonger ==
  ASSUME NEW p \in Seq(Name), NEW q \in Seq(Name), NEW r \in Seq(Name), NEW n, Longer(r, q, n)
  PROVE  /\ Starts(p, q) => Starts(p, r)
         /\ Starts(p, r) => r = p \/ Starts(p, q)
<1>1. Len(p) \in Nat /\ Len(q) \in Nat /\ Len(r) = Len(q) + 1
      /\ \A i \in 1 .. Len(q) : r[i] = q[i]
  BY DEF Longer
<1>2. ASSUME Starts(p, q)
      PROVE  Starts(p, r)
  <2>1. \A i \in 1 .. Len(p) : i \in 1 .. Len(q)
    BY <1>1, <1>2 DEF Starts
  <2>. QED  BY <1>1, <1>2, <2>1 DEF Starts
<1>3. ASSUME Starts(p, r)
      PROVE  r = p \/ Starts(p, q)
  <2>1. CASE Len(p) = Len(r)
    BY <1>3, <2>1, SeqEqual DEF Starts
  <2>2. CASE Len(p) # Len(r)
    <3>1. Len(p) <= Len(q)
      BY <1>1, <1>3, <2>2 DEF Starts
    <3>2. \A i \in 1 .. Len(p) : i \in 1 .. Len(q)
      BY <1>1, <3>1
    <3>. QED  BY <1>1, <1>3, <3>1, <3>2 DEF Starts
  <2>. QED  BY <2>1, <2>2
<1>. QED  BY <1>2, <1>3

\* What is below an entry has a path below that of the entry.
LEMMA BelowPaths ==
  ASSUME NEW P, NEW s, NEW D, NEW N, Grown(P, s, D, N), NEW F, Paths(P, F),
         NEW old \in Live, NEW B, Below(Live, P, old, B)
  PROVE  \A x \in Live : x \in B \cup {old} <=> Starts(F[old], F[x])
<1>1. ASSUME NEW x \in Live
      PROVE  /\ F[x] \in Seq(Name) /\ F[P[x]] \in Seq(Name) /\ F[old] \in Seq(Name)
             /\ Longer(F[x], F[P[x]], info[x].name)
             /\ P[x] \in Live \cup {NULL} /\ D[x] \in Nat
             /\ P[x] # NULL => D[P[x]] \in Nat /\ D[x] = D[P[x]] + 1
             /\ x \in B <=> P[x] = old \/ P[x] \in B
  BY LiveFacts DEF Paths, Below
<1>2. Starts(F[old], F[old])
  BY <1>1 DEF Starts
<1>3. ~ Starts(F[old], F[NULL])
  <2>1. Len(F[old]) \in 1 .. MaxDepth
    BY PathsDepth, LiveFacts
  <2>2. F[NULL] = <<>>
    BY DEF Paths
  <2>3. Len(F[NULL]) = 0
    BY <2>2
  <2>. QED  BY <2>1, <2>3 DEF Starts
<1>. DEFINE C == {x \in Live : ~ (x \in B \cup {old} <=> Starts(F[old], F[x]))}
<1>. SUFFICES ASSUME C # {}
              PROVE  FALSE
  OBVIOUS
<1>4. \A x \in C : D[x] \in Nat
  BY <1>1
<1>5. PICK x \in C : \A y \in C : ~ (D[y] < D[x])
  <2>. HIDE DEF C
  <2>. QED  BY <1>4, LeastRanked
<1>6. x \in Live /\ x # old
  BY <1>2, <1>5
<1>7. P[x] \in B \cup {old} <=> Starts(F[old], F[P[x]])
  <2>1. CASE P[x] = NULL
    <3>1. NULL \notin B \cup {old}
      BY LiveFacts DEF Below
    <3>. QED  BY <1>3, <2>1, <3>1
  <2>2. CASE P[x] # NULL
    <3>1. P[x] \in Live /\ D[P[x]] < D[x]
      BY <1>1, <1>6, <2>2
    <3>. QED  BY <1>5, <3>1
  <2>. QED  BY <2>1, <2>2
<1>8. F[x] # F[old]
  BY <1>6, PathsDiffer
<1>9. Starts(F[old], F[x]) <=> Starts(F[old], F[P[x]])
  BY <1>1, <1>6, <1>8, StartsLonger
<1>10. x \in B \cup {old} <=> P[x] \in B \cup {old}
  BY <1>1, <1>6
<1>. QED  BY <1>5, <1>7, <1>9, <1>10

\* Path r with p at its start replaced by q.
MovedPath(p, q, r) == q \o SubSeq(r, Len(p) + 1, Len(r))

\* m is what comes of r when q takes the place of p.
IsMoved(p, q, r, m) ==
  /\ m \in Seq(Name)
  /\ Len(m) = Len(q) + (Len(r) - Len(p))
  /\ \A i \in 1 .. Len(q) : m[i] = q[i]
  /\ \A i \in 1 .. Len(r) - Len(p) : m[Len(q) + i] = r[Len(p) + i]

\* MovedPath gives the sequence that it says, component by component.
LEMMA MovedPathIs ==
  ASSUME NEW p \in Seq(Name), NEW q \in Seq(Name), NEW r \in Seq(Name), Starts(p, r)
  PROVE  IsMoved(p, q, r, MovedPath(p, q, r))
<1>. DEFINE m == MovedPath(p, q, r)
<1>1. PICK k, l, n : k = Len(p) /\ l = Len(q) /\ n = Len(r)
  OBVIOUS
<1>2. k \in Nat /\ l \in Nat /\ n \in Nat /\ k <= n /\ k + 1 \in Int /\ n \in Int
  BY <1>1 DEF Starts
<1>3. PICK b : b = SubSeq(r, k + 1, n)
  OBVIOUS
<1>4. \A i \in k + 1 .. n : r[i] \in Name
  <2>1. \A i \in k + 1 .. n : i \in 1 .. Len(r)
    BY <1>1, <1>2
  <2>. QED  BY <2>1, ElementOfSeq
<1>5. /\ b \in Seq(Name)
      /\ Len(b) = IF k + 1 <= n THEN n - (k + 1) + 1 ELSE 0
      /\ \A i \in 1 .. n - (k + 1) + 1 : b[i] = r[(k + 1) + i - 1]
  BY <1>2, <1>3, <1>4, SubSeqProperties
<1>6. Len(b) = n - k /\ n - k \in Nat
  BY <1>2, <1>5
<1>7. ASSUME NEW i \in 1 .. n - k
      PROVE  b[i] = r[k + i]
  <2>1. i \in 1 .. n - (k + 1) + 1 /\ (k + 1) + i - 1 = k + i
    BY <1>2
  <2>. QED  BY <1>5, <2>1
<1>8. m = q \o b
  BY <1>1, <1>3 DEF MovedPath
<1>9. /\ m \in Seq(Name)
      /\ Len(m) = Len(q) + Len(b)
      /\ \A i \in 1 .. Len(q) + Len(b) : m[i] = IF i <= Len(q) THEN q[i] ELSE b[i - Len(q)]
  BY <1>5, <1>8, ConcatProperties
<1>10. ASSUME NEW i \in 1 .. l
       PROVE  m[i] = q[i]
  <2>1. i \in 1 .. Len(q) + Len(b) /\ i <= Len(q)
    BY <1>1, <1>2, <1>6
  <2>. QED  BY <1>9, <2>1
<1>11. ASSUME NEW i \in 1 .. n - k
       PROVE  m[l + i] = r[k + i]
  <2>1. l + i \in 1 .. Len(q) + Len(b) /\ ~ (l + i <= Len(q)) /\ (l + i) - Len(q) = i
    BY <1>1, <1>2, <1>6
  <2>2. m[l + i] = b[i]
    BY <1>9, <2>1
  <2>. QED  BY <1>7, <2>2
<1>. HIDE DEF m
<1>12. IsMoved(p, q, r, m)
  BY <1>1, <1>6, <1>9, <1>10, <1>11 DEF IsMoved
<1>. QED  BY <1>12 DEF m

\* Two sequences that are the same up to n and after it are the same.
LEMMA SameParts ==
  ASSUME NEW a \in Seq(Name), NEW b \in Seq(Name), NEW n \in Nat, NEW m \in Nat,
         Len(a) = n + m, Len(b) = n + m,
         \A i \in 1 .. n : a[i] = b[i], \A i \in 1 .. m : a[n + i] = b[n + i]
  PROVE  a = b
<1>1. ASSUME NEW i \in 1 .. Len(a)
      PROVE  a[i] = b[i]
  <2>1. CASE i <= n
    <3>1. i \in 1 .. n
      BY <2>1
    <3>. QED  BY <3>1
  <2>2. CASE ~ (i <= n)
    <3>1. i - n \in 1 .. m /\ n + (i - n) = i
      BY <2>2
    <3>2. a[n + (i - n)] = b[n + (i - n)]
      BY <3>1
    <3>. QED  BY <3>1, <3>2
  <2>. QED  BY <2>1, <2>2
<1>. QED  BY <1>1, SeqEqual

\* The entry itself moves to the new path, and what is below keeps its place below.
LEMMA MovedPaths ==
  ASSUME NEW p \in Seq(Name), NEW q \in Seq(Name)
  PROVE  /\ MovedPath(p, q, p) = q
         /\ \A r \in Seq(Name) : Starts(p, r) => /\ MovedPath(p, q, r) \in Seq(Name)
                                                 /\ MovedPath(q, p, MovedPath(p, q, r)) = r
<1>1. Starts(p, p) /\ Len(p) \in Nat /\ Len(q) \in Nat
  BY DEF Starts
<1>2. MovedPath(p, q, p) = q
  <2>1. PICK m : m = MovedPath(p, q, p)
    OBVIOUS
  <2>5. IsMoved(p, q, p, m)
    BY <1>1, <2>1, MovedPathIs
  <2>2. m \in Seq(Name) /\ Len(m) = Len(q) + (Len(p) - Len(p)) /\ \A i \in 1 .. Len(q) : m[i] = q[i]
    BY <2>5 DEF IsMoved
  <2>3. Len(m) = Len(q)
    BY <1>1, <2>2
  <2>4. m = q
    BY <2>2, <2>3, SeqEqual
  <2>. QED  BY <2>1, <2>4
<1>3. ASSUME NEW r \in Seq(Name), Starts(p, r)
      PROVE  MovedPath(p, q, r) \in Seq(Name) /\ MovedPath(q, p, MovedPath(p, q, r)) = r
  <2>1. PICK m, b, k, l, j : /\ m = MovedPath(p, q, r) /\ b = MovedPath(q, p, m)
                             /\ k = Len(p) /\ l = Len(q) /\ j = Len(r) - Len(p)
    OBVIOUS
  <2>2. k \in Nat /\ l \in Nat /\ j \in Nat /\ Len(r) = k + j
    BY <1>1, <1>3, <2>1 DEF Starts
  <2>11. IsMoved(p, q, r, m)
    <3>1. IsMoved(p, q, r, MovedPath(p, q, r))
      BY <1>3, MovedPathIs
    <3>. QED  BY <2>1, <3>1
  <2>3. /\ m \in Seq(Name) /\ Len(m) = l + j
        /\ \A i \in 1 .. l : m[i] = q[i]
        /\ \A i \in 1 .. j : m[l + i] = r[k + i]
    BY <2>1, <2>11 DEF IsMoved
  <2>4. Starts(q, m)
    BY <2>1, <2>2, <2>3 DEF Starts
  <2>12. IsMoved(q, p, m, b)
    <3>1. m \in Seq(Name)
      BY <2>3
    <3>2. IsMoved(q, p, m, MovedPath(q, p, m))
      BY <2>4, <3>1, MovedPathIs
    <3>. QED  BY <2>1, <3>2
  <2>5. /\ b \in Seq(Name) /\ Len(b) = Len(p) + (Len(m) - Len(q))
        /\ \A i \in 1 .. Len(p) : b[i] = p[i]
        /\ \A i \in 1 .. Len(m) - Len(q) : b[Len(p) + i] = m[Len(q) + i]
    BY <2>12 DEF IsMoved
  <2>6. Len(m) - Len(q) = j
    BY <2>1, <2>2, <2>3
  <2>7. Len(b) = k + j /\ (\A i \in 1 .. k : b[i] = p[i]) /\ \A i \in 1 .. j : b[k + i] = m[l + i]
    BY <2>1, <2>5, <2>6
  <2>8. \A i \in 1 .. k : b[i] = r[i]
    BY <1>3, <2>1, <2>7 DEF Starts
  <2>9. \A i \in 1 .. j : b[k + i] = r[k + i]
    BY <2>3, <2>7
  <2>10. b = r
    BY <2>2, <2>5, <2>7, <2>8, <2>9, SameParts
  <2>. QED  BY <2>1, <2>3, <2>10
<1>. QED  BY <1>2, <1>3

\* A path that is longer stays longer.
LEMMA MovedLonger ==
  ASSUME NEW p \in Seq(Name), NEW q \in Seq(Name), NEW r \in Seq(Name), NEW u \in Seq(Name),
         NEW n, Longer(u, r, n), Starts(p, r)
  PROVE  Longer(MovedPath(p, q, u), MovedPath(p, q, r), n)
<1>1. PICK a, b, k, l, j : /\ a = MovedPath(p, q, u) /\ b = MovedPath(p, q, r)
                           /\ k = Len(p) /\ l = Len(q) /\ j = Len(r) - Len(p)
  OBVIOUS
<1>2. k \in Nat /\ l \in Nat /\ j \in Nat /\ Len(r) = k + j /\ Len(u) = k + j + 1
  BY <1>1 DEF Starts, Longer
<1>3. Starts(p, u)
  BY StartsLonger
<1>12. IsMoved(p, q, r, b)
  <2>1. IsMoved(p, q, r, MovedPath(p, q, r))
    BY MovedPathIs
  <2>. QED  BY <1>1, <2>1
<1>13. IsMoved(p, q, u, a)
  <2>1. IsMoved(p, q, u, MovedPath(p, q, u))
    BY <1>3, MovedPathIs
  <2>. QED  BY <1>1, <2>1
<1>4. /\ b \in Seq(Name) /\ Len(b) = l + j
      /\ \A i \in 1 .. l : b[i] = q[i]
      /\ \A i \in 1 .. j : b[l + i] = r[k + i]
  BY <1>1, <1>12 DEF IsMoved
<1>5. /\ a \in Seq(Name) /\ Len(a) = Len(q) + (Len(u) - Len(p))
      /\ \A i \in 1 .. Len(q) : a[i] = q[i]
      /\ \A i \in 1 .. Len(u) - Len(p) : a[Len(q) + i] = u[Len(p) + i]
  BY <1>13 DEF IsMoved
<1>6. Len(u) - Len(p) = j + 1
  BY <1>1, <1>2
<1>7. Len(a) = l + (j + 1) /\ (\A i \in 1 .. l : a[i] = q[i])
      /\ \A i \in 1 .. j + 1 : a[l + i] = u[k + i]
  BY <1>1, <1>5, <1>6
<1>8. ASSUME NEW i \in 1 .. l + j
      PROVE  a[i] = b[i]
  <2>1. CASE i <= l
    <3>1. i \in 1 .. l
      BY <1>2, <2>1
    <3>. QED  BY <1>4, <1>7, <3>1
  <2>2. CASE ~ (i <= l)
    <3>1. PICK h : h = i - l
      OBVIOUS
    <3>2. h \in 1 .. j /\ h \in 1 .. j + 1 /\ l + h = i /\ k + h \in 1 .. Len(r)
      BY <1>2, <2>2, <3>1
    <3>3. a[l + h] = u[k + h] /\ b[l + h] = r[k + h] /\ u[k + h] = r[k + h]
      BY <1>4, <1>7, <3>2 DEF Longer
    <3>. QED  BY <3>2, <3>3
  <2>. QED  BY <2>1, <2>2
<1>9. a[l + (j + 1)] = n
  <2>1. j + 1 \in 1 .. j + 1 /\ k + (j + 1) = Len(u)
    BY <1>2
  <2>2. a[l + (j + 1)] = u[Len(u)]
    BY <1>7, <2>1
  <2>. QED  BY <2>2 DEF Longer
<1>10. Len(a) = Len(b) + 1
  BY <1>2, <1>4, <1>7
<1>11. Longer(a, b, n)
  BY <1>4, <1>7, <1>8, <1>9, <1>10 DEF Longer
<1>. QED  BY <1>1, <1>11

\* What the rename of old to new, at path q in directory d, does to the tree.
IsRename(P, F, old, new, B, Q, q, d) ==
  /\ Below(Live, P, old, B) /\ old \notin B /\ new \notin B /\ new # old /\ new \in Entry
  /\ Adopted(Live, P, old, new, Q) /\ Q[new] = d
  /\ Live' = (Live \cup {new}) \ {old}
  /\ \A x \in Live \ {old, new} : info'[x] = info[x] /\ blocks'[x] = blocks[x]
  /\ info'[new].type = info[old].type /\ blocks'[new] = blocks[old]
  /\ d \in Live \cup {NULL} /\ d \notin B /\ d # old /\ d # new
  /\ d # NULL => info[d].type = "dir"
  /\ q \in Path /\ Longer(q, F[d], info'[new].name) /\ ~Starts(F[old], q)
  /\ new \in Live => /\ F[new] = q
                     /\ \A x \in Live : P[x] # new
                     /\ info[new].type = info[old].type
  /\ new \notin Live => \A x \in Live : F[x] # q

\* The paths after it, when F gives those before.
RenamedPaths(F, old, new, B, q) ==
  [x \in Pointer |-> IF x \in B THEN MovedPath(F[old], q, F[x])
                     ELSE IF x = new THEN q ELSE F[x]]

\* They are the paths of the entries after it.
LEMMA RenamedPathsAre ==
  ASSUME NEW P, NEW s, NEW D, NEW N, Grown(P, s, D, N), NEW F, Paths(P, F),
         NEW old \in Live, NEW new, NEW B, NEW Q, NEW q, NEW d,
         IsRename(P, F, old, new, B, Q, q, d),
         NEW G, G = RenamedPaths(F, old, new, B, q)
  PROVE  /\ Paths(Q, G)'
         /\ \A x \in B : G[x] = MovedPath(F[old], q, F[x])
         /\ G[new] = q
         /\ \A x \in Live \ (B \cup {old, new}) : G[x] = F[x]
<1>1. PICK p, J : p = F[old] /\ J = info'
  OBVIOUS
<1>2. /\ q \in Seq(Name) /\ F \in [Pointer -> Seq(Name)] /\ F[NULL] = <<>>
      /\ new # NULL /\ Live \subseteq Pointer /\ NULL \in Pointer /\ new \in Pointer
      /\ NULL \notin Live /\ p \in Seq(Name)
  BY <1>1, PathSeq, LiveFacts, RamFsAssumption DEF Paths, Pointer, IsRename
<1>3. /\ Below(Live, P, old, B) /\ old \notin B /\ new \notin B /\ new # old
      /\ Adopted(Live, P, old, new, Q) /\ Q[new] = d
      /\ Live' = (Live \cup {new}) \ {old}
      /\ \A x \in Live \ {old, new} : J[x] = info[x]
      /\ d \in Live \cup {NULL} /\ d \notin B /\ d # old /\ d # new
      /\ Longer(q, F[d], J[new].name)
      /\ new \in Live => \A x \in Live : P[x] # new
  BY <1>1 DEF IsRename
<1>4. B \subseteq Live /\ \A x \in Live : x \in B <=> P[x] = old \/ P[x] \in B
  BY <1>3 DEF Below
<1>5. \A x \in B \cup {old} : F[x] \in Seq(Name) /\ Starts(p, F[x])
  <2>1. \A x \in Live : x \in B \cup {old} <=> Starts(F[old], F[x])
    BY <1>3, BelowPaths
  <2>. QED  BY <1>1, <1>2, <1>4, <2>1
<1>6. MovedPath(p, q, p) = q /\ \A x \in B : MovedPath(p, q, F[x]) \in Seq(Name)
  BY <1>2, <1>5, MovedPaths
<1>7. G = [x \in Pointer |-> IF x \in B THEN MovedPath(p, q, F[x]) ELSE IF x = new THEN q ELSE F[x]]
  BY <1>1 DEF RenamedPaths
<1>8. G \in [Pointer -> Seq(Name)]
  BY <1>2, <1>6, <1>7
<1>9. /\ G[NULL] = <<>> /\ G[new] = q /\ G[d] = F[d]
      /\ \A x \in B : G[x] = MovedPath(p, q, F[x])
      /\ \A x \in Live \ B : x # new => G[x] = F[x]
  BY <1>2, <1>3, <1>4, <1>7
<1>10. Longer(G[new], G[Q[new]], J[new].name)
  BY <1>3, <1>9
<1>11. ASSUME NEW x \in B
       PROVE  Longer(G[x], G[Q[x]], J[x].name)
  <2>1. /\ x \in Live /\ x \notin {old, new} /\ J[x] = info[x]
        /\ P[x] \in B \cup {old}
    BY <1>3, <1>4
  <2>2. Longer(F[x], F[P[x]], info[x].name)
    BY <2>1 DEF Paths
  <2>3. F[x] \in Seq(Name) /\ F[P[x]] \in Seq(Name) /\ Starts(p, F[P[x]])
    BY <1>5, <2>1
  <2>4. Longer(MovedPath(p, q, F[x]), MovedPath(p, q, F[P[x]]), info[x].name)
    BY <1>2, <2>2, <2>3, MovedLonger
  <2>5. G[Q[x]] = MovedPath(p, q, F[P[x]])
    <3>1. Q[x] = IF P[x] = old THEN new ELSE P[x]
      BY <1>3, <2>1 DEF Adopted
    <3>2. CASE P[x] = old
      BY <1>1, <1>6, <1>9, <3>1, <3>2
    <3>3. CASE P[x] # old
      BY <1>9, <2>1, <3>1, <3>3
    <3>. QED  BY <3>2, <3>3
  <2>. QED  BY <1>9, <2>1, <2>4, <2>5
<1>12. ASSUME NEW x \in Live \ (B \cup {old, new})
       PROVE  Longer(G[x], G[Q[x]], J[x].name)
  <2>1. J[x] = info[x] /\ P[x] # old /\ P[x] \notin B /\ P[x] \in Live \cup {NULL}
    BY <1>3, <1>4, LiveFacts
  <2>2. P[x] # new
    BY <1>2, <1>3, <2>1
  <2>3. Q[x] = P[x]
    BY <1>3, <2>1 DEF Adopted
  <2>4. Longer(F[x], F[P[x]], info[x].name)
    BY DEF Paths
  <2>5. G[P[x]] = F[P[x]] /\ G[x] = F[x]
    BY <1>2, <1>9, <2>1, <2>2
  <2>. QED  BY <2>1, <2>3, <2>4, <2>5
<1>13. Paths(Q, G)'
  <2>1. \A x \in (Live \cup {new}) \ {old} : Longer(G[x], G[Q[x]], J[x].name)
    BY <1>10, <1>11, <1>12
  <2>. QED  BY <1>1, <1>3, <1>8, <1>9, <2>1 DEF Paths
<1>. QED  BY <1>1, <1>9, <1>13

\* What is at the old path, and below it, is then at the new one.
LEMMA RenameStep ==
  ASSUME NEW P, NEW s, NEW D, NEW N, Grown(P, s, D, N), NEW F, Paths(P, F),
         NEW Q, NEW t, NEW E, NEW n, Grown(Q, t, E, n)', Idle, Idle',
         NEW old \in Live, NEW new, NEW B, NEW q, NEW d,
         IsRename(P, F, old, new, B, Q, q, d)
  PROVE  NS!Rename(Tree, Tree', F[old], q)
<1>1. PICK T, U, J, c, p, G : /\ T = Tree /\ U = Tree' /\ J = info' /\ c = blocks'
                              /\ p = F[old] /\ G = RenamedPaths(F, old, new, B, q)
  OBVIOUS
<1>2. /\ q \in Seq(Name) /\ F \in [Pointer -> Seq(Name)] /\ F[NULL] = <<>>
      /\ Live \subseteq Pointer /\ NULL \in Pointer /\ p \in Seq(Name)
  BY <1>1, PathSeq, LiveFacts, RamFsAssumption DEF Paths, Pointer, IsRename
<1>3. /\ Below(Live, P, old, B) /\ old \notin B /\ new \notin B /\ new # old
      /\ Live' = (Live \cup {new}) \ {old}
      /\ \A x \in Live \ {old, new} : J[x] = info[x] /\ c[x] = blocks[x]
      /\ J[new].type = info[old].type /\ c[new] = blocks[old]
      /\ ~Starts(p, q)
      /\ new \in Live => /\ F[new] = q
                         /\ \A x \in Live : P[x] # new
                         /\ info[new].type = info[old].type
      /\ new \notin Live => \A x \in Live : F[x] # q
  BY <1>1 DEF IsRename
<1>4. B \subseteq Live
  BY <1>3 DEF Below
<1>5. \A x \in Live : x \in B \cup {old} <=> Starts(p, F[x])
  BY <1>1, <1>3, BelowPaths
<1>6. /\ \A x \in B : G[x] = MovedPath(p, q, F[x])
      /\ G[new] = q
      /\ \A x \in Live \ (B \cup {old, new}) : G[x] = F[x]
  BY <1>1, RenamedPathsAre
<1>7. TreeAs(T, F, Live, info, blocks)
  BY <1>1, TreeNow
<1>8. TreeAs(U, G, (Live \cup {new}) \ {old}, J, c)
  <2>1. Paths(Q, G)'
    BY <1>1, RenamedPathsAre
  <2>. QED  BY <1>1, <1>3, <2>1, TreeThen
<1>. DEFINE was == {r \in DOMAIN T : NS!IsPrefix(p, r)}
            is == {MovedPath(p, q, r) : r \in was}
<1>9. was = {F[x] : x \in B \cup {old}}
  <2>1. \A x \in Live : NS!IsPrefix(p, F[x]) <=> x \in B \cup {old}
    BY <1>2, <1>5, StartsIs
  <2>2. DOMAIN T = {F[x] : x \in Live}
    BY <1>7 DEF TreeAs
  <2>. QED  BY <1>4, <2>1, <2>2
<1>10. MovedPath(p, q, p) = q /\ MovedPath(q, p, q) = p
  BY <1>2, MovedPaths
<1>11. \A x \in B : MovedPath(q, p, G[x]) = F[x]
  BY <1>2, <1>4, <1>5, <1>6, MovedPaths
<1>12. is = {G[x] : x \in B} \cup {q}
  BY <1>1, <1>6, <1>9, <1>10
<1>. HIDE DEF was, is
<1>13. ASSUME NEW x \in Live \ (B \cup {old, new})
       PROVE  U[F[x]] = T[F[x]]
  <2>1. T[F[x]] = [type |-> info[x].type, data |-> blocks[x]]
    BY <1>7 DEF TreeAs
  <2>2. U[G[x]] = [type |-> J[x].type, data |-> c[x]]
    BY <1>8 DEF TreeAs
  <2>. QED  BY <1>3, <1>6, <2>1, <2>2
<1>14. ASSUME NEW x \in B
       PROVE  U[G[x]] = T[MovedPath(q, p, G[x])]
  <2>1. T[F[x]] = [type |-> info[x].type, data |-> blocks[x]]
    BY <1>4, <1>7 DEF TreeAs
  <2>2. U[G[x]] = [type |-> J[x].type, data |-> c[x]]
    BY <1>3, <1>4, <1>8 DEF TreeAs
  <2>3. J[x] = info[x] /\ c[x] = blocks[x]
    BY <1>3, <1>4
  <2>. QED  BY <1>11, <2>1, <2>2, <2>3
<1>15. U[q] = T[MovedPath(q, p, q)]
  <2>1. T[F[old]] = [type |-> info[old].type, data |-> blocks[old]]
    BY <1>7 DEF TreeAs
  <2>2. U[G[new]] = [type |-> J[new].type, data |-> c[new]]
    BY <1>3, <1>8 DEF TreeAs
  <2>. QED  BY <1>1, <1>3, <1>6, <1>10, <2>1, <2>2
<1>16. DOMAIN U = (DOMAIN T \ was) \cup is
  <2>1. DOMAIN T \ was = {F[x] : x \in Live \ (B \cup {old})}
    <3>1. DOMAIN T = {F[x] : x \in Live}
      BY <1>7 DEF TreeAs
    <3>2. \A x, y \in Live : F[x] = F[y] => x = y
      BY PathsDiffer
    <3>. QED  BY <1>4, <1>9, <3>1, <3>2
  <2>2. DOMAIN U = {G[x] : x \in (Live \cup {new}) \ {old}}
    BY <1>8 DEF TreeAs
  <2>3. DOMAIN U = {F[x] : x \in Live \ (B \cup {old, new})} \cup is
    <3>1. (Live \cup {new}) \ {old} = (Live \ (B \cup {old, new})) \cup B \cup {new}
      BY <1>3, <1>4
    <3>2. \A r : r \in DOMAIN U <=> \/ \E x \in Live \ (B \cup {old, new}) : r = F[x]
                                    \/ \E x \in B : r = G[x]
                                    \/ r = q
      BY <1>6, <2>2, <3>1
    <3>. QED  BY <1>12, <3>2
  <2>4. new \in Live => F[new] \in is
    BY <1>3, <1>12
  <2>. QED  BY <2>1, <2>3, <2>4
<1>17. ASSUME NEW r \in DOMAIN U
       PROVE  U[r] = IF r \in is THEN T[MovedPath(q, p, r)] ELSE T[r]
  <2>1. CASE r \in is
    BY <1>12, <1>14, <1>15, <2>1
  <2>2. CASE r \notin is
    <3>1. PICK x \in (Live \cup {new}) \ {old} : r = G[x]
      BY <1>8 DEF TreeAs
    <3>2. x \in Live \ (B \cup {old, new})
      BY <1>6, <1>12, <2>2, <3>1
    <3>. QED  BY <1>6, <1>13, <2>2, <3>1, <3>2
  <2>. QED  BY <2>1, <2>2
<1>18. U = [r \in (DOMAIN T \ was) \cup is |-> IF r \in is THEN T[MovedPath(q, p, r)] ELSE T[r]]
  <2>1. U = [r \in DOMAIN U |-> U[r]]
    BY <1>8 DEF TreeAs
  <2>. QED  BY <1>16, <1>17, <2>1
<1>19. NS!IsDir(T, SubSeq(q, 1, Len(q) - 1))
  <2>0. /\ d \in Live \cup {NULL} /\ Longer(q, F[d], J[new].name)
        /\ d # NULL => info[d].type = "dir"
    BY <1>1 DEF IsRename
  <2>1. SubSeq(q, 1, Len(q) - 1) = F[d]
    <3>1. F[d] \in Seq(Name)
      BY <1>2, <2>0
    <3>. QED  BY <1>2, <2>0, <3>1, FrontOf
  <2>2. CASE d = NULL
    BY <1>2, <2>1, <2>2 DEF NS!IsDir
  <2>3. CASE d # NULL
    <3>1. d \in Live /\ info[d].type = "dir"
      BY <2>0, <2>3
    <3>2. F[d] \in DOMAIN T /\ T[F[d]] = [type |-> info[d].type, data |-> blocks[d]]
      BY <1>7, <3>1 DEF TreeAs
    <3>3. T[F[d]].type = "dir"
      BY <3>1, <3>2
    <3>. QED  BY <2>1, <3>2, <3>3 DEF NS!IsDir
  <2>. QED  BY <2>2, <2>3
<1>20. q \in DOMAIN T => NS!IsEmpty(T, q) /\ T[q].type = T[p].type
  <2>1. SUFFICES ASSUME q \in DOMAIN T
                 PROVE  NS!IsEmpty(T, q) /\ T[q].type = T[p].type
    OBVIOUS
  <2>2. DOMAIN T = {F[x] : x \in Live}
    BY <1>7 DEF TreeAs
  <2>3. new \in Live
    BY <1>3, <2>1, <2>2
  <2>4. F[new] = q /\ (\A x \in Live : P[x] # new) /\ info[new].type = info[old].type
    BY <1>3, <2>3
  <2>5. NS!IsEmpty(T, F[new])
    BY <2>2, <2>3, <2>4, EmptyAt
  <2>6. /\ T[F[new]] = [type |-> info[new].type, data |-> blocks[new]]
        /\ T[F[old]] = [type |-> info[old].type, data |-> blocks[old]]
    BY <1>7, <2>3 DEF TreeAs
  <2>. QED  BY <1>1, <2>4, <2>5, <2>6
<1>21. ~NS!IsPrefix(p, q)
  BY <1>2, <1>3, StartsIs
<1>22. NS!Rename(T, U, p, q)
  BY <1>18, <1>19, <1>20, <1>21 DEF NS!Rename, NS!Front, was, is, MovedPath
<1>. QED  BY <1>1, <1>22

-----------------------------------------------------------------------------
(* The calls, seen through the paths.                                      *)

\* The path of an entry is in the tree.
LEMMA InTree ==
  ASSUME NEW P, NEW s, NEW D, NEW N, Grown(P, s, D, N), NEW F, Paths(P, F), Idle, NEW e \in Live
  PROVE  F[e] \in DOMAIN Tree
<1>1. TreeAs(Tree, F, Live, info, blocks)
  BY TreeNow
<1>2. DOMAIN Tree = {F[x] : x \in Live}
  BY <1>1 DEF TreeAs
<1>. QED  BY <1>2, Zenon

\* add_entry makes what was not there: ramfs_mkdir and ramfs_file_open.
LEMMA AddEntryNs ==
  ASSUME Inv, Idle, NEW e \in Entry, NEW p \in Path, NEW type \in {"dir", "file"},
         AddEntry(e, p, type), UNCHANGED <<blocks, stack>>
  PROVE  MadeAt(p) \in Path /\ NS!Make(Tree, Tree', MadeAt(p))
<1>1. TreeInv /\ SpaceInv /\ info \in [Entry -> Info \cup {NULL}]
  BY IdleTree
<1>2. PICK P, s, D, N : Grown(P, s, D, N)
  BY <1>1 DEF TreeInv
<1>3. PICK F : Paths(P, F)
  BY <1>2, PathsExist
<1>4. PICK q, d : q = MadeAt(p) /\ d = Traverse(q).parent
  OBVIOUS
<1>5. PICK Q, t, E, n : Grown(Q, t, E, n)' /\ Q[e] = d /\ \A x \in Live : Q[x] = P[x]
  BY <1>1, <1>2, <1>4, AddEntryGrown
<1>6. /\ e \notin Alloc /\ info'[e].name = Last(q) /\ Live' = Live \cup {e} /\ q \in Path
      /\ \A x \in Entry : x # e => info'[x] = info[x]
  BY <1>1, <1>4, AddEntryEffect
<1>7. Traverse(q).ret = "noent"
  BY <1>4 DEF AddEntry
<1>8. /\ d \in Live \cup {NULL} /\ (d # NULL => info[d].type = "dir")
      /\ Longer(q, F[d], Last(q)) /\ \A x \in Live : F[x] # q
  BY <1>2, <1>3, <1>4, <1>6, <1>7, TraverseMissing
<1>9. e \notin Live /\ blocks'[e] = {} /\ Idle'
  BY <1>1, <1>6 DEF Live, Files, SpaceInv, Idle
<1>10. \A x \in Live : info'[x] = info[x] /\ blocks'[x] = blocks[x]
  <2>1. \A x \in Live : x \in Entry /\ x # e
    BY <1>2, <1>9, LiveFacts
  <2>. QED  BY <1>6, <2>1
<1>11. Longer(q, F[d], info'[e].name)
  BY <1>6, <1>8
<1>12. NS!Make(Tree, Tree', q)
  BY <1>2, <1>3, <1>5, <1>6, <1>8, <1>9, <1>10, <1>11, MakeStep
<1>. QED  BY <1>4, <1>6, <1>12

\* remove_entry takes away what was there: ramfs_rmdir and ramfs_unlink.
LEMMA RemoveEntryNs ==
  ASSUME Inv, Idle, NEW p \in Path, Traverse(p).ret = "ok",
         links.child[Traverse(p).entry] = NULL, NEW whole,
         RemoveEntry(Traverse(p), whole), UNCHANGED stack
  PROVE  p \in DOMAIN Tree /\ NS!Delete(Tree, Tree', p)
<1>1. TreeInv /\ SpaceInv /\ info \in [Entry -> Info \cup {NULL}] /\ links \in Links
  BY IdleTree
<1>2. PICK P, s, D, N : Grown(P, s, D, N)
  BY <1>1 DEF TreeInv
<1>3. PICK F : Paths(P, F)
  BY <1>2, PathsExist
<1>4. PICK e : e = Traverse(p).entry
  OBVIOUS
<1>5. Grown(P, s, D, N)' /\ Leaves(e, IsOpen(e))
  BY <1>1, <1>2, <1>4, RemoveEntryGrown
<1>6. e \in Live /\ F[e] = p
  BY <1>2, <1>3, <1>4, TraversePath
<1>7. \A x \in Live : P[x] # e
  <2>1. Shape(links, Live, info, P, s, D, N) /\ links.child[e] = NULL
    BY <1>2, <1>4 DEF Grown
  <2>2. {x \in Live : P[x] = e} = {}
    BY <1>1, <1>6, <2>1, NoChildren
  <2>. QED  BY <2>2
<1>8. Live' = Live \ {e} /\ \A x \in Live' : info'[x] = info[x]
  BY <1>2, <1>5, LiveFacts DEF Leaves
<1>9. \A x \in Entry : x # e => blocks'[x] = blocks[x]
  <2>1. blocks' = blocks \/ blocks' = [blocks EXCEPT ![e] = {}]
    BY <1>4 DEF RemoveEntry, Drop
  <2>. QED  BY <1>1, <2>1 DEF SpaceInv
<1>10. \A x \in Live' : info'[x] = info[x] /\ blocks'[x] = blocks[x]
  BY <1>2, <1>8, <1>9, LiveFacts
<1>11. Idle'
  BY DEF Idle
<1>12. NS!Delete(Tree, Tree', F[e])
  BY <1>2, <1>3, <1>5, <1>6, <1>7, <1>8, <1>10, <1>11, DeleteStep
<1>13. F[e] \in DOMAIN Tree
  BY <1>2, <1>3, <1>6, InTree
<1>. QED  BY <1>6, <1>12, <1>13

\* Handles are not seen.
LEMMA HandleNs ==
  ASSUME Inv, UNCHANGED <<info, links, blocks, stack>>
  PROVE  Tree' = Tree
<1>1. CASE Idle
  <2>1. PICK P, s, D, N : Grown(P, s, D, N)
    BY <1>1, IdleTree
  <2>2. Live' = Live /\ Idle'
    BY <1>1 DEF Live, Alloc, Idle
  <2>3. Grown(P, s, D, N)'
    BY <2>1, <2>2 DEF Grown
  <2>. QED  BY <1>1, <2>1, <2>2, <2>3, SameStep
<1>2. CASE ~Idle
  <2>1. ~Idle'
    BY <1>2 DEF Idle
  <2>. QED  BY <1>2, <2>1, TreeFunction
<1>. QED  BY <1>1, <1>2

\* Nor is what the last handle frees: ramfs_file_close and ramfs_dir_close.
LEMMA RemoveReferenceNs ==
  ASSUME Inv, Idle, NEW e \in Alloc, uses[e] > 0, RemoveReference(e), UNCHANGED <<lost, stack>>
  PROVE  Tree' = Tree
<1>1. TreeInv /\ SpaceInv /\ HandleInv
  BY IdleTree
<1>2. PICK P, s, D, N : Grown(P, s, D, N)
  BY <1>1 DEF TreeInv
<1>3. Released(e) /\ Kept /\ \A x \in Live : info'[x] = info[x] /\ blocks'[x] = blocks[x]
  BY <1>1, RemoveReferenceSpace
<1>4. Grown(P, s, D, N)' /\ Live' = Live
  BY <1>2, <1>3 DEF Kept, Released
<1>5. Idle'
  BY DEF Idle
<1>. QED  BY <1>2, <1>3, <1>4, <1>5, SameStep

\* The blocks of a file change, which is seen if it is in the tree.
LEMMA SetBlocksNs ==
  ASSUME Inv, Idle, NEW e \in Files, NEW B, SetBlocks(e, B), UNCHANGED <<info, links, stack>>
  PROVE  /\ e \notin Live => Tree' = Tree
         /\ e \in Live => \E p \in Path : Traverse(p).ret = "ok" /\ Traverse(p).entry = e
         /\ \A p \in Path : Traverse(p).ret = "ok" /\ Traverse(p).entry = e
                           => p \in DOMAIN Tree /\ NS!Write(Tree, Tree', p)
<1>1. TreeInv /\ SpaceInv
  BY IdleTree
<1>2. PICK P, s, D, N : Grown(P, s, D, N)
  BY <1>1 DEF TreeInv
<1>3. PICK F : Paths(P, F)
  BY <1>2, PathsExist
<1>4. \A x \in Entry : x # e => blocks'[x] = blocks[x]
  BY <1>1 DEF SetBlocks, SpaceInv
<1>5. Live' = Live /\ Idle'
  BY DEF Live, Alloc, Idle
<1>6. \A x \in Live : x # e => blocks'[x] = blocks[x]
  BY <1>2, <1>4, LiveFacts
<1>7. ASSUME NEW p \in Path, Traverse(p).ret = "ok", Traverse(p).entry = e
      PROVE  p \in DOMAIN Tree /\ NS!Write(Tree, Tree', p)
  <2>1. info[e].type = "file"
    BY DEF Files, IsFile
  <2>2. e \in Live /\ F[e] = p
    BY <1>2, <1>3, <1>7, TraversePath
  <2>3. NS!Write(Tree, Tree', F[e])
    BY <1>2, <1>3, <1>5, <1>6, <2>1, <2>2, WriteStep
  <2>4. F[e] \in DOMAIN Tree
    BY <1>2, <1>3, <2>2, InTree
  <2>. QED  BY <2>2, <2>3, <2>4
<1>9. ASSUME e \in Live
      PROVE  \E p \in Path : Traverse(p).ret = "ok" /\ Traverse(p).entry = e
  <2>1. PICK p, w : p \in Path /\ Route(P, p, Len(p), w) /\ w[Len(p)] = e
    BY <1>2, <1>9, RouteExists
  <2>2. Traverse(p).ret = "ok" /\ Traverse(p).entry = e
    BY <1>2, <2>1, TraverseFinds
  <2>. QED  BY <2>1, <2>2
<1>8. ASSUME e \notin Live
      PROVE  Tree' = Tree
  <2>1. Grown(P, s, D, N)'
    BY <1>2, <1>5 DEF Grown
  <2>2. \A x \in Live : info'[x] = info[x] /\ blocks'[x] = blocks[x]
    BY <1>6, <1>8
  <2>. QED  BY <1>2, <1>5, <2>1, <2>2, SameStep
<1>. QED  BY <1>7, <1>8, <1>9

\* The new path of ramfs_rename is neither the old one nor below it.
LEMMA NotUnder ==
  ASSUME NEW p \in Path, NEW q \in Path, NEW old, p # q, Slips = {}, MayRename(p, q, old)
  PROVE  ~Starts(p, q)
<1>1. ~IsPrefix(p, q)
  BY DEF MayRename
<1>2. ASSUME Starts(p, q)
      PROVE  FALSE
  <2>1. Len(p) <= Len(q) /\ \A i \in 1 .. Len(p) : p[i] = q[i]
    BY <1>2 DEF Starts
  <2>. QED  BY <1>1, <2>1, PrefixIs
<1>. QED  BY <1>2

\* So the directory it is in is not moved.
LEMMA NewParent ==
  ASSUME NEW P, NEW s, NEW D, NEW N, Grown(P, s, D, N), NEW F, Paths(P, F),
         NEW old \in Live, NEW B, Below(Live, P, old, B), NEW q \in Path,
         NEW d \in Live \cup {NULL}, NEW n, Longer(q, F[d], n), ~Starts(F[old], q)
  PROVE  d \notin B /\ d # old
<1>1. F[old] \in Seq(Name) /\ F[d] \in Seq(Name) /\ q \in Seq(Name)
  <2>1. old \in Pointer /\ d \in Pointer
    BY LiveFacts DEF Pointer
  <2>. QED  BY <2>1, PathSeq DEF Paths
<1>2. ASSUME d \in B \cup {old}
      PROVE  FALSE
  <2>1. d \in Live
    BY <1>2 DEF Below
  <2>2. Starts(F[old], F[d])
    BY <1>2, <2>1, BelowPaths
  <2>. QED  BY <1>1, <2>2, StartsLonger
<1>. QED  BY <1>2

\* ramfs_rename to a path in use: to the same path, it removes what is there.
LEMMA RenameOntoNs ==
  ASSUME Inv, Slips = {}, NEW p \in Path, NEW q \in Path, RenameOnto(p, q)
  PROVE  /\ p \in DOMAIN Tree
         /\ IF p = q THEN NS!Delete(Tree, Tree', p) ELSE NS!Rename(Tree, Tree', p, q)
<1>1. /\ TreeInv /\ SpaceInv /\ info \in [Entry -> Info \cup {NULL}]
      /\ links \in Links /\ Idle
  BY IdleTree DEF RenameOnto
<1>2. PICK old, new : old = Traverse(p).entry /\ new = Traverse(q).entry
  OBVIOUS
<1>3. /\ Traverse(p).ret = "ok" /\ Traverse(q).ret = "ok"
      /\ IsFile(new) \/ (~IsFile(old) /\ links.child[new] = NULL)
      /\ ~ (IsFile(new) /\ ~IsFile(old))
      /\ MayRename(p, q, old) /\ (IsOpen(old) => ~IsFile(old))
      /\ Replace(links, Traverse(p), new, 0)
      /\ UNCHANGED stack
  BY <1>2 DEF RenameOnto, CanReplace, MayRename
<1>4. PICK P, s, D, N : Grown(P, s, D, N)
  BY <1>1 DEF TreeInv
<1>5. PICK F : Paths(P, F)
  BY <1>4, PathsExist
<1>6. old \in Live /\ new \in Live /\ F[old] = p /\ F[new] = q
  BY <1>2, <1>3, <1>4, <1>5, TraversePath
<1>7. /\ old \in Entry /\ new \in Entry /\ old \in Alloc /\ Live \subseteq Entry
      /\ info[old].type \in {"dir", "file"} /\ info[new].type \in {"dir", "file"}
  BY <1>1, <1>6, LiveInfo DEF Live, Alloc
<1>8. /\ Leaves(old, IsOpen(old))
      /\ old = new => Grown(P, s, D, N)'
      /\ old # new => \E Q, t, E, n : Grown(Q, t, E, n)' /\ Renamed(P, Len(p), old, new, Q)
  BY <1>1, <1>2, <1>4, RenameOntoGrown
<1>9. /\ Live' = Live \ {old} /\ Idle'
      /\ \A x \in Entry : x # old => info'[x] = info[x]
  BY <1>1, <1>3, <1>8 DEF Leaves, Idle
<1>10. blocks' = SwapOf(blocks, old, new)
  BY <1>1, <1>2, <1>3, <1>7, ReplaceEffect
<1>11. \A x \in Live : P[x] # new
  <2>1. Shape(links, Live, info, P, s, D, N) /\ links.child[new] = NULL
    BY <1>1, <1>3, <1>4, <1>6, LinksLive DEF Grown
  <2>2. {x \in Live : P[x] = new} = {}
    BY <1>1, <1>6, <2>1, NoChildren
  <2>. QED  BY <2>2
<1>12. info[new].type = info[old].type
  BY <1>3, <1>7 DEF IsFile
<1>15. F[old] \in DOMAIN Tree
  BY <1>1, <1>4, <1>5, <1>6, InTree
<1>13. CASE old = new
  <2>1. \A x \in Live' : info'[x] = info[x] /\ blocks'[x] = blocks[x]
    BY <1>7, <1>9, <1>10, <1>13 DEF SwapOf
  <2>2. \A x \in Live : P[x] # old
    BY <1>11, <1>13
  <2>3. NS!Delete(Tree, Tree', F[old])
    BY <1>1, <1>4, <1>5, <1>6, <1>8, <1>9, <1>13, <2>1, <2>2, DeleteStep
  <2>4. p = q
    BY <1>6, <1>13
  <2>. QED  BY <1>6, <1>15, <2>3, <2>4
<1>14. CASE old # new
  <2>1. PICK Q, t, E, n : Grown(Q, t, E, n)' /\ Renamed(P, Len(p), old, new, Q)
    BY <1>8, <1>14
  <2>2. PICK B, d : B = Under(P, old, Len(p)) /\ d = P[new]
    OBVIOUS
  <2>3. /\ Below(Live, P, old, B) /\ old \notin B /\ new \notin B
        /\ Adopted(Live, P, old, new, Q)
    BY <2>1, <2>2 DEF Renamed
  <2>4. ~Starts(F[old], q)
    <3>1. p # q
      BY <1>4, <1>5, <1>6, <1>14, PathsDiffer
    <3>. QED  BY <1>3, <1>6, <3>1, NotUnder
  <2>5. d \in Live \cup {NULL} /\ Longer(q, F[d], info[new].name) /\ d # new
    BY <1>4, <1>5, <1>6, <1>11, <2>2, LiveFacts DEF Paths
  <2>6. d \notin B /\ d # old
    BY <1>4, <1>5, <1>6, <2>3, <2>4, <2>5, NewParent
  <2>7. Q[new] = d
    BY <1>6, <2>2, <2>3, <2>6 DEF Adopted
  <2>8. d # NULL => info[d].type = "dir"
    BY <1>4, <1>6, <2>2 DEF Grown, Shape, Parents
  <2>9. Live' = (Live \cup {new}) \ {old} /\ info'[new] = info[new]
    BY <1>6, <1>7, <1>9, <1>14
  <2>10. blocks'[new] = blocks[old] /\ \A x \in Live \ {old, new} : blocks'[x] = blocks[x]
    BY <1>7, <1>10, <1>14 DEF SwapOf
  <2>11. \A x \in Live \ {old, new} : info'[x] = info[x]
    BY <1>7, <1>9
  <2>12. IsRename(P, F, old, new, B, Q, q, d)
    BY <1>6, <1>7, <1>11, <1>12, <1>14, <2>3, <2>4, <2>5, <2>6, <2>7, <2>8, <2>9, <2>10,
       <2>11 DEF IsRename
  <2>13. NS!Rename(Tree, Tree', F[old], q)
    BY <1>1, <1>4, <1>5, <1>6, <1>9, <2>1, <2>12, RenameStep
  <2>14. p # q
    BY <1>4, <1>5, <1>6, <1>14, PathsDiffer
  <2>. QED  BY <1>6, <1>15, <2>13, <2>14
<1>. QED  BY <1>13, <1>14

\* ramfs_rename to a path that is not in use.
LEMMA RenameNewNs ==
  ASSUME Inv, Slips = {}, NEW p \in Path, NEW q \in Path, RenameNew(p, q)
  PROVE  /\ p \in DOMAIN Tree
         /\ IF p = q THEN NS!Delete(Tree, Tree', p) ELSE NS!Rename(Tree, Tree', p, q)
<1>1. /\ TreeInv /\ SpaceInv /\ info \in [Entry -> Info \cup {NULL}]
      /\ links \in Links /\ Idle
  BY IdleTree DEF RenameNew
<1>2. PICK old, d : old = Traverse(p).entry /\ d = Traverse(q).parent
  OBVIOUS
<1>3. /\ Traverse(p).ret = "ok" /\ Traverse(q).ret = "noent" /\ MayRename(p, q, old)
      /\ (IsOpen(old) => ~IsFile(old))
      /\ UNCHANGED stack
  BY <1>2 DEF RenameNew, MayRename
<1>4. PICK e \in Entry \ Alloc :
        /\ info' = [info EXCEPT
                      ![e] = [type |-> info[old].type, name |-> Last(q), rm |-> FALSE],
                      ![old] = OldInfo(old)]
        /\ Replace(Linked(links, d, e), Traverse(p), e, Cost(info[old].type))
  BY <1>2 DEF RenameNew
<1>5. PICK P, s, D, N : Grown(P, s, D, N)
  BY <1>1 DEF TreeInv
<1>6. PICK F : Paths(P, F)
  BY <1>5, PathsExist
<1>7. old \in Live /\ F[old] = p
  BY <1>2, <1>3, <1>5, <1>6, TraversePath
<1>8. old \in Alloc /\ Live \subseteq Alloc /\ Live \subseteq Entry /\ Last(q) \in Name
  BY <1>7, PathSeq DEF Live, Alloc, Last
<1>9. PICK open : open = IsOpen(old)
  OBVIOUS
<1>10. open \in BOOLEAN
  BY <1>9 DEF IsOpen
<1>11. Takes(e, old, open, Last(q))
  BY <1>1, <1>4, <1>8, <1>9, NewTakes
<1>12. PICK Q, t, E, n : /\ Grown(Q, t, E, n)' /\ Q[e] = d
                         /\ Renamed(P, Len(p), old, e, Q)
  BY <1>1, <1>2, <1>3, <1>4, <1>5, <1>9, <1>10, <1>11, RenameNewGrown
<1>13. PICK B : B = Under(P, old, Len(p))
  OBVIOUS
<1>14. /\ Below(Live, P, old, B) /\ old \notin B /\ e \notin B
       /\ Adopted(Live, P, old, e, Q)
  BY <1>12, <1>13 DEF Renamed
<1>15. /\ d \in Live \cup {NULL} /\ (d # NULL => info[d].type = "dir")
       /\ Longer(q, F[d], Last(q)) /\ \A x \in Live : F[x] # q
  BY <1>2, <1>3, <1>5, <1>6, TraverseMissing
<1>16. ~Starts(F[old], q)
  <2>1. p # q
    BY <1>7, <1>15
  <2>. QED  BY <1>3, <1>7, <2>1, NotUnder
<1>17. d \notin B /\ d # old
  BY <1>5, <1>6, <1>7, <1>14, <1>15, <1>16, NewParent
<1>18. e \notin Live /\ e # old /\ d # e
  BY <1>7, <1>8, <1>15, RamFsAssumption
<1>19. /\ Live' = (Live \cup {e}) \ {old}
       /\ info'[e].type = info[old].type /\ info'[e].name = Last(q)
       /\ \A x \in Live \ {old, e} : info'[x] = info[x]
  BY <1>8, <1>11 DEF Takes
<1>20. blocks' = SwapOf(blocks, old, e)
  BY <1>1, <1>2, <1>3, <1>4, <1>8, ReplaceEffect
<1>21. blocks'[e] = blocks[old] /\ \A x \in Live \ {old, e} : blocks'[x] = blocks[x]
  BY <1>8, <1>18, <1>20 DEF SwapOf
<1>22. Longer(q, F[d], info'[e].name)
  BY <1>15, <1>19
<1>23. IsRename(P, F, old, e, B, Q, q, d)
  BY <1>12, <1>14, <1>15, <1>16, <1>17, <1>18, <1>19, <1>21, <1>22 DEF IsRename
<1>24. Idle'
  BY <1>1, <1>3 DEF Idle
<1>25. NS!Rename(Tree, Tree', F[old], q)
  BY <1>1, <1>5, <1>6, <1>7, <1>12, <1>23, <1>24, RenameStep
<1>26. F[old] \in DOMAIN Tree
  BY <1>1, <1>5, <1>6, <1>7, InTree
<1>27. p # q
  BY <1>7, <1>15
<1>. QED  BY <1>7, <1>25, <1>26, <1>27

\* A file system with nothing in it has no paths.
LEMMA InitNs ==
  ASSUME Init
  PROVE  Tree = [p \in {} |-> 0]
<1>1. PICK P, s, D, N : Grown(P, s, D, N)
  BY InitInv, IdleTree DEF Init, Idle
<1>2. PICK F : Paths(P, F)
  BY <1>1, PathsExist
<1>3. Live = {} /\ Idle
  BY DEF Init, Live, Alloc, Idle
<1>4. PICK T : T = Tree
  OBVIOUS
<1>5. TreeAs(T, F, Live, info, blocks)
  BY <1>1, <1>2, <1>3, <1>4, TreeNow
<1>6. DOMAIN T = {} /\ T = [p \in DOMAIN T |-> T[p]]
  BY <1>3, <1>5 DEF TreeAs
<1>7. T = [p \in {} |-> 0]
  BY <1>6
<1>. QED  BY <1>4, <1>7

\* The same for the state after a step.
LEMMA InitNsNext == Init' => (Tree = [p \in {} |-> 0])'
<1>1. Init => Tree = [p \in {} |-> 0]
  BY InitNs
<1>. QED  BY <1>1, PTL

\* ramfs_umount takes everything away when it begins.
LEMMA UmountNs ==
  ASSUME Inv, Slips = {}, UmountBegin \/ UmountTurn \/ UmountEnd
  PROVE  Tree' = [p \in {} |-> 0]
<1>1. CASE UmountBegin
  <2>1. stack' \in Seq(Pointer)
    BY <1>1 DEF UmountBegin, Pointer
  <2>2. ~Idle'
    BY <2>1, RamFsAssumption DEF Idle
  <2>. QED  BY <2>2, TreeFunction
<1>2. CASE UmountTurn
  <2>1. ~Idle'
    BY <1>2, UmountTurnInv
  <2>. QED  BY <2>1, TreeFunction
<1>3. CASE UmountEnd
  <2>1. Init'
    BY <1>3, UmountEndInv
  <2>. QED  BY <2>1, InitNsNext
<1>. QED  BY <1>1, <1>2, <1>3

\* What is made, at the path it is made for.
LEMMA MakeNs ==
  ASSUME Inv, NEW p \in Path,
         Mkdir(p) \/ FileCreateFails(p) \/ \E f \in FD : FileCreate(p, f)
  PROVE  MadeAt(p) \in Path /\ NS!Make(Tree, Tree', MadeAt(p))
<1>1. CASE Mkdir(p)
  <2>1. PICK e \in Entry : AddEntry(e, p, "dir")
    BY <1>1 DEF Mkdir
  <2>. QED  BY <1>1, <2>1, AddEntryNs DEF Mkdir
<1>2. CASE FileCreateFails(p)
  <2>1. PICK e \in Entry : AddEntry(e, p, "file")
    BY <1>2 DEF FileCreateFails
  <2>. QED  BY <1>2, <2>1, AddEntryNs DEF FileCreateFails
<1>3. ASSUME NEW f \in FD, FileCreate(p, f)
      PROVE  MadeAt(p) \in Path /\ NS!Make(Tree, Tree', MadeAt(p))
  <2>1. PICK e \in Entry : AddEntry(e, p, "file")
    BY <1>3 DEF FileCreate
  <2>. QED  BY <1>3, <2>1, AddEntryNs DEF FileCreate
<1>. QED  BY <1>1, <1>2, <1>3

\* What is removed, at the path of the call.
LEMMA DeleteNs ==
  ASSUME Inv, NEW p \in Path, Rmdir(p) \/ Unlink(p)
  PROVE  p \in DOMAIN Tree /\ NS!Delete(Tree, Tree', p)
<1>1. CASE Rmdir(p)
  <2>1. /\ Idle /\ Traverse(p).ret = "ok" /\ links.child[Traverse(p).entry] = NULL
        /\ RemoveEntry(Traverse(p), FALSE) /\ UNCHANGED stack
    BY <1>1 DEF Rmdir
  <2>. QED  BY <2>1, RemoveEntryNs
<1>2. CASE Unlink(p)
  <2>1. /\ Idle /\ Traverse(p).ret = "ok" /\ IsFile(Traverse(p).entry)
        /\ RemoveEntry(Traverse(p), TRUE) /\ UNCHANGED stack
    BY <1>2 DEF Unlink
  <2>2. TreeInv
    BY <2>1, IdleTree
  <2>3. PICK P, s, D, N : Grown(P, s, D, N)
    BY <2>2 DEF TreeInv
  <2>4. links.child[Traverse(p).entry] = NULL
    BY <2>1, <2>2, <2>3, TraverseEntry, LinksLive
  <2>. QED  BY <2>1, <2>4, RemoveEntryNs
<1>. QED  BY <1>1, <1>2

\* The calls of which nothing is seen.
LEMMA UnseenNs ==
  ASSUME Inv, \/ \E p \in Path, d \in DD : DirOpen(p, d)
              \/ \E p \in Path, l \in Leak : FileOpenFails(p, l)
              \/ \E d \in DD : DirOpenRoot(d) \/ DirRead(d) \/ DirClose(d)
              \/ \E f \in FD : FileClose(f)
  PROVE  Tree' = Tree
<1>1. CASE \/ \E p \in Path, d \in DD : DirOpen(p, d)
           \/ \E p \in Path, l \in Leak : FileOpenFails(p, l)
           \/ \E d \in DD : DirOpenRoot(d) \/ DirRead(d)
  BY <1>1, HandleNs DEF DirOpen, FileOpenFails, DirOpenRoot, DirRead
<1>2. ASSUME NEW d \in DD, DirClose(d)
      PROVE  Tree' = Tree
  <2>1. PICK e : e = dd[d].entry
    OBVIOUS
  <2>2. /\ Idle /\ dd[d] # NULL /\ RemoveReference(e) /\ UNCHANGED <<lost, stack>>
    BY <1>2, <2>1 DEF DirClose
  <2>3. CASE e = NULL
    BY <2>2, <2>3, HandleNs DEF RemoveReference
  <2>4. CASE e # NULL
    <3>1. HandleInv
      BY <2>2, IdleTree
    <3>2. e \in Alloc /\ uses[e] > 0
      BY <2>1, <2>2, <2>4, <3>1, HandleCounts DEF HandleInv, CountInv
    <3>. QED  BY <2>2, <3>2, RemoveReferenceNs
  <2>. QED  BY <2>3, <2>4
<1>3. ASSUME NEW f \in FD, FileClose(f)
      PROVE  Tree' = Tree
  <2>1. PICK e : e = fd[f]
    OBVIOUS
  <2>2. Idle /\ e # NULL /\ RemoveReference(e) /\ UNCHANGED <<lost, stack>>
    BY <1>3, <2>1 DEF FileClose
  <2>3. HandleInv
    BY <2>2, IdleTree
  <2>4. e \in Alloc /\ uses[e] > 0
    BY <2>1, <2>2, <2>3, HandleCounts DEF HandleInv, CountInv, Files
  <2>. QED  BY <2>2, <2>4, RemoveReferenceNs
<1>. QED  BY <1>1, <1>2, <1>3

\* ramfs_file_open writes at the path of the call.
LEMMA FileOpenNs ==
  ASSUME Inv, NEW p \in Path, NEW f \in FD, FileOpen(p, f)
  PROVE  p \in DOMAIN Tree /\ NS!Write(Tree, Tree', p)
<1>1. PICK e : e = Traverse(p).entry
  OBVIOUS
<1>2. /\ Idle /\ Traverse(p).ret = "ok" /\ IsFile(e) /\ UNCHANGED <<info, links, stack>>
      /\ \E B \in SUBSET blocks[e] : SetBlocks(e, B)
  BY <1>1 DEF FileOpen
<1>3. PICK P, s, D, N : Grown(P, s, D, N)
  BY <1>2, IdleTree
<1>4. e \in Files
  BY <1>1, <1>2, <1>3, TraverseEntry DEF Live, Files
<1>. QED  BY <1>1, <1>2, <1>4, SetBlocksNs

\* ramfs_file_write and ramfs_file_truncate write where the file is.
LEMMA FileWriteNs ==
  ASSUME Inv, NEW f \in FD, FileGrow(f) \/ FileShrink(f)
  PROVE  Tree' = Tree \/ \E p \in Path : /\ Traverse(p).entry = fd[f]
                                         /\ p \in DOMAIN Tree
                                         /\ NS!Write(Tree, Tree', p)
<1>1. PICK e : e = fd[f]
  OBVIOUS
<1>2. Idle /\ e # NULL /\ UNCHANGED <<info, links, stack>> /\ \E B : SetBlocks(e, B)
  BY <1>1 DEF FileGrow, FileShrink
<1>3. e \in Files
  BY <1>1, <1>2 DEF Inv, CountInv
<1>4. /\ e \notin Live => Tree' = Tree
      /\ e \in Live => \E p \in Path : Traverse(p).ret = "ok" /\ Traverse(p).entry = e
      /\ \A p \in Path : Traverse(p).ret = "ok" /\ Traverse(p).entry = e
                          => p \in DOMAIN Tree /\ NS!Write(Tree, Tree', p)
  BY <1>2, <1>3, SetBlocksNs
<1>. QED  BY <1>1, <1>4

\* A step of the name space, or none.
NsStep == NS!Next \/ Tree' = Tree

\* The steps that the name space has.
LEMMA NsSteps ==
  /\ \A p \in Path : NS!Make(Tree, Tree', p) => NsStep
  /\ \A p \in DOMAIN Tree : NS!Delete(Tree, Tree', p) \/ NS!Write(Tree, Tree', p) => NsStep
  /\ \A p \in DOMAIN Tree : \A q \in Path : NS!Rename(Tree, Tree', p, q) => NsStep
  /\ Tree' = [p \in {} |-> 0] => NsStep
<1>1. ASSUME NEW p \in Path, NS!Make(Tree, Tree', p)
      PROVE  NsStep
  BY <1>1 DEF NsStep, NS!Next
<1>2. ASSUME NEW p \in DOMAIN Tree, NS!Delete(Tree, Tree', p) \/ NS!Write(Tree, Tree', p)
      PROVE  NsStep
  BY <1>2 DEF NsStep, NS!Next
<1>3. ASSUME NEW p \in DOMAIN Tree, NEW q \in Path, NS!Rename(Tree, Tree', p, q)
      PROVE  NsStep
  BY <1>3 DEF NsStep, NS!Next
<1>4. ASSUME Tree' = [p \in {} |-> 0]
      PROVE  NsStep
  BY <1>4 DEF NsStep, NS!Next, NS!NoTree
<1>. QED  BY <1>1, <1>2, <1>3, <1>4, Zenon

\* Every call is a step of the name space, or is not seen.
LEMMA NextNs ==
  ASSUME Inv, Slips = {}, Next
  PROVE  NsStep
<1>1. ASSUME NEW p \in Path, Mkdir(p) \/ FileCreateFails(p) \/ \E f \in FD : FileCreate(p, f)
      PROVE  NsStep
  BY <1>1, MakeNs, NsSteps
<1>2. ASSUME NEW p \in Path, Rmdir(p) \/ Unlink(p)
      PROVE  NsStep
  BY <1>2, DeleteNs, NsSteps
<1>3. CASE \/ \E p \in Path, d \in DD : DirOpen(p, d)
           \/ \E p \in Path, l \in Leak : FileOpenFails(p, l)
           \/ \E d \in DD : DirOpenRoot(d) \/ DirRead(d) \/ DirClose(d)
           \/ \E f \in FD : FileClose(f)
  BY <1>3, UnseenNs DEF NsStep
<1>4. ASSUME NEW p \in Path, NEW f \in FD, FileOpen(p, f)
      PROVE  NsStep
  BY <1>4, FileOpenNs, NsSteps
<1>5. ASSUME NEW f \in FD, FileGrow(f) \/ FileShrink(f)
      PROVE  NsStep
  BY <1>5, FileWriteNs, NsSteps DEF NsStep
<1>6. ASSUME NEW p \in Path, NEW q \in Path, RenameNew(p, q) \/ RenameOnto(p, q)
      PROVE  NsStep
  BY <1>6, RenameNewNs, RenameOntoNs, NsSteps
<1>7. CASE UmountBegin \/ UmountTurn \/ UmountEnd
  BY <1>7, UmountNs, NsSteps
<1>. QED  BY <1>1, <1>2, <1>3, <1>4, <1>5, <1>6, <1>7, Zenon DEF Next

\* A step that changes a directory handle, or leaves a reference, is a call of
\* which nothing is seen.
LEMMA HandlesOnly ==
  ASSUME Inv, [Next]_vars, Idle, dd' # dd \/ leaked' # leaked
  PROVE  Tree' = Tree
<1>1. ASSUME UNCHANGED <<leaked, dd>>
      PROVE  FALSE
  BY <1>1
<1>2. \A p \in Path : ~ (Mkdir(p) \/ Rmdir(p) \/ Unlink(p) \/ FileCreateFails(p))
  BY <1>1 DEF Mkdir, Rmdir, Unlink, FileCreateFails
<1>3. \A p \in Path, f \in FD : ~ (FileOpen(p, f) \/ FileCreate(p, f))
  BY <1>1 DEF FileOpen, FileCreate
<1>4. \A f \in FD : ~ (FileGrow(f) \/ FileShrink(f))
  BY <1>1 DEF FileGrow, FileShrink
<1>5. \A p, q \in Path : ~ (RenameNew(p, q) \/ RenameOnto(p, q))
  BY <1>1 DEF RenameNew, RenameOnto
<1>6. ~ (UmountBegin \/ UmountTurn \/ UmountEnd)
  <2>1. stack = NULL /\ NULL # <<>>
    <3>1. <<>> \in Seq(Pointer)
      OBVIOUS
    <3>. QED  BY <3>1, RamFsAssumption DEF Idle
  <2>. QED  BY <1>1, <2>1 DEF UmountBegin, UmountTurn, UmountEnd, Idle
<1>7. Next
  BY <1>1 DEF vars
<1>8. \/ \E p \in Path, d \in DD : DirOpen(p, d)
      \/ \E p \in Path, l \in Leak : FileOpenFails(p, l)
      \/ \E d \in DD : DirOpenRoot(d) \/ DirRead(d) \/ DirClose(d)
      \/ \E f \in FD : FileClose(f)
  BY <1>2, <1>3, <1>4, <1>5, <1>6, <1>7, Zenon DEF Next
<1>. QED  BY <1>8, UnseenNs

\* What every call does at its path.
LEMMA CallsNs ==
  ASSUME Inv, Slips = {}, [Next]_vars
  PROVE  CallEffects
<1>. SUFFICES ASSUME Idle
              PROVE  CallEffects
  BY DEF CallEffects
<1>1. PICK T, U : T = Tree /\ U = Tree'
  OBVIOUS
<1>2. ASSUME NEW p \in Path
      PROVE  /\ Mkdir(p) \/ FileCreateFails(p) => NS!Make(T, U, MadeAt(p))
             /\ Rmdir(p) \/ Unlink(p) => NS!Delete(T, U, p)
  BY <1>1, MakeNs, DeleteNs
<1>3. ASSUME NEW p \in Path, NEW q \in Path, RenameNew(p, q) \/ RenameOnto(p, q)
      PROVE  IF p = q THEN NS!Delete(T, U, p) ELSE NS!Rename(T, U, p, q)
  BY <1>1, <1>3, RenameNewNs, RenameOntoNs
<1>4. ASSUME NEW f \in FD, NEW p \in Path
      PROVE  /\ FileCreate(p, f) => NS!Make(T, U, MadeAt(p))
             /\ FileOpen(p, f) => NS!Write(T, U, p)
             /\ FileClose(f) => U = T
  BY <1>1, MakeNs, FileOpenNs, UnseenNs
<1>5. ASSUME NEW f \in FD, FileGrow(f) \/ FileShrink(f)
      PROVE  U = T \/ \E p \in Path : Traverse(p).entry = fd[f] /\ NS!Write(T, U, p)
  BY <1>1, <1>5, FileWriteNs
<1>6. dd' # dd \/ leaked' # leaked => U = T
  BY <1>1, HandlesOnly
<1>. QED  BY <1>1, <1>2, <1>3, <1>4, <1>5, <1>6, Zenon DEF CallEffects

\* The tree that the entries and links in memory make implements the name space:
\* for every number of entries, blocks, names and handles, each call of ramfs
\* makes, removes, writes or moves exactly what is at the path it is given, or,
\* when nothing is there at all, makes its first component, and a rename of a
\* path to itself removes what is there.
THEOREM ImplementsNamespaceCorrect == Slips = {} => (Spec => ImplementsNamespace)
<1>. SUFFICES ASSUME Slips = {}
              PROVE  Spec => ImplementsNamespace
  OBVIOUS
<1>1. Init => NS!Init
  BY InitNs DEF NS!Init, NS!NoTree
<1>2. Inv /\ [Next]_vars => [NS!Next]_Tree
  <2>1. Inv /\ Next => NsStep
    BY NextNs
  <2>2. Inv /\ UNCHANGED vars => NsStep
    BY HandleNs DEF vars, NsStep
  <2>. QED  BY <2>1, <2>2 DEF NsStep
<1>3. Inv /\ [Next]_vars => CallEffects
  BY CallsNs
<1>4. Spec => []Inv
  BY RamFsInv
<1>. QED  BY <1>1, <1>2, <1>3, <1>4, PTL DEF Spec, ImplementsNamespace, NS!Spec
=============================================================================
