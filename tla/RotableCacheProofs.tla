------------------------ MODULE RotableCacheProofs ------------------------
(***************************************************************************)
(* The cache of read-only tables is a sound list and implements LruCache,  *)
(* for any number of entries, tables, keys and tasks.                      *)
(***************************************************************************)
EXTENDS RotableCache, TLAPS

\* rotable_cache_init makes a list of all entries.
LEMMA InitSound == Init => CacheSound
  BY CacheAssumption DEF Init, CacheSound, TypeOK, ListSound, CachedHeld,
     RightUntilOverrun, Recency, Slot

\* The position from which ToFront(i) takes what it puts at position j.
From(i, j) == IF j = 1 THEN i ELSE IF j <= i THEN j - 1 ELSE j

\* Moving a place to the front leaves the order one of all places, and no
\* place sinks by more than one position.
LEMMA FrontOrder ==
  ASSUME TypeOK, ListSound, NEW i \in Slot, ToFront(i)
  PROVE  /\ order' \in [Slot -> Slot]
         /\ \A j, k \in Slot : order'[j] = order'[k] => j = k
         /\ \A j \in Slot : From(i, j) \in Slot /\ order'[j] = order[From(i, j)]
<1> USE CacheAssumption
<1>1. order' = [j \in Slot |-> CASE j = 1 -> order[i]
                                 [] j \in 2 .. i -> order[j - 1]
                                 [] OTHER -> order[j]]
  BY DEF ToFront
<1>2. order \in [Slot -> Slot] /\ \A j, k \in Slot : order[j] = order[k] => j = k
  BY DEF TypeOK, ListSound
<1>3. \A j \in Slot : From(i, j) \in Slot
  BY DEF From, Slot
<1>4. \A j \in Slot : order'[j] = order[From(i, j)]
  BY <1>1 DEF From, Slot
<1>5. \A j, k \in Slot : From(i, j) = From(i, k) => j = k
  BY DEF From, Slot
<1>6. order' \in [Slot -> Slot]
  BY <1>1, <1>2, <1>3, <1>4
<1> QED
  BY <1>2, <1>3, <1>4, <1>5, <1>6

\* The pointers lead through the places in the order ToFront(i) gives them.
Relinked(i) ==
  /\ first' = order[i] /\ last' = order[From(i, Length)]
  /\ next' \in [Slot -> Slot \cup {NULL}]
  /\ previous' \in [Slot -> Slot \cup {NULL}]
  /\ \A j \in Slot : j # Length =>
       next'[order[From(i, j)]] = order[From(i, j + 1)]
  /\ next'[order[From(i, Length)]] = NULL
  /\ \A j \in 2 .. Length :
       previous'[order[From(i, j)]] = order[From(i, j - 1)]

\* Then they are a sound list again.
LEMMA RelinkedSound ==
  ASSUME TypeOK, ListSound, NEW i \in Slot, ToFront(i), Relinked(i)
  PROVE  /\ ListSound'
         /\ first' \in Slot /\ last' \in Slot
         /\ next' \in [Slot -> Slot \cup {NULL}]
         /\ previous' \in [Slot -> Slot \cup {NULL}]
<1> USE CacheAssumption
<1>1. /\ order' \in [Slot -> Slot]
      /\ \A j, k \in Slot : order'[j] = order'[k] => j = k
      /\ \A j \in Slot : From(i, j) \in Slot /\ order'[j] = order[From(i, j)]
  BY FrontOrder
<1>2. order \in [Slot -> Slot] /\ 1 \in Slot /\ Length \in Slot
  BY DEF TypeOK, Slot
<1>3. \A j \in Slot : j # Length => j + 1 \in Slot
  BY DEF Slot
<1>4. \A j \in 2 .. Length : j \in Slot /\ j - 1 \in Slot
  BY DEF Slot
<1>5. From(i, 1) = i
  BY DEF From
<1> QED
  BY <1>1, <1>2, <1>3, <1>4, <1>5 DEF ListSound, Relinked

\* Both the promotion of the last entry and rotable_cache_put unlink the last
\* entry and make it the first.
LEMMA LastToFront ==
  ASSUME TypeOK, ListSound,
         next' = [next EXCEPT ![order[Length - 1]] = NULL,
                              ![order[Length]] = order[1]],
         previous' = [previous EXCEPT ![order[Length]] = NULL,
                                      ![order[1]] = order[Length]]
  PROVE  /\ next' \in [Slot -> Slot \cup {NULL}]
         /\ previous' \in [Slot -> Slot \cup {NULL}]
         /\ From(Length, Length) = Length - 1
         /\ \A j \in Slot : j # Length =>
              next'[order[From(Length, j)]] = order[From(Length, j + 1)]
         /\ next'[order[From(Length, Length)]] = NULL
         /\ \A j \in 2 .. Length :
              previous'[order[From(Length, j)]] = order[From(Length, j - 1)]
<1> USE CacheAssumption
<1>1. /\ order \in [Slot -> Slot]
      /\ \A j, k \in Slot : order[j] = order[k] => j = k
      /\ \A j \in Slot : next[order[j]] = IF j = Length THEN NULL
                                          ELSE order[j + 1]
      /\ \A j \in 2 .. Length : previous[order[j]] = order[j - 1]
  BY DEF TypeOK, ListSound
<1>2. /\ next \in [Slot -> Slot \cup {NULL}]
      /\ previous \in [Slot -> Slot \cup {NULL}]
  BY DEF TypeOK
<1>3. 1 \in Slot /\ Length \in Slot /\ Length - 1 \in Slot /\ Length # 1
  BY DEF Slot
<1>4. /\ next' \in [Slot -> Slot \cup {NULL}]
      /\ previous' \in [Slot -> Slot \cup {NULL}]
  BY <1>1, <1>2, <1>3
<1>5. \A j \in Slot : next'[order[j]] = IF j = Length THEN order[1]
                                        ELSE IF j = Length - 1 THEN NULL
                                        ELSE next[order[j]]
  BY <1>1, <1>2, <1>3
<1>6. \A j \in Slot : previous'[order[j]] = IF j = 1 THEN order[Length]
                                            ELSE IF j = Length THEN NULL
                                            ELSE previous[order[j]]
  BY <1>1, <1>2, <1>3
<1>7. From(Length, Length) = Length - 1 /\ From(Length, 1) = Length
  BY <1>3 DEF From
<1>8. \A j \in Slot : j # Length =>
        next'[order[From(Length, j)]] = order[From(Length, j + 1)]
  <2> SUFFICES ASSUME NEW j \in Slot, j # Length
               PROVE  next'[order[From(Length, j)]] = order[From(Length, j + 1)]
    OBVIOUS
  <2>1. CASE j = 1
    <3>1. From(Length, j) = Length /\ From(Length, j + 1) = 1
      BY <2>1 DEF From
    <3> QED
      BY <3>1, <1>3, <1>5
  <2>2. CASE j # 1
    <3>1. /\ From(Length, j) = j - 1 /\ From(Length, j + 1) = j
          /\ j - 1 \in Slot /\ j - 1 # Length /\ j - 1 # Length - 1
      BY <2>2 DEF From, Slot
    <3>2. (j - 1) + 1 = j
      BY DEF Slot
    <3>3. next[order[j - 1]] = order[(j - 1) + 1]
      BY <3>1, <1>1
    <3> QED
      BY <3>1, <3>2, <3>3, <1>5
  <2> QED
    BY <2>1, <2>2
<1>9. \A j \in 2 .. Length :
        previous'[order[From(Length, j)]] = order[From(Length, j - 1)]
  <2> TAKE j \in 2 .. Length
  <2>1. CASE j = 2
    <3>1. From(Length, j) = 1 /\ From(Length, j - 1) = Length
      BY <2>1 DEF From
    <3> QED
      BY <3>1, <1>3, <1>6
  <2>2. CASE j # 2
    <3>1. /\ From(Length, j) = j - 1 /\ From(Length, j - 1) = j - 2
          /\ j - 1 \in Slot /\ j - 1 # 1 /\ j - 1 # Length
          /\ j - 1 \in 2 .. Length
      BY <2>2 DEF From, Slot
    <3>2. previous[order[j - 1]] = order[(j - 1) - 1] /\ (j - 1) - 1 = j - 2
      BY <3>1, <1>1
    <3> QED
      BY <3>1, <3>2, <1>6
  <2> QED
    BY <2>1, <2>2
<1>10. next'[order[From(Length, Length)]] = NULL
  <2>1. Length - 1 # Length
    OBVIOUS
  <2> QED
    BY <2>1, <1>3, <1>5, <1>7
<1> QED
  BY <1>4, <1>7, <1>8, <1>9, <1>10

\* Promoting the entry at position i rearranges the list as ToFront says.
LEMMA PromoteSound ==
  ASSUME TypeOK, ListSound, NEW i \in Slot, Promote(order[i]), ToFront(i)
  PROVE  /\ ListSound'
         /\ first' \in Slot /\ last' \in Slot
         /\ next' \in [Slot -> Slot \cup {NULL}]
         /\ previous' \in [Slot -> Slot \cup {NULL}]
<1> USE CacheAssumption
<1> DEFINE s == order[i]
<1>0. /\ order' \in [Slot -> Slot]
      /\ \A j, k \in Slot : order'[j] = order'[k] => j = k
      /\ \A j \in Slot : From(i, j) \in Slot /\ order'[j] = order[From(i, j)]
  BY FrontOrder
<1>a. s \in Slot /\ order \in [Slot -> Slot] /\ 1 \in Slot /\ Length \in Slot
  BY DEF TypeOK, Slot
<1>b. /\ \A j, k \in Slot : order[j] = order[k] => j = k
      /\ \A j \in Slot : next[order[j]] = IF j = Length THEN NULL
                                          ELSE order[j + 1]
      /\ \A j \in 2 .. Length : previous[order[j]] = order[j - 1]
      /\ first = order[1] /\ last = order[Length]
  BY DEF ListSound
<1>c. /\ next \in [Slot -> Slot \cup {NULL}]
      /\ previous \in [Slot -> Slot \cup {NULL}]
  BY DEF TypeOK
<1>d. SUFFICES Relinked(i)
  BY RelinkedSound
<1> USE DEF Relinked
<1>1. CASE s = first /\ UNCHANGED links
  <2>1. i = 1
    BY <1>1, <1>a, <1>b
  <2>2. \A j \in Slot : From(i, j) = j
    BY <2>1 DEF From, Slot
  <2>3. \A j \in 2 .. Length : j \in Slot /\ j - 1 \in Slot
    BY DEF Slot
  <2>4. \A j \in Slot : j # Length => j + 1 \in Slot
    BY DEF Slot
  <2> QED
    BY <1>1, <2>1, <2>2, <2>3, <2>4, <1>a, <1>b, <1>c DEF links
<1>2. CASE s # first /\ PromoteMiddle(s) /\ first' = s
  <2>1. i # 1 /\ i # Length
    BY <1>2, <1>b DEF PromoteMiddle
  <2>2. i - 1 \in Slot /\ i + 1 \in Slot
    BY <2>1 DEF Slot
  <2>3. previous[s] = order[i - 1] /\ next[s] = order[i + 1]
    BY <2>1, <2>2, <1>b DEF Slot
  <2>4. /\ next' = [next EXCEPT ![order[i - 1]] = order[i + 1],
                                ![order[i]] = order[1]]
        /\ previous' = [previous EXCEPT ![order[i + 1]] = order[i - 1],
                                        ![order[1]] = order[i]]
        /\ last' = last /\ first' = order[i]
    BY <1>2, <2>3, <1>b DEF PromoteMiddle
  <2>5. /\ next' \in [Slot -> Slot \cup {NULL}]
        /\ previous' \in [Slot -> Slot \cup {NULL}]
    BY <2>4, <2>2, <1>a, <1>c
  <2>6. \A j \in Slot : next'[order[j]] = IF j = i - 1 THEN order[i + 1]
                                          ELSE IF j = i THEN order[1]
                                          ELSE next[order[j]]
    BY <2>4, <2>2, <1>a, <1>b, <1>c
  <2>7. \A j \in Slot : previous'[order[j]] = IF j = 1 THEN order[i]
                                              ELSE IF j = i + 1 THEN order[i - 1]
                                              ELSE previous[order[j]]
    <3>1. \A j \in Slot : order[j] \in Slot
      BY <1>a
    <3>2. i + 1 # 1
      BY DEF Slot
    <3> QED
      BY <2>4, <2>2, <1>a, <1>b, <1>c, <3>1, <3>2
  <2>8. \A j \in Slot : j # Length =>
          next'[order[From(i, j)]] = order[From(i, j + 1)]
    <3> SUFFICES ASSUME NEW j \in Slot, j # Length
                 PROVE  next'[order[From(i, j)]] = order[From(i, j + 1)]
      OBVIOUS
    <3>1. CASE j = 1
      BY <3>1, <2>6, <2>1 DEF From, Slot
    <3>2. CASE j > 1 /\ j < i
      <4>1. From(i, j) = j - 1 /\ From(i, j + 1) = j /\ j - 1 \in Slot
        BY <3>2 DEF From, Slot
      <4>2. next[order[j - 1]] = order[j]
        BY <4>1, <1>b DEF Slot
      <4> QED
        BY <4>1, <4>2, <3>2, <2>6 DEF Slot
    <3>3. CASE j = i
      BY <3>3, <2>6, <2>1, <2>2 DEF From, Slot
    <3>4. CASE j > i
      BY <3>4, <2>6, <1>b DEF From, Slot
    <3> QED
      BY <3>1, <3>2, <3>3, <3>4 DEF Slot
  <2>9. From(i, Length) = Length /\ next'[order[From(i, Length)]] = NULL
    <3>1. From(i, Length) = Length /\ Length # i - 1 /\ Length # i
      BY <2>1 DEF From, Slot
    <3> QED
      BY <3>1, <2>6, <1>a, <1>b
  <2>10. \A j \in 2 .. Length :
           previous'[order[From(i, j)]] = order[From(i, j - 1)]
    <3> TAKE j \in 2 .. Length
    <3>1. CASE j = 2
      BY <3>1, <2>7, <2>1, <1>a DEF From, Slot
    <3>2. CASE j > 2 /\ j <= i
      <4>1. /\ From(i, j) = j - 1 /\ From(i, j - 1) = j - 2
            /\ j - 1 \in Slot /\ j - 1 # 1 /\ j - 1 # i + 1
            /\ j - 1 \in 2 .. Length
        BY <3>2 DEF From, Slot
      <4>2. previous[order[j - 1]] = order[j - 2]
        BY <4>1, <1>b
      <4> QED
        BY <4>1, <4>2, <2>7
    <3>3. CASE j = i + 1
      <4>1. From(i, j) = j /\ From(i, j - 1) = i - 1 /\ j \in Slot /\ j # 1
        BY <3>3, <2>1 DEF From, Slot
      <4> QED
        BY <4>1, <3>3, <2>7
    <3>4. CASE j > i + 1
      <4>1. From(i, j) = j /\ From(i, j - 1) = j - 1 /\ j \in Slot /\ j # 1
        BY <3>4, <2>1 DEF From, Slot
      <4> QED
        BY <4>1, <3>4, <2>7, <1>b
    <3> QED
      BY <3>1, <3>2, <3>3, <3>4 DEF Slot
  <2> QED
    BY <2>4, <2>5, <2>8, <2>9, <2>10, <1>b
<1>3. CASE s # first /\ PromoteLast(s) /\ first' = s
  <2>1. i = Length /\ Length - 1 \in Slot /\ Length # 1
    BY <1>3, <1>a, <1>b DEF PromoteLast, Slot
  <2>2. previous[s] = order[Length - 1]
    BY <2>1, <1>b DEF Slot
  <2>3. /\ next' = [next EXCEPT ![order[Length - 1]] = NULL,
                                ![order[Length]] = order[1]]
        /\ previous' = [previous EXCEPT ![order[Length]] = NULL,
                                        ![order[1]] = order[Length]]
        /\ last' = order[Length - 1] /\ first' = order[Length]
    BY <1>3, <2>1, <2>2, <1>b DEF PromoteLast
  <2> HIDE DEF s
  <2> QED
    BY <2>1, <2>3, <1>a, <1>b, <1>c, LastToFront
<1> QED
  BY <1>1, <1>2, <1>3 DEF Promote

\* rotable_cache_put keeps the list and what is cached sound.
LEMMA PutSound ==
  ASSUME TypeOK, ListSound, CachedHeld, NEW p \in Pair,
         p[2] \in Holds[p[1]], Put(p)
  PROVE  /\ ListSound' /\ CachedHeld'
         /\ first' \in Slot /\ last' \in Slot
         /\ next' \in [Slot -> Slot \cup {NULL}]
         /\ previous' \in [Slot -> Slot \cup {NULL}]
         /\ rotable' \in [Slot -> Table \cup {NULL}]
         /\ entry' \in [Slot -> Pair \cup {NULL}]
<1> USE CacheAssumption
<1>1. /\ Length \in Slot /\ Length - 1 \in Slot
      /\ first = order[1] /\ last = order[Length]
      /\ previous[last] = order[Length - 1]
  BY DEF ListSound, Slot
<1>2. /\ next' = [next EXCEPT ![order[Length - 1]] = NULL,
                              ![order[Length]] = order[1]]
      /\ previous' = [previous EXCEPT ![order[Length]] = NULL,
                                      ![order[1]] = order[Length]]
      /\ last' = order[Length - 1] /\ first' = order[Length]
  BY <1>1 DEF Put
<1>3. Relinked(Length)
  BY <1>2, LastToFront DEF Relinked
<1>4. p[1] \in Table /\ last \in Slot
  BY DEF Pair, TypeOK
<1>5. /\ rotable' \in [Slot -> Table \cup {NULL}]
      /\ entry' \in [Slot -> Pair \cup {NULL}]
  BY <1>4 DEF Put, TypeOK
<1>6. CachedHeld'
  <2>1. /\ \A s \in Slot : rotable'[s] = IF s = last THEN p[1] ELSE rotable[s]
        /\ \A s \in Slot : entry'[s] = IF s = last THEN p ELSE entry[s]
    BY DEF Put, TypeOK
  <2> QED
    BY <2>1 DEF CachedHeld
<1>7. ToFront(Length)
  BY DEF Put
<1> QED
  BY <1>1, <1>3, <1>5, <1>6, <1>7, RelinkedSound

\* A place is found at its position or one further after a move to the front.
LEMMA SinksByOne ==
  ASSUME TypeOK, ListSound, NEW i \in Slot, ToFront(i),
         NEW n \in Nat, NEW s, \E j \in 1 .. n : j \in Slot /\ order[j] = s
  PROVE  \E j \in 1 .. n + 1 : j \in Slot /\ order'[j] = s
<1> USE CacheAssumption
<1>1. PICK j \in 1 .. n : j \in Slot /\ order[j] = s
  OBVIOUS
<1>2. \A k \in Slot : order'[k] = order[From(i, k)]
  BY FrontOrder
<1>3. CASE j = i
  BY <1>1, <1>2, <1>3 DEF From, Slot
<1>4. CASE j < i
  <2>1. j + 1 \in Slot /\ j + 1 \in 1 .. n + 1 /\ From(i, j + 1) = j
    BY <1>4 DEF From, Slot
  <2> QED
    BY <2>1, <1>1, <1>2
<1>5. CASE j > i
  <2>1. j \in Slot /\ j \in 1 .. n + 1 /\ From(i, j) = j
    BY <1>1, <1>5 DEF From, Slot
  <2> QED
    BY <2>1, <1>1, <1>2
<1> QED
  BY <1>3, <1>4, <1>5, <1>1 DEF Slot

\* The parts of the invariant that speak of tasks, after a change of order
\* that recycled the place at the end, or none.
LEMMA OthersSound ==
  ASSUME CacheSound, NEW i \in Slot, ToFront(i), NEW u \in Task,
         pc'[u] = pc[u], want'[u] = want[u], cursor'[u] = cursor[u],
         moved'[u] = Counted(u),
         entry' = entry \/ (i = Length /\ \E p : entry' = [entry EXCEPT ![last] = p])
  PROVE  /\ moved'[u] \in 0 .. Length
         /\ pc'[u] = "read" /\ moved'[u] < Length =>
              /\ entry'[cursor'[u]] = want'[u]
              /\ \E j \in 1 .. moved'[u] + 1 : order'[j] = cursor'[u]
<1> USE CacheAssumption
<1>1. moved[u] \in 0 .. Length
  BY DEF CacheSound, TypeOK
<1>2. moved'[u] \in 0 .. Length
  BY <1>1 DEF Counted
<1>3. SUFFICES ASSUME pc[u] = "read", moved'[u] < Length
               PROVE  /\ entry'[cursor[u]] = want[u]
                      /\ \E j \in 1 .. moved'[u] + 1 : order'[j] = cursor[u]
  BY <1>2
<1>4. moved[u] < Length /\ moved'[u] = moved[u] + 1
  BY <1>1, <1>3 DEF Counted
<1>5. PICK j \in 1 .. moved[u] + 1 : order[j] = cursor[u]
  BY <1>3, <1>4 DEF CacheSound, Recency
<1>6. j \in Slot /\ j # Length
  BY <1>1, <1>3, <1>4, <1>5 DEF Slot
<1>7. \E k \in 1 .. (moved[u] + 1) + 1 : k \in Slot /\ order'[k] = cursor[u]
  BY <1>1, <1>5, <1>6, SinksByOne DEF CacheSound
<1>8. entry[cursor[u]] = want[u]
  BY <1>3, <1>4 DEF CacheSound, RightUntilOverrun
<1>9. cursor[u] # last
  BY <1>5, <1>6 DEF CacheSound, ListSound, Slot
<1>10. entry'[cursor[u]] = entry[cursor[u]]
  <2>1. cursor[u] \in Slot /\ entry \in [Slot -> Pair \cup {NULL}]
    BY <1>3 DEF CacheSound, Recency, TypeOK
  <2> QED
    BY <1>9, <2>1
<1> QED
  BY <1>4, <1>7, <1>8, <1>10

\* A hit promotes the entry it has found.
LEMMA HitSound ==
  ASSUME CacheSound, NEW t \in Task, Hit(t)
  PROVE  CacheSound'
<1> USE CacheAssumption
<1>1. PICK i \in Slot : order[i] = cursor[t] /\ ToFront(i)
  BY DEF Hit
<1>2. /\ TypeOK /\ ListSound /\ CachedHeld /\ Recency
      /\ Promote(order[i])
  BY <1>1 DEF Hit, CacheSound
<1>3. /\ ListSound'
      /\ first' \in Slot /\ last' \in Slot
      /\ next' \in [Slot -> Slot \cup {NULL}]
      /\ previous' \in [Slot -> Slot \cup {NULL}]
  BY <1>1, <1>2, PromoteSound
<1>4. order' \in [Slot -> Slot] /\ order'[1] = cursor[t]
  <2>1. 1 \in Slot /\ From(i, 1) = i
    BY DEF Slot, From
  <2> QED
    BY <1>1, <1>2, <2>1, FrontOrder
<1>5. \A u \in Task : u # t =>
        /\ pc'[u] = pc[u] /\ want'[u] = want[u] /\ cursor'[u] = cursor[u]
        /\ moved'[u] = Counted(u)
  BY <1>2 DEF Hit, TypeOK
<1>6. \A u \in Task : u # t =>
        /\ moved'[u] \in 0 .. Length
        /\ pc'[u] = "read" /\ moved'[u] < Length =>
             /\ entry'[cursor'[u]] = want'[u]
             /\ \E j \in 1 .. moved'[u] + 1 : order'[j] = cursor'[u]
  BY <1>1, <1>5, OthersSound DEF Hit
<1>7. /\ pc'[t] = "read" /\ moved'[t] = 0 /\ cursor'[t] = cursor[t]
      /\ want'[t] = want[t] /\ lock' = NULL
  BY <1>2 DEF Hit, TypeOK
<1>8. entry'[cursor'[t]] = want'[t]
  <2>1. Matches(cursor[t], want[t]) /\ entry' = entry /\ cursor[t] \in Slot
    BY <1>2 DEF Hit, TypeOK
  <2>2. want[t] \in Pair
    BY <1>2 DEF Hit, Recency
  <2>3. entry[cursor[t]] \in Pair /\ entry[cursor[t]][1] = want[t][1]
    BY <2>1, <2>2, <1>2 DEF Matches, CachedHeld, Pair
  <2> QED
    BY <2>1, <2>2, <2>3, <1>7 DEF Matches, Pair
<1>9. TypeOK'
  <2>1. moved' \in [Task -> 0 .. Length]
    BY <1>6, <1>7 DEF Hit
  <2>2. pc' \in [Task -> {"idle", "walk", "read", "search"}]
    BY <1>2 DEF Hit, TypeOK
  <2> QED
    BY <1>2, <1>3, <1>4, <1>7, <2>1, <2>2 DEF Hit, TypeOK
<1>10. CachedHeld'
  BY <1>2 DEF Hit, CachedHeld
<1>11. RightUntilOverrun'
  BY <1>6, <1>8 DEF RightUntilOverrun
<1>12. Recency'
  <2>1. \A u \in Task : u # t => pc'[u] # "walk"
    BY <1>2, <1>5 DEF Hit, Recency
  <2>2. 1 \in 1 .. moved'[t] + 1 /\ order'[1] = cursor'[t]
    BY <1>4, <1>7
  <2>3. \A u \in Task : pc'[u] # "idle" => want'[u] \in Pair
    BY <1>2, <1>5, <1>7 DEF Hit, Recency
  <2>4. \A u \in Task : pc'[u] = "read" => cursor'[u] \in Slot
    BY <1>2, <1>5, <1>7 DEF Hit, Recency, TypeOK
  <2> QED
    BY <1>6, <1>7, <2>1, <2>2, <2>3, <2>4 DEF Recency
<1> QED
  BY <1>3, <1>9, <1>10, <1>11, <1>12 DEF CacheSound

\* A lookup that missed puts what it has found into the cache.
LEMMA FoundSound ==
  ASSUME CacheSound, NEW t \in Task, Found(t)
  PROVE  CacheSound'
<1> USE CacheAssumption
<1>1. /\ TypeOK /\ ListSound /\ CachedHeld /\ Recency
      /\ want[t] \in Pair /\ want[t][2] \in Holds[want[t][1]]
      /\ Put(want[t]) /\ ToFront(Length) /\ Length \in Slot
      /\ entry' = [entry EXCEPT ![last] = want[t]]
  BY DEF Found, CacheSound, Recency, Put, Slot
<1>2. /\ ListSound' /\ CachedHeld'
      /\ first' \in Slot /\ last' \in Slot
      /\ next' \in [Slot -> Slot \cup {NULL}]
      /\ previous' \in [Slot -> Slot \cup {NULL}]
      /\ rotable' \in [Slot -> Table \cup {NULL}]
      /\ entry' \in [Slot -> Pair \cup {NULL}]
  BY <1>1, PutSound
<1>3. order' \in [Slot -> Slot]
  BY <1>1, FrontOrder
<1>4. \A u \in Task : u # t =>
        pc'[u] = pc[u] /\ want'[u] = want[u] /\ cursor'[u] = cursor[u]
  BY <1>1 DEF Found, Return, TypeOK
<1>5. \A u \in Task : moved'[u] = Counted(u)
  BY DEF Found
<1>6. \A u \in Task : u # t =>
        /\ moved'[u] \in 0 .. Length
        /\ pc'[u] = "read" /\ moved'[u] < Length =>
             /\ entry'[cursor'[u]] = want'[u]
             /\ \E j \in 1 .. moved'[u] + 1 : order'[j] = cursor'[u]
  BY <1>1, <1>4, <1>5, OthersSound
<1>7. pc'[t] = "idle"
  BY <1>1 DEF Found, Return, TypeOK
<1>8. TypeOK'
  <2>1. moved' \in [Task -> 0 .. Length]
    <3>1. moved'[t] \in 0 .. Length
      BY <1>1, <1>5 DEF Counted, TypeOK, Found
    <3> QED
      BY <3>1, <1>6 DEF Found
  <2>2. pc' \in [Task -> {"idle", "walk", "read", "search"}]
    BY <1>1 DEF Found, Return, TypeOK
  <2>3. /\ want' \in [Task -> Pair \cup {NULL}]
        /\ cursor' \in [Task -> Slot \cup {NULL}]
        /\ lock' \in Task \cup {NULL}
    BY <1>1 DEF Found, Return, TypeOK
  <2> QED
    BY <1>2, <1>3, <2>1, <2>2, <2>3 DEF TypeOK
<1>9. RightUntilOverrun'
  BY <1>6, <1>7 DEF RightUntilOverrun
<1>10. Recency'
  <2>1. lock = NULL /\ lock' = NULL /\ \A u \in Task : pc'[u] # "walk"
    BY <1>1, <1>4, <1>7 DEF Found, Recency
  <2>2. \A u \in Task : pc'[u] # "idle" => want'[u] \in Pair
    BY <1>1, <1>4, <1>7 DEF Recency
  <2>3. \A u \in Task : pc'[u] = "read" => cursor'[u] \in Slot
    BY <1>1, <1>4, <1>7 DEF Recency
  <2> QED
    BY <1>6, <1>7, <2>1, <2>2, <2>3 DEF Recency
<1> QED
  BY <1>2, <1>8, <1>9, <1>10 DEF CacheSound

\* The other steps leave the list and the cached entries alone.
LEMMA QuietSound ==
  ASSUME CacheSound, NEW t \in Task,
         \/ Walk(t) \/ Read(t) \/ Miss(t) \/ NotFound(t)
         \/ \E p \in Pair : Enter(t, p)
  PROVE  CacheSound'
<1> USE CacheAssumption
<1>1. TypeOK /\ ListSound /\ CachedHeld /\ RightUntilOverrun /\ Recency
  BY DEF CacheSound
<1>2. /\ UNCHANGED <<first, last, next, previous, rotable, entry, order>>
      /\ moved' \in {moved, [moved EXCEPT ![t] = 0]}
      /\ \A u \in Task : u # t =>
           /\ pc'[u] = pc[u] /\ want'[u] = want[u] /\ cursor'[u] = cursor[u]
           /\ moved'[u] = moved[u]
  BY <1>1 DEF Walk, Read, Miss, NotFound, Enter, Return, links, TypeOK
<1>3. ListSound' /\ CachedHeld'
  BY <1>1, <1>2 DEF ListSound, CachedHeld
<1>4. pc'[t] # "read"
  BY <1>1 DEF Walk, Read, Miss, NotFound, Enter, Return, TypeOK
<1>5. RightUntilOverrun'
  BY <1>1, <1>2, <1>4 DEF RightUntilOverrun
<1>6. TypeOK'
  <2>1. moved' \in [Task -> 0 .. Length]
    BY <1>1, <1>2 DEF TypeOK
  <2>2. cursor' \in [Task -> Slot \cup {NULL}]
    BY <1>1 DEF Walk, Read, Miss, NotFound, Enter, Return, TypeOK
  <2>3. want' \in [Task -> Pair \cup {NULL}]
    BY <1>1 DEF Walk, Read, Miss, NotFound, Enter, Return, TypeOK
  <2>4. pc' \in [Task -> {"idle", "walk", "read", "search"}]
    BY <1>1 DEF Walk, Read, Miss, NotFound, Enter, Return, TypeOK
  <2>5. lock' \in Task \cup {NULL}
    BY <1>1 DEF Walk, Read, Miss, NotFound, Enter, Return, TypeOK
  <2> QED
    BY <1>1, <1>2, <2>1, <2>2, <2>3, <2>4, <2>5 DEF TypeOK
<1>7. Recency'
  <2>1. /\ lock' \in {NULL} \cup {u \in Task : pc'[u] = "walk"}
        /\ \A u \in Task : pc'[u] = "walk" => lock' = u
    <3>1. pc \in [Task -> {"idle", "walk", "read", "search"}] /\ NULL \notin Task
      BY <1>1 DEF TypeOK
    <3> QED
      BY <1>1, <1>2, <3>1 DEF Walk, Read, Miss, NotFound, Enter, Return, Recency
  <2>2. pc'[t] # "idle" => want'[t] \in Pair
    BY <1>1 DEF Walk, Read, Miss, NotFound, Enter, Return, Recency, TypeOK
  <2> QED
    BY <1>1, <1>2, <1>4, <2>1, <2>2 DEF Recency
<1> QED
  BY <1>1, <1>3, <1>5, <1>6, <1>7 DEF CacheSound

\* CacheSound is an invariant of the cache.
THEOREM CacheInvariant == Spec => []CacheSound
<1>1. CacheSound /\ [Next]_vars => CacheSound'
  <2>1. ASSUME CacheSound, UNCHANGED vars
        PROVE  CacheSound'
    BY <2>1 DEF vars, CacheSound, TypeOK, ListSound, CachedHeld,
       RightUntilOverrun, Recency
  <2>2. ASSUME CacheSound, Next
        PROVE  CacheSound'
    BY <2>2, HitSound, FoundSound, QuietSound DEF Next, Step
  <2> QED
    BY <2>1, <2>2
<1> QED
  BY InitSound, <1>1, PTL DEF Spec

\* The variables of the cache and of its lookups keep their types: in
\* particular last and the pointers followed by rotable_cache_put are entries.
THEOREM TypesKept == Spec => []TypeOK
  BY CacheInvariant, PTL DEF CacheSound

\* For every number of entries the list stays one list of all of them, in both
\* directions, whatever is promoted and recycled.
THEOREM ListStaysSound == Spec => []ListSound
  BY CacheInvariant, PTL DEF CacheSound

\* What the cache holds for a table is in that table.
THEOREM CacheHoldsTableEntries == Spec => []CachedHeld
  BY CacheInvariant, PTL DEF CacheSound

\* A hit read after the critical section is right until Length other lookups
\* have changed the order.
THEOREM HitRightUntilOverrun == Spec => []RightUntilOverrun
  BY CacheInvariant, PTL DEF CacheSound

\* Every step of the cache is a step of LruCache or leaves it alone.
LEMMA StepRefines ==
  ASSUME CacheSound, CacheSound', [Next]_vars
  PROVE  [Lru!Next]_Cached
<1> USE CacheAssumption
<1>0. order \in [Slot -> Slot] /\ entry \in [Slot -> Pair \cup {NULL}]
  BY DEF CacheSound, TypeOK
<1>1. ASSUME NEW t \in Task, Hit(t)
      PROVE  Lru!Next
  <2>1. PICK i \in Slot : order[i] = cursor[t] /\ ToFront(i)
    BY <1>1 DEF Hit
  <2>2. /\ \A j \in Slot : From(i, j) \in Slot /\ order'[j] = order[From(i, j)]
        /\ entry' = entry
    BY <1>1, <2>1, FrontOrder DEF CacheSound, Hit
  <2>3. Cached[i] \in Pair
    <3>1. Matches(cursor[t], want[t]) /\ want[t] \in Pair /\ cursor[t] \in Slot
      BY <1>1, <2>1, <1>0 DEF Hit, CacheSound, Recency
    <3>2. rotable[cursor[t]] # NULL
      BY <3>1 DEF Matches, Pair
    <3> QED
      BY <2>1, <3>1, <3>2 DEF CacheSound, CachedHeld, Cached
  <2>4. Cached' = [j \in 1 .. Length |->
                     CASE j = 1 -> Cached[i]
                       [] j \in 2 .. i -> Cached[j - 1]
                       [] OTHER -> Cached[j]]
    <3>1. \A j \in Slot : Cached'[j] = Cached[From(i, j)]
      BY <2>2 DEF Cached
    <3>2. \A j \in Slot : Cached[From(i, j)] = CASE j = 1 -> Cached[i]
                                                 [] j \in 2 .. i -> Cached[j - 1]
                                                 [] OTHER -> Cached[j]
      BY DEF From, Slot
    <3>3. Cached' = [j \in Slot |-> Cached'[j]]
      BY DEF Cached
    <3> QED
      BY <3>1, <3>2, <3>3 DEF Slot
  <2>5. i \in 1 .. Length
    BY DEF Slot
  <2>6. \E k \in 1 .. Length :
          /\ Cached[k] \in Pair
          /\ Cached' = [j \in 1 .. Length |->
                          CASE j = 1 -> Cached[k]
                            [] j \in 2 .. k -> Cached[j - 1]
                            [] OTHER -> Cached[j]]
    BY <2>3, <2>4, <2>5
  <2> QED
    BY <2>6 DEF Lru!Next, Lru!Touch
<1>2. ASSUME NEW t \in Task, Found(t)
      PROVE  Lru!Next
  <2>1. /\ want[t] \in Pair /\ ToFront(Length) /\ Length \in Slot
        /\ entry' = [entry EXCEPT ![last] = want[t]] /\ last = order[Length]
        /\ \A j, k \in Slot : order[j] = order[k] => j = k
    BY <1>2 DEF Found, Put, CacheSound, Recency, ListSound, Slot
  <2>2. \A j \in Slot : From(Length, j) \in Slot
                        /\ order'[j] = order[From(Length, j)]
    BY <2>1, FrontOrder DEF CacheSound
  <2>3. Cached' = [j \in 1 .. Length |-> IF j = 1 THEN want[t] ELSE Cached[j - 1]]
    <3>1. \A j \in Slot : Cached'[j] = entry'[order[From(Length, j)]]
      BY <2>2 DEF Cached
    <3>2. \A j \in Slot : j # 1 => From(Length, j) = j - 1 /\ j - 1 \in Slot
                                   /\ j - 1 # Length
      BY DEF From, Slot
    <3>3. 1 \in Slot /\ From(Length, 1) = Length
      BY DEF From, Slot
    <3>4. Cached'[1] = want[t]
      BY <3>1, <3>3, <2>1, <1>0
    <3>5. \A j \in Slot : j # 1 => Cached'[j] = Cached[j - 1]
      BY <3>1, <3>2, <2>1, <1>0 DEF Cached
    <3>6. Cached' = [j \in Slot |-> Cached'[j]]
      BY DEF Cached
    <3> QED
      BY <3>4, <3>5, <3>6 DEF Slot
  <2>4. \E p \in Pair :
          Cached' = [j \in 1 .. Length |-> IF j = 1 THEN p ELSE Cached[j - 1]]
    BY <2>1, <2>3
  <2> QED
    BY <2>4 DEF Lru!Next, Lru!Insert
<1>3. ASSUME entry' = entry, order' = order
      PROVE  UNCHANGED Cached
  BY <1>3 DEF Cached
<1>4. ASSUME NEW t \in Task,
             \/ Walk(t) \/ Read(t) \/ Miss(t) \/ NotFound(t)
             \/ \E p \in Pair : Enter(t, p)
      PROVE  entry' = entry /\ order' = order
  BY <1>4 DEF Walk, Read, Miss, NotFound, Enter
<1>5. UNCHANGED vars => entry' = entry /\ order' = order
  BY DEF vars
<1> QED
  BY <1>1, <1>2, <1>3, <1>4, <1>5 DEF Next, Step

\* The cache of read-only tables is an LRU cache, for every length of at least
\* two and any number of tasks.
THEOREM CacheImplementsLru == Spec => ImplementsLru
<1>1. Init => Lru!Init
  BY CacheAssumption DEF Init, Lru!Init, Slot, Cached
<1> QED
  BY <1>1, CacheInvariant, StepRefines, PTL DEF Spec, ImplementsLru, Lru!Spec
=============================================================================
