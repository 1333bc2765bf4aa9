--------------------------- MODULE RamFileProofs ---------------------------
(***************************************************************************)
(* The chain of blocks, the size and the pointers of the handles of a RAM  *)
(* file stay in step, and through its handles the file is a sequence of    *)
(* bytes, for blocks of any size, any number of them, any number of        *)
(* handles and any lengths of the calls, as long as the callers keep the   *)
(* discipline of RamFile.                                                  *)
(*                                                                         *)
(* The proofs need one multiplication only: the offset at which a block    *)
(* begins.  Its laws are lemmas, and it is not expanded elsewhere.         *)
(***************************************************************************)
EXTENDS RamFile, SequenceTheorems, TLAPS

USE RamFileAssumption DEF Mode

\* The callers keep the discipline.
Disciplined == Slips = {}

\* The offset of the first byte behind k blocks.
Begin(k) == k * BlockSize

\* The data of a block.
Block == [0 .. BlockSize - 1 -> Byte]

\* Chain c has the blocks that n bytes call for.
Fits(c, n) ==
  IF n = 0 THEN Len(c) <= 1 /\ (BlockSize = 1 => Len(c) = 0)
  ELSE Begin(Len(c) - 1) < n /\ n <= Begin(Len(c))

-----------------------------------------------------------------------------
(* Arithmetic.                                                             *)

LEMMA BeginLaws ==
  /\ \A k \in Int : Begin(k) \in Int /\ Begin(k + 1) = Begin(k) + BlockSize
  /\ \A k \in Int : Begin(k - 1) = Begin(k) - BlockSize
  /\ \A k \in Nat : Begin(k) \in Nat
  /\ Begin(0) = 0
  /\ Begin(1) = BlockSize
<1>1. \A k \in Int : Begin(k) \in Int /\ Begin(k + 1) = Begin(k) + BlockSize
  BY DEF Begin
<1>2. \A k \in Int : Begin(k - 1) = Begin(k) - BlockSize
  BY DEF Begin
<1>3. \A k \in Nat : Begin(k) \in Nat
  BY DEF Begin
<1>4. Begin(0) = 0 /\ Begin(1) = BlockSize
  BY DEF Begin
<1>. QED  BY <1>1, <1>2, <1>3, <1>4

\* A block begins where those before it end.
LEMMA BeginMono ==
  ASSUME NEW j \in Int, NEW k \in Int, j < k
  PROVE  Begin(j) + BlockSize <= Begin(k)
  BY DEF Begin

\* Division finds the block of an offset and the place in it.
LEMMA Divided ==
  ASSUME NEW o \in Nat
  PROVE  /\ o \div BlockSize \in Nat
         /\ o % BlockSize \in 0 .. BlockSize - 1
         /\ o = Begin(o \div BlockSize) + (o % BlockSize)
<1>1. o \div BlockSize \in Nat
  OBVIOUS
<1>2. o % BlockSize \in 0 .. BlockSize - 1
  OBVIOUS
<1>3. o = Begin(o \div BlockSize) + (o % BlockSize)
  BY DEF Begin
<1>. QED  BY <1>1, <1>2, <1>3

\* And there is no other.
LEMMA DividedOnce ==
  ASSUME NEW o \in Nat, NEW k \in Nat, Begin(k) <= o, o < Begin(k) + BlockSize
  PROVE  o \div BlockSize = k /\ o % BlockSize = o - Begin(k)
<1>. DEFINE q == o \div BlockSize
            r == o % BlockSize
<1>1. q \in Nat /\ r \in 0 .. BlockSize - 1 /\ o = Begin(q) + r
  BY Divided
<1>. HIDE DEF q, r
<1>2. Begin(k) \in Int /\ Begin(q) \in Int
  BY <1>1, BeginLaws
<1>3. ~ (q < k)
  <2>. SUFFICES ASSUME q < k PROVE FALSE
    OBVIOUS
  <2>1. Begin(q) + BlockSize <= Begin(k)
    BY <1>1, BeginMono
  <2>. QED  BY <1>1, <1>2, <2>1
<1>4. ~ (k < q)
  <2>. SUFFICES ASSUME k < q PROVE FALSE
    OBVIOUS
  <2>1. Begin(k) + BlockSize <= Begin(q)
    BY <1>1, BeginMono
  <2>. QED  BY <1>1, <1>2, <2>1
<1>5. q = k
  BY <1>1, <1>3, <1>4
<1>6. r = o - Begin(k)
  BY <1>1, <1>2, <1>5
<1>. QED  BY <1>5, <1>6 DEF q, r

\* How many blocks n bytes need.
LEMMA Needed ==
  ASSUME NEW n \in Nat \ {0}, NEW l \in Nat
  PROVE  l = (n - 1) \div BlockSize + 1 <=> Begin(l - 1) < n /\ n <= Begin(l)
<1>1. n - 1 \in Nat
  OBVIOUS
<1>. DEFINE q == (n - 1) \div BlockSize
            r == (n - 1) % BlockSize
<1>2. q \in Nat /\ r \in 0 .. BlockSize - 1 /\ n - 1 = Begin(q) + r
  BY <1>1, Divided
<1>3. Begin(q) \in Int /\ Begin(q + 1) = Begin(q) + BlockSize
  <2>. HIDE DEF q, r
  <2>1. q \in Int
    BY <1>2
  <2>. QED  BY <2>1, BeginLaws
<1>4. /\ Begin(l - 1) \in Int
      /\ Begin(l) = Begin(l - 1) + BlockSize
  <2>1. l \in Int /\ l - 1 \in Int
    OBVIOUS
  <2>2. Begin(l) \in Int /\ Begin(l - 1) \in Int
    BY <2>1, BeginLaws
  <2>3. Begin(l - 1) = Begin(l) - BlockSize
    BY <2>1, BeginLaws
  <2>. QED  BY <2>2, <2>3
<1>5. ASSUME Begin(l - 1) < n, n <= Begin(l)
      PROVE  l = q + 1
  <2>1. l - 1 \in Nat
    <3>1. Begin(0) = 0
      BY BeginLaws
    <3>2. l # 0
      BY <1>5, <3>1
    <3>. QED  BY <3>2
  <2>2. Begin(l - 1) <= n - 1 /\ n - 1 < Begin(l - 1) + BlockSize
    BY <1>4, <1>5
  <2>3. q = l - 1
    BY <1>1, <2>1, <2>2, DividedOnce
  <2>. QED  BY <2>1, <2>3
<1>6. ASSUME l = q + 1
      PROVE  Begin(l - 1) < n /\ n <= Begin(l)
  <2>. HIDE DEF q, r
  <2>1. l - 1 = q
    BY <1>2, <1>6
  <2>. QED  BY <1>2, <1>3, <1>6, <2>1
<1>. QED  BY <1>5, <1>6

\* The invariant in terms of where blocks begin.
LEMMA SizeFits ==
  ASSUME FileSound
  PROVE  Fits(chain, size)
<1>1. size \in Nat /\ Len(chain) \in Nat /\ chain \in Seq(Block)
  BY DEF FileSound, BlocksFitSize, TypeOK, Block
<1>2. CASE size = 0
  BY <1>1, <1>2, EmptySeq DEF FileSound, BlocksFitSize, Fits
<1>3. CASE size # 0
  BY <1>1, <1>3, Needed DEF FileSound, BlocksFitSize, Fits
<1>. QED  BY <1>2, <1>3

\* The same the other way.
LEMMA FitsSize ==
  ASSUME NEW c \in Seq(Block), NEW n \in Nat, Fits(c, n), Len(c) <= MaxBlocks
  PROVE  /\ IF n = 0 THEN Len(c) <= 1 ELSE Len(c) = (n - 1) \div BlockSize + 1
         /\ n \in 0 .. MaxBlocks * BlockSize + MaxOffset
         /\ n = 0 /\ BlockSize = 1 => c = <<>>
<1>1. Len(c) \in Nat
  OBVIOUS
<1>2. CASE n = 0
  <2>1. MaxBlocks * BlockSize \in Nat
    OBVIOUS
  <2>. QED  BY <1>1, <1>2, <2>1, EmptySeq DEF Fits
<1>3. CASE n # 0
  <2>1. Begin(Len(c) - 1) < n /\ n <= Begin(Len(c))
    BY <1>3 DEF Fits
  <2>2. Len(c) = (n - 1) \div BlockSize + 1
    BY <1>1, <1>3, <2>1, Needed
  <2>3. Begin(Len(c)) <= Begin(MaxBlocks)
    <3>1. Begin(Len(c)) \in Int /\ Begin(MaxBlocks) \in Int
      BY <1>1, BeginLaws
    <3>2. CASE Len(c) < MaxBlocks
      BY <1>1, <3>1, <3>2, BeginMono
    <3>. QED  BY <1>1, <3>1, <3>2
  <2>4. Begin(Len(c)) \in Nat /\ MaxBlocks * BlockSize \in Nat
    BY <1>1, BeginLaws
  <2>5. n <= MaxBlocks * BlockSize
    BY <2>1, <2>3, <2>4 DEF Begin
  <2>6. n \in 0 .. MaxBlocks * BlockSize + MaxOffset
    BY <2>4, <2>5
  <2>. QED  BY <1>3, <2>2, <2>6
<1>. QED  BY <1>2, <1>3

-----------------------------------------------------------------------------
(* Truncation.                                                             *)

\* The blocks counted by the division in C, for n bytes.
LEMMA CDivFits ==
  ASSUME NEW n \in Nat
  PROVE  /\ CDiv(n - 1, BlockSize) \in Int
         /\ n = 0 => CDiv(n - 1, BlockSize) = IF BlockSize = 1 THEN -1 ELSE 0
         /\ n # 0 => LET l == CDiv(n - 1, BlockSize) + 1
                     IN  l \in Nat \ {0} /\ Begin(l - 1) < n /\ n <= Begin(l)
<1>1. CASE n = 0
  <2>1. CDiv(n - 1, BlockSize) = -(1 \div BlockSize)
    BY <1>1 DEF CDiv
  <2>2. 1 \div BlockSize = IF BlockSize = 1 THEN 1 ELSE 0
    <3>1. CASE BlockSize = 1
      BY <3>1
    <3>2. CASE BlockSize # 1
      <4>1. Begin(0) = 0
        BY BeginLaws
      <4>2. Begin(0) <= 1 /\ 1 < Begin(0) + BlockSize
        BY <3>2, <4>1
      <4>. QED  BY <3>2, <4>2, DividedOnce
    <3>. QED  BY <3>1, <3>2
  <2>. QED  BY <1>1, <2>1, <2>2
<1>2. CASE n # 0
  <2>. DEFINE q == (n - 1) \div BlockSize
  <2>1. CDiv(n - 1, BlockSize) = q
    BY <1>2 DEF CDiv
  <2>2. q \in Nat
    <3>1. n - 1 \in Nat
      BY <1>2
    <3>. QED  BY <3>1, Divided
  <2>3. q + 1 \in Nat \ {0} /\ Begin(q) < n /\ n <= Begin(q + 1)
    <3>1. q + 1 \in Nat /\ q + 1 # 0 /\ q + 1 - 1 = q
      <4>. HIDE DEF q
      <4>. QED  BY <2>2
    <3>2. Begin(q + 1 - 1) < n /\ n <= Begin(q + 1)
      BY <1>2, <3>1, Needed
    <3>. QED  BY <3>1, <3>2
  <2>. HIDE DEF q
  <2>4. q + 1 - 1 = q
    BY <2>2
  <2>. QED  BY <1>2, <2>1, <2>2, <2>3, <2>4
<1>. QED  BY <1>1, <1>2

\* Adding or removing the difference gives the number of blocks the new size
\* calls for, and the discipline adds one at most.
LEMMA DeltaFits ==
  ASSUME FileSound, Disciplined, NEW n \in Nat, MayTruncate(n)
  PROVE  LET l == Len(chain) + BlockDelta(n)
         IN  /\ BlockDelta(n) \in Int /\ BlockDelta(n) <= 1
             /\ l \in Nat
             /\ IF n = 0 THEN l <= 1 /\ (BlockSize = 1 => l = 0)
                ELSE Begin(l - 1) < n /\ n <= Begin(l)
<1>. DEFINE new == CDiv(n - 1, BlockSize)
            old == CDiv(size - 1, BlockSize)
            l == Len(chain) + BlockDelta(n)
<1>1. chain \in Seq(Block) /\ Len(chain) \in Nat /\ size \in Nat
  BY DEF FileSound, BlocksFitSize, TypeOK, Block
<1>2. Fits(chain, size)
  BY SizeFits
<1>3. /\ new \in Int
      /\ n = 0 => new = IF BlockSize = 1 THEN -1 ELSE 0
      /\ n # 0 => /\ new + 1 \in Nat \ {0}
                  /\ Begin(new + 1 - 1) < n /\ n <= Begin(new + 1)
  BY CDivFits
<1>4. old \in Int /\ (size = 0 => old = IF BlockSize = 1 THEN -1 ELSE 0)
  BY <1>1, CDivFits
<1>5. size # 0 => old = Len(chain) - 1
  <2>1. size # 0 => old = (size - 1) \div BlockSize
    BY <1>1 DEF CDiv
  <2>2. size # 0 => Len(chain) = (size - 1) \div BlockSize + 1
    BY DEF FileSound, BlocksFitSize
  <2>3. size # 0 => (size - 1) \div BlockSize \in Nat
    <3>1. size # 0 => size - 1 \in Nat
      BY <1>1
    <3>. QED  BY <3>1, Divided
  <2>. QED  BY <2>1, <2>2, <2>3
<1>6. BlockDelta(n) = new - old
  BY DEF BlockDelta
<1>7. n <= size \/ (chain # <<>> /\ BlockDelta(n) <= 1)
  BY DEF MayTruncate, Disciplined
<1>8. chain # <<>> => Len(chain) # 0
  BY <1>1, EmptySeq
<1>9. size # 0 => Len(chain) # 0
  BY <1>1, <1>2, BeginLaws DEF Fits
<1>. HIDE DEF new, old
<1>10. CASE n = 0
  <2>1. CASE size = 0
    BY <1>1, <1>2, <1>3, <1>4, <1>6, <1>10, <2>1 DEF Fits
  <2>2. CASE size # 0
    BY <1>1, <1>3, <1>4, <1>5, <1>6, <1>9, <1>10, <2>2
  <2>. QED  BY <2>1, <2>2
<1>11. CASE n # 0
  <2>1. l = new + 1
    <3>1. CASE size = 0
      <4>1. Len(chain) = 1 /\ BlockSize # 1
        <5>1. ~ (n <= size)
          BY <1>11, <3>1
        <5>2. Len(chain) # 0
          BY <1>7, <1>8, <5>1
        <5>3. Len(chain) <= 1 /\ (BlockSize = 1 => Len(chain) = 0)
          BY <1>2, <3>1 DEF Fits
        <5>4. Len(chain) \in Nat
          BY <1>1
        <5>. DEFINE k == Len(chain)
        <5>5. k \in Nat /\ k # 0 /\ k <= 1
          BY <5>2, <5>3, <5>4
        <5>. HIDE DEF k
        <5>6. k = 1
          BY <5>5
        <5>. QED  BY <5>3, <5>6 DEF k
      <4>. QED  BY <1>3, <1>4, <1>6, <3>1, <4>1
    <3>2. CASE size # 0
      BY <1>1, <1>3, <1>4, <1>5, <1>6, <3>2
    <3>. QED  BY <3>1, <3>2
  <2>2. BlockDelta(n) <= 1
    <3>1. CASE n <= size
      <4>1. size # 0 /\ size <= Begin(Len(chain)) /\ Begin(new + 1 - 1) < n
        BY <1>1, <1>2, <1>3, <1>11, <3>1 DEF Fits
      <4>2. new \in Int /\ Len(chain) \in Int
        BY <1>1, <1>3
      <4>3. Begin(new) \in Int /\ Begin(Len(chain)) \in Int
        BY <4>2, BeginLaws
      <4>4. Begin(new) < Begin(Len(chain))
        <5>1. new + 1 - 1 = new
          BY <4>2
        <5>. QED  BY <1>1, <3>1, <4>1, <4>3, <5>1
      <4>5. ~ (Len(chain) < new)
        <5>. SUFFICES ASSUME Len(chain) < new PROVE FALSE
          OBVIOUS
        <5>1. Begin(Len(chain)) + BlockSize <= Begin(new)
          BY <4>2, BeginMono
        <5>. QED  BY <4>3, <4>4, <5>1
      <4>. QED  BY <1>1, <1>3, <1>5, <1>6, <4>1, <4>2, <4>5
    <3>2. CASE ~ (n <= size)
      BY <1>7, <3>2
    <3>. QED  BY <3>1, <3>2
  <2>3. BlockDelta(n) \in Int
    BY <1>3, <1>4, <1>6
  <2>. HIDE DEF l
  <2>4. l \in Nat /\ Begin(l - 1) < n /\ n <= Begin(l)
    BY <1>3, <1>11, <2>1
  <2>. QED  BY <1>11, <2>2, <2>3, <2>4 DEF l
<1>. QED  BY <1>10, <1>11

\* What a truncation to n leaves: the right number of blocks, the first ones
\* as they were.
LEMMA ResizedSound ==
  ASSUME FileSound, Disciplined, NEW n \in Nat, MayTruncate(n)
  PROVE  /\ Resized(n) \in Seq(Block)
         /\ Len(Resized(n)) = Len(chain) + BlockDelta(n)
         /\ Fits(Resized(n), n)
         /\ \A i \in 1 .. Len(Resized(n)) :
              i <= Len(chain) => Resized(n)[i] = chain[i]
<1>. DEFINE d == BlockDelta(n)
            l == Len(chain) + d
<1>1. /\ d \in Int /\ d <= 1
      /\ l \in Nat
      /\ IF n = 0 THEN l <= 1 /\ (BlockSize = 1 => l = 0)
         ELSE Begin(l - 1) < n /\ n <= Begin(l)
  BY DeltaFits
<1>2. chain \in Seq(Block) /\ Len(chain) \in Nat
  BY DEF FileSound, BlocksFitSize, TypeOK, Block
<1>3. EmptyBlock \in Block
  BY DEF EmptyBlock, Block
<1>4. Resized(n) = IF d <= 0 THEN SubSeq(chain, 1, l) ELSE chain \o EmptyBlocks(d)
  BY DEF Resized
<1>. HIDE DEF d
<1>5. /\ Resized(n) \in Seq(Block)
      /\ Len(Resized(n)) = l
      /\ \A i \in 1 .. Len(Resized(n)) :
           i <= Len(chain) => Resized(n)[i] = chain[i]
  <2>1. CASE d <= 0
    <3>1. l <= Len(chain)
      BY <1>1, <1>2, <2>1
    <3>2. Resized(n) = SubSeq(chain, 1, l)
      BY <1>4, <2>1
    <3>. HIDE DEF l
    <3>. QED  BY <1>1, <1>2, <3>1, <3>2
  <2>2. CASE ~ (d <= 0)
    <3>1. d \in Nat
      BY <1>1, <2>2
    <3>2. /\ EmptyBlocks(d) \in Seq(Block)
          /\ Len(EmptyBlocks(d)) = d
      BY <1>3, <3>1 DEF EmptyBlocks
    <3>3. Resized(n) = chain \o EmptyBlocks(d)
      BY <1>4, <2>2
    <3>. HIDE DEF l
    <3>4. chain \o EmptyBlocks(d) \in Seq(Block)
      BY <1>2, <3>2
    <3>5. Len(chain \o EmptyBlocks(d)) = Len(chain) + d
      BY <1>2, <3>1, <3>2
    <3>6. \A i \in 1 .. Len(chain) : (chain \o EmptyBlocks(d))[i] = chain[i]
      BY <1>2, <3>1, <3>2
    <3>. QED  BY <1>2, <3>1, <3>3, <3>4, <3>5, <3>6 DEF l
  <2>. QED  BY <2>1, <2>2
<1>6. Fits(Resized(n), n)
  BY <1>1, <1>5 DEF Fits
<1>. QED  BY <1>5, <1>6 DEF d

\* Emptying a file is always allowed.
LEMMA MayEmpty == FileSound => MayTruncate(0)
  BY DEF FileSound, BlocksFitSize, TypeOK, MayTruncate

\* It adds no block.
LEMMA EmptiedShorter ==
  ASSUME FileSound, Disciplined
  PROVE  Len(Resized(0)) <= Len(chain)
<1>1. /\ Resized(0) \in Seq(Block)
      /\ Len(Resized(0)) = Len(chain) + BlockDelta(0)
      /\ Fits(Resized(0), 0)
  BY MayEmpty, ResizedSound
<1>2. chain \in Seq(Block) /\ size \in Nat
  BY DEF FileSound, BlocksFitSize, TypeOK, Block
<1>3. Len(Resized(0)) <= 1
  BY <1>1 DEF Fits
<1>4. Len(Resized(0)) \in Nat /\ Len(chain) \in Nat
  BY <1>1, <1>2
<1>5. CASE Len(chain) = 0
  <2>1. Begin(0) = 0
    BY BeginLaws
  <2>2. size = 0
    BY <1>2, <1>5, <2>1, SizeFits DEF Fits
  <2>3. BlockDelta(0) = 0
    BY <2>2, CDivFits DEF BlockDelta
  <2>. QED  BY <1>1, <1>4, <2>3
<1>6. CASE Len(chain) # 0
  BY <1>3, <1>4, <1>6
<1>. QED  BY <1>5, <1>6

-----------------------------------------------------------------------------
(* The pointers of the handles.                                            *)

\* Pointer b, p is where offset o is in chain c.
Points(c, o, b, p) ==
  \/ b = 0 /\ o >= Begin(Len(c))
  \/ b \in 1 .. Len(c) /\ o = Begin(b - 1) + p

\* ramfs_file_seek_internal sets a pointer that is right.
LEMMA SeekSound ==
  ASSUME FileSound, NEW h \in Handle, NEW c \in Seq(Block), NEW o \in Nat,
         Len(c) <= MaxBlocks, SeekTo(h, c, o)
  PROVE  /\ offset' \in [Handle -> Nat]
         /\ block' \in [Handle -> 0 .. MaxBlocks]
         /\ ptr' \in [Handle -> 0 .. BlockSize]
         /\ Points(c, o, block'[h], ptr'[h])
         /\ offset'[h] = o
         /\ \A g \in Handle \ {h} :
              /\ offset'[g] = offset[g]
              /\ block'[g] = block[g]
              /\ ptr'[g] = ptr[g]
<1>. DEFINE q == o \div BlockSize
            r == o % BlockSize
            b == BlockAt(c, o)
            p == IF b = 0 THEN 0 ELSE r
<1>1. q \in Nat /\ r \in 0 .. BlockSize - 1 /\ o = Begin(q) + r
  BY Divided
<1>2. b = IF q < Len(c) THEN q + 1 ELSE 0
  BY DEF BlockAt
<1>3. /\ offset' = [offset EXCEPT ![h] = o]
      /\ block' = [block EXCEPT ![h] = b]
      /\ ptr' = [ptr EXCEPT ![h] = p]
  BY DEF SeekTo
<1>. HIDE DEF q, r, b
<1>4. b \in 0 .. MaxBlocks /\ p \in 0 .. BlockSize
  BY <1>1, <1>2
<1>5. Points(c, o, b, p)
  <2>1. CASE q < Len(c)
    <3>1. b \in 1 .. Len(c) /\ b - 1 = q /\ b # 0
      BY <1>1, <1>2, <2>1
    <3>. QED  BY <1>1, <3>1 DEF Points
  <2>2. CASE ~ (q < Len(c))
    <3>1. b = 0 /\ Len(c) <= q /\ Len(c) \in Int
      BY <1>1, <1>2, <2>2
    <3>2. Begin(Len(c)) \in Int /\ Begin(q) \in Int
      BY <1>1, <3>1, BeginLaws
    <3>3. Begin(Len(c)) <= Begin(q)
      <4>1. CASE Len(c) < q
        BY <1>1, <3>1, <3>2, <4>1, BeginMono
      <4>. QED  BY <1>1, <3>1, <3>2, <4>1
    <3>4. o >= Begin(Len(c))
      BY <1>1, <3>2, <3>3
    <3>. QED  BY <3>1, <3>4 DEF Points
  <2>. QED  BY <2>1, <2>2
<1>. HIDE DEF p
<1>6. /\ offset \in [Handle -> Nat]
      /\ block \in [Handle -> 0 .. MaxBlocks]
      /\ ptr \in [Handle -> 0 .. BlockSize]
  BY DEF FileSound, BlocksFitSize, TypeOK
<1>. QED  BY <1>3, <1>4, <1>5, <1>6

-----------------------------------------------------------------------------
(* The inductive invariant once more, in terms of Begin.                   *)

Typed ==
  /\ chain \in Seq(Block) /\ Len(chain) <= MaxBlocks
  /\ size \in Nat
  /\ mode \in [Handle -> Mode \cup {NULL}]
  /\ app \in [Handle -> BOOLEAN]
  /\ offset \in [Handle -> Nat]
  /\ block \in [Handle -> 0 .. MaxBlocks]
  /\ ptr \in [Handle -> 0 .. BlockSize]
  /\ lock \in Handle \cup {NULL}
  /\ call \in {"none", "read", "write"}
  /\ left \in 0 .. MaxCount
  /\ got \in [Handle -> Byte \cup {NULL}]

Pointed ==
  \A h \in Handle :
    mode[h] # NULL => Points(chain, offset[h], block[h], ptr[h])

Kept ==
  /\ Typed
  /\ Fits(chain, size)
  /\ Pointed
  /\ OneWriter
  /\ CallSound
  /\ \A h \in Handle : mode[h] = NULL => got[h] = NULL

\* It says the same.
LEMMA KeptIsSound == Kept <=> FileSound
<1>1. ASSUME FileSound PROVE Kept
  <2>1. Fits(chain, size)
    BY <1>1, SizeFits
  <2>2. Typed
    BY <1>1 DEF FileSound, BlocksFitSize, TypeOK, Typed, Block
  <2>3. Pointed
    BY <1>1 DEF FileSound, HandleSound, Pointed, Points, Begin
  <2>. QED  BY <1>1, <2>1, <2>2, <2>3 DEF FileSound, Kept
<1>2. ASSUME Kept PROVE FileSound
  <2>1. chain \in Seq(Block) /\ size \in Nat /\ Len(chain) <= MaxBlocks
    BY <1>2 DEF Kept, Typed
  <2>2. /\ IF size = 0 THEN Len(chain) <= 1
           ELSE Len(chain) = (size - 1) \div BlockSize + 1
        /\ size \in 0 .. MaxBlocks * BlockSize + MaxOffset
        /\ size = 0 /\ BlockSize = 1 => chain = <<>>
    BY <1>2, <2>1, FitsSize DEF Kept
  <2>3. TypeOK
    BY <1>2, <2>2 DEF Kept, Typed, TypeOK, Block
  <2>4. HandleSound
    BY <1>2 DEF Kept, HandleSound, Pointed, Points, Begin
  <2>. QED  BY <1>2, <2>2, <2>3, <2>4 DEF FileSound, BlocksFitSize, Kept
<1>. QED  BY <1>1, <1>2

\* A new file.
LEMMA InitKept == Init => Kept
<1>. SUFFICES ASSUME Init PROVE Kept
  OBVIOUS
<1>1. Typed
  BY DEF Init, Typed, Mode
<1>2. Fits(chain, size)
  BY DEF Init, Fits
<1>. QED
  BY <1>1, <1>2 DEF Init, Kept, Pointed, OneWriter, CallSound

\* ramfs_file_open.
LEMMA OpenKept ==
  ASSUME Kept, Disciplined, NEW h \in Handle, NEW m \in Mode,
         NEW trunc \in BOOLEAN, NEW toEnd \in BOOLEAN, Open(h, m, trunc, toEnd)
  PROVE  Kept'
<1>. DEFINE empties == trunc /\ m \in {"wronly", "rdwr"}
            c == IF empties THEN Resized(0) ELSE chain
            s == IF empties THEN 0 ELSE size
            o == IF toEnd THEN s ELSE 0
<1>1. FileSound
  BY KeptIsSound
<1>2. /\ Resized(0) \in Seq(Block) /\ Fits(Resized(0), 0)
      /\ Len(Resized(0)) = Len(chain) + BlockDelta(0)
  BY <1>1, MayEmpty, ResizedSound
<1>3. /\ lock = NULL
      /\ mode[h] = NULL
      /\ MayOpen(m)
      /\ mode' = [mode EXCEPT ![h] = m]
      /\ app' = [app EXCEPT ![h] = toEnd]
      /\ chain' = c
      /\ size' = s
      /\ SeekTo(h, c, o)
      /\ UNCHANGED <<lock, call, left, got>>
  BY DEF Open
<1>. HIDE DEF empties
<1>4. c \in Seq(Block) /\ s \in Nat /\ o \in Nat /\ Fits(c, s)
  BY <1>2 DEF Kept, Typed
<1>5. Len(c) <= MaxBlocks
  <2>1. CASE ~empties
    BY <2>1 DEF Kept, Typed
  <2>2. CASE empties
    <3>1. Len(c) <= Len(chain) /\ Len(chain) <= MaxBlocks
      BY <1>1, <2>2, EmptiedShorter DEF Kept, Typed
    <3>2. Len(c) \in Nat /\ Len(chain) \in Nat
      BY <1>4 DEF Kept, Typed
    <3>. QED  BY <3>1, <3>2
  <2>. QED  BY <2>1, <2>2
<1>6. empties => \A g \in Handle : mode[g] = NULL
  BY DEF MayOpen, Disciplined, empties, Open
<1>7. \A g \in Handle : g # h /\ mode[g] # NULL => mode[g] = "rdonly" /\ m = "rdonly"
  BY DEF MayOpen, Disciplined, Open, Kept, Typed, Mode
<1>8. ~empties => c = chain
  OBVIOUS
<1>. HIDE DEF c, s, o
<1>9. /\ offset' \in [Handle -> Nat]
      /\ block' \in [Handle -> 0 .. MaxBlocks]
      /\ ptr' \in [Handle -> 0 .. BlockSize]
      /\ Points(c, o, block'[h], ptr'[h])
      /\ offset'[h] = o
      /\ \A g \in Handle \ {h} :
           /\ offset'[g] = offset[g]
           /\ block'[g] = block[g]
           /\ ptr'[g] = ptr[g]
  BY <1>1, <1>3, <1>4, <1>5, SeekSound
<1>10. /\ \A g \in Handle \ {h} : mode'[g] = mode[g]
       /\ mode'[h] = m
       /\ mode' \in [Handle -> Mode \cup {NULL}]
       /\ app' \in [Handle -> BOOLEAN]
  BY <1>3 DEF Kept, Typed
<1>11. Typed'
  BY <1>3, <1>4, <1>5, <1>9, <1>10 DEF Kept, Typed
<1>12. Fits(chain', size')
  BY <1>3, <1>4
<1>13. Pointed'
  BY <1>3, <1>6, <1>8, <1>9, <1>10 DEF Kept, Pointed
<1>14. OneWriter'
  BY <1>7, <1>10 DEF Kept, OneWriter
<1>15. CallSound'
  BY <1>3 DEF Kept, CallSound
<1>16. \A g \in Handle : mode'[g] = NULL => got'[g] = NULL
  BY <1>3, <1>10 DEF Kept
<1>. QED  BY <1>11, <1>12, <1>13, <1>14, <1>15, <1>16 DEF Kept

\* ramfs_file_close.
LEMMA CloseKept ==
  ASSUME Kept, NEW h \in Handle, Close(h)
  PROVE  Kept'
<1>1. /\ \A g \in Handle \ {h} : mode'[g] = mode[g] /\ offset'[g] = offset[g]
      /\ \A g \in Handle \ {h} : block'[g] = block[g] /\ ptr'[g] = ptr[g]
      /\ \A g \in Handle \ {h} : got'[g] = got[g]
      /\ mode'[h] = NULL /\ got'[h] = NULL
  BY DEF Close, Kept, Typed
<1>2. Typed'
  BY DEF Close, Kept, Typed
<1>3. chain' = chain /\ size' = size /\ lock' = lock /\ call' = call /\ lock = NULL
  BY DEF Close
<1>4. Pointed'
  BY <1>1, <1>3 DEF Kept, Pointed
<1>5. OneWriter'
  BY <1>1 DEF Kept, OneWriter
<1>6. CallSound'
  BY <1>3 DEF Kept, CallSound
<1>7. \A g \in Handle : mode'[g] = NULL => got'[g] = NULL
  BY <1>1 DEF Kept
<1>. QED  BY <1>2, <1>3, <1>4, <1>5, <1>6, <1>7 DEF Kept

\* ramfs_file_seek.
LEMMA SeekKept ==
  ASSUME Kept, NEW h \in Handle, NEW w \in {"set", "cur", "end"}, NEW d \in Int,
         Seek(h, w, d)
  PROVE  Kept'
<1>. DEFINE o == Whence(h, w) + d
<1>1. /\ lock = NULL /\ mode[h] # NULL
      /\ o \in 0 .. MaxOffset
      /\ SeekTo(h, chain, o)
      /\ UNCHANGED <<chain, size, mode, app, lock, call, left, got>>
  BY DEF Seek
<1>. HIDE DEF o
<1>2. FileSound
  BY KeptIsSound
<1>3. o \in Nat /\ chain \in Seq(Block) /\ Len(chain) <= MaxBlocks
  BY <1>1 DEF Kept, Typed
<1>4. /\ offset' \in [Handle -> Nat]
      /\ block' \in [Handle -> 0 .. MaxBlocks]
      /\ ptr' \in [Handle -> 0 .. BlockSize]
      /\ Points(chain, o, block'[h], ptr'[h])
      /\ offset'[h] = o
      /\ \A g \in Handle \ {h} :
           /\ offset'[g] = offset[g]
           /\ block'[g] = block[g]
           /\ ptr'[g] = ptr[g]
  BY <1>1, <1>2, <1>3, SeekSound
<1>5. Typed'
  BY <1>1, <1>4 DEF Kept, Typed
<1>6. Pointed'
  BY <1>1, <1>4 DEF Kept, Pointed
<1>7. OneWriter' /\ CallSound'
  BY <1>1 DEF Kept, OneWriter, CallSound
<1>. QED  BY <1>1, <1>5, <1>6, <1>7 DEF Kept

\* ramfs_file_truncate.
LEMMA TruncateKept ==
  ASSUME Kept, Disciplined, NEW h \in Handle, NEW n \in Nat, Truncate(h, n)
  PROVE  Kept'
<1>. DEFINE c == Resized(n)
<1>1. FileSound
  BY KeptIsSound
<1>2. c \in Seq(Block) /\ Fits(c, n)
  BY <1>1, ResizedSound DEF Truncate
<1>3. /\ lock = NULL /\ Writes(h)
      /\ Len(c) <= MaxBlocks
      /\ chain' = c
      /\ size' = n
      /\ SeekTo(h, c, offset[h])
      /\ UNCHANGED <<mode, app, lock, call, left, got>>
  BY DEF Truncate
<1>. HIDE DEF c
<1>4. \A g \in Handle \ {h} : mode[g] = NULL
  BY <1>3 DEF Kept, OneWriter, Writes
<1>5. offset[h] \in Nat
  BY DEF Kept, Typed
<1>6. /\ offset' \in [Handle -> Nat]
      /\ block' \in [Handle -> 0 .. MaxBlocks]
      /\ ptr' \in [Handle -> 0 .. BlockSize]
      /\ Points(c, offset[h], block'[h], ptr'[h])
      /\ offset'[h] = offset[h]
  BY <1>1, <1>2, <1>3, <1>5, SeekSound
<1>7. Typed'
  BY <1>2, <1>3, <1>6 DEF Kept, Typed
<1>8. Pointed'
  BY <1>3, <1>4, <1>6 DEF Pointed
<1>9. OneWriter' /\ CallSound'
  BY <1>3 DEF Kept, OneWriter, CallSound
<1>. QED  BY <1>2, <1>3, <1>7, <1>8, <1>9 DEF Kept

\* The same when there is no block: the discipline asks for one, so that a
\* failure adds none.
LEMMA TruncateFailsKept ==
  ASSUME Kept, Disciplined, NEW h \in Handle, NEW n \in Nat, TruncateFails(h, n)
  PROVE  UNCHANGED vars
<1>1. FileSound
  BY KeptIsSound
<1>2. BlockDelta(n) \in Int /\ BlockDelta(n) <= 1 /\ BlockDelta(n) > 0
  BY <1>1, DeltaFits DEF TruncateFails
<1>3. BlockDelta(n) - 1 = 0
  BY <1>2
<1>4. /\ chain' = chain \o EmptyBlocks(0)
      /\ block' = [block EXCEPT ![h] = @]
      /\ ptr' = [ptr EXCEPT ![h] = @]
      /\ UNCHANGED <<size, mode, app, offset, lock, call, left, got>>
  <2>1. PICK k \in 0 .. BlockDelta(n) - 1 :
          /\ chain' = chain \o EmptyBlocks(k)
          /\ block' = [block EXCEPT ![h] = IF k = 0 THEN @ ELSE Len(chain) + k]
          /\ ptr' = [ptr EXCEPT ![h] = IF k = 0 THEN @ ELSE 0]
    BY DEF TruncateFails
  <2>2. k = 0
    BY <1>3, <2>1
  <2>. QED  BY <2>1, <2>2 DEF TruncateFails
<1>5. EmptyBlocks(0) = <<>>
  BY DEF EmptyBlocks
<1>6. chain \in Seq(Block)
  BY DEF Kept, Typed
<1>7. chain' = chain
  BY <1>4, <1>5, <1>6, ConcatEmptySeq
<1>8. block' = block /\ ptr' = ptr
  BY <1>4 DEF Kept, Typed
<1>. QED  BY <1>4, <1>7, <1>8 DEF vars

-----------------------------------------------------------------------------
(* Reading and writing.                                                    *)

\* The turn of a loop that finds a block finds the byte at the offset.
LEMMA ByteFound ==
  ASSUME Kept, NEW h \in Handle, mode[h] # NULL,
         NEW b \in 1 .. Len(chain), NEW p,
         b = IF AtBlockEnd(h) THEN NextBlock(h) ELSE block[h],
         p = IF AtBlockEnd(h) THEN 0 ELSE ptr[h]
  PROVE  p \in 0 .. BlockSize - 1 /\ offset[h] = Begin(b - 1) + p
<1>1. /\ ptr[h] \in 0 .. BlockSize /\ block[h] \in 0 .. MaxBlocks
      /\ offset[h] \in Nat /\ Len(chain) \in Nat
  BY DEF Kept, Typed
<1>2. Points(chain, offset[h], block[h], ptr[h])
  BY DEF Kept, Pointed
<1>3. CASE AtBlockEnd(h)
  <2>1. block[h] \in 1 .. Len(chain) - 1 /\ b = block[h] + 1 /\ p = 0
    BY <1>1, <1>3 DEF NextBlock
  <2>2. ptr[h] = BlockSize
    BY <1>1, <1>3, <2>1 DEF AtBlockEnd
  <2>3. offset[h] = Begin(block[h] - 1) + BlockSize
    BY <1>1, <1>2, <2>1, <2>2 DEF Points
  <2>4. block[h] \in Int /\ b - 1 = block[h]
    BY <1>1, <2>1
  <2>5. Begin(block[h]) \in Int /\ Begin(block[h] - 1) = Begin(block[h]) - BlockSize
    BY <2>4, BeginLaws
  <2>6. offset[h] = Begin(b - 1)
    BY <2>3, <2>4, <2>5
  <2>7. Begin(b - 1) + p = Begin(b - 1)
    BY <2>1, <2>4, <2>5
  <2>. QED  BY <2>1, <2>6, <2>7
<1>4. CASE ~AtBlockEnd(h)
  BY <1>1, <1>2, <1>4 DEF AtBlockEnd, Points
<1>. QED  BY <1>3, <1>4

\* One that finds none is behind the last block.
LEMMA NoneFound ==
  ASSUME Kept, NEW h \in Handle, mode[h] # NULL, NeedsBlock(h)
  PROVE  /\ offset[h] >= Begin(Len(chain))
         /\ offset[h] <= size => /\ offset[h] = Begin(Len(chain))
                                 /\ size = Begin(Len(chain))
<1>1. /\ ptr[h] \in 0 .. BlockSize /\ block[h] \in 0 .. MaxBlocks
      /\ offset[h] \in Nat /\ Len(chain) \in Nat /\ size \in Nat
  BY DEF Kept, Typed
<1>2. Points(chain, offset[h], block[h], ptr[h])
  BY DEF Kept, Pointed
<1>3. Begin(Len(chain)) \in Nat
  BY <1>1, BeginLaws
<1>4. offset[h] >= Begin(Len(chain))
  <2>1. CASE block[h] = 0
    BY <1>1, <1>2, <2>1 DEF Points
  <2>2. CASE block[h] # 0
    <3>1. block[h] = Len(chain) /\ ptr[h] = BlockSize
      BY <1>1, <1>2, <2>2 DEF NeedsBlock, AtBlockEnd, NextBlock, Points
    <3>2. offset[h] = Begin(Len(chain) - 1) + BlockSize
      BY <1>2, <2>2, <3>1 DEF Points
    <3>3. Begin(Len(chain) - 1) = Begin(Len(chain)) - BlockSize
      BY <1>1, BeginLaws
    <3>. QED  BY <1>3, <3>2, <3>3
  <2>. QED  BY <2>1, <2>2
<1>5. size <= Begin(Len(chain))
  <2>1. CASE size = 0
    BY <1>3, <2>1
  <2>2. CASE size # 0
    BY <2>2 DEF Kept, Fits
  <2>. QED  BY <2>1, <2>2
<1>. QED  BY <1>1, <1>3, <1>4, <1>5

\* ramfs_file_read and ramfs_file_write, up to the loop.
LEMMA StartKept ==
  ASSUME Kept, Disciplined, NEW h \in Handle, NEW n \in 1 .. MaxCount,
         StartRead(h, n) \/ StartWrite(h, n)
  PROVE  Kept'
<1>1. UNCHANGED <<chain, size, mode, app, offset, block, ptr, got>> /\ lock' = h /\ left' = n
  BY DEF StartRead, StartWrite, Start, file, place
<1>2. \/ call' = "read" /\ Reads(h)
      \/ /\ call' = "write" /\ Writes(h) /\ offset[h] <= size
         /\ app[h] => offset[h] = size
  BY DEF StartRead, StartWrite, Start, MayWrite, Disciplined
<1>3. Typed'
  BY <1>1, <1>2 DEF Kept, Typed
<1>4. Pointed' /\ OneWriter'
  BY <1>1 DEF Kept, Pointed, OneWriter
<1>5. CallSound'
  BY <1>1, <1>2 DEF CallSound, Reads, Writes
<1>. QED  BY <1>1, <1>3, <1>4, <1>5 DEF Kept

\* The ends of the loops.
LEMMA EndKept ==
  ASSUME Kept, NEW h \in Handle, ReadEnd(h) \/ WriteFails(h) \/ WriteEnd(h)
  PROVE  Kept'
<1>1. /\ UNCHANGED <<chain, size, mode, app, offset, got>>
      /\ lock' = NULL /\ call' = "none" /\ left' = 0
  BY DEF ReadEnd, WriteFails, WriteEnd, Leave, file, place
<1>2. \/ UNCHANGED <<block, ptr>>
      \/ /\ block' = [block EXCEPT ![h] = 0]
         /\ ptr' = [ptr EXCEPT ![h] = 0]
         /\ NeedsBlock(h)
  BY DEF ReadEnd, WriteFails, WriteEnd, NeedsBlock, place, Kept, Typed
<1>3. Typed'
  <2>1. block' \in [Handle -> 0 .. MaxBlocks] /\ ptr' \in [Handle -> 0 .. BlockSize]
    <3>1. CASE UNCHANGED <<block, ptr>>
      BY <3>1 DEF Kept, Typed
    <3>2. CASE /\ block' = [block EXCEPT ![h] = 0]
               /\ ptr' = [ptr EXCEPT ![h] = 0]
      BY <3>2 DEF Kept, Typed
    <3>. QED  BY <1>2, <3>1, <3>2
  <2>. QED  BY <1>1, <2>1 DEF Kept, Typed
<1>4. Pointed'
  <2>1. CASE UNCHANGED <<block, ptr>>
    BY <1>1, <2>1 DEF Kept, Pointed
  <2>2. CASE /\ block' = [block EXCEPT ![h] = 0]
             /\ ptr' = [ptr EXCEPT ![h] = 0]
             /\ NeedsBlock(h)
    <3>1. /\ block'[h] = 0
          /\ \A g \in Handle \ {h} : block'[g] = block[g] /\ ptr'[g] = ptr[g]
      BY <2>2 DEF Kept, Typed
    <3>2. mode[h] # NULL => offset[h] >= Begin(Len(chain))
      BY <2>2, NoneFound
    <3>. QED  BY <1>1, <3>1, <3>2 DEF Kept, Pointed, Points
  <2>. QED  BY <1>2, <2>1, <2>2
<1>5. OneWriter' /\ CallSound'
  BY <1>1 DEF Kept, OneWriter, CallSound
<1>. QED  BY <1>1, <1>3, <1>4, <1>5 DEF Kept

\* A turn of the loop of ramfs_file_read.
LEMMA ReadByteKept ==
  ASSUME Kept, NEW h \in Handle, ReadByte(h)
  PROVE  Kept'
<1>. DEFINE b == IF AtBlockEnd(h) THEN NextBlock(h) ELSE block[h]
            p == IF AtBlockEnd(h) THEN 0 ELSE ptr[h]
<1>1. /\ lock = h /\ call = "read" /\ left > 0
      /\ b \in 1 .. Len(chain)
      /\ got' = [got EXCEPT ![h] = chain[b][p]]
      /\ block' = [block EXCEPT ![h] = b]
      /\ ptr' = [ptr EXCEPT ![h] = p + 1]
      /\ offset' = [offset EXCEPT ![h] = @ + 1]
      /\ left' = left - 1
      /\ UNCHANGED <<chain, size, mode, app, lock, call>>
  BY DEF ReadByte
<1>2. mode[h] # NULL
  BY <1>1 DEF Kept, CallSound, Reads
<1>3. p \in 0 .. BlockSize - 1 /\ offset[h] = Begin(b - 1) + p
  BY <1>1, <1>2, ByteFound
<1>. HIDE DEF b, p
<1>4. chain[b][p] \in Byte
  <2>1. chain[b] \in Block
    BY <1>1 DEF Kept, Typed
  <2>. QED  BY <1>3, <2>1 DEF Block
<1>5. Typed'
  <2>1. b \in 0 .. MaxBlocks /\ p + 1 \in 0 .. BlockSize /\ left - 1 \in 0 .. MaxCount
    BY <1>1, <1>3 DEF Kept, Typed
  <2>. QED  BY <1>1, <1>4, <2>1 DEF Kept, Typed
<1>6. Pointed'
  <2>1. /\ block'[h] = b /\ ptr'[h] = p + 1 /\ offset'[h] = offset[h] + 1
        /\ \A g \in Handle \ {h} :
             block'[g] = block[g] /\ ptr'[g] = ptr[g] /\ offset'[g] = offset[g]
    BY <1>1 DEF Kept, Typed
  <2>2. Begin(b - 1) \in Int
    BY <1>1, BeginLaws
  <2>3. offset[h] + 1 = Begin(b - 1) + (p + 1)
    BY <1>3, <2>2
  <2>4. Points(chain, offset'[h], block'[h], ptr'[h])
    BY <1>1, <2>1, <2>3 DEF Points
  <2>. QED  BY <1>1, <2>1, <2>4 DEF Kept, Pointed
<1>7. OneWriter' /\ CallSound'
  BY <1>1 DEF Kept, OneWriter, CallSound, Reads
<1>8. \A g \in Handle : mode'[g] = NULL => got'[g] = NULL
  BY <1>1, <1>2 DEF Kept, Typed
<1>. QED  BY <1>1, <1>5, <1>6, <1>7, <1>8 DEF Kept

\* Byte v is written through handle h at place p of block b of chain c, which
\* is the chain of the file or one block longer.
Written(h, v, c, b, p) ==
  /\ b \in 1 .. Len(c) /\ Len(c) <= MaxBlocks
  /\ Len(chain) <= Len(c)
  /\ \A i \in 1 .. Len(chain) : c[i] = chain[i]
  /\ offset[h] = Begin(b - 1) + p
  /\ Fits(c, SizeAfter(h))
  /\ chain' = [c EXCEPT ![b] = [c[b] EXCEPT ![p] = v]]
  /\ block' = [block EXCEPT ![h] = b]
  /\ ptr' = [ptr EXCEPT ![h] = p + 1]

\* Where a byte is written, and what becomes of the chain and of the size: the
\* byte is at the offset, and a block is added at the end of the file only.
LEMMA ByteWritten ==
  ASSUME Kept, NEW h \in Handle, NEW v \in Byte, WriteByte(h, v)
  PROVE  \E c \in Seq(Block), b \in Nat, p \in 0 .. BlockSize - 1 :
           Written(h, v, c, b, p)
<1>. DEFINE c == IF NeedsBlock(h) THEN Append(chain, EmptyBlock) ELSE chain
            b == IF NeedsBlock(h) THEN Len(chain) + 1
                 ELSE IF AtBlockEnd(h) THEN NextBlock(h) ELSE block[h]
            p == IF AtBlockEnd(h) THEN 0 ELSE ptr[h]
<1>1. /\ lock = h /\ call = "write" /\ left > 0
      /\ Len(c) <= MaxBlocks
      /\ b \in 1 .. Len(c)
      /\ chain' = [c EXCEPT ![b] = [c[b] EXCEPT ![p] = v]]
      /\ block' = [block EXCEPT ![h] = b]
      /\ ptr' = [ptr EXCEPT ![h] = p + 1]
  BY DEF WriteByte
<1>2. mode[h] # NULL /\ offset[h] <= size
  BY <1>1 DEF Kept, CallSound, Writes
<1>3. /\ chain \in Seq(Block) /\ Len(chain) \in Nat /\ size \in Nat
      /\ offset[h] \in Nat
  BY DEF Kept, Typed
<1>4. EmptyBlock \in Block
  BY DEF EmptyBlock, Block
<1>5. Fits(chain, size)
  BY DEF Kept
<1>6. Begin(Len(chain)) \in Nat /\ Begin(Len(chain) + 1) = Begin(Len(chain)) + BlockSize
  BY <1>3, BeginLaws
<1>7. CASE NeedsBlock(h)
  <2>1. /\ c = Append(chain, EmptyBlock) /\ b = Len(chain) + 1 /\ p = 0
    BY <1>7 DEF NeedsBlock
  <2>2. offset[h] = Begin(Len(chain)) /\ size = Begin(Len(chain))
    BY <1>2, <1>7, NoneFound
  <2>. HIDE DEF c, b, p
  <2>3. /\ c \in Seq(Block) /\ Len(c) = Len(chain) + 1
        /\ \A i \in 1 .. Len(chain) : c[i] = chain[i]
    BY <1>3, <1>4, <2>1
  <2>4. SizeAfter(h) = Begin(Len(chain)) + 1
    BY <1>3, <1>6, <2>2 DEF SizeAfter
  <2>5. Fits(c, SizeAfter(h))
    <3>1. Len(c) - 1 = Len(chain)
      BY <1>3, <2>3
    <3>. QED  BY <1>6, <2>3, <2>4, <3>1 DEF Fits
  <2>6. p \in 0 .. BlockSize - 1 /\ b \in Nat /\ b - 1 = Len(chain)
    BY <1>3, <2>1
  <2>7. offset[h] = Begin(b - 1) + p
    BY <1>6, <2>1, <2>2, <2>6
  <2>8. Len(chain) <= Len(c)
    BY <1>3, <2>3
  <2>9. Written(h, v, c, b, p)
    BY <1>1, <2>3, <2>5, <2>7, <2>8 DEF Written
  <2>. QED  BY <2>3, <2>6, <2>9
<1>8. CASE ~NeedsBlock(h)
  <2>1. /\ c = chain /\ b = IF AtBlockEnd(h) THEN NextBlock(h) ELSE block[h]
    BY <1>8
  <2>2. p \in 0 .. BlockSize - 1 /\ offset[h] = Begin(b - 1) + p
    BY <1>1, <1>2, <2>1, ByteFound
  <2>. HIDE DEF c, b, p
  <2>3. b \in 1 .. Len(chain) /\ b \in Int /\ b \in Nat /\ Len(chain) # 0
    BY <1>1, <1>3, <2>1
  <2>4. /\ Begin(b) \in Int /\ Begin(b - 1) = Begin(b) - BlockSize
        /\ Begin(Len(chain)) \in Int
        /\ Begin(Len(chain) - 1) = Begin(Len(chain)) - BlockSize
    BY <1>3, <2>3, BeginLaws
  <2>5. Begin(b) <= Begin(Len(chain))
    <3>1. CASE b < Len(chain)
      BY <1>3, <2>3, <2>4, <3>1, BeginMono
    <3>2. CASE ~ (b < Len(chain))
      <4>1. b = Len(chain)
        BY <1>3, <2>3, <3>2
      <4>. QED  BY <2>4, <4>1
    <3>. QED  BY <3>1, <3>2
  <2>6. offset[h] + 1 <= Begin(Len(chain))
    BY <1>3, <2>2, <2>4, <2>5
  <2>7. Fits(chain, SizeAfter(h))
    <3>1. CASE offset[h] + 1 > size
      <4>1. SizeAfter(h) = size + 1 /\ size = offset[h]
        BY <1>2, <1>3, <3>1 DEF SizeAfter
      <4>2. Begin(Len(chain) - 1) < size + 1
        <5>1. CASE size = 0
          <6>1. Len(chain) <= 1
            BY <1>5, <5>1 DEF Fits
          <6>. DEFINE k == Len(chain)
          <6>2. k \in Nat /\ k # 0 /\ k <= 1
            BY <1>3, <2>3, <6>1
          <6>. HIDE DEF k
          <6>3. k - 1 = 0
            BY <6>2
          <6>4. Begin(0) = 0
            BY BeginLaws
          <6>5. Begin(k - 1) = 0
            BY <6>3, <6>4
          <6>. QED  BY <5>1, <6>5 DEF k
        <5>2. CASE size # 0
          BY <1>3, <1>5, <2>4, <5>2 DEF Fits
        <5>. QED  BY <5>1, <5>2
      <4>3. size + 1 # 0 /\ size + 1 <= Begin(Len(chain))
        BY <1>3, <2>6, <4>1
      <4>. QED  BY <4>1, <4>2, <4>3 DEF Fits
    <3>2. CASE ~ (offset[h] + 1 > size)
      BY <1>5, <3>2 DEF SizeAfter
    <3>. QED  BY <3>1, <3>2
  <2>8. /\ c \in Seq(Block) /\ Len(chain) <= Len(c)
        /\ \A i \in 1 .. Len(chain) : c[i] = chain[i]
        /\ Fits(c, SizeAfter(h))
    BY <1>3, <2>1, <2>7
  <2>9. Written(h, v, c, b, p)
    BY <1>1, <2>2, <2>8 DEF Written
  <2>. QED  BY <2>2, <2>3, <2>8, <2>9
<1>. QED  BY <1>7, <1>8

\* A turn of the loop of ramfs_file_write.
LEMMA WriteByteKept ==
  ASSUME Kept, NEW h \in Handle, NEW v \in Byte, WriteByte(h, v)
  PROVE  Kept'
<1>1. PICK c \in Seq(Block), b \in Nat, p \in 0 .. BlockSize - 1 :
        Written(h, v, c, b, p)
  BY ByteWritten
<1>2. /\ lock = h /\ call = "write" /\ left > 0
      /\ size' = SizeAfter(h)
      /\ offset' = [offset EXCEPT ![h] = @ + 1]
      /\ left' = left - 1
      /\ UNCHANGED <<mode, app, lock, call, got>>
  BY DEF WriteByte
<1>3. /\ Writes(h) /\ mode[h] # NULL /\ offset[h] <= size
      /\ app[h] => offset[h] = size
  BY <1>2 DEF Kept, CallSound, Writes
<1>4. \A g \in Handle \ {h} : mode[g] = NULL
  BY <1>3 DEF Kept, OneWriter, Writes
<1>5. /\ offset[h] \in Nat /\ size \in Nat /\ SizeAfter(h) \in Nat
      /\ offset[h] + 1 <= SizeAfter(h)
      /\ offset[h] = size => offset[h] + 1 = SizeAfter(h)
  BY <1>3 DEF Kept, Typed, SizeAfter
<1>6. chain' \in Seq(Block) /\ Len(chain') = Len(c)
  <2>1. c[b] \in Block
    BY <1>1 DEF Written
  <2>2. [c[b] EXCEPT ![p] = v] \in Block
    BY <2>1 DEF Block
  <2>. QED  BY <1>1, <2>2, ExceptSeq DEF Written
<1>7. Typed'
  <2>1. b \in 0 .. MaxBlocks
    <3>1. b \in 1 .. Len(c) /\ Len(c) <= MaxBlocks /\ Len(c) \in Nat
      BY <1>1 DEF Written
    <3>. QED  BY <3>1
  <2>2. p + 1 \in 0 .. BlockSize
    OBVIOUS
  <2>3. left - 1 \in 0 .. MaxCount
    BY <1>2 DEF Kept, Typed
  <2>4. Len(chain') <= MaxBlocks
    BY <1>1, <1>6 DEF Written
  <2>5. /\ block' \in [Handle -> 0 .. MaxBlocks]
        /\ ptr' \in [Handle -> 0 .. BlockSize]
        /\ offset' \in [Handle -> Nat]
    <3>1. /\ block' = [block EXCEPT ![h] = b]
          /\ ptr' = [ptr EXCEPT ![h] = p + 1]
          /\ offset' = [offset EXCEPT ![h] = @ + 1]
      BY <1>1, <1>2 DEF Written
    <3>2. /\ block \in [Handle -> 0 .. MaxBlocks] /\ ptr \in [Handle -> 0 .. BlockSize]
          /\ offset \in [Handle -> Nat]
      BY DEF Kept, Typed
    <3>. QED  BY <2>1, <2>2, <3>1, <3>2
  <2>6. app' \in [Handle -> BOOLEAN]
    BY <1>2 DEF Kept, Typed
  <2>7. /\ size' \in Nat /\ left' \in 0 .. MaxCount
        /\ mode' \in [Handle -> Mode \cup {NULL}]
        /\ lock' \in Handle \cup {NULL} /\ call' \in {"none", "read", "write"}
        /\ got' \in [Handle -> Byte \cup {NULL}]
    BY <1>2, <1>5, <2>3 DEF Kept, Typed
  <2>. QED  BY <1>6, <2>4, <2>5, <2>6, <2>7 DEF Typed
<1>8. Fits(chain', size')
  BY <1>1, <1>2, <1>6 DEF Fits, Written
<1>9. Pointed'
  <2>1. block'[h] = b /\ ptr'[h] = p + 1 /\ offset'[h] = offset[h] + 1
    BY <1>1, <1>2 DEF Kept, Typed, Written
  <2>2. Begin(b - 1) \in Int
    BY <1>1, BeginLaws DEF Written
  <2>3. offset[h] + 1 = Begin(b - 1) + (p + 1)
    BY <1>1, <2>2 DEF Written
  <2>4. Points(chain', offset'[h], block'[h], ptr'[h])
    BY <1>1, <1>6, <2>1, <2>3 DEF Points, Written
  <2>. QED  BY <1>2, <1>4, <2>4 DEF Pointed
<1>10. OneWriter'
  BY <1>2 DEF Kept, OneWriter
<1>11. CallSound'
  <2>1. offset'[h] = offset[h] + 1
    BY <1>2 DEF Kept, Typed
  <2>. QED  BY <1>2, <1>3, <1>5, <2>1 DEF Kept, CallSound, Writes
<1>. QED  BY <1>2, <1>7, <1>8, <1>9, <1>10, <1>11 DEF Kept

\* Every step keeps the invariant.
LEMMA StepKept ==
  ASSUME Kept, Disciplined, [Next]_vars
  PROVE  Kept'
<1>1. ASSUME NEW h \in Handle,
             \E m \in Mode, trunc \in BOOLEAN, toEnd \in BOOLEAN : Open(h, m, trunc, toEnd)
      PROVE  Kept'
  BY <1>1, OpenKept
<1>2. ASSUME NEW h \in Handle, Close(h)
      PROVE  Kept'
  BY <1>2, CloseKept
<1>3. ASSUME NEW h \in Handle, NEW w \in {"set", "cur", "end"},
             NEW d \in -MaxOffset .. MaxOffset, Seek(h, w, d)
      PROVE  Kept'
  <2>1. d \in Int
    OBVIOUS
  <2>. QED  BY <1>3, <2>1, SeekKept
<1>4. CASE UNCHANGED vars
  BY <1>4 DEF vars, Kept, Typed, Pointed, OneWriter, CallSound, Reads, Writes
<1>5. ASSUME NEW h \in Handle, NEW n \in 0 .. MaxOffset,
             Truncate(h, n) \/ TruncateFails(h, n)
      PROVE  Kept'
  <2>1. n \in Nat
    OBVIOUS
  <2>. QED  BY <1>4, <1>5, <2>1, TruncateKept, TruncateFailsKept
<1>6. ASSUME NEW h \in Handle, NEW n \in 1 .. MaxCount,
             StartRead(h, n) \/ StartWrite(h, n)
      PROVE  Kept'
  BY <1>6, StartKept
<1>7. ASSUME NEW h \in Handle, ReadByte(h)
      PROVE  Kept'
  BY <1>7, ReadByteKept
<1>8. ASSUME NEW h \in Handle, ReadEnd(h) \/ WriteFails(h) \/ WriteEnd(h)
      PROVE  Kept'
  BY <1>8, EndKept
<1>9. ASSUME NEW h \in Handle, \E v \in Byte : WriteByte(h, v)
      PROVE  Kept'
  BY <1>9, WriteByteKept
<1>. QED
  BY <1>1, <1>2, <1>3, <1>4, <1>5, <1>6, <1>7, <1>8, <1>9, Zenon DEF Next

\* Chain, size, pointers and calls of a RAM file stay in step.
THEOREM FileInvariant ==
  ASSUME Disciplined
  PROVE  Spec => []FileSound
<1>1. Spec => []Kept
  BY InitKept, StepKept, PTL DEF Spec
<1>. QED  BY <1>1, KeptIsSound, PTL

\* After every write, truncation and failure the file has exactly the blocks
\* its size calls for.
THEOREM BlocksAlwaysFit ==
  ASSUME Disciplined
  PROVE  Spec => []BlocksFitSize
<1>1. FileSound => BlocksFitSize
  BY DEF FileSound
<1>. QED  BY <1>1, FileInvariant, PTL

\* No open handle points to a freed block, or to another byte than the one its
\* offset says.
THEOREM PointersFollowOffsets ==
  ASSUME Disciplined
  PROVE  Spec => []HandleSound
<1>1. FileSound => HandleSound
  BY DEF FileSound
<1>. QED  BY <1>1, FileInvariant, PTL

-----------------------------------------------------------------------------
(* The file as a sequence of bytes.                                        *)

\* The byte at offset o of chain c.
At(c, o) == c[o \div BlockSize + 1][o % BlockSize]

\* Every byte of the file is in a block.
LEMMA AtSound ==
  ASSUME NEW c \in Seq(Block), NEW n \in Nat, Fits(c, n),
         NEW o \in Nat, o < n
  PROVE  /\ o \div BlockSize + 1 \in 1 .. Len(c)
         /\ At(c, o) \in Byte
<1>. DEFINE q == o \div BlockSize
            r == o % BlockSize
<1>1. q \in Nat /\ r \in 0 .. BlockSize - 1 /\ o = Begin(q) + r
  BY Divided
<1>2. n # 0 /\ n <= Begin(Len(c)) /\ Len(c) \in Nat
  BY DEF Fits
<1>3. At(c, o) = c[q + 1][r]
  BY DEF At
<1>. HIDE DEF q, r
<1>4. Begin(q) \in Int /\ Begin(Len(c)) \in Int
  BY <1>1, <1>2, BeginLaws
<1>5. q < Len(c)
  <2>. SUFFICES ASSUME Len(c) <= q PROVE FALSE
    BY <1>1, <1>2
  <2>1. Begin(Len(c)) <= Begin(q)
    <3>1. CASE Len(c) < q
      BY <1>1, <1>2, <1>4, <3>1, BeginMono
    <3>2. CASE Len(c) = q
      BY <1>4, <3>2
    <3>. QED  BY <1>1, <1>2, <3>1, <3>2
  <2>. QED  BY <1>1, <1>2, <1>4, <2>1
<1>6. q + 1 \in 1 .. Len(c)
  BY <1>1, <1>2, <1>5
<1>7. c[q + 1] \in Block
  BY <1>6
<1>8. c[q + 1][r] \in Byte
  BY <1>1, <1>7 DEF Block
<1>. QED  BY <1>3, <1>6, <1>8 DEF q

LEMMA TextSound ==
  ASSUME NEW c \in Seq(Block), NEW n \in Nat, Fits(c, n)
  PROVE  /\ Text(c, n) \in Seq(Byte)
         /\ Len(Text(c, n)) = n
         /\ \A i \in 1 .. n : Text(c, n)[i] = At(c, i - 1)
<1>1. \A i \in 1 .. n : At(c, i - 1) \in Byte
  <2>. TAKE i \in 1 .. n
  <2>1. i - 1 \in Nat /\ i - 1 < n
    OBVIOUS
  <2>. QED  BY <2>1, AtSound
<1>2. Text(c, n) = [i \in 1 .. n |-> At(c, i - 1)]
  BY DEF Text, At
<1>. QED  BY <1>1, <1>2

\* The bytes of two chains agree where their blocks do.
LEMMA SameBytes ==
  ASSUME NEW c \in Seq(Block), NEW d \in Seq(Block), NEW n \in Nat, Fits(c, n),
         \A i \in 1 .. Len(c) : i <= Len(d) => d[i] = c[i],
         NEW m \in Nat, Fits(d, m), NEW o \in Nat, o < n, o < m
  PROVE  At(d, o) = At(c, o)
<1>1. o \div BlockSize + 1 \in 1 .. Len(c) /\ o \div BlockSize + 1 \in 1 .. Len(d)
  BY AtSound
<1>2. d[o \div BlockSize + 1] = c[o \div BlockSize + 1]
  BY <1>1
<1>. QED  BY <1>2 DEF At

\* The file in an invariant state.
LEMMA ContentSound ==
  ASSUME Kept
  PROVE  /\ Content \in Seq(Byte)
         /\ Len(Content) = size
         /\ \A i \in 1 .. size : Content[i] = At(chain, i - 1)
  BY TextSound DEF Kept, Typed, Content

\* And after a step.
LEMMA ContentSoundAfter ==
  ASSUME Kept'
  PROVE  /\ Content' \in Seq(Byte)
         /\ Len(Content') = size'
         /\ \A i \in 1 .. size' : Content'[i] = At(chain', i - 1)
<1>1. chain' \in Seq(Block) /\ size' \in Nat /\ Fits(chain', size')
  BY DEF Kept, Typed
<1>2. Content' = Text(chain', size')
  BY DEF Content
<1>. QED  BY <1>1, <1>2, TextSound

\* A new file is empty.
LEMMA InitFile == Init => Bytes!Init
  BY DEF Init, Bytes!Init, Content, Text

\* Opening, closing.
LEMMA OpenFile ==
  ASSUME Kept, Kept', NEW h \in Handle, NEW m \in Mode,
         NEW trunc \in BOOLEAN, NEW toEnd \in BOOLEAN, Open(h, m, trunc, toEnd)
  PROVE  Bytes!Open(h)
<1>. DEFINE empties == trunc /\ m \in {"wronly", "rdwr"}
            s == IF empties THEN 0 ELSE size
<1>1. /\ mode[h] = NULL
      /\ size' = s
      /\ empties \/ chain' = chain
      /\ offset' = [offset EXCEPT ![h] = IF toEnd THEN s ELSE 0]
      /\ app' = [app EXCEPT ![h] = toEnd]
      /\ got' = got
  BY DEF Open, SeekTo
<1>. HIDE DEF empties
<1>2. got' = [got EXCEPT ![h] = NULL]
  BY <1>1 DEF Kept, Typed
<1>3. Content' = SubSeq(Content, 1, 0) \/ Content' = Content
  <2>1. CASE empties
    <3>1. Content' = <<>>
      BY <1>1, <2>1, ContentSoundAfter, EmptySeq
    <3>2. SubSeq(Content, 1, 0) = <<>>
      BY SubSeqEmpty
    <3>. QED  BY <3>1, <3>2
  <2>2. CASE ~empties
    BY <1>1, <2>2 DEF Content
  <2>. QED  BY <2>1, <2>2
<1>4. Len(Content') = s
  BY <1>1, ContentSoundAfter
<1>. QED  BY <1>1, <1>2, <1>3, <1>4 DEF Bytes!Open, Bytes!Cut

LEMMA CloseFile ==
  ASSUME Kept, NEW h \in Handle, Close(h)
  PROVE  Bytes!Open(h)
<1>1. Content' = Content
  BY DEF Close, Content
<1>. QED  BY <1>1 DEF Close, Bytes!Open

LEMMA SeekFile ==
  ASSUME Kept, NEW h \in Handle, NEW w \in {"set", "cur", "end"}, NEW d \in Int,
         Seek(h, w, d)
  PROVE  Bytes!Move(h)
<1>. DEFINE o == Whence(h, w) + d
<1>1. /\ Content' = Content /\ got' = got /\ app' = app
      /\ offset' = [offset EXCEPT ![h] = o]
      /\ o \in Nat
  BY DEF Seek, SeekTo, Content
<1>. HIDE DEF o
<1>2. offset'[h] = o
  BY <1>1 DEF Kept, Typed
<1>. QED  BY <1>1, <1>2 DEF Bytes!Move

\* Truncation cuts the file or extends it.
LEMMA TruncateFile ==
  ASSUME Kept, Kept', Disciplined, NEW h \in Handle, NEW n \in Nat, Truncate(h, n)
  PROVE  Bytes!Truncate
<1>1. size' = n /\ got' = got /\ app' = app /\ chain' = Resized(n)
  BY DEF Truncate
<1>2. offset' = offset
  <2>1. offset' = [offset EXCEPT ![h] = offset[h]]
    BY DEF Truncate, SeekTo
  <2>. QED  BY <2>1 DEF Kept, Typed
<1>3. /\ chain \in Seq(Block) /\ size \in Nat /\ Fits(chain, size)
      /\ chain' \in Seq(Block) /\ Fits(chain', n)
  BY <1>1 DEF Kept, Typed
<1>4. \A i \in 1 .. Len(chain') : i <= Len(chain) => chain'[i] = chain[i]
  BY <1>1, KeptIsSound, ResizedSound DEF Truncate
<1>5. \A o \in Nat : o < n /\ o < size => At(chain', o) = At(chain, o)
  <2>. TAKE o \in Nat
  <2>. HAVE o < n /\ o < size
  <2>1. \A i \in 1 .. Len(chain') : i <= Len(chain) => chain[i] = chain'[i]
    BY <1>4
  <2>2. At(chain, o) = At(chain', o)
    BY <1>3, <2>1, SameBytes
  <2>. QED  BY <2>2
<1>6. /\ Content \in Seq(Byte) /\ Len(Content) = size
      /\ Content' \in Seq(Byte) /\ Len(Content') = n
      /\ \A i \in 1 .. size : Content[i] = At(chain, i - 1)
      /\ \A i \in 1 .. n : Content'[i] = At(chain', i - 1)
  BY <1>1, ContentSound, ContentSoundAfter
<1>7. \A i \in 1 .. n : i <= size => Content'[i] = Content[i]
  <2>. TAKE i \in 1 .. n
  <2>. HAVE i <= size
  <2>1. i - 1 \in Nat /\ i - 1 < n /\ i - 1 < size /\ i \in 1 .. size
    BY <1>3
  <2>. QED  BY <1>5, <1>6, <2>1
<1>8. CASE n <= size
  <2>1. n \in 0 .. Len(Content)
    BY <1>3, <1>6, <1>8
  <2>2. /\ SubSeq(Content, 1, n) \in Seq(Byte)
        /\ Len(SubSeq(Content, 1, n)) = n
        /\ \A i \in 1 .. n : SubSeq(Content, 1, n)[i] = Content[i]
    BY <1>6, <2>1
  <2>3. \A i \in 1 .. n : Content'[i] = SubSeq(Content, 1, n)[i]
    BY <1>3, <1>7, <1>8, <2>2
  <2>4. Content' = SubSeq(Content, 1, n)
    BY <1>6, <2>2, <2>3, SeqEqual
  <2>. QED  BY <1>1, <1>2, <2>1, <2>4 DEF Bytes!Truncate, Bytes!Cut
<1>9. CASE ~ (n <= size)
  <2>1. size < n
    BY <1>3, <1>9
  <2>2. /\ SubSeq(Content', 1, size) \in Seq(Byte)
        /\ Len(SubSeq(Content', 1, size)) = size
        /\ \A i \in 1 .. size : SubSeq(Content', 1, size)[i] = Content'[i]
    BY <1>3, <1>6, <2>1
  <2>3. \A i \in 1 .. size : SubSeq(Content', 1, size)[i] = Content[i]
    BY <1>3, <1>7, <2>1, <2>2
  <2>4. SubSeq(Content', 1, size) = Content
    BY <1>6, <2>2, <2>3, SeqEqual
  <2>5. \A i \in DOMAIN Content' : Content'[i] \in Byte
    BY <1>6
  <2>6. Bytes!Extend
    BY <1>6, <2>1, <2>4, <2>5 DEF Bytes!Extend
  <2>. QED  BY <1>1, <1>2, <2>6 DEF Bytes!Truncate
<1>. QED  BY <1>8, <1>9

\* What is read is the byte at the offset.
LEMMA ReadByteFile ==
  ASSUME Kept, NEW h \in Handle, ReadByte(h)
  PROVE  Bytes!Get(h)
<1>. DEFINE b == IF AtBlockEnd(h) THEN NextBlock(h) ELSE block[h]
            p == IF AtBlockEnd(h) THEN 0 ELSE ptr[h]
<1>1. /\ lock = h /\ call = "read" /\ offset[h] < size
      /\ b \in 1 .. Len(chain)
      /\ got' = [got EXCEPT ![h] = chain[b][p]]
      /\ offset' = [offset EXCEPT ![h] = @ + 1]
      /\ UNCHANGED <<chain, size, app>>
  BY DEF ReadByte
<1>2. mode[h] # NULL
  BY <1>1 DEF Kept, CallSound, Reads
<1>3. p \in 0 .. BlockSize - 1 /\ offset[h] = Begin(b - 1) + p
  BY <1>1, <1>2, ByteFound
<1>. HIDE DEF b, p
<1>4. offset[h] \in Nat /\ size \in Nat /\ b - 1 \in Nat /\ b - 1 + 1 = b
  BY <1>1 DEF Kept, Typed
<1>5. Begin(b - 1) \in Nat
  BY <1>4, BeginLaws
<1>6. Begin(b - 1) <= offset[h] /\ offset[h] < Begin(b - 1) + BlockSize
  BY <1>3, <1>5
<1>7. offset[h] \div BlockSize = b - 1 /\ offset[h] % BlockSize = offset[h] - Begin(b - 1)
  BY <1>4, <1>6, DividedOnce
<1>8. offset[h] - Begin(b - 1) = p
  BY <1>3, <1>5
<1>9. At(chain, offset[h]) = chain[b][p]
  BY <1>4, <1>7, <1>8 DEF At
<1>10. Len(Content) = size /\ \A i \in 1 .. size : Content[i] = At(chain, i - 1)
  BY ContentSound
<1>11. Content[offset[h] + 1] = chain[b][p]
  <2>. DEFINE i == offset[h] + 1
  <2>1. i \in 1 .. size /\ i - 1 = offset[h]
    BY <1>1, <1>4
  <2>. HIDE DEF i
  <2>2. Content[i] = At(chain, offset[h])
    BY <1>10, <2>1
  <2>. QED  BY <1>9, <2>2 DEF i
<1>12. Content' = Content
  BY <1>1 DEF Content
<1>. QED  BY <1>1, <1>10, <1>11, <1>12 DEF Bytes!Get

\* What is written is at the offset, and everything else is as it was.
LEMMA WriteByteFile ==
  ASSUME Kept, Kept', NEW h \in Handle, NEW v \in Byte, WriteByte(h, v)
  PROVE  Bytes!Put(h, v)
<1>1. PICK c \in Seq(Block), b \in Nat, p \in 0 .. BlockSize - 1 :
        Written(h, v, c, b, p)
  BY ByteWritten
<1>. DEFINE o == offset[h]
<1>2. /\ lock = h /\ call = "write"
      /\ size' = SizeAfter(h)
      /\ offset' = [offset EXCEPT ![h] = @ + 1]
      /\ got' = got /\ app' = app
  BY DEF WriteByte
<1>3. o <= size /\ (app[h] => o = size)
  BY <1>2 DEF Kept, CallSound
<1>4. /\ chain \in Seq(Block) /\ size \in Nat /\ o \in Nat /\ Fits(chain, size)
      /\ chain' \in Seq(Block) /\ size' \in Nat /\ Fits(chain', size')
  BY DEF Kept, Typed
<1>5. /\ b \in 1 .. Len(c) /\ Len(chain) <= Len(c)
      /\ \A i \in 1 .. Len(chain) : c[i] = chain[i]
      /\ o = Begin(b - 1) + p
      /\ Fits(c, size')
      /\ chain' = [c EXCEPT ![b] = [c[b] EXCEPT ![p] = v]]
  BY <1>1, <1>2 DEF Written
<1>6. size' = IF o = size THEN size + 1 ELSE size
  BY <1>2, <1>3, <1>4 DEF SizeAfter
<1>. HIDE DEF o
<1>7. o \div BlockSize + 1 = b /\ o % BlockSize = p
  <2>1. b - 1 \in Nat /\ b - 1 + 1 = b
    BY <1>5
  <2>2. Begin(b - 1) \in Nat
    BY <2>1, BeginLaws
  <2>3. Begin(b - 1) <= o /\ o < Begin(b - 1) + BlockSize
    BY <1>5, <2>2
  <2>4. o \div BlockSize = b - 1 /\ o % BlockSize = o - Begin(b - 1)
    BY <1>4, <2>1, <2>3, DividedOnce
  <2>5. o - Begin(b - 1) = p
    BY <1>5, <2>2
  <2>. QED  BY <2>1, <2>4, <2>5
<1>8. c[b] \in Block
  BY <1>5
<1>9. At(chain', o) = v
  <2>1. chain'[b] = [c[b] EXCEPT ![p] = v]
    BY <1>5
  <2>2. chain'[b][p] = v
    BY <1>8, <2>1 DEF Block
  <2>. QED  BY <1>7, <2>2 DEF At
<1>10. ASSUME NEW i \in Nat, i < size', i # o
       PROVE  At(chain', i) = At(c, i)
  <2>. DEFINE q == i \div BlockSize
              r == i % BlockSize
  <2>1. q \in Nat /\ r \in 0 .. BlockSize - 1 /\ i = Begin(q) + r
    BY <1>10, Divided
  <2>2. q + 1 \in 1 .. Len(c)
    BY <1>4, <1>5, <1>10, AtSound
  <2>3. At(chain', i) = chain'[q + 1][r] /\ At(c, i) = c[q + 1][r]
    BY DEF At
  <2>. HIDE DEF q, r
  <2>4. CASE q + 1 # b
    <3>1. chain'[q + 1] = c[q + 1]
      BY <1>5, <2>2, <2>4
    <3>. QED  BY <2>3, <3>1
  <2>5. CASE q + 1 = b
    <3>1. q = b - 1
      BY <2>1, <2>5
    <3>2. r # p
      BY <1>5, <1>10, <2>1, <3>1
    <3>3. chain'[q + 1] = [c[b] EXCEPT ![p] = v]
      BY <1>5, <2>5
    <3>4. chain'[q + 1][r] = c[b][r]
      BY <1>8, <2>1, <3>2, <3>3 DEF Block
    <3>. QED  BY <2>3, <2>5, <3>4
  <2>. QED  BY <2>4, <2>5
<1>11. ASSUME NEW i \in Nat, i < size, i # o
       PROVE  At(chain', i) = At(chain, i)
  <2>1. i < size'
    BY <1>4, <1>6, <1>11
  <2>2. At(c, i) = At(chain, i)
    <3>1. \A j \in 1 .. Len(chain) : j <= Len(c) => c[j] = chain[j]
      BY <1>5
    <3>2. /\ c \in Seq(Block) /\ chain \in Seq(Block)
          /\ size \in Nat /\ size' \in Nat
          /\ Fits(chain, size) /\ Fits(c, size')
      BY <1>4, <1>5
    <3>. QED  BY <1>11, <2>1, <3>1, <3>2, SameBytes
  <2>. QED  BY <1>10, <1>11, <2>1, <2>2
<1>12. /\ Content \in Seq(Byte) /\ Len(Content) = size
       /\ Content' \in Seq(Byte) /\ Len(Content') = size'
       /\ \A i \in 1 .. size : Content[i] = At(chain, i - 1)
       /\ \A i \in 1 .. size' : Content'[i] = At(chain', i - 1)
  BY ContentSound, ContentSoundAfter
<1>13. \A i \in 1 .. size' : Content'[i] = IF i = o + 1 THEN v ELSE Content[i]
  <2>. TAKE i \in 1 .. size'
  <2>1. i - 1 \in Nat /\ (i # o + 1 => i - 1 # o /\ i - 1 < size /\ i \in 1 .. size)
    BY <1>4, <1>6
  <2>2. CASE i = o + 1
    <3>1. i - 1 = o
      BY <1>4, <2>2
    <3>. QED  BY <1>9, <1>12, <2>2, <3>1
  <2>3. CASE i # o + 1
    BY <1>11, <1>12, <2>1, <2>3
  <2>. QED  BY <2>2, <2>3
<1>14. Content' = IF o = Len(Content) THEN Append(Content, v)
                  ELSE [Content EXCEPT ![o + 1] = v]
  <2>1. CASE o = size
    <3>1. /\ Append(Content, v) \in Seq(Byte)
          /\ Len(Append(Content, v)) = size + 1
          /\ \A i \in 1 .. size + 1 :
               Append(Content, v)[i] = IF i = size + 1 THEN v ELSE Content[i]
      BY <1>4, <1>12
    <3>2. \A i \in 1 .. Len(Content') : Content'[i] = Append(Content, v)[i]
      BY <1>6, <1>12, <1>13, <2>1, <3>1
    <3>3. Content' = Append(Content, v)
      BY <1>6, <1>12, <2>1, <3>1, <3>2, SeqEqual
    <3>. QED  BY <1>12, <2>1, <3>3
  <2>2. CASE o # size
    <3>1. o + 1 \in 1 .. Len(Content) /\ size' = size
      BY <1>3, <1>4, <1>6, <1>12, <2>2
    <3>2. /\ [Content EXCEPT ![o + 1] = v] \in Seq(Byte)
          /\ Len([Content EXCEPT ![o + 1] = v]) = size
          /\ \A i \in 1 .. size :
               [Content EXCEPT ![o + 1] = v][i] = IF i = o + 1 THEN v ELSE Content[i]
      BY <1>12, <3>1, ExceptSeq
    <3>3. \A i \in 1 .. Len(Content') : Content'[i] = [Content EXCEPT ![o + 1] = v][i]
      BY <1>12, <1>13, <3>1, <3>2
    <3>4. Content' = [Content EXCEPT ![o + 1] = v]
      BY <1>12, <3>1, <3>2, <3>3, SeqEqual
    <3>. QED  BY <1>12, <2>2, <3>4
  <2>. QED  BY <2>1, <2>2
<1>15. Bytes!Place(h) = o
  BY <1>3, <1>12 DEF Bytes!Place, o
<1>16. offset' = [offset EXCEPT ![h] = o + 1]
  BY <1>2 DEF o
<1>. QED  BY <1>2, <1>3, <1>12, <1>14, <1>15, <1>16 DEF Bytes!Put

\* Seen through its handles a RAM file is a sequence of bytes: over every
\* boundary of blocks, after any seek, truncation and failed write, what is
\* read is what was last written there, and nothing else changes.
THEOREM FileImplementsBytes ==
  ASSUME Disciplined
  PROVE  Spec => ImplementsFile
<1>1. ASSUME Kept, Kept', [Next]_vars
      PROVE  Bytes!Next \/ UNCHANGED <<Content, offset, app, got>>
  <2>1. CASE UNCHANGED vars
    BY <2>1 DEF vars, Content
  <2>2. ASSUME NEW h \in Handle,
               \E m \in Mode, trunc \in BOOLEAN, toEnd \in BOOLEAN :
                 Open(h, m, trunc, toEnd)
        PROVE  Bytes!Open(h)
    BY <1>1, <2>2, OpenFile
  <2>3. ASSUME NEW h \in Handle, Close(h)
        PROVE  Bytes!Open(h)
    BY <1>1, <2>3, CloseFile
  <2>4. ASSUME NEW h \in Handle, NEW w \in {"set", "cur", "end"},
               NEW d \in -MaxOffset .. MaxOffset, Seek(h, w, d)
        PROVE  Bytes!Move(h)
    <3>1. d \in Int
      OBVIOUS
    <3>. QED  BY <1>1, <2>4, <3>1, SeekFile
  <2>5. ASSUME NEW h \in Handle, NEW n \in 0 .. MaxOffset,
               Truncate(h, n) \/ TruncateFails(h, n)
        PROVE  Bytes!Truncate \/ UNCHANGED vars
    <3>1. n \in Nat
      OBVIOUS
    <3>. QED  BY <1>1, <2>5, <3>1, TruncateFile, TruncateFailsKept
  <2>6. ASSUME NEW h \in Handle, NEW n \in 1 .. MaxCount,
               StartRead(h, n) \/ StartWrite(h, n)
        PROVE  UNCHANGED <<Content, offset, app, got>>
    BY <2>6 DEF StartRead, StartWrite, Start, file, place, Content
  <2>7. ASSUME NEW h \in Handle, ReadByte(h)
        PROVE  Bytes!Get(h)
    BY <1>1, <2>7, ReadByteFile
  <2>8. ASSUME NEW h \in Handle, ReadEnd(h) \/ WriteFails(h) \/ WriteEnd(h)
        PROVE  UNCHANGED <<Content, offset, app, got>>
    BY <2>8 DEF ReadEnd, WriteFails, WriteEnd, file, place, Content
  <2>9. ASSUME NEW h \in Handle, NEW v \in Byte, WriteByte(h, v)
        PROVE  Bytes!Put(h, v)
    BY <1>1, <2>9, WriteByteFile
  <2>10. CASE Next
    BY <2>1, <2>2, <2>3, <2>4, <2>5, <2>6, <2>7, <2>8, <2>9, <2>10, Zenon
       DEF Next, Bytes!Next
  <2>. QED  BY <1>1, <2>1, <2>10
<1>2. Kept /\ [Next]_vars => Kept'
  BY StepKept
<1>. QED
  BY <1>1, <1>2, InitKept, InitFile, PTL
     DEF Spec, ImplementsFile, Bytes!Spec, Bytes!vars
=============================================================================
