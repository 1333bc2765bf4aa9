------------------------------ MODULE RamFile ------------------------------
(***************************************************************************)
(* One file of the RAM file system (ramfs/ramfs.c) and the handles that    *)
(* are open on it.  Its bytes are in a chain of blocks; a handle has an    *)
(* offset and, to save the walk along the chain, a pointer to the byte at  *)
(* that offset: a block and a place in it.  Both are kept in step by hand. *)
(*                                                                         *)
(* Blocks are added and removed at the tail only, so a pointer to a block  *)
(* is its number in the chain; 0 is NULL, and a number beyond the chain is *)
(* a pointer to a block that has been freed.  Reading and writing are      *)
(* loops over the bytes of the buffer with fs->lock taken, one action for  *)
(* each turn.                                                              *)
(***************************************************************************)
EXTENDS Integers, Sequences

CONSTANTS
  Handle,       \* the handles (ramfs_file_t)
  Byte,         \* the values of a byte; 0 is one
  BlockSize,    \* fs->block_size
  MaxBlocks,    \* the blocks that fit into fs->size
  MaxOffset,    \* bound: the offsets a caller seeks
  MaxCount,     \* bound: the bytes of one read or write
  Slips,        \* what callers do beyond the discipline described below
  NULL

Mode == {"rdonly", "wronly", "rdwr"}

ASSUME RamFileAssumption ==
  /\ BlockSize \in Nat \ {0}
  /\ MaxBlocks \in Nat
  /\ MaxOffset \in Nat
  /\ MaxCount \in Nat \ {0}
  /\ 0 \in Byte
  /\ NULL \notin Byte \cup Handle
  /\ NULL \notin Mode
  /\ Slips \subseteq {"share", "beyond", "grow", "append"}

VARIABLES
  chain,      \* the data of the blocks from header->head to header->tail
  size,       \* header->size
  mode, app,  \* the flags of each handle: the access mode, NULL when it is not
              \* open, and whether RAMFS_O_APPEND is set
  offset, block, ptr,   \* the fields of that name; ptr counts in its block
  lock,       \* who has fs->lock between two actions
  call, left, \* the call its holder is in, and the bytes still to transfer
  got         \* the last byte read

file == <<chain, size>>
place == <<offset, block, ptr>>
vars == <<chain, size, mode, app, offset, block, ptr, lock, call, left, got>>

Reads(h) == mode[h] \in {"rdonly", "rdwr"}
Writes(h) == mode[h] \in {"wronly", "rdwr"}

TypeOK ==
  /\ chain \in Seq([0 .. BlockSize - 1 -> Byte]) /\ Len(chain) <= MaxBlocks
  /\ size \in 0 .. MaxBlocks * BlockSize + MaxOffset
  /\ mode \in [Handle -> Mode \cup {NULL}]
  /\ app \in [Handle -> BOOLEAN]
  /\ offset \in [Handle -> Nat]
  /\ block \in [Handle -> 0 .. MaxBlocks]
  /\ ptr \in [Handle -> 0 .. BlockSize]
  /\ lock \in Handle \cup {NULL}
  /\ call \in {"none", "read", "write"}
  /\ left \in 0 .. MaxCount
  /\ got \in [Handle -> Byte \cup {NULL}]

\* A new file, as add_entry leaves it.
Init ==
  /\ chain = <<>>
  /\ size = 0
  /\ mode = [h \in Handle |-> NULL]
  /\ app = [h \in Handle |-> FALSE]
  /\ offset = [h \in Handle |-> 0]
  /\ block = [h \in Handle |-> 0]
  /\ ptr = [h \in Handle |-> 0]
  /\ lock = NULL
  /\ call = "none"
  /\ left = 0
  /\ got = [h \in Handle |-> NULL]

-----------------------------------------------------------------------------
(* The discipline of the callers: a file is open for one writer or for     *)
(* readers ("share" lifts this), nothing is written beyond the end         *)
(* ("beyond"), a file is made longer by truncation only if it has a block  *)
(* and needs at most one more ("grow"), and a handle opened to append that *)
(* has been moved is set to the end before it writes ("append": ramfs.h    *)
(* promises that, the code leaves it to the caller).                       *)

MayOpen(m) ==
  \/ "share" \in Slips
  \/ \A h \in Handle : mode[h] = NULL
  \/ m = "rdonly" /\ \A h \in Handle : mode[h] \in {"rdonly", NULL}

MayWrite(h) ==
  /\ "beyond" \in Slips \/ offset[h] <= size
  /\ app[h] => "append" \in Slips \/ offset[h] = size

-----------------------------------------------------------------------------
(* ramfs_file_seek_internal and ramfs_file_truncate_internal.              *)

\* The block at offset o: the walk from the head of chain c, NULL past its end.
BlockAt(c, o) == IF o \div BlockSize < Len(c) THEN o \div BlockSize + 1 ELSE 0

\* Mutant: the pointer is left where it was.
SeekOffsetOnly(h, c, o) ==
  /\ offset' = [offset EXCEPT ![h] = o]
  /\ UNCHANGED <<block, ptr>>

\* The end of ramfs_file_seek_internal: handle h is set to offset o of a file
\* whose blocks are c.
SeekTo(h, c, o) ==
  /\ offset' = [offset EXCEPT ![h] = o]
  /\ block' = [block EXCEPT ![h] = BlockAt(c, o)]
  /\ ptr' = [ptr EXCEPT ![h] = IF BlockAt(c, o) = 0 THEN 0 ELSE o % BlockSize]

\* Division in C: towards zero.
CDiv(a, b) == IF a >= 0 THEN a \div b ELSE -((-a) \div b)

\* The blocks a truncation to n adds, if positive, or removes.
BlockDelta(n) == CDiv(n - 1, BlockSize) - CDiv(size - 1, BlockSize)

EmptyBlock == [i \in 0 .. BlockSize - 1 |-> 0]

\* n empty blocks.
EmptyBlocks(n) == [i \in 1 .. n |-> EmptyBlock]

\* Mutant: the blocks are counted from the number of bytes.
ResizedShort(n) ==
  LET keep == Len(chain) + CDiv(n, BlockSize) - CDiv(size, BlockSize)
  IN  IF keep <= Len(chain) THEN SubSeq(chain, 1, keep)
      ELSE chain \o EmptyBlocks(keep - Len(chain))

\* The chain after remove_block or add_block, once for each block of the
\* difference; remove_block does nothing when there is none.
Resized(n) ==
  IF BlockDelta(n) <= 0 THEN SubSeq(chain, 1, Len(chain) + BlockDelta(n))
  ELSE chain \o EmptyBlocks(BlockDelta(n))

MayTruncate(n) ==
  \/ "grow" \in Slips
  \/ n <= size
  \/ chain # <<>> /\ BlockDelta(n) <= 1

\* ramfs_file_truncate.
Truncate(h, n) ==
  /\ lock = NULL
  /\ Writes(h)
  /\ MayTruncate(n)
  /\ Len(Resized(n)) <= MaxBlocks
  /\ chain' = Resized(n)
  /\ size' = n
  /\ SeekTo(h, Resized(n), offset[h])
  /\ UNCHANGED <<mode, app, lock, call, left, got>>

\* The same when the k-th block to be added cannot be had: the blocks before
\* it stay, the size does not change, and the handle points to the last block
\* added.
TruncateFails(h, n) ==
  /\ lock = NULL
  /\ Writes(h)
  /\ MayTruncate(n)
  /\ BlockDelta(n) > 0
  /\ \E k \in 0 .. BlockDelta(n) - 1 :
       /\ Len(chain) + k <= MaxBlocks
       /\ chain' = chain \o EmptyBlocks(k)
       /\ block' = [block EXCEPT ![h] = IF k = 0 THEN @ ELSE Len(chain) + k]
       /\ ptr' = [ptr EXCEPT ![h] = IF k = 0 THEN @ ELSE 0]
  /\ UNCHANGED <<size, mode, app, offset, lock, call, left, got>>

-----------------------------------------------------------------------------
(* Opening, closing, seeking.                                              *)

\* ramfs_file_open of the existing file.  RAMFS_O_TRUNC counts only with a mode
\* that writes; RAMFS_O_APPEND sets the position, here and nowhere else.
Open(h, m, trunc, toEnd) ==
  LET empties == trunc /\ m \in {"wronly", "rdwr"}
      c == IF empties THEN Resized(0) ELSE chain
      s == IF empties THEN 0 ELSE size
  IN  /\ lock = NULL
      /\ mode[h] = NULL
      /\ MayOpen(m)
      /\ mode' = [mode EXCEPT ![h] = m]
      /\ chain' = c
      /\ size' = s
      /\ app' = [app EXCEPT ![h] = toEnd]
      /\ SeekTo(h, c, IF toEnd THEN s ELSE 0)
      /\ UNCHANGED <<lock, call, left, got>>

\* ramfs_file_close: the handle is cleared.
Close(h) ==
  /\ lock = NULL
  /\ mode[h] # NULL
  /\ mode' = [mode EXCEPT ![h] = NULL]
  /\ app' = [app EXCEPT ![h] = FALSE]
  /\ offset' = [offset EXCEPT ![h] = 0]
  /\ block' = [block EXCEPT ![h] = 0]
  /\ ptr' = [ptr EXCEPT ![h] = 0]
  /\ got' = [got EXCEPT ![h] = NULL]
  /\ UNCHANGED <<chain, size, lock, call, left>>

\* Where RAMFS_SEEK_SET, _CUR and _END count from.
Whence(h, w) ==
  CASE w = "set" -> 0
    [] w = "cur" -> offset[h]
    [] w = "end" -> size

\* ramfs_file_seek; a negative result is refused with RAMFS_ERR_INVAL.
Seek(h, w, d) ==
  /\ lock = NULL
  /\ mode[h] # NULL
  /\ Whence(h, w) + d \in 0 .. MaxOffset
  /\ SeekTo(h, chain, Whence(h, w) + d)
  /\ UNCHANGED <<chain, size, mode, app, lock, call, left, got>>

-----------------------------------------------------------------------------
(* Reading and writing.                                                    *)

\* ramfs_file_read or ramfs_file_write of n bytes, up to the loop.
Start(h, c, n) ==
  /\ lock = NULL
  /\ lock' = h
  /\ call' = c
  /\ left' = n
  /\ UNCHANGED <<file, mode, app, place, got>>

StartRead(h, n) == Reads(h) /\ Start(h, "read", n)
StartWrite(h, n) == Writes(h) /\ MayWrite(h) /\ Start(h, "write", n)

\* The unlock and the return.
Leave ==
  /\ lock' = NULL
  /\ call' = "none"
  /\ left' = 0

\* The pointer is not at a byte of a block.
AtBlockEnd(h) == block[h] = 0 \/ ptr[h] = BlockSize

\* The block after that of handle h, 0 if there is none.
NextBlock(h) == IF block[h] \in 1 .. Len(chain) - 1 THEN block[h] + 1 ELSE 0

\* One turn of the loop of ramfs_file_read.
ReadByte(h) ==
  LET b == IF AtBlockEnd(h) THEN NextBlock(h) ELSE block[h]
      p == IF AtBlockEnd(h) THEN 0 ELSE ptr[h]
  IN  /\ lock = h /\ call = "read"
      /\ left > 0 /\ offset[h] < size
      /\ b \in 1 .. Len(chain)
      /\ got' = [got EXCEPT ![h] = chain[b][p]]
      /\ block' = [block EXCEPT ![h] = b]
      /\ ptr' = [ptr EXCEPT ![h] = p + 1]
      /\ offset' = [offset EXCEPT ![h] = @ + 1]
      /\ left' = left - 1
      /\ UNCHANGED <<chain, size, mode, app, lock, call>>

\* The loop of ramfs_file_read is left: the buffer is full, the end of the
\* file is reached, or the chain ends before the file does.
ReadEnd(h) ==
  LET more == left > 0 /\ offset[h] < size
  IN  /\ lock = h /\ call = "read"
      /\ more => AtBlockEnd(h) /\ NextBlock(h) = 0
      /\ block' = [block EXCEPT ![h] = IF more THEN 0 ELSE @]
      /\ ptr' = [ptr EXCEPT ![h] = IF more THEN 0 ELSE @]
      /\ Leave
      /\ UNCHANGED <<file, mode, app, offset, got>>

\* The loop of ramfs_file_write needs add_block.
NeedsBlock(h) == AtBlockEnd(h) /\ NextBlock(h) = 0

\* Mutant: the last byte, written again, counts as a new one.
SizeAfterLast(h) == IF offset[h] + 1 >= size THEN size + 1 ELSE size

\* The size after a byte has been written at the offset of handle h.
SizeAfter(h) == IF offset[h] + 1 > size THEN size + 1 ELSE size

\* One turn of the loop of ramfs_file_write: byte v is written, to a new block
\* if need be.
WriteByte(h, v) ==
  LET c == IF NeedsBlock(h) THEN Append(chain, EmptyBlock) ELSE chain
      b == IF NeedsBlock(h) THEN Len(chain) + 1
           ELSE IF AtBlockEnd(h) THEN NextBlock(h) ELSE block[h]
      p == IF AtBlockEnd(h) THEN 0 ELSE ptr[h]
  IN  /\ lock = h /\ call = "write"
      /\ left > 0
      /\ Len(c) <= MaxBlocks
      /\ b \in 1 .. Len(c)
      /\ chain' = [c EXCEPT ![b] = [@ EXCEPT ![p] = v]]
      /\ size' = SizeAfter(h)
      /\ block' = [block EXCEPT ![h] = b]
      /\ ptr' = [ptr EXCEPT ![h] = p + 1]
      /\ offset' = [offset EXCEPT ![h] = @ + 1]
      /\ left' = left - 1
      /\ UNCHANGED <<mode, app, lock, call, got>>

\* add_block fails, for want of space or of memory: the bytes written before
\* stay, the caller gets the error.
WriteFails(h) ==
  /\ lock = h /\ call = "write"
  /\ left > 0
  /\ NeedsBlock(h)
  /\ block' = [block EXCEPT ![h] = 0]
  /\ ptr' = [ptr EXCEPT ![h] = 0]
  /\ Leave
  /\ UNCHANGED <<file, mode, app, offset, got>>

WriteEnd(h) ==
  /\ lock = h /\ call = "write"
  /\ left = 0
  /\ Leave
  /\ UNCHANGED <<file, mode, app, place, got>>

Next ==
  \E h \in Handle :
    \/ \E m \in Mode, trunc, toEnd \in BOOLEAN : Open(h, m, trunc, toEnd)
    \/ Close(h)
    \/ \E w \in {"set", "cur", "end"}, d \in -MaxOffset .. MaxOffset : Seek(h, w, d)
    \/ \E n \in 0 .. MaxOffset : Truncate(h, n) \/ TruncateFails(h, n)
    \/ \E n \in 1 .. MaxCount : StartRead(h, n) \/ StartWrite(h, n)
    \/ ReadByte(h) \/ ReadEnd(h)
    \/ WriteFails(h) \/ WriteEnd(h)
    \/ \E v \in Byte : WriteByte(h, v)

Spec == Init /\ [][Next]_vars

-----------------------------------------------------------------------------
(* Properties.                                                             *)

\* The file has the blocks its size calls for.  An empty file has none before
\* it is first written, and one after it has been truncated to nothing.
BlocksFitSize ==
  /\ TypeOK
  /\ IF size = 0 THEN Len(chain) <= 1
     ELSE Len(chain) = (size - 1) \div BlockSize + 1

\* The pointer of an open handle is at the byte its offset says: in the block
\* at that offset, at the end of the block before it, or nowhere when the
\* chain ends before the offset.  So no handle points to a freed block.
HandleSound ==
  \A h \in Handle :
    mode[h] # NULL =>
      \/ block[h] = 0 /\ offset[h] >= Len(chain) * BlockSize
      \/ /\ block[h] \in 1 .. Len(chain)
         /\ offset[h] = (block[h] - 1) * BlockSize + ptr[h]

\* Nobody writes but the only one that has the file open.
OneWriter ==
  \A g, h \in Handle :
    g # h /\ mode[g] # NULL /\ mode[h] # NULL => mode[g] = "rdonly"

\* The handle fs->lock is taken for is open the way its call needs, and a
\* call of write is at most at the end of the file, turn after turn; one that
\* appends is at the end.
CallSound ==
  /\ lock = NULL <=> call = "none"
  /\ call = "read" => Reads(lock)
  /\ call = "write" => Writes(lock) /\ offset[lock] <= size
  /\ call = "write" => (app[lock] => offset[lock] = size)

\* The inductive invariant behind the theorems.  With blocks of one byte an
\* emptied file keeps no block: division in C makes that case differ.
FileSound ==
  /\ BlocksFitSize
  /\ HandleSound
  /\ OneWriter
  /\ CallSound
  /\ size = 0 /\ BlockSize = 1 => chain = <<>>
  /\ \A h \in Handle : mode[h] = NULL => got[h] = NULL

\* The first n bytes of chain c.
Text(c, n) ==
  [i \in 1 .. n |-> c[(i - 1) \div BlockSize + 1][(i - 1) % BlockSize]]

Content == Text(chain, size)

Bytes == INSTANCE ByteFile WITH content <- Content, pos <- offset

\* Seen through its handles the file is a sequence of bytes: what is read is
\* what was last written there, over every boundary of blocks, after any seek,
\* truncation and failed write, and nothing else changes.  A handle opened to
\* append writes at the end of the file.
ImplementsFile == Bytes!Spec
=============================================================================
