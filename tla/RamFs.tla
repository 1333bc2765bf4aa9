------------------------------- MODULE RamFs -------------------------------
(***************************************************************************)
(* The tree of the RAM file system (ramfs/ramfs.c): entries on the heap,   *)
(* linked to their siblings by next and to their first child by child,     *)
(* with reference counts that keep removed entries as long as they are     *)
(* open.  What is in the blocks of a file is the subject of RamFile.       *)
(*                                                                         *)
(* Every call runs under fs->lock and is one action, but for               *)
(* ramfs_umount, which is a loop, and ramfs_dir_read, which takes no lock. *)
(* A call that fails before it has changed anything is no action.  To open *)
(* a directory as a file is one only with O_TRUNC: without it the first    *)
(* child is taken for a file header.  A directory is an entry, or NULL for *)
(* the root.  Space is counted in units: one for an entry, one for a file  *)
(* header, one for a block.                                                *)
(*                                                                         *)
(* The code relies on its callers in the ways that Slips names:            *)
(*   "into"     a directory is renamed to a path below itself              *)
(*   "onfile"   a directory is renamed to the path of a file               *)
(*   "open"     a file is renamed while it is open                         *)
(*   "ahead"    what an open directory handle has yet to read is removed   *)
(*   "late"     a directory is read while the file system is unmounted     *)
(* With Slips = {} nobody does any of this.                                *)
(***************************************************************************)
EXTENDS Integers, FiniteSets, SequencesExt

CONSTANTS
  Entry,      \* the addresses of entries
  Block,      \* the addresses of blocks
  Name,       \* the names of files and directories
  FD, DD,     \* the handles of files and of directories
  Leak,       \* bound: the references that failed opens leave, one of each
  Size,       \* fs->size, in units
  MaxDepth,   \* bound: the components of a path
  Slips,      \* what the callers do that the code does not allow for
  NULL

Pointer == Entry \cup {NULL}

\* What an entry holds: its type, its name and the flag RAMFS_ENTRY_RM.
Info == [type : {"dir", "file"}, name : Name, rm : BOOLEAN]

\* A handle of a directory: the directory and the next entry to read.
Handle == [entry : Pointer, child : Pointer]

ASSUME RamFsAssumption ==
  /\ Size \in Nat
  /\ MaxDepth \in Nat
  /\ IsFiniteSet(Entry) /\ IsFiniteSet(Block) /\ IsFiniteSet(FD)
  /\ IsFiniteSet(DD) /\ IsFiniteSet(Leak)
  /\ NULL \notin Entry \cup Info \cup Handle \cup Seq(Pointer)
  /\ Slips \subseteq {"into", "onfile", "open", "ahead", "late"}

\* The count of references to an entry is a uint8_t.
ASSUME HandlesAssumption ==
  Cardinality(FD) + Cardinality(DD) + Cardinality(Leak) <= 255

\* The paths the layer above hands down: absolute and normalised.
Path == UNION {[1 .. n -> Name] : n \in 1 .. MaxDepth}

VARIABLES
  info,       \* of each entry: type, name and RM flag; NULL when it is free
  links,      \* next and child of each entry; child[NULL] is fs->child
  blocks,     \* the blocks on the chain of each file
  lost,       \* the headers and blocks that are counted and that nothing leads to
  used,       \* fs->current_size
  uses,       \* the reference counts
  leaked,     \* history: the entry to which a failed open left a reference
  fd,         \* the entry of each file handle, NULL when it is closed
  dd,         \* entry and child of each directory handle, NULL when closed
  stack       \* the stack of ramfs_umount, NULL when it is not running

vars == <<info, links, blocks, lost, used, uses, leaked, fd, dd, stack>>

Alloc == {e \in Entry : info[e] # NULL}
IsFile(e) == info[e].type = "file"

\* The types of the variables.
TypeOK ==
  /\ info \in [Entry -> Info \cup {NULL}]
  /\ links \in [next : [Pointer -> Pointer], child : [Pointer -> Pointer]]
  /\ blocks \in [Entry -> SUBSET Block]
  /\ lost \in 0 .. Size
  /\ used \in 0 .. Size
  /\ uses \in [Entry -> 0 .. Cardinality(FD) + Cardinality(DD) + Cardinality(Leak)]
  /\ leaked \in [Leak -> Pointer]
  /\ fd \in [FD -> Pointer]
  /\ dd \in [DD -> Handle \cup {NULL}]
  /\ stack = NULL \/ stack \in Seq(Pointer)

NoLinks == [next |-> [e \in Pointer |-> NULL], child |-> [e \in Pointer |-> NULL]]

\* ramfs_mount.
Init ==
  /\ info = [e \in Entry |-> NULL]
  /\ links = NoLinks
  /\ blocks = [e \in Entry |-> {}]
  /\ lost = 0
  /\ used = 0
  /\ uses = [e \in Entry |-> 0]
  /\ leaked = [l \in Leak |-> NULL]
  /\ fd = [f \in FD |-> NULL]
  /\ dd = [d \in DD |-> NULL]
  /\ stack = NULL

-----------------------------------------------------------------------------
(* Walking: the loops of traverse and add_entry.                           *)

\* S holds x, if it is an entry, and what comes next to what it holds.
Holds(L, x, S) == {x} \cup {L.next[e] : e \in S} \subseteq S \cup {NULL}

\* The entries that the walk from x meets: those that no such set leaves out.
ChainFrom(L, x) ==
  {e \in Entry : \A S \in SUBSET (Entry \ {e}) : ~Holds(L, x, S)}

Chain(d) == ChainFrom(links, links.child[d])

\* The first entry with name n in directory d, or NULL.
Find(d, n) ==
  LET hits == {e \in Chain(d) : info[e].name = n}
  IN  IF hits = {} THEN NULL
      ELSE CHOOSE e \in hits : hits \subseteq ChainFrom(links, e)

\* The entry before e in directory d, or NULL.
Prev(d, e) ==
  LET before == {x \in Chain(d) : links.next[x] = e}
  IN  IF before = {} THEN NULL ELSE CHOOSE x \in before : TRUE

\* A turn of the loop of traverse: component n is looked up in what r found;
\* none is what to report if it is not there.
Step(r, n, none) ==
  LET e == Find(r.entry, n)
  IN  IF r.ret # "ok" THEN r
      ELSE IF r.entry # NULL /\ IsFile(r.entry) THEN [r EXCEPT !.ret = "notdir"]
      ELSE IF e # NULL THEN [ret |-> "ok", entry |-> e, parent |-> r.entry]
      ELSE [ret |-> none, entry |-> NULL, parent |-> r.entry]

\* traverse: "ok", with the entry and its parent; "noent", with the parent,
\* when only the last component is missing; "nodir", when one before it is;
\* "notdir", when one before it is a file.
Traverse(p) ==
  LET turn[i \in 0 .. Len(p)] ==
        IF i = 0 THEN [ret |-> "ok", entry |-> NULL, parent |-> NULL]
        ELSE Step(turn[i - 1], p[i], IF i = Len(p) THEN "noent" ELSE "nodir")
  IN  turn[Len(p)]

\* Where traverse makes the entry it is asked to create for p: when there is no
\* entry at all it makes the first component, whatever follows.
MadeAt(p) == IF links.child[NULL] = NULL THEN <<Head(p)>> ELSE p

-----------------------------------------------------------------------------
(* add_entry, remove_entry and the references.                             *)

Cost(type) == IF type = "file" THEN 2 ELSE 1

\* Mutant: the new entry takes the place of the first child.
LinkedFirst(L, d, e) == [L EXCEPT !.child[d] = e]

\* The end of add_entry: e goes to the end of the chain of directory d.  (When
\* the root is empty d is the root.)
Linked(L, d, e) ==
  IF L.child[d] = NULL THEN [L EXCEPT !.child[d] = e]
  ELSE LET end == CHOOSE x \in ChainFrom(L, L.child[d]) : L.next[x] = NULL
       IN  [L EXCEPT !.next[end] = e]

\* The first part of remove_entry: e, after p in directory d, leaves the chain.
Unlinked(L, d, p, e) ==
  [child |-> IF L.child[d] = e THEN [L.child EXCEPT ![d] = L.next[e]] ELSE L.child,
   next |-> IF p # NULL THEN [L.next EXCEPT ![p] = L.next[e]] ELSE L.next]

\* What a freed entry holds is of no account, and an entry is made by calloc.
Wiped(L, e) == [L EXCEPT !.next[e] = NULL, !.child[e] = NULL]

BlocksOf(S) == UNION {blocks[e] : e \in S}

\* Mutant: the headers are not counted.
TakenNoHeader(S) == Cardinality(S) + Cardinality(BlocksOf(S))

\* The space the entries of S take, with the headers and blocks of the files.
Taken(S) ==
  Cardinality(S) + Cardinality({e \in S : IsFile(e)}) + Cardinality(BlocksOf(S))

\* traverse with creat: add_entry for the last component, if only that is missing.
AddEntry(e, p, type) ==
  LET q == MadeAt(p)
      t == Traverse(q)
  IN  /\ e \notin Alloc
      /\ t.ret = "noent"
      /\ used + Cost(type) <= Size
      /\ info' = [info EXCEPT ![e] = [type |-> type, name |-> Last(q), rm |-> FALSE]]
      /\ links' = Linked(links, t.parent, e)
      /\ used' = used + Cost(type)

\* Mutant: an entry that is open is freed.
DropOpen(L, e, whole, open) ==
  /\ info' = [info EXCEPT ![e] = NULL]
  /\ links' = Wiped(L, e)
  /\ blocks' = [blocks EXCEPT ![e] = {}]
  /\ used' = used - (IF whole THEN Taken({e}) ELSE 1)

\* The rest of remove_entry: an entry that is open is only marked; any other is
\* freed, a file with its header and its blocks if whole.
Drop(L, e, whole, open) ==
  IF open THEN /\ info' = [info EXCEPT ![e].rm = TRUE]
               /\ links' = L
               /\ UNCHANGED <<blocks, used>>
  ELSE /\ info' = [info EXCEPT ![e] = NULL]
       /\ links' = Wiped(L, e)
       /\ blocks' = [blocks EXCEPT ![e] = {}]
       /\ used' = used - (IF whole THEN Taken({e}) ELSE 1)

\* get_reference_uses: the entry is in use.
IsOpen(e) == uses[e] > 0

\* remove_entry for the entry at the end of traverse t.
RemoveEntry(t, whole) ==
  Drop(Unlinked(links, t.parent, Prev(t.parent, t.entry), t.entry), t.entry,
       whole, IsOpen(t.entry))

\* add_reference.
AddReference(e) == uses' = [uses EXCEPT ![e] = @ + 1]

\* remove_reference: the last one to close a removed entry frees it.
RemoveReference(e) ==
  IF e = NULL THEN UNCHANGED <<info, links, blocks, used, uses>>
  ELSE /\ uses' = [uses EXCEPT ![e] = @ - 1]
       /\ IF uses[e] = 1 /\ info[e].rm THEN Drop(links, e, IsFile(e), FALSE)
          ELSE UNCHANGED <<info, links, blocks, used>>

\* Discipline: nothing is removed that an open directory handle is to read.
MayRemove(e) ==
  \/ "ahead" \in Slips
  \/ \A d \in DD : dd[d] # NULL => e \notin ChainFrom(links, dd[d].child)

Idle == stack = NULL

-----------------------------------------------------------------------------
(* Directories.                                                            *)

\* ramfs_mkdir.
Mkdir(p) ==
  /\ Idle
  /\ \E e \in Entry : AddEntry(e, p, "dir")
  /\ UNCHANGED <<blocks, lost, uses, leaked, fd, dd, stack>>

\* ramfs_dir_open of a path, and of "/".
DirOpen(p, d) ==
  LET t == Traverse(p)
  IN  /\ Idle
      /\ dd[d] = NULL
      /\ t.ret = "ok" /\ ~IsFile(t.entry)
      /\ AddReference(t.entry)
      /\ dd' = [dd EXCEPT ![d] = [entry |-> t.entry, child |-> links.child[t.entry]]]
      /\ UNCHANGED <<info, links, blocks, lost, used, leaked, fd, stack>>

DirOpenRoot(d) ==
  /\ Idle
  /\ dd[d] = NULL
  /\ dd' = [dd EXCEPT ![d] = [entry |-> NULL, child |-> links.child[NULL]]]
  /\ UNCHANGED <<info, links, blocks, lost, used, uses, leaked, fd, stack>>

\* Discipline: no directory is read while the entries are freed.
MayRead == Idle \/ "late" \in Slips

\* ramfs_dir_read: the entry is copied and the handle goes on to its sibling.
DirRead(d) ==
  /\ MayRead
  /\ dd[d] # NULL
  /\ dd[d].child # NULL
  /\ dd' = [dd EXCEPT ![d].child = links.next[@]]
  /\ UNCHANGED <<info, links, blocks, lost, used, uses, leaked, fd, stack>>

\* ramfs_dir_close.
DirClose(d) ==
  /\ Idle
  /\ dd[d] # NULL
  /\ RemoveReference(dd[d].entry)
  /\ dd' = [dd EXCEPT ![d] = NULL]
  /\ UNCHANGED <<lost, leaked, fd, stack>>

\* ramfs_rmdir.
Rmdir(p) ==
  LET t == Traverse(p)
  IN  /\ Idle
      /\ t.ret = "ok" /\ ~IsFile(t.entry)
      /\ links.child[t.entry] = NULL
      /\ MayRemove(t.entry)
      /\ RemoveEntry(t, FALSE)
      /\ UNCHANGED <<lost, uses, leaked, fd, dd, stack>>

-----------------------------------------------------------------------------
(* Files.                                                                  *)

\* The blocks of file e become B.
SetBlocks(e, B) ==
  /\ used' = used + Cardinality(B) - Cardinality(blocks[e])
  /\ blocks' = [blocks EXCEPT ![e] = B]

\* ramfs_file_open of a file that is there; with O_TRUNC it keeps one block.
FileOpen(p, f) ==
  LET t == Traverse(p)
  IN  /\ Idle
      /\ fd[f] = NULL
      /\ t.ret = "ok" /\ IsFile(t.entry)
      /\ AddReference(t.entry)
      /\ fd' = [fd EXCEPT ![f] = t.entry]
      /\ \E B \in SUBSET blocks[t.entry] :
           /\ B = blocks[t.entry] \/ Cardinality(B) = 1
           /\ SetBlocks(t.entry, B)
      /\ UNCHANGED <<info, links, lost, leaked, dd, stack>>

\* ramfs_file_open of a directory to write, with O_TRUNC: the call fails, with
\* RAMFS_ERR_ISDIR, after add_reference, and the reference stays.
FileOpenFails(p, l) ==
  LET t == Traverse(p)
  IN  /\ Idle
      /\ leaked[l] = NULL
      /\ t.ret = "ok" /\ ~IsFile(t.entry)
      /\ AddReference(t.entry)
      /\ leaked' = [leaked EXCEPT ![l] = t.entry]
      /\ UNCHANGED <<info, links, blocks, lost, used, fd, dd, stack>>

\* ramfs_file_open with O_CREAT of a file that is not.
FileCreate(p, f) ==
  /\ Idle
  /\ fd[f] = NULL
  /\ \E e \in Entry : /\ AddEntry(e, p, "file")
                      /\ AddReference(e)
                      /\ fd' = [fd EXCEPT ![f] = e]
  /\ UNCHANGED <<blocks, lost, leaked, dd, stack>>

\* The same when add_reference gets no memory: the call fails, the file stays.
FileCreateFails(p) ==
  /\ Idle
  /\ \E e \in Entry : AddEntry(e, p, "file")
  /\ UNCHANGED <<blocks, lost, uses, leaked, fd, dd, stack>>

\* ramfs_file_write and ramfs_file_truncate to a larger size: blocks are added
\* one by one, and stay if there is no space for the rest.
FileGrow(f) ==
  /\ Idle
  /\ fd[f] # NULL
  /\ \E B \in (SUBSET (Block \ BlocksOf(Entry))) \ {{}} :
       /\ used + Cardinality(B) <= Size
       /\ SetBlocks(fd[f], blocks[fd[f]] \cup B)
  /\ UNCHANGED <<info, links, lost, uses, leaked, fd, dd, stack>>

\* ramfs_file_truncate to a smaller size: the first block stays.
FileShrink(f) ==
  /\ Idle
  /\ fd[f] # NULL
  /\ \E B \in (SUBSET blocks[fd[f]]) \ {{}, blocks[fd[f]]} : SetBlocks(fd[f], B)
  /\ UNCHANGED <<info, links, lost, uses, leaked, fd, dd, stack>>

\* ramfs_file_close.
FileClose(f) ==
  /\ Idle
  /\ fd[f] # NULL
  /\ RemoveReference(fd[f])
  /\ fd' = [fd EXCEPT ![f] = NULL]
  /\ UNCHANGED <<lost, leaked, dd, stack>>

\* ramfs_unlink.
Unlink(p) ==
  LET t == Traverse(p)
  IN  /\ Idle
      /\ t.ret = "ok" /\ IsFile(t.entry)
      /\ MayRemove(t.entry)
      /\ RemoveEntry(t, TRUE)
      /\ UNCHANGED <<lost, uses, leaked, fd, dd, stack>>

-----------------------------------------------------------------------------
(* ramfs_rename: the new entry takes over the children, or the blocks, of  *)
(* the old one, which is removed without them.  The header of the old file *)
(* is lost, and so are the blocks that the new one had.  There is no test  *)
(* for the two paths being the same, so that rename(p, p) removes p.       *)

\* Discipline, and the bound: the paths below the new one are no deeper than
\* MaxDepth.
MayRename(p, q, old) ==
  /\ p # q /\ IsPrefix(p, q) => "into" \in Slips
  /\ IsFile(old) /\ IsOpen(old) => "open" \in Slips
  /\ MayRemove(old)
  /\ \A r \in Path : IsPrefix(p, r) /\ Traverse(r).ret = "ok"
                       => Len(r) - Len(p) + Len(q) <= MaxDepth

\* The children of old become those of new.
MoveChildren(L, old, new) == [L EXCEPT !.child[new] = L.child[old]]

\* The end of ramfs_rename, where L is the tree with the new entry in it.
Replace(L, t, new, cost) ==
  LET old == t.entry
      M == IF IsFile(old) THEN L ELSE MoveChildren(L, old, new)
      U == Unlinked(M, t.parent, Prev(t.parent, old), old)
      stays == IsOpen(old)
      moved == [blocks EXCEPT ![new] = blocks[old]]
  IN  /\ links' = IF stays THEN U ELSE Wiped(U, old)
      /\ blocks' = IF stays THEN moved ELSE [moved EXCEPT ![old] = {}]
      /\ used' = used + cost - (IF stays THEN 0 ELSE 1)
      /\ lost' = lost + (IF IsFile(old) /\ ~stays THEN 1 ELSE 0)
                      + Cardinality(blocks[new])

\* The entry of old once it is removed.
OldInfo(old) == IF IsOpen(old) THEN [info[old] EXCEPT !.rm = TRUE] ELSE NULL

\* The new path is not in use.
RenameNew(p, q) ==
  LET t == Traverse(p)
      n == Traverse(q)
  IN  /\ Idle
      /\ t.ret = "ok" /\ n.ret = "noent"
      /\ MayRename(p, q, t.entry)
      /\ \E e \in Entry \ Alloc :
           LET type == info[t.entry].type
           IN  /\ used + Cost(type) <= Size
               /\ info' = [info EXCEPT
                             ![e] = [type |-> type, name |-> Last(q), rm |-> FALSE],
                             ![t.entry] = OldInfo(t.entry)]
               /\ Replace(Linked(links, n.parent, e), t, e, Cost(type))
      /\ UNCHANGED <<uses, leaked, fd, dd, stack>>

\* Mutant: a file may replace an empty directory.
ReplaceEmpty(old, new) == IsFile(new) \/ links.child[new] = NULL

\* What may be replaced: a file, or, by a directory, an empty directory.
CanReplace(old, new) ==
  IsFile(new) \/ (~IsFile(old) /\ links.child[new] = NULL)

\* It is.
RenameOnto(p, q) ==
  LET t == Traverse(p)
      n == Traverse(q)
  IN  /\ Idle
      /\ t.ret = "ok" /\ n.ret = "ok"
      /\ CanReplace(t.entry, n.entry)
      /\ IsFile(n.entry) /\ ~IsFile(t.entry) => "onfile" \in Slips
      /\ MayRename(p, q, t.entry)
      /\ info' = [info EXCEPT ![t.entry] = OldInfo(t.entry)]
      /\ Replace(links, t, n.entry, 0)
      /\ UNCHANGED <<uses, leaked, fd, dd, stack>>

-----------------------------------------------------------------------------
(* ramfs_umount.  A directory stays on the stack until none of what is in *)
(* it is pushed, so that ramfs_umount comes back to the entries of one that*)
(* held full directories after it has freed them.  What happens then is   *)
(* undefined, and the model stops.                                         *)

IsFull(e) == ~IsFile(e) /\ links.child[e] # NULL

UmountBegin ==
  /\ Idle
  /\ stack' = <<NULL>>
  /\ UNCHANGED <<info, links, blocks, lost, used, uses, leaked, fd, dd>>

\* Mutant: a directory that is done stays on the stack.
PopNever(d, base, pushed) == base \o pushed

\* The stack after a turn: the full directories of d are pushed; d is popped
\* when there are none.
AfterTurn(d, base, pushed) ==
  IF d # NULL /\ pushed = <<>> THEN Front(base) ELSE base \o pushed

\* The entries of F, which are on one chain, in the order of the chain.
InOrder(F) ==
  {q \in [1 .. Cardinality(F) -> F] :
     \A i, j \in DOMAIN q : i < j => q[j] \in ChainFrom(links, links.next[q[i]])}

\* The directory and what is in it are still allocated.
IsThere(d) == (d = NULL \/ d \in Alloc) /\ Chain(d) \subseteq Alloc

\* One turn of the outer loop: what is in the directory on top of the stack is
\* removed, but for full directories, and the directory itself when that is all;
\* an entry in use is only marked.  fs->child follows, which nothing reads
\* before it is cleared.
UmountTurn ==
  /\ ~Idle
  /\ stack # <<>>
  /\ IsThere(Last(stack))
  /\ LET d == Last(stack)
         full == {e \in Chain(d) : IsFull(e)}
         gone == (Chain(d) \ full) \cup (IF d # NULL /\ full = {} THEN {d} ELSE {})
         free == {e \in gone : uses[e] = 0}
     IN  /\ \E pushed \in InOrder(full) :
              stack' = AfterTurn(d, IF d = NULL THEN Front(stack) ELSE stack, pushed)
         /\ info' = [e \in Entry |-> IF e \in free THEN NULL
                                     ELSE IF e \in gone THEN [info[e] EXCEPT !.rm = TRUE]
                                     ELSE info[e]]
         /\ blocks' = [e \in Entry |-> IF e \in free THEN {} ELSE blocks[e]]
         /\ used' = used - Taken(free)
         /\ UNCHANGED <<links, lost, uses, leaked, fd, dd>>

\* The end of ramfs_umount, and the next ramfs_mount: fs is cleared, and
\* vfs_ramfs_mount makes a new list of files.  What was in use or lost stays on
\* the heap for good, and the addresses of the new file system are others.
\* (Open directory handles are not heard of again.)
UmountEnd ==
  /\ stack = <<>>
  /\ info' = [e \in Entry |-> NULL]
  /\ links' = NoLinks
  /\ blocks' = [e \in Entry |-> {}]
  /\ lost' = 0
  /\ used' = 0
  /\ uses' = [e \in Entry |-> 0]
  /\ leaked' = [l \in Leak |-> NULL]
  /\ fd' = [f \in FD |-> NULL]
  /\ dd' = [d \in DD |-> NULL]
  /\ stack' = NULL

-----------------------------------------------------------------------------
Next ==
  \/ \E p \in Path : Mkdir(p) \/ Rmdir(p) \/ Unlink(p) \/ FileCreateFails(p)
  \/ \E p \in Path, l \in Leak : FileOpenFails(p, l)
  \/ \E p \in Path, d \in DD : DirOpen(p, d)
  \/ \E d \in DD : DirOpenRoot(d) \/ DirRead(d) \/ DirClose(d)
  \/ \E p \in Path, f \in FD : FileOpen(p, f) \/ FileCreate(p, f)
  \/ \E f \in FD : FileGrow(f) \/ FileShrink(f) \/ FileClose(f)
  \/ \E p, q \in Path : RenameNew(p, q) \/ RenameOnto(p, q)
  \/ UmountBegin \/ UmountTurn \/ UmountEnd

Spec == Init /\ [][Next]_vars

-----------------------------------------------------------------------------
(* Properties.                                                             *)

Live == {e \in Alloc : ~info[e].rm}

\* Whatever is created, renamed and removed, the pointers of the root and of
\* the entries that are not removed make a tree: they lead to such entries only,
\* to each by exactly one way, and siblings have different names.
TreeSound ==
  Idle =>
    LET In(e) == Cardinality({x \in Live : links.next[x] = e})
                   + Cardinality({x \in Live \cup {NULL} : links.child[x] = e})
    IN  /\ \A e \in Entry : In(e) = (IF e \in Live THEN 1 ELSE 0)
        /\ \A e \in Live : \E p \in Path : Traverse(p).entry = e
        /\ \A d \in Live \cup {NULL} :
             \A x, y \in Chain(d) : info[x].name = info[y].name => x = y

\* The count of an entry is the number of its open handles and of the references
\* that failed opens have left; a removed entry is kept as long as there is one
\* of them and no longer; and what a handle leads to, the next entry to read
\* included, is allocated.
HandlesSound ==
  /\ TypeOK
  /\ \A e \in Entry : uses[e] = Cardinality({f \in FD : fd[f] = e})
                + Cardinality({d \in DD : dd[d] # NULL /\ dd[d].entry = e})
                + Cardinality({l \in Leak : leaked[l] = e})
  /\ \A e \in Alloc : info[e].rm => uses[e] > 0
  /\ \A f \in FD : fd[f] # NULL => fd[f] \in Alloc /\ IsFile(fd[f])
  /\ \A l \in Leak : leaked[l] # NULL => leaked[l] \in Alloc
  /\ \A d \in DD : dd[d] # NULL =>
       /\ dd[d].entry \in Alloc \cup {NULL}
       /\ MayRead => dd[d].child \in Alloc \cup {NULL}

\* current_size is what the file system has allocated since it was mounted and
\* not freed, with what renames have lost, and no block is on two chains.
SpaceCounted ==
  /\ used = lost + Cardinality(Alloc) + Cardinality({e \in Alloc : IsFile(e)})
              + Cardinality(BlocksOf(Entry))
  /\ \A e, g \in Entry : e # g => blocks[e] \cap blocks[g] = {}

\* A directory of the root holds a directory that is not empty.
Nested == \E e \in Chain(NULL) : \E c \in Chain(e) : links.child[c] # NULL

\* ramfs_umount follows no pointer to an entry it has freed, and at its end only
\* entries in use are left, if no directory of the root holds one that is not
\* empty; if one does, the loop has no end: it comes back to what it has freed.
UmountLive ==
  ~Idle =>
    IF Nested THEN stack # <<>>
    ELSE IF stack # <<>> THEN IsThere(Last(stack))
    ELSE \A e \in Alloc : IsOpen(e)

\* The ways down the tree, as sequences of entries.
Routes ==
  LET down[n \in 0 .. MaxDepth] ==
        IF n = 0 THEN {<<>>}
        ELSE UNION {{Append(w, e) : e \in
                       Chain(IF w = <<>> THEN NULL ELSE Last(w))} : w \in down[n - 1]}
  IN  UNION {down[n] : n \in 1 .. MaxDepth}

\* What is at each path; nothing, once ramfs_umount has begun.
Tree ==
  LET routes == IF Idle THEN Routes ELSE {}
      PathOf(w) == [i \in DOMAIN w |-> info[w[i]].name]
      At(p) == Last(CHOOSE w \in routes : PathOf(w) = p)
  IN  [p \in {PathOf(w) : w \in routes} |->
         [type |-> info[At(p)].type, data |-> blocks[At(p)]]]

NS == INSTANCE Namespace WITH tree <- Tree

\* What each call does to tree T, which becomes U.  (The conditions before the
\* calls follow from them; they are what the calls have in common.)
CallEffects ==
  Idle => \A T \in {Tree}, U \in {Tree'} :
    /\ info' # info /\ uses' = uses => \A p \in Path :
         /\ Mkdir(p) \/ FileCreateFails(p) => NS!Make(T, U, MadeAt(p))
         /\ Rmdir(p) \/ Unlink(p) => NS!Delete(T, U, p)
         /\ Traverse(p).ret = "ok" /\ info'[Traverse(p).entry] # info[Traverse(p).entry] => \A q \in Path :
              RenameNew(p, q) \/ RenameOnto(p, q) =>
                IF p = q THEN NS!Delete(T, U, p) ELSE NS!Rename(T, U, p, q)
    /\ \A f \in FD : fd'[f] # fd[f] => \A p \in Path :
         /\ FileCreate(p, f) => NS!Make(T, U, MadeAt(p))
         /\ FileOpen(p, f) => U = T \/ NS!Write(T, U, p)
         /\ FileClose(f) => U = T
    /\ \A f \in FD : FileGrow(f) \/ FileShrink(f) =>
         U = T \/ \E p \in Path : Traverse(p).entry = fd[f] /\ NS!Write(T, U, p)
    /\ dd' # dd \/ leaked' # leaked => U = T

\* Seen through its paths the file system is a tree of directories and files:
\* a call changes what is at the path it is given, or at the path of the file
\* its handle is open on, and leaves the rest alone, and a rename takes
\* everything below with it.  Two calls do something else than they say: what
\* is made when there is no entry at all is the first component of the path
\* only, and a rename of a path to itself removes what is there.
ImplementsNamespace == NS!Spec /\ [][CallEffects]_vars
=============================================================================
