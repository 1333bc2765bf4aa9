----------------------------- MODULE Namespace -----------------------------
(***************************************************************************)
(* What a file system promises to those that use paths: a tree of          *)
(* directories and files.  A path is a sequence of names.  The operators   *)
(* say how tree T may become tree U.                                       *)
(***************************************************************************)
EXTENDS Naturals, SequencesExt, Functions

CONSTANT Path

VARIABLE tree     \* what is at each path in use: its type and its data

NoTree == [p \in {} |-> 0]

IsDir(T, p) == p = <<>> \/ (p \in DOMAIN T /\ T[p].type = "dir")

IsEmpty(T, p) == \A q \in DOMAIN T : Front(q) # p

\* A directory or an empty file is made in a directory.
Make(T, U, p) ==
  /\ p \notin DOMAIN T
  /\ IsDir(T, Front(p))
  /\ DOMAIN U = DOMAIN T \cup {p}
  /\ Restrict(U, DOMAIN T) = T
  /\ U[p].data = {}

\* A file, or an empty directory, goes.
Delete(T, U, p) ==
  /\ IsEmpty(T, p)
  /\ U = Restrict(T, DOMAIN T \ {p})

\* The data of the file at p changes.
Write(T, U, p) ==
  /\ T[p].type = "file"
  /\ p \in DOMAIN U
  /\ U = [T EXCEPT ![p].data = U[p].data]

\* What is at p, and below it, moves to q, replacing what is there: a file, or
\* an empty directory.
Rename(T, U, p, q) ==
  LET Below(r) == SubSeq(r, Len(p) + 1, Len(r))
      old == {r \in DOMAIN T : IsPrefix(p, r)}
      new == {q \o Below(r) : r \in old}
      Source(r) == p \o SubSeq(r, Len(q) + 1, Len(r))
  IN  /\ ~IsPrefix(p, q)
      /\ IsDir(T, Front(q))
      /\ q \in DOMAIN T => IsEmpty(T, q) /\ T[q].type = T[p].type
      /\ U = [r \in (DOMAIN T \ old) \cup new |->
                IF r \in new THEN T[Source(r)] ELSE T[r]]

Init == tree = NoTree

\* The last case is that the file system is unmounted.
Next ==
  \E T \in {tree}, U \in {tree'} :
      \/ \E p \in Path : Make(T, U, p)
      \/ \E p \in DOMAIN T : Delete(T, U, p) \/ Write(T, U, p)
      \/ \E p \in DOMAIN T, q \in Path : Rename(T, U, p, q)
      \/ U = NoTree

Spec == Init /\ [][Next]_tree
=============================================================================
