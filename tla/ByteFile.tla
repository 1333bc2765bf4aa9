----------------------------- MODULE ByteFile -----------------------------
(***************************************************************************)
(* What an open file promises to those that hold a handle of it: it is a   *)
(* sequence of bytes, and each handle has a position of its own.           *)
(***************************************************************************)
EXTENDS Naturals, Sequences

CONSTANTS Byte, Handle, NULL

VARIABLES
  content,    \* the bytes of the file
  pos,        \* the position of each handle
  app,        \* whether a handle appends: it writes at the end, always
  got         \* the last byte each handle has read

vars == <<content, pos, app, got>>

Init ==
  /\ content = <<>>
  /\ pos = [h \in Handle |-> 0]
  /\ app = [h \in Handle |-> FALSE]
  /\ got = [h \in Handle |-> NULL]

\* Where a handle writes.
Place(h) == IF app[h] THEN Len(content) ELSE pos[h]

Put(h, b) ==
  /\ Place(h) <= Len(content)
  /\ content' = IF Place(h) = Len(content) THEN Append(content, b)
                ELSE [content EXCEPT ![Place(h) + 1] = b]
  /\ pos' = [pos EXCEPT ![h] = Place(h) + 1]
  /\ UNCHANGED <<app, got>>

Get(h) ==
  /\ pos[h] < Len(content)
  /\ got' = [got EXCEPT ![h] = content[pos[h] + 1]]
  /\ pos' = [pos EXCEPT ![h] = @ + 1]
  /\ UNCHANGED <<content, app>>

\* The file is cut down to n bytes.
Cut(n) == content' = SubSeq(content, 1, n)

\* The file is made longer; what the new bytes are is not promised.
Extend ==
  /\ Len(content') > Len(content)
  /\ SubSeq(content', 1, Len(content)) = content
  /\ \A i \in DOMAIN content' : content'[i] \in Byte

Truncate ==
  /\ Extend \/ \E n \in 0 .. Len(content) : Cut(n)
  /\ UNCHANGED <<pos, app, got>>

Move(h) ==
  /\ pos'[h] \in Nat
  /\ pos' = [pos EXCEPT ![h] = pos'[h]]
  /\ UNCHANGED <<content, app, got>>

\* A handle is opened or given up; opening may empty the file and sets the
\* position to its beginning, or to its end for a handle that appends.
Open(h) ==
  /\ Cut(0) \/ UNCHANGED content
  /\ \E a \in BOOLEAN :
       /\ app' = [app EXCEPT ![h] = a]
       /\ pos' = [pos EXCEPT ![h] = IF a THEN Len(content') ELSE 0]
  /\ got' = [got EXCEPT ![h] = NULL]

Next ==
  \/ \E h \in Handle : Get(h) \/ Move(h) \/ Open(h) \/ \E b \in Byte : Put(h, b)
  \/ Truncate

Spec == Init /\ [][Next]_vars
=============================================================================
