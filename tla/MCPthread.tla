----------------------------- MODULE MCPthread -----------------------------
EXTENDS Pthread, TLC

CONSTANTS m, t1, t2, t3, a1, a2

PosixKinds == {JOINABLE, DETACHED} \X {RUN} \X {FALSE}

SuspendedKinds == {<<DETACHED, SUSPEND, TRUE>>, <<JOINABLE, SUSPEND, FALSE>>}

JoinableKinds == {<<JOINABLE, RUN, FALSE>>}

StartKinds == {<<DETACHED, SUSPEND, TRUE>>}

Perms == Permutations(Task \ {Main}) \cup Permutations(Addr)
=============================================================================
