-------------------------- MODULE MCRotableCache --------------------------
EXTENDS RotableCache

CONSTANTS t1, t2, g, m, a, b

\* The table of globals, and a module without key b.
MCHolds == [x \in Table |-> IF x = g THEN {a, b} ELSE {a}]
=============================================================================
