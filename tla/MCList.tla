------------------------------ MODULE MCList ------------------------------
EXTENDS List, TLC

CONSTANTS x, y, z

Perms == Permutations(Item)
=============================================================================
